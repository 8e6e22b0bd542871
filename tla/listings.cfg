SPECIFICATION Spec
CONSTANTS
  DefaultSize = 1
  MaxSize = 2
  Ask <- MCAsk
  Key <- MCKey
  MaxRows = 4
  MaxRefunds = 1
CHECK_DEADLOCK FALSE
INVARIANTS
  NothingMissed
  NothingTwice
  ShownTogether
