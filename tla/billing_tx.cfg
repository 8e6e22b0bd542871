INIT TxInit
NEXT TxNext
CONSTANTS
  User = {u1}
  OrderId = {o1, o2}
  NoOrder = NoOrder
  OpeningCents = 0
  Opening <- MCOpening
  Key = {k1}
  NoKey = NoKey
  Worker = {w1, w2}
  Price = {2}
  Quantity = {1}
  Refundable = {2}
  PaidBy = {"balance"}
SYMMETRY Symmetry
CHECK_DEADLOCK FALSE
INVARIANTS
  TxTypeOK
  NoWaitCycle
  KeyNamesOneOrder
  PrepaidChargedOnce
PROPERTIES
  Spec
