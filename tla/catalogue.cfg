SPECIFICATION Spec
CONSTANTS
  Template = {t1, t2}
  Client = {c1, c2}
  Content = {x, y}
  Admin = {a1, a2}
  Keep = Keep
  Edit <- MCEdit
  MaxVersion = 2
  Subscription = {s1}
SYMMETRY MCSymmetry
INVARIANTS
  HistoryMatches
  ServedAllowed
PROPERTIES
  PublishesDraft
  OnlyAsked
  SoleDefault
