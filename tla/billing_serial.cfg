SPECIFICATION Spec
CONSTANTS
  User = {u1}
  OrderId = {o1, o2}
  NoOrder = NoOrder
  OpeningCents = 4
  Opening <- MCOpening
  Key = {k1}
  NoKey = NoKey
  Worker = {w1}
  Price = {0, 2}
  Quantity = {0, 1}
  Refundable = {1, 2}
  PaidBy = {"", "manual", "balance"}
INVARIANTS
  ChargedAtMostOnce
PROPERTIES
  NoPaymentDowngrade
  CancelOnlyUnsettled
