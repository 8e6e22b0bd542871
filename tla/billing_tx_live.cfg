SPECIFICATION TxSpec
CONSTANTS
  User = {u1}
  OrderId = {o1}
  NoOrder = NoOrder
  OpeningCents = 2
  Opening <- MCOpening
  Key = {k1}
  NoKey = NoKey
  Worker = {w1, w2}
  Price = {2}
  Quantity = {1}
  Refundable = {2}
  PaidBy = {"balance"}
CHECK_DEADLOCK FALSE
PROPERTIES
  RequestsEnd
