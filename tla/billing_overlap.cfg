SPECIFICATION Spec
CONSTANTS
  User = {u1}
  OrderId = {o1}
  NoOrder = NoOrder
  OpeningCents = 4
  Opening <- MCOpening
  Key = {k1}
  NoKey = NoKey
  Worker = {w1, w2, w3}
  Price = {0, 2}
  Quantity = {1}
  Refundable = {1, 2}
  PaidBy = {"manual", "balance"}
SYMMETRY Symmetry
INVARIANTS
  TypeOK
  ChargesBacked
  RefundsReconcile
  PrepaidStatus
  RefundStatusTruthful
  PaymentAgreement
PROPERTIES
  HistoryKept
  WalletSpec
