---------------------------- MODULE BillingProofs ----------------------------
(***************************************************************************)
(* Theorems about the order handlers, for every number of users, orders,   *)
(* keys and overlapping requests, and every price and quantity; first of   *)
(* the wallets they change, and of any wallet that changes by              *)
(* ApplyTransaction alone.                                                 *)
(***************************************************************************)
EXTENDS Billing, FiniteSetTheorems, WellFoundedInduction, TLAPS

-----------------------------------------------------------------------------
(* The wallets. *)
WalletInv == WalletTypeOK /\ LedgerChain

(* Appending a movement that carries the balance it leaves keeps the chain *)
(* of one ledger unbroken.                                                 *)
LEMMA AppendKeepsChain ==
  ASSUME NEW s \in Seq(Entry), NEW m \in Entry,
         Chained(s), m.after = BalanceAfter(s, Len(s)) + m.amount
  PROVE  /\ Chained(Append(s, m))
         /\ BalanceAfter(Append(s, m), Len(Append(s, m))) = m.after
<1> DEFINE t == Append(s, m)
<1>1. /\ Len(t) = Len(s) + 1
      /\ Len(s) \in Nat
      /\ t[Len(s) + 1] = m
      /\ \A i \in 1 .. Len(s) : t[i] = s[i]
  OBVIOUS
<1> HIDE DEF t
<1>2. \A n \in 0 .. Len(s) : BalanceAfter(t, n) = BalanceAfter(s, n)
  BY <1>1 DEF BalanceAfter
<1>3. ASSUME NEW i \in 1 .. Len(t)
      PROVE  t[i].after = BalanceAfter(t, i - 1) + t[i].amount
  <2>1. CASE i = Len(s) + 1
    BY <2>1, <1>1, <1>2
  <2>2. CASE i # Len(s) + 1
    <3>1. i \in 1 .. Len(s) /\ i - 1 \in 0 .. Len(s)
      BY <2>2, <1>1
    <3> QED  BY <3>1, <1>1, <1>2 DEF Chained
  <2> QED  BY <2>1, <2>2
<1>4. BalanceAfter(t, Len(t)) = m.after
  BY <1>1 DEF BalanceAfter
<1> QED  BY <1>3, <1>4 DEF Chained, t

(* A ledger of one movement is chained if it leaves just what it moved. *)
LEMMA FirstMovementChained ==
  ASSUME NEW t \in Seq(Entry), Len(t) = 1, t[1].after = t[1].amount
  PROVE  Chained(t) /\ BalanceAfter(t, Len(t)) = t[1].after
<1>1. t[1] \in Entry
  OBVIOUS
<1>2. SUFFICES ASSUME NEW i \in 1 .. Len(t)
               PROVE  t[i].after = BalanceAfter(t, i - 1) + t[i].amount
  BY DEF Chained, BalanceAfter
<1>3. i = 1 /\ i - 1 = 0
  OBVIOUS
<1> QED  BY <1>1, <1>3 DEF BalanceAfter, Entry

(* Seeding explains the opening balance it writes. *)
LEMMA SeedingInv == WalletInit => WalletInv
<1> SUFFICES ASSUME WalletInit PROVE WalletInv
  OBVIOUS
<1> USE WalletAssumption DEF WalletInit
<1>1. ASSUME NEW u \in User
      PROVE  /\ SeededLedger(u) \in Seq(Entry)
             /\ Chained(SeededLedger(u))
             /\ Opening[u] \in Nat
             /\ Opening[u] = BalanceAfter(SeededLedger(u), Len(SeededLedger(u)))
  <2> DEFINE m == [type |-> "recharge", amount |-> Opening[u],
                   after |-> Opening[u], order |-> NoOrder]
  <2>1. CASE Opening[u] = 0
    <3>1. SeededLedger(u) = << >>
      BY <2>1 DEF SeededLedger
    <3> QED  BY <2>1, <3>1 DEF BalanceAfter, Chained
  <2>2. CASE Opening[u] # 0
    <3>1. SeededLedger(u) = << m >>
      BY <2>2 DEF SeededLedger
    <3>2. Opening[u] \in Nat /\ m \in Entry /\ m.after = m.amount /\ m.after = Opening[u]
      BY DEF Entry
    <3> HIDE DEF m
    <3>3. << m >> \in Seq(Entry) /\ Len(<< m >>) = 1 /\ << m >>[1] = m
      BY <3>2
    <3> DEFINE t == << m >>
    <3> HIDE DEF t
    <3>4. Chained(t) /\ BalanceAfter(t, Len(t)) = m.after
      BY <3>2, <3>3, FirstMovementChained DEF t
    <3> QED  BY <3>1, <3>2, <3>3, <3>4 DEF t
  <2> QED  BY <2>1, <2>2
<1>2. WalletTypeOK
  BY <1>1 DEF WalletTypeOK
<1>3. LedgerChain
  BY <1>1 DEF LedgerChain
<1> QED  BY <1>2, <1>3 DEF WalletInv

(* A movement keeps the types and the chain of every wallet. *)
LEMMA ApplyTransactionInv ==
  ASSUME WalletInv, NEW u \in User, NEW type \in {"recharge", "purchase", "refund"},
         NEW amount \in Int, NEW o \in OrderId, ApplyTransaction(u, type, amount, o)
  PROVE  WalletInv'
<1> DEFINE m == [type |-> type, amount |-> amount,
                 after |-> balance[u] + amount, order |-> o]
<1>1. /\ balance[u] + amount \in Nat
      /\ m \in Entry
      /\ balance' = [balance EXCEPT ![u] = balance[u] + amount]
      /\ ledger' = [ledger EXCEPT ![u] = Append(ledger[u], m)]
  BY DEF ApplyTransaction, WalletInv, WalletTypeOK, Entry
<1>2. balance \in [User -> Nat] /\ ledger \in [User -> Seq(Entry)]
  BY DEF WalletInv, WalletTypeOK
<1>3. m.after = BalanceAfter(ledger[u], Len(ledger[u])) + m.amount
  BY DEF WalletInv, LedgerChain
<1>4. m.after = balance[u] + amount
  OBVIOUS
<1> HIDE DEF m
<1>5. WalletTypeOK'
  BY <1>1, <1>2 DEF WalletTypeOK
<1>6. ASSUME NEW v \in User
      PROVE  /\ Chained(ledger'[v])
             /\ balance'[v] = BalanceAfter(ledger'[v], Len(ledger'[v]))
  <2>1. CASE v = u
    <3>1. balance'[v] = m.after /\ ledger'[v] = Append(ledger[u], m)
      BY <1>1, <1>2, <1>4, <2>1
    <3>2. Chained(ledger[u])
      BY DEF WalletInv, LedgerChain
    <3> QED  BY <1>1, <1>2, <1>3, <3>1, <3>2, AppendKeepsChain
  <2>2. CASE v # u
    BY <2>2, <1>1, <1>2 DEF WalletInv, LedgerChain
  <2> QED  BY <2>1, <2>2
<1>7. LedgerChain'
  BY <1>6 DEF LedgerChain
<1> QED  BY <1>5, <1>7 DEF WalletInv

(* So does any step of the specification. *)
LEMMA WalletStepInv == WalletInv /\ [WalletNext]_walletVars => WalletInv'
<1> SUFFICES ASSUME WalletInv, [WalletNext]_walletVars PROVE WalletInv'
  OBVIOUS
<1>1. ASSUME NEW u \in User, NEW o \in OrderId, NEW type \in {"purchase", "refund"},
             NEW amount, amount = balance'[u] - balance[u],
             ApplyTransaction(u, type, amount, o)
      PROVE  WalletInv'
  <2>1. balance[u] \in Nat /\ balance'[u] = balance[u] + amount
    BY <1>1 DEF WalletInv, WalletTypeOK, ApplyTransaction
  <2> QED  BY <1>1, <2>1, ApplyTransactionInv
<1>2. CASE UNCHANGED walletVars
  BY <1>2 DEF walletVars, WalletInv, WalletTypeOK, LedgerChain
<1> QED  BY <1>1, <1>2 DEF WalletNext, RecordRefund

(* Every wallet the specification allows has a chained, never overdrawn    *)
(* ledger (ApplyTransaction of balance_repository.go).                     *)
THEOREM WalletSafe == WalletSpec => []WalletInv
BY SeedingInv, WalletStepInv, PTL DEF WalletSpec

-----------------------------------------------------------------------------
(* The tasks and the rows they write. *)

LEMMA TotalIsNat == Total \subseteq Nat
<1> SUFFICES ASSUME NEW p \in Price, NEW q \in Quantity
             PROVE  p * ClampQuantity(q) \in Nat
  BY DEF Total
<1>0. p \in Nat /\ q \in Int
  BY BillingAssumption
<1>1. ClampQuantity(q) \in 1 .. 10
  BY <1>0 DEF ClampQuantity
<1>2. \A c \in 1 .. 10 : p * c \in Nat
  BY <1>0
<1> DEFINE c == ClampQuantity(q)
<1> HIDE DEF c
<1>3. c \in 1 .. 10 /\ ClampQuantity(q) = c
  BY <1>1 DEF c
<1> QED  BY <1>2, <1>3

(* What a task carries, by the operation it is about to commit. *)
LEMMA TaskFields ==
  ASSUME NEW t \in Task
  PROVE  /\ t.op = "create" =>
              /\ t.user \in User /\ t.key \in Key \cup {NoKey}
              /\ t.method \in {"balance", "external"} /\ t.total \in Nat
         /\ t.op = "markPaid" =>
              /\ t.order \in OrderId /\ t.charge \in BOOLEAN
              /\ t.method \in PaymentMethod \cup {""}
         /\ t.op = "refund" => t.order \in OrderId /\ t.amount \in Int
         /\ t.op = "callback" =>
              t.order \in OrderId /\ t.status \in {"succeeded", "failed"}
         /\ t.op \in {"userCancel", "adminCancel"} => t.order \in OrderId
<1>1. Idle.op = "idle"
  BY DEF Idle
<1>2. \A x \in CreateTask :
        /\ x.op = "create" /\ x.user \in User /\ x.key \in Key \cup {NoKey}
        /\ x.method \in {"balance", "external"} /\ x.total \in Nat
  BY TotalIsNat DEF CreateTask
<1>3. \A x \in MarkPaidTask :
        /\ x.op = "markPaid" /\ x.order \in OrderId /\ x.charge \in BOOLEAN
        /\ x.method \in PaymentMethod \cup {""}
  BY DEF MarkPaidTask
<1>4. \A x \in RefundTask :
        x.op = "refund" /\ x.order \in OrderId /\ x.amount \in Int
  BY BillingAssumption DEF RefundTask
<1>5. \A x \in CallbackTask :
        x.op = "callback" /\ x.order \in OrderId /\ x.status \in {"succeeded", "failed"}
  BY DEF CallbackTask
<1>6. \A x \in CancelTask :
        x.op \in {"userCancel", "adminCancel"} /\ x.order \in OrderId
  BY DEF CancelTask
<1> QED  BY <1>1, <1>2, <1>3, <1>4, <1>5, <1>6 DEF Task

(* The row operators keep rows well typed. *)
LEMMA RowTypes ==
  ASSUME NEW row \in OrderRow
  PROVE  /\ Cancelled(row) \in OrderRow
         /\ \A s \in {"succeeded", "failed"} : PaymentState(row, s) \in OrderRow
         /\ \A m \in PaymentMethod \cup {""} : WithMethod(row, m) \in OrderRow
         /\ \A a \in Int : RefundFits(row, a) => AddRefund(row, a) \in OrderRow
<1> USE DEF OrderRow, OrderStatus, PaymentStatus, PaymentMethod
<1>1. Cancelled(row) \in OrderRow
  BY DEF Cancelled
<1>2. ASSUME NEW s \in {"succeeded", "failed"} PROVE PaymentState(row, s) \in OrderRow
  BY DEF PaymentState
<1>3. ASSUME NEW m \in PaymentMethod \cup {""} PROVE WithMethod(row, m) \in OrderRow
  BY DEF WithMethod
<1>4. ASSUME NEW a \in Int, RefundFits(row, a) PROVE AddRefund(row, a) \in OrderRow
  <2> DEFINE sum == row.refunded + a
  <2>1. sum \in Nat /\ AddRefund(row, a)
          = [row EXCEPT !.refunded = sum,
                        !.status = IF sum < row.total THEN "partially_refunded"
                                                      ELSE "refunded"]
    BY <1>4 DEF AddRefund, RefundFits
  <2> HIDE DEF sum
  <2> QED  BY <2>1
<1> QED  BY <1>1, <1>2, <1>3, <1>4

LEMMA NewOrderType ==
  ASSUME NEW u \in User, NEW k \in Key \cup {NoKey},
         NEW m \in {"balance", "external"}, NEW total \in Nat
  PROVE  NewOrder(u, k, m, total) \in OrderRow
BY DEF NewOrder, OrderRow, OrderStatus, PaymentStatus, PaymentMethod

-----------------------------------------------------------------------------
(* Steps that leave the tables and the wallets alone. *)
LEMMA AcceptTypes ==
  ASSUME TypeOK, NEW w \in Worker, NEW t \in Task, Accept(w, t)
  PROVE  TypeOK'
BY DEF TypeOK, WalletTypeOK, Accept, walletVars, orderVars

LEMMA FinishTypes ==
  ASSUME TypeOK, NEW w \in Worker, Finish(w)
  PROVE  task' \in [Worker -> Task]
BY DEF TypeOK, Finish, Task

(* A new row keeps a table a function into the same set. *)
LEMMA PutTypes ==
  ASSUME NEW f, NEW S, f \in [DOMAIN f -> S], NEW o, NEW v \in S
  PROVE  /\ DOMAIN Put(f, o, v) = DOMAIN f \cup {o}
         /\ Put(f, o, v) \in [DOMAIN Put(f, o, v) -> S]
         /\ Put(f, o, v)[o] = v
         /\ \A x \in DOMAIN f : x # o => Put(f, o, v)[x] = f[x]
BY DEF Put

LEMMA MovementTypes ==
  ASSUME WalletInv, NEW u \in User, NEW type \in {"purchase", "refund"},
         NEW amount \in Int, NEW o \in OrderId,
         ApplyTransaction(u, type, amount, o) \/ UNCHANGED walletVars
  PROVE  WalletTypeOK'
<1>1. CASE ApplyTransaction(u, type, amount, o)
  BY <1>1, ApplyTransactionInv DEF WalletInv
<1>2. CASE UNCHANGED walletVars
  BY <1>2 DEF walletVars, WalletInv, WalletTypeOK
<1> QED  BY <1>1, <1>2

(* Reads only add a well-typed task; a commit writes well-typed rows.      *)
LEMMA TypesStep == WalletInv /\ TypeOK /\ SnapshotsStand /\ [Next]_vars => TypeOK'
<1> SUFFICES ASSUME WalletInv, TypeOK, SnapshotsStand, [Next]_vars PROVE TypeOK'
  OBVIOUS
<1>1. CASE UNCHANGED vars
  BY <1>1 DEF vars, TypeOK, WalletTypeOK
<1>2. ASSUME NEW w \in Worker, WorkerStep(w) PROVE TypeOK'
  <2> DEFINE t == task[w]
  <2>0. t \in Task
    BY DEF TypeOK
  <2>1. CASE CreateRead(w)
    <3>1. PICK u \in User, k \in Key \cup {NoKey}, m \in {"balance", "external"}, total \in Total :
            Accept(w, [op |-> "create", user |-> u, key |-> k, method |-> m, total |-> total])
      BY <2>1 DEF CreateRead
    <3>2. [op |-> "create", user |-> u, key |-> k, method |-> m, total |-> total] \in Task
      BY DEF Task, CreateTask
    <3> QED  BY <3>1, <3>2, AcceptTypes
  <2>2. CASE CreateCommit(w)
    <3>1. /\ t.user \in User /\ t.key \in Key \cup {NoKey}
          /\ t.method \in {"balance", "external"} /\ t.total \in Nat
      BY <2>0, <2>2, TaskFields DEF CreateCommit
    <3>2. PICK o \in OrderId \ DOMAIN orders :
            /\ \/ t.total > 0 /\ ApplyTransaction(t.user, "purchase", -t.total, o)
               \/ UNCHANGED walletVars
            /\ orders' = Put(orders, o, NewOrder(t.user, t.key, t.method, t.total))
            /\ (payments' = payments \/ payments' = Put(payments, o, "pending"))
      BY <2>2 DEF CreateCommit
    <3>3. WalletTypeOK'
      BY <3>1, <3>2, MovementTypes
    <3> DEFINE row == NewOrder(t.user, t.key, t.method, t.total)
               status == "pending"
    <3>4. /\ row \in OrderRow /\ orders \in [DOMAIN orders -> OrderRow]
          /\ payments \in [DOMAIN payments -> PaymentStatus] /\ status \in PaymentStatus
          /\ orders' = Put(orders, o, row)
          /\ payments' = payments \/ payments' = Put(payments, o, status)
      BY <3>1, <3>2, NewOrderType DEF TypeOK, PaymentStatus
    <3> HIDE DEF row, status, t
    <3>5. /\ DOMAIN orders' = DOMAIN orders \cup {o} /\ orders' \in [DOMAIN orders' -> OrderRow]
      BY <3>4, PutTypes
    <3>6. /\ payments' \in [DOMAIN payments' -> PaymentStatus]
          /\ DOMAIN payments' \subseteq DOMAIN payments \cup {o}
      <4>1. CASE payments' = payments
        BY <4>1, <3>4
      <4>2. CASE payments' = Put(payments, o, status)
        <5>1. /\ DOMAIN payments' = DOMAIN payments \cup {o}
              /\ payments' \in [DOMAIN payments' -> PaymentStatus]
          BY <4>2, <3>4, PutTypes
        <5> QED  BY <5>1
      <4> QED  BY <3>4, <4>1, <4>2
    <3>8. refunds' = refunds /\ Finish(w)
      BY <2>2 DEF CreateCommit
    <3> QED  BY <3>3, <3>4, <3>5, <3>6, <3>8, FinishTypes DEF TypeOK
  <2>3. CASE MarkPaidRead(w)
    <3>1. PICK o \in DOMAIN orders, charge \in BOOLEAN, m \in PaidBy :
            Accept(w, [op |-> "markPaid", order |-> o, charge |-> charge,
                       method |-> IF charge THEN "balance" ELSE m])
      BY <2>3 DEF MarkPaidRead
    <3>2. [op |-> "markPaid", order |-> o, charge |-> charge,
           method |-> IF charge THEN "balance" ELSE m] \in MarkPaidTask
      BY BillingAssumption DEF MarkPaidTask, PaymentMethod, TypeOK
    <3> QED  BY <3>1, <3>2, AcceptTypes DEF Task
  <2>4. CASE MarkPaidCommit(w)
    <3> DEFINE o == t.order
    <3>1. o \in OrderId /\ t.method \in PaymentMethod \cup {""}
      BY <2>0, <2>4, TaskFields DEF MarkPaidCommit
    <3>2. /\ \/ ApplyTransaction(orders[o].user, "purchase", -orders[o].total, o)
             \/ UNCHANGED walletVars
          /\ orders' = [orders EXCEPT ![o] = WithMethod(PaymentState(orders[o], "succeeded"), t.method)]
          /\ UNCHANGED <<payments, refunds>> /\ Finish(w)
      BY <2>4 DEF MarkPaidCommit
    <3>3. orders[o] \in OrderRow /\ o \in DOMAIN orders
      BY <2>4 DEF TypeOK, SnapshotsStand, MarkPaidCommit
    <3>4. orders[o].user \in User /\ - orders[o].total \in Int
      BY <3>3 DEF OrderRow
    <3>5. WalletTypeOK'
      BY <3>1, <3>2, <3>4, MovementTypes
    <3>6. orders' \in [DOMAIN orders -> OrderRow]
      BY <3>1, <3>2, <3>3, RowTypes DEF TypeOK
    <3> QED  BY <3>2, <3>5, <3>6, FinishTypes DEF TypeOK
  <2>5. CASE RefundRead(w)
    <3>1. PICK o \in DOMAIN orders, a \in Refundable :
            Accept(w, [op |-> "refund", order |-> o, amount |-> a])
      BY <2>5 DEF RefundRead
    <3>2. [op |-> "refund", order |-> o, amount |-> a] \in RefundTask
      BY DEF RefundTask, TypeOK
    <3> QED  BY <3>1, <3>2, AcceptTypes DEF Task
  <2>6. CASE RefundCommit(w)
    <3> DEFINE o == t.order
    <3>1. o \in OrderId /\ t.amount \in Int /\ o \in DOMAIN orders
      BY <2>0, <2>6, TaskFields DEF RefundCommit, SnapshotsStand
    <3>2. /\ t.amount > 0 /\ ApplyTransaction(orders[o].user, "refund", t.amount, o)
          /\ refunds' = [refunds EXCEPT ![o] = Append(refunds[o], t.amount)]
          /\ RefundFits(orders[o], t.amount)
          /\ orders' = [orders EXCEPT ![o] = AddRefund(orders[o], t.amount)]
          /\ payments' = payments /\ Finish(w)
      BY <2>6 DEF RefundCommit, RecordRefund
    <3>3. orders[o] \in OrderRow
      BY <3>1 DEF TypeOK
    <3>4. orders[o].user \in User
      BY <3>3 DEF OrderRow
    <3>5. WalletTypeOK'
      BY <3>1, <3>2, <3>4, MovementTypes
    <3>6. orders' \in [DOMAIN orders -> OrderRow]
      BY <3>1, <3>2, <3>3, RowTypes DEF TypeOK
    <3>7. refunds' \in [OrderId -> Seq(Nat)]
      BY <3>1, <3>2 DEF TypeOK
    <3> QED  BY <3>2, <3>5, <3>6, <3>7, FinishTypes DEF TypeOK
  <2>7. CASE CallbackRead(w)
    <3>1. PICK o \in DOMAIN payments, s \in {"succeeded", "failed"} :
            Accept(w, [op |-> "callback", order |-> o, status |-> s])
      BY <2>7 DEF CallbackRead
    <3>2. [op |-> "callback", order |-> o, status |-> s] \in CallbackTask
      BY DEF CallbackTask, TypeOK
    <3> QED  BY <3>1, <3>2, AcceptTypes DEF Task
  <2>8. CASE CallbackCommit(w)
    <3>1. t.order \in OrderId /\ t.status \in {"succeeded", "failed"}
      BY <2>0, <2>8, TaskFields DEF CallbackCommit
    <3>2. /\ payments' = [payments EXCEPT ![t.order] = t.status]
          /\ orders' = [orders EXCEPT ![t.order] = PaymentState(orders[t.order], t.status)]
          /\ UNCHANGED <<walletVars, refunds>> /\ Finish(w)
      BY <2>8 DEF CallbackCommit
    <3>3. orders' \in [DOMAIN orders -> OrderRow]
      BY <3>1, <3>2, RowTypes DEF TypeOK
    <3> QED  BY <3>1, <3>2, <3>3, FinishTypes DEF TypeOK, WalletTypeOK, walletVars, PaymentStatus
  <2>9. CASE UserCancelRead(w) \/ AdminCancelRead(w)
    <3>1. PICK o \in DOMAIN orders, op \in {"userCancel", "adminCancel"} :
            Accept(w, [op |-> op, order |-> o])
      BY <2>9 DEF UserCancelRead, AdminCancelRead
    <3>2. [op |-> op, order |-> o] \in CancelTask
      BY DEF CancelTask, TypeOK
    <3> QED  BY <3>1, <3>2, AcceptTypes DEF Task
  <2>10. CASE CancelCommit(w)
    <3>1. /\ orders' = [orders EXCEPT ![t.order] = Cancelled(orders[t.order])]
          /\ UNCHANGED <<walletVars, payments, refunds>> /\ Finish(w)
      BY <2>10 DEF CancelCommit
    <3>2. orders' \in [DOMAIN orders -> OrderRow]
      BY <3>1, RowTypes DEF TypeOK
    <3> QED  BY <3>1, <3>2, FinishTypes DEF TypeOK, WalletTypeOK, walletVars
  <2>11. CASE Abort(w)
    BY <2>11, FinishTypes DEF Abort, TypeOK, WalletTypeOK, walletVars, orderVars
  <2> QED  BY <1>2, <2>1, <2>2, <2>3, <2>4, <2>5, <2>6, <2>7, <2>8, <2>9, <2>10, <2>11
           DEF WorkerStep
<1> QED  BY <1>1, <1>2 DEF Next

-----------------------------------------------------------------------------
(* What the invariants say of one row r, whether it has a payment, and the *)
(* status p of that payment.                                               *)
RowGood(r, hasPayment, p) ==
  /\ r.refunded <= r.total
  /\ r.status = "pending_payment" => hasPayment /\ ~ r.paidAt
  /\ r.total = 0 => ~ hasPayment /\ r.status \in {"paid", "cancelled"}
  /\ r.total > 0 /\ ~ hasPayment =>
       /\ r.status = IF r.refunded = 0 THEN "paid"
                     ELSE IF r.refunded < r.total THEN "partially_refunded"
                                                  ELSE "refunded"
       /\ r.payment = "succeeded"
  /\ r.status = "refunded" => r.refunded = r.total
  /\ r.status = "partially_refunded" => 0 < r.refunded /\ r.refunded < r.total
  /\ \/ r.status \in {"paid", "partially_refunded", "refunded"}
     \/ r.method = "balance"
     => r.paidAt
  /\ hasPayment => /\ p = "succeeded" => r.payment = "succeeded"
                   /\ r.payment = "failed" => p = "failed"

OrderGood(o) == RowGood(orders[o], o \in DOMAIN payments, payments[o])

LEMMA OrdersGood ==
  ASSUME TypeOK
  PROVE  (\A o \in DOMAIN orders : OrderGood(o))
           <=> /\ RowsConsistent /\ PrepaidStatus /\ RefundStatusTruthful
               /\ PaidEvidence /\ PaymentAgreement
<1>1. ASSUME NEW o \in DOMAIN orders
      PROVE  orders[o].total \in Nat /\ orders[o].refunded \in Nat
  BY DEF TypeOK, OrderRow
<1> QED  BY <1>1 DEF OrderGood, RowGood, RowsConsistent, PrepaidStatus, Prepaid,
                     RefundStatusTruthful, PaidEvidence, PaymentAgreement, TypeOK

LEMMA NewOrderGood ==
  ASSUME NEW u, NEW k, NEW m \in {"balance", "external"}, NEW total \in Nat,
         NEW h \in BOOLEAN, h <=> m = "external" /\ total > 0
  PROVE  RowGood(NewOrder(u, k, m, total), h, "pending")
<1> DEFINE r == NewOrder(u, k, m, total)
<1>1. /\ r.total = total /\ r.refunded = 0 /\ r.method = m
      /\ total = 0 \/ m = "balance" =>
           r.status = "paid" /\ r.payment = "succeeded" /\ r.paidAt = TRUE
      /\ ~ (total = 0 \/ m = "balance") =>
           r.status = "pending_payment" /\ r.payment = "pending" /\ r.paidAt = FALSE
  BY DEF NewOrder
<1> HIDE DEF r
<1> QED  BY <1>1 DEF RowGood, r

LEMMA MarkPaidGood ==
  ASSUME NEW r \in OrderRow, NEW p \in PaymentStatus, NEW m, RowGood(r, TRUE, p)
  PROVE  RowGood(WithMethod(PaymentState(r, "succeeded"), m), TRUE, p)
BY DEF WithMethod, PaymentState, RowGood, OrderRow

LEMMA RefundGood ==
  ASSUME NEW r \in OrderRow, NEW h \in BOOLEAN, NEW p, NEW a \in Int,
         RowGood(r, h, p), RefundFits(r, a), r.paidAt
  PROVE  RowGood(AddRefund(r, a), h, p)
BY DEF AddRefund, RefundFits, RowGood, OrderRow

LEMMA CallbackGood ==
  ASSUME NEW r \in OrderRow, NEW p, NEW s \in {"succeeded", "failed"}, RowGood(r, TRUE, p)
  PROVE  RowGood(PaymentState(r, s), TRUE, s)
BY DEF PaymentState, RowGood, OrderRow

LEMMA CancelGood ==
  ASSUME NEW r \in OrderRow, NEW h \in BOOLEAN, NEW p, RowGood(r, h, p), h \/ r.total = 0
  PROVE  RowGood(Cancelled(r), h, p)
BY DEF Cancelled, RowGood, OrderRow

-----------------------------------------------------------------------------
(* The three things a step can do to the tables: nothing, insert one good  *)
(* order with a free key, or replace one row by a good one that keeps what *)
(* an order is and what was ever recorded of its payment.                  *)
Quiet == orders' = orders /\ payments' = payments

Owed(m, total) == m = "external" /\ total > 0

Inserts(o, u, k, m, total) ==
  /\ orders' = Put(orders, o, NewOrder(u, k, m, total))
  /\ payments' = IF Owed(m, total)
                 THEN Put(payments, o, "pending") ELSE payments

Created ==
  \E o \in OrderId \ DOMAIN orders, u \in User, k \in Key \cup {NoKey},
     m \in {"balance", "external"}, total \in Nat :
    ~ KeyTaken(u, k) /\ Inserts(o, u, k, m, total)

Replaces(r, s) ==
  /\ s.user = r.user /\ s.key = r.key /\ s.total = r.total
  /\ s.refunded >= r.refunded
  /\ r.paidAt => s.paidAt

Changed ==
  \E o \in DOMAIN orders, r \in OrderRow :
    /\ orders' = [orders EXCEPT ![o] = r]
    /\ DOMAIN payments' = DOMAIN payments
    /\ \A x \in DOMAIN payments : x # o => payments'[x] = payments[x]
    /\ Replaces(orders[o], r)
    /\ RowGood(r, o \in DOMAIN payments, payments'[o])

LEMMA ReplacesRow ==
  ASSUME NEW r \in OrderRow
  PROVE  /\ Replaces(r, Cancelled(r))
         /\ \A s, m : Replaces(r, WithMethod(PaymentState(r, s), m))
         /\ \A s : Replaces(r, PaymentState(r, s))
         /\ \A a \in Int : RefundFits(r, a) => Replaces(r, AddRefund(r, a))
BY DEF Replaces, Cancelled, WithMethod, PaymentState, AddRefund, RefundFits, OrderRow

LEMMA CommitCases ==
  ASSUME IInv, NEW w \in Worker, WorkerStep(w)
  PROVE  Quiet \/ Created \/ Changed
<1> DEFINE t == task[w]
<1>1. /\ t \in Task
      /\ orders \in [DOMAIN orders -> OrderRow]
      /\ payments \in [DOMAIN payments -> PaymentStatus]
      /\ DOMAIN payments \subseteq DOMAIN orders
  BY DEF IInv, TypeOK
<1>2. \A o \in DOMAIN orders : OrderGood(o)
  BY OrdersGood DEF IInv
<1>3. CASE CreateCommit(w)
  <2>1. /\ t.user \in User /\ t.key \in Key \cup {NoKey}
        /\ t.method \in {"balance", "external"} /\ t.total \in Nat
    BY <1>1, <1>3, TaskFields DEF CreateCommit
  <2> QED  BY <1>3, <2>1 DEF CreateCommit, Created, Inserts, Owed
<1>4. CASE MarkPaidCommit(w)
  <2> DEFINE o == t.order
             r == WithMethod(PaymentState(orders[o], "succeeded"), t.method)
  <2>1. o \in DOMAIN payments /\ t.method \in PaymentMethod \cup {""}
    BY <1>1, <1>4, TaskFields DEF IInv, SnapshotsStand, MarkPaidCommit
  <2>2. /\ orders' = [orders EXCEPT ![o] = r] /\ payments' = payments
    BY <1>4 DEF MarkPaidCommit
  <2>3. /\ r \in OrderRow /\ Replaces(orders[o], r)
        /\ RowGood(r, TRUE, payments[o])
    BY <1>1, <1>2, <2>1, RowTypes, ReplacesRow, MarkPaidGood DEF OrderGood
  <2> HIDE DEF o, r
  <2> QED  BY <1>1, <2>1, <2>2, <2>3 DEF Changed
<1>5. CASE RefundCommit(w)
  <2> DEFINE o == t.order
             r == AddRefund(orders[o], t.amount)
  <2>1. o \in DOMAIN orders /\ orders[o].paidAt /\ t.amount \in Int
    BY <1>1, <1>5, TaskFields DEF IInv, SnapshotsStand, RefundCommit
  <2>2. /\ orders' = [orders EXCEPT ![o] = r] /\ payments' = payments
        /\ RefundFits(orders[o], t.amount)
    BY <1>5 DEF RefundCommit
  <2>3. r \in OrderRow /\ Replaces(orders[o], r)
    BY <1>1, <2>1, <2>2, RowTypes, ReplacesRow
  <2>4. \A h \in BOOLEAN : RowGood(orders[o], h, payments[o]) => RowGood(r, h, payments[o])
    BY <1>1, <2>1, <2>2, RefundGood
  <2>5. RowGood(orders[o], o \in DOMAIN payments, payments[o])
    BY <1>2, <2>1 DEF OrderGood
  <2> DEFINE h == o \in DOMAIN payments
  <2>6. RowGood(r, h, payments[o])
    <3>1. h \in BOOLEAN /\ RowGood(orders[o], h, payments[o])
      BY <2>5
    <3> HIDE DEF h, r, o
    <3> QED  BY <3>1, <2>4
  <2> HIDE DEF o, r
  <2> QED  BY <1>1, <2>1, <2>2, <2>3, <2>6 DEF Changed
<1>6. CASE CallbackCommit(w)
  <2> DEFINE o == t.order
             r == PaymentState(orders[o], t.status)
  <2>1. o \in DOMAIN payments /\ t.status \in {"succeeded", "failed"}
    BY <1>1, <1>6, TaskFields DEF IInv, SnapshotsStand, CallbackCommit
  <2>2. /\ orders' = [orders EXCEPT ![o] = r]
        /\ payments' = [payments EXCEPT ![o] = t.status]
    BY <1>6 DEF CallbackCommit
  <2>3. /\ r \in OrderRow /\ Replaces(orders[o], r) /\ RowGood(r, TRUE, t.status)
    BY <1>1, <1>2, <2>1, RowTypes, ReplacesRow, CallbackGood DEF OrderGood
  <2>4. /\ payments'[o] = t.status
        /\ DOMAIN payments' = DOMAIN payments
        /\ \A x \in DOMAIN payments : x # o => payments'[x] = payments[x]
    BY <1>1, <2>1, <2>2
  <2> HIDE DEF o, r
  <2> QED  BY <1>1, <2>1, <2>2, <2>3, <2>4 DEF Changed
<1>7. CASE CancelCommit(w)
  <2> DEFINE o == t.order
             r == Cancelled(orders[o])
  <2>1. o \in DOMAIN orders /\ (o \in DOMAIN payments \/ orders[o].total = 0)
    BY <1>7 DEF IInv, SnapshotsStand, CancelCommit
  <2>2. /\ orders' = [orders EXCEPT ![o] = r] /\ payments' = payments
    BY <1>7 DEF CancelCommit
  <2>3. r \in OrderRow /\ Replaces(orders[o], r)
    BY <1>1, <2>1, RowTypes, ReplacesRow
  <2>4. \A h \in BOOLEAN :
          (h \/ orders[o].total = 0) /\ RowGood(orders[o], h, payments[o])
            => RowGood(r, h, payments[o])
    BY <1>1, <2>1, CancelGood
  <2>5. RowGood(orders[o], o \in DOMAIN payments, payments[o])
    BY <1>2, <2>1 DEF OrderGood
  <2> DEFINE h == o \in DOMAIN payments
  <2>6. RowGood(r, h, payments[o])
    <3>1. h \in BOOLEAN /\ RowGood(orders[o], h, payments[o]) /\ (h \/ orders[o].total = 0)
      BY <2>1, <2>5
    <3> HIDE DEF h, r, o
    <3> QED  BY <3>1, <2>4
  <2> HIDE DEF o, r
  <2> QED  BY <1>1, <2>1, <2>2, <2>3, <2>6 DEF Changed
<1>8. CASE \/ CreateRead(w) \/ MarkPaidRead(w) \/ RefundRead(w) \/ CallbackRead(w)
           \/ UserCancelRead(w) \/ AdminCancelRead(w) \/ Abort(w)
  BY <1>8 DEF Quiet, CreateRead, MarkPaidRead, RefundRead, CallbackRead,
              UserCancelRead, AdminCancelRead, Abort, Accept, orderVars
<1> QED  BY <1>3, <1>4, <1>5, <1>6, <1>7, <1>8 DEF WorkerStep

(* Every step is a movement of one wallet or leaves the wallets alone. *)
LEMMA WalletStep ==
  ASSUME WalletInv, TypeOK, SnapshotsStand, [Next]_vars
  PROVE  [WalletNext]_walletVars
<1>1. ASSUME NEW u \in User, NEW amount \in Int, NEW o \in OrderId,
             amount < 0, ApplyTransaction(u, "purchase", amount, o)
      PROVE  WalletNext
  <2>1. balance'[u] - balance[u] = amount
    BY <1>1 DEF ApplyTransaction, TypeOK, WalletTypeOK
  <2> QED  BY <1>1, <2>1 DEF WalletNext
<1>2. ASSUME NEW u \in User, NEW amount \in Int, NEW o \in OrderId,
             RecordRefund(u, amount, o)
      PROVE  WalletNext
  <2>1. balance'[u] - balance[u] = amount
    BY <1>2 DEF RecordRefund, ApplyTransaction, TypeOK, WalletTypeOK
  <2> QED  BY <1>2, <2>1 DEF WalletNext
<1>3. CASE UNCHANGED vars
  BY <1>3 DEF vars, walletVars
<1>4. ASSUME NEW w \in Worker, WorkerStep(w) PROVE [WalletNext]_walletVars
  <2> DEFINE t == task[w]
             o == t.order
  <2>0. t \in Task
    BY DEF TypeOK
  <2>1. CASE CreateCommit(w)
    <3>1. t.user \in User /\ t.total \in Nat
      BY <2>0, <2>1, TaskFields DEF CreateCommit
    <3>2. CASE ~ UNCHANGED walletVars
      <4>1. PICK p \in OrderId : t.total > 0 /\ ApplyTransaction(t.user, "purchase", -t.total, p)
        BY <2>1, <3>2 DEF CreateCommit
      <4>2. -t.total \in Int /\ -t.total < 0
        BY <3>1, <4>1
      <4> QED  BY <3>1, <4>1, <4>2, <1>1
    <3> QED  BY <3>2
  <2>2. CASE MarkPaidCommit(w)
    <3>1. o \in DOMAIN orders /\ o \in OrderId
      BY <2>2 DEF SnapshotsStand, TypeOK, MarkPaidCommit
    <3>2. orders[o].user \in User /\ orders[o].total \in Nat
      BY <3>1 DEF TypeOK, OrderRow
    <3>3. CASE ~ UNCHANGED walletVars
      <4>1. /\ orders[o].total > 0
            /\ ApplyTransaction(orders[o].user, "purchase", -orders[o].total, o)
        BY <2>2, <3>3 DEF MarkPaidCommit
      <4>2. -orders[o].total \in Int /\ -orders[o].total < 0
        BY <3>2, <4>1
      <4> QED  BY <3>1, <3>2, <4>1, <4>2, <1>1
    <3> QED  BY <3>3
  <2>3. CASE RefundCommit(w)
    <3>1. o \in DOMAIN orders /\ o \in OrderId /\ t.amount \in Int
      BY <2>0, <2>3, TaskFields DEF SnapshotsStand, RefundCommit
    <3>2. orders[o].user \in User
      BY <3>1 DEF TypeOK, OrderRow
    <3>3. RecordRefund(orders[o].user, t.amount, o)
      BY <2>3 DEF RefundCommit
    <3> QED  BY <3>1, <3>2, <3>3, <1>2
  <2>4. CASE CallbackCommit(w) \/ CancelCommit(w)
    BY <2>4 DEF CallbackCommit, CancelCommit
  <2>5. CASE \/ CreateRead(w) \/ MarkPaidRead(w) \/ RefundRead(w) \/ CallbackRead(w)
             \/ UserCancelRead(w) \/ AdminCancelRead(w) \/ Abort(w)
    BY <2>5 DEF CreateRead, MarkPaidRead, RefundRead, CallbackRead,
                UserCancelRead, AdminCancelRead, Abort, Accept
  <2> QED  BY <1>4, <2>1, <2>2, <2>3, <2>4, <2>5 DEF WorkerStep
<1> QED  BY <1>3, <1>4 DEF Next

-----------------------------------------------------------------------------
(* What an insert makes of the two tables, row by row. *)
Inserted(o, u, k, m, total) ==
  /\ DOMAIN orders' = DOMAIN orders \cup {o}
  /\ orders'[o] = NewOrder(u, k, m, total)
  /\ \A x \in DOMAIN orders : orders'[x] = orders[x]
  /\ Owed(m, total) => DOMAIN payments' = DOMAIN payments \cup {o}
  /\ ~ Owed(m, total) => DOMAIN payments' = DOMAIN payments
  /\ o \in DOMAIN payments' => payments'[o] = "pending"
  /\ \A x \in DOMAIN payments : payments'[x] = payments[x]

LEMMA CreatedRow ==
  ASSUME TypeOK, NEW o \in OrderId \ DOMAIN orders, NEW u \in User,
         NEW k \in Key \cup {NoKey}, NEW m \in {"balance", "external"}, NEW total \in Nat,
         Inserts(o, u, k, m, total)
  PROVE  Inserted(o, u, k, m, total)
<1> DEFINE r == NewOrder(u, k, m, total)
<1> HIDE DEF r
<1>1. o \notin DOMAIN orders /\ o \notin DOMAIN payments
  BY DEF TypeOK
<1>2. orders' = Put(orders, o, r)
  BY DEF r, Inserts
<1>3. /\ DOMAIN orders' = DOMAIN orders \cup {o} /\ orders'[o] = r
      /\ \A x \in DOMAIN orders : orders'[x] = orders[x]
  BY <1>1, <1>2 DEF Put
<1>4. /\ Owed(m, total) => DOMAIN payments' = DOMAIN payments \cup {o}
      /\ ~ Owed(m, total) => DOMAIN payments' = DOMAIN payments
      /\ o \in DOMAIN payments' => payments'[o] = "pending"
      /\ \A x \in DOMAIN payments : payments'[x] = payments[x]
  BY <1>1 DEF Put, Inserts
<1> QED  BY <1>3, <1>4 DEF r, Inserted

(* Orders are never deleted and keep what they are. *)
LEMMA RowsKept ==
  ASSUME TypeOK, Quiet \/ Created \/ Changed
  PROVE  /\ DOMAIN orders \subseteq DOMAIN orders'
         /\ DOMAIN payments \subseteq DOMAIN payments'
         /\ \A x \in DOMAIN orders : Replaces(orders[x], orders'[x])
<1>1. \A x \in DOMAIN orders : orders[x] \in OrderRow
  BY DEF TypeOK
<1>2. \A r \in OrderRow : Replaces(r, r)
  BY DEF Replaces, OrderRow
<1>3. CASE Quiet
  BY <1>1, <1>2, <1>3 DEF Quiet
<1>4. CASE Created
  <2>1. PICK o \in OrderId \ DOMAIN orders, u \in User, k \in Key \cup {NoKey},
            m \in {"balance", "external"}, total \in Nat :
          Inserts(o, u, k, m, total)
    BY <1>4 DEF Created
  <2>2. Inserted(o, u, k, m, total)
    BY <2>1, CreatedRow
  <2> QED  BY <1>1, <1>2, <2>2 DEF Inserted
<1>5. CASE Changed
  <2>1. PICK o \in DOMAIN orders, r \in OrderRow :
          /\ orders' = [orders EXCEPT ![o] = r]
          /\ DOMAIN payments' = DOMAIN payments
          /\ Replaces(orders[o], r)
    BY <1>5 DEF Changed
  <2> QED  BY <1>1, <1>2, <2>1
<1> QED  BY <1>3, <1>4, <1>5

(* The row invariants survive each of the three. *)
LEMMA GoodStep ==
  ASSUME TypeOK, Quiet \/ Created \/ Changed, \A o \in DOMAIN orders : OrderGood(o)
  PROVE  (\A o \in DOMAIN orders : OrderGood(o))'
<1> SUFFICES ASSUME NEW x \in DOMAIN orders'
             PROVE  RowGood(orders'[x], x \in DOMAIN payments', payments'[x])
  BY DEF OrderGood
<1>1. \A y \in DOMAIN orders : RowGood(orders[y], y \in DOMAIN payments, payments[y])
  BY DEF OrderGood
<1>2. CASE Quiet
  BY <1>1, <1>2 DEF Quiet
<1>3. CASE Created
  <2>1. PICK o \in OrderId \ DOMAIN orders, u \in User, k \in Key \cup {NoKey},
            m \in {"balance", "external"}, total \in Nat :
          Inserts(o, u, k, m, total)
    BY <1>3 DEF Created
  <2>2. Inserted(o, u, k, m, total)
    BY <2>1, CreatedRow
  <2>3. CASE x = o
    <3> DEFINE h == x \in DOMAIN payments'
    <3>1. h \in BOOLEAN /\ (h <=> Owed(m, total))
      BY <2>2, <2>3 DEF TypeOK, Inserted
    <3>2. h => payments'[x] = "pending"
      BY <2>2, <2>3 DEF Inserted
    <3> HIDE DEF h
    <3>3. RowGood(NewOrder(u, k, m, total), h, "pending")
      BY <3>1, NewOrderGood DEF Owed
    <3>4. RowGood(NewOrder(u, k, m, total), h, payments'[x])
      BY <3>1, <3>2, <3>3 DEF RowGood
    <3> QED  BY <2>2, <2>3, <3>4 DEF h, Inserted
  <2>4. CASE x # o
    <3>1. /\ x \in DOMAIN orders /\ orders'[x] = orders[x]
          /\ (x \in DOMAIN payments') = (x \in DOMAIN payments)
          /\ x \in DOMAIN payments => payments'[x] = payments[x]
      BY <2>2, <2>4 DEF Inserted
    <3> DEFINE h == x \in DOMAIN payments
    <3>2. RowGood(orders[x], h, payments[x]) /\ h \in BOOLEAN
      BY <1>1, <3>1
    <3>3. h => payments'[x] = payments[x]
      BY <3>1
    <3> HIDE DEF h
    <3>4. RowGood(orders[x], h, payments'[x])
      BY <3>2, <3>3 DEF RowGood
    <3> QED  BY <3>1, <3>4 DEF h
  <2> QED  BY <2>3, <2>4
<1>4. CASE Changed
  <2>1. PICK o \in DOMAIN orders, r \in OrderRow :
          /\ orders' = [orders EXCEPT ![o] = r]
          /\ DOMAIN payments' = DOMAIN payments
          /\ \A y \in DOMAIN payments : y # o => payments'[y] = payments[y]
          /\ RowGood(r, o \in DOMAIN payments, payments'[o])
    BY <1>4 DEF Changed
  <2>2. CASE x = o
    BY <2>1, <2>2
  <2>3. CASE x # o
    <3> DEFINE h == x \in DOMAIN payments
    <3>1. /\ x \in DOMAIN orders /\ orders'[x] = orders[x]
          /\ h => payments'[x] = payments[x]
          /\ RowGood(orders[x], h, payments[x]) /\ h \in BOOLEAN
      BY <1>1, <2>1, <2>3
    <3> HIDE DEF h
    <3>2. RowGood(orders[x], h, payments'[x])
      BY <3>1 DEF RowGood
    <3> QED  BY <2>1, <3>1, <3>2 DEF h
  <2> QED  BY <2>2, <2>3
<1> QED  BY <1>2, <1>3, <1>4

(* The unique index keeps keys unique: an insert needs a free one, and no  *)
(* update touches the owner or the key.                                    *)
LEMMA KeyStep ==
  ASSUME TypeOK, Quiet \/ Created \/ Changed, KeyNamesOneOrder
  PROVE  KeyNamesOneOrder'
<1> SUFFICES ASSUME NEW x \in DOMAIN orders', NEW y \in DOMAIN orders',
                    orders'[x].key # NoKey, orders'[x].user = orders'[y].user,
                    orders'[x].key = orders'[y].key
             PROVE  x = y
  BY DEF KeyNamesOneOrder
<1>1. \A z \in DOMAIN orders :
        orders'[z].user = orders[z].user /\ orders'[z].key = orders[z].key
  BY RowsKept DEF Replaces
<1>2. CASE x \in DOMAIN orders /\ y \in DOMAIN orders
  BY <1>1, <1>2 DEF KeyNamesOneOrder
<1>3. CASE ~ (x \in DOMAIN orders /\ y \in DOMAIN orders)
  <2>1. Created
    BY <1>3 DEF Quiet, Changed
  <2>2. PICK o \in OrderId \ DOMAIN orders, u \in User, k \in Key \cup {NoKey},
            m \in {"balance", "external"}, total \in Nat :
          ~ KeyTaken(u, k) /\ Inserts(o, u, k, m, total)
    BY <2>1 DEF Created
  <2>3. DOMAIN orders' = DOMAIN orders \cup {o} /\ orders'[o].user = u /\ orders'[o].key = k
    <3>1. NewOrder(u, k, m, total).user = u /\ NewOrder(u, k, m, total).key = k
      BY DEF NewOrder
    <3>2. Inserted(o, u, k, m, total)
      BY <2>2, CreatedRow
    <3> QED  BY <3>1, <3>2 DEF Inserted
  <2>4. \A z \in DOMAIN orders : k # NoKey => ~ (orders[z].user = u /\ orders[z].key = k)
    BY <2>2 DEF KeyTaken
  <2> QED  BY <1>1, <1>3, <2>3, <2>4
<1> QED  BY <1>2, <1>3

-----------------------------------------------------------------------------
(* What a snapshot has to say of the tables as they are now. *)
Stands(t) ==
  /\ t.op \in {"markPaid", "callback"} => t.order \in DOMAIN payments
  /\ t.op \in {"userCancel", "adminCancel"} =>
       /\ t.order \in DOMAIN orders
       /\ t.order \in DOMAIN payments \/ orders[t.order].total = 0
  /\ t.op = "refund" =>
       /\ t.order \in DOMAIN orders
       /\ orders[t.order].paidAt

(* A guard that held when the order was read makes the snapshot stand. *)
LEMMA ReadStands ==
  ASSUME IInv, NEW w \in Worker, NEW t, Accept(w, t),
         \/ CreateRead(w) \/ MarkPaidRead(w) \/ RefundRead(w) \/ CallbackRead(w)
         \/ UserCancelRead(w) \/ AdminCancelRead(w)
  PROVE  Stands(task'[w])
<1>0. task \in [Worker -> Task] /\ DOMAIN payments \subseteq DOMAIN orders
  BY DEF IInv, TypeOK
<1>1. \A x : Accept(w, x) => task'[w] = x
  BY <1>0 DEF Accept
<1>2. CASE CreateRead(w)
  <2>1. task'[w].op = "create"
    BY <1>1, <1>2 DEF CreateRead
  <2> QED  BY <2>1 DEF Stands
<1>3. CASE MarkPaidRead(w)
  <2>1. task'[w].op = "markPaid" /\ task'[w].order \in DOMAIN payments
    BY <1>1, <1>3 DEF MarkPaidRead, IInv, RowsConsistent
  <2> QED  BY <2>1 DEF Stands
<1>4. CASE RefundRead(w)
  <2>1. /\ task'[w].op = "refund" /\ task'[w].order \in DOMAIN orders
        /\ orders[task'[w].order].paidAt
    BY <1>1, <1>4 DEF RefundRead, IInv, PaidEvidence
  <2> QED  BY <2>1 DEF Stands
<1>5. CASE CallbackRead(w)
  <2>1. task'[w].op = "callback" /\ task'[w].order \in DOMAIN payments
    BY <1>1, <1>5 DEF CallbackRead
  <2> QED  BY <2>1 DEF Stands
<1>6. CASE UserCancelRead(w) \/ AdminCancelRead(w)
  <2>1. PICK o \in DOMAIN orders, op \in {"userCancel", "adminCancel"} :
          /\ UserMayCancel(orders[o]) \/ AdminMayCancel(orders[o])
          /\ Accept(w, [op |-> op, order |-> o])
    BY <1>6 DEF UserCancelRead, AdminCancelRead
  <2>2. orders[o].total \in Nat /\ orders[o].refunded \in Nat
    BY DEF IInv, TypeOK, OrderRow
  <2>3. o \in DOMAIN payments \/ orders[o].total = 0
    <3> SUFFICES ASSUME orders[o].total # 0, o \notin DOMAIN payments PROVE FALSE
      OBVIOUS
    <3>1. orders[o].status # "pending_payment"
      BY DEF IInv, RowsConsistent
    <3>2. orders[o].status = IF orders[o].refunded = 0 THEN "paid"
                             ELSE IF orders[o].refunded < orders[o].total
                                  THEN "partially_refunded" ELSE "refunded"
      BY <2>2 DEF IInv, PrepaidStatus, Prepaid
    <3> QED  BY <2>1, <2>2, <3>1, <3>2 DEF UserMayCancel, AdminMayCancel
  <2>4. task'[w] = [op |-> op, order |-> o]
    BY <1>1, <2>1
  <2>5. task'[w].op = op /\ task'[w].order = o
    BY <2>4
  <2> QED  BY <2>3, <2>5 DEF Stands
<1> QED  BY <1>2, <1>3, <1>4, <1>5, <1>6

LEMMA SnapshotsStep ==
  ASSUME IInv, [Next]_vars
  PROVE  SnapshotsStand'
<1>1. CASE UNCHANGED vars
  BY <1>1 DEF vars, IInv, SnapshotsStand
<1>2. ASSUME NEW w \in Worker, WorkerStep(w), NEW v \in Worker
      PROVE  Stands(task[v])'
  <2>1. task \in [Worker -> Task] /\ Stands(task[v])
    BY DEF IInv, TypeOK, SnapshotsStand, Stands
  <2>2. /\ DOMAIN orders \subseteq DOMAIN orders'
        /\ DOMAIN payments \subseteq DOMAIN payments'
        /\ \A o \in DOMAIN orders :
             orders'[o].total = orders[o].total /\ (orders[o].paidAt => orders'[o].paidAt)
    <3>1. TypeOK /\ (Quiet \/ Created \/ Changed)
      BY <1>2, CommitCases DEF IInv
    <3> QED  BY <3>1, RowsKept DEF Replaces
  <2>3. \/ Finish(w)
        \/ /\ \E t : Accept(w, t)
           /\ \/ CreateRead(w) \/ MarkPaidRead(w) \/ RefundRead(w) \/ CallbackRead(w)
              \/ UserCancelRead(w) \/ AdminCancelRead(w)
    BY <1>2 DEF WorkerStep, CreateRead, CreateCommit, MarkPaidRead, MarkPaidCommit, RefundRead,
         RefundCommit, CallbackRead, CallbackCommit, UserCancelRead, AdminCancelRead,
         CancelCommit, Abort
  <2>4. Stands(task'[v])
    <3>1. CASE v = w /\ Finish(w)
      <4>1. task'[v] = Idle
        BY <2>1, <3>1 DEF Finish
      <4>2. Idle.op = "idle"
        BY DEF Idle
      <4> QED  BY <4>1, <4>2 DEF Stands
    <3>2. CASE v = w /\ ~ Finish(w)
      BY <2>3, <3>2, ReadStands
    <3>3. CASE v # w
      BY <2>1, <2>3, <3>3 DEF Finish, Accept
    <3> QED  BY <3>1, <3>2, <3>3
  <2> QED  BY <2>2, <2>4 DEF Stands
<1> QED  BY <1>1, <1>2 DEF Next, SnapshotsStand, Stands

-----------------------------------------------------------------------------
(* The empty tables and the seeded wallets satisfy every invariant. *)
LEMMA InitIInv == Init => IInv
<1> SUFFICES ASSUME Init PROVE IInv
  OBVIOUS
<1> USE DEF Init
<1>1. WalletTypeOK /\ LedgerChain
  BY SeedingInv DEF WalletInv
<1>2. /\ DOMAIN orders = {} /\ DOMAIN payments = {}
      /\ orders \in [DOMAIN orders -> OrderRow]
      /\ payments \in [DOMAIN payments -> PaymentStatus]
      /\ refunds \in [OrderId -> Seq(Nat)]
  OBVIOUS
<1>3. task \in [Worker -> Task] /\ \A w \in Worker : task[w].op = "idle"
  BY DEF Idle, Task
<1>4. TypeOK
  BY <1>1, <1>2, <1>3 DEF TypeOK
<1>5. SnapshotsStand
  BY <1>3 DEF SnapshotsStand
<1> QED  BY <1>1, <1>2, <1>4, <1>5 DEF IInv, RowsConsistent, PrepaidStatus,
            RefundStatusTruthful, PaidEvidence, PaymentAgreement, KeyNamesOneOrder

LEMMA StepCases == IInv /\ [Next]_vars => Quiet \/ Created \/ Changed
BY CommitCases DEF Next, vars, Quiet

LEMMA StepIInv == IInv /\ [Next]_vars => IInv'
<1> SUFFICES ASSUME IInv, [Next]_vars PROVE IInv'
  OBVIOUS
<1>1. WalletInv /\ TypeOK /\ SnapshotsStand
  BY DEF IInv, WalletInv, TypeOK
<1>2. TypeOK' /\ SnapshotsStand'
  BY <1>1, TypesStep, SnapshotsStep
<1>3. LedgerChain'
  BY <1>1, WalletStep, WalletStepInv DEF WalletInv
<1>4. KeyNamesOneOrder'
  BY StepCases, KeyStep DEF IInv
<1>5. (/\ RowsConsistent /\ PrepaidStatus /\ RefundStatusTruthful
       /\ PaidEvidence /\ PaymentAgreement)'
  <2>1. TypeOK /\ \A o \in DOMAIN orders : OrderGood(o)
    BY OrdersGood DEF IInv
  <2>2. (\A o \in DOMAIN orders : OrderGood(o))'
    BY <2>1, StepCases, GoodStep
  <2>3. (TypeOK => ((\A o \in DOMAIN orders : OrderGood(o))
           <=> /\ RowsConsistent /\ PrepaidStatus /\ RefundStatusTruthful
               /\ PaidEvidence /\ PaymentAgreement))'
    BY OrdersGood, PTL
  <2> QED  BY <1>2, <2>2, <2>3
<1> QED  BY <1>2, <1>3, <1>4, <1>5 DEF IInv

(* Every conjunct of IInv holds in every reachable state: types, chained   *)
(* ledgers, standing snapshots, consistent rows, truthful statuses, unique *)
(* keys, for the handlers of all four logic files and any overlap of them. *)
THEOREM Invariance == Spec => []IInv
BY InitIInv, StepIInv, PTL DEF Spec

(* The program's rows always have the shape the handlers assume of them,   *)
(* and no wallet is ever overdrawn (ApplyTransaction's check).             *)
THEOREM TypeCorrect == Spec => []TypeOK
<1>1. IInv => TypeOK
  BY DEF IInv
<1> QED  BY <1>1, Invariance, PTL

(* Overlapping requests never make the status of a prepaid order disagree  *)
(* with what was refunded of it: no stale guard cancels, fails or repays   *)
(* it (both Cancel, MarkPaid, PaymentCallback and Refund).                 *)
THEOREM PrepaidSafe == Spec => []PrepaidStatus
<1>1. IInv => PrepaidStatus
  BY DEF IInv
<1> QED  BY <1>1, Invariance, PTL

(* The refund status of an order is the one its refunds make (AddRefund,   *)
(* under the lock of the order), whichever refunds overlap.                *)
THEOREM RefundStatusIsTrue == Spec => []RefundStatusTruthful
<1>1. IInv => RefundStatusTruthful
  BY DEF IInv
<1> QED  BY <1>1, Invariance, PTL

(* The payment row and the order's payment_status agree (Process writes    *)
(* both in one transaction).                                               *)
THEOREM PaymentsAgree == Spec => []PaymentAgreement
<1>1. IInv => PaymentAgreement
  BY DEF IInv
<1> QED  BY <1>1, Invariance, PTL

(* One idempotency key, one order (CreateLogic.Create and its index).      *)
THEOREM KeysUnique == Spec => []KeyNamesOneOrder
<1>1. IInv => KeyNamesOneOrder
  BY DEF IInv
<1> QED  BY <1>1, Invariance, PTL

(* However the handlers overlap, the wallet only ever sees what the        *)
(* abstract wallet allows: purchases and refunds, one at a time.           *)
THEOREM ImplementsWallet == Spec => WalletSpec
<1>1. Init => WalletInit
  BY DEF Init
<1>2. IInv /\ [Next]_vars => [WalletNext]_walletVars
  <2> SUFFICES ASSUME IInv, [Next]_vars PROVE [WalletNext]_walletVars
    OBVIOUS
  <2>1. WalletInv /\ TypeOK /\ SnapshotsStand
    BY DEF IInv, WalletInv, TypeOK
  <2> QED  BY <2>1, WalletStep
<1> QED  BY <1>1, <1>2, Invariance, PTL DEF Spec, WalletSpec

-----------------------------------------------------------------------------
(* A wallet step appends to one ledger and rewrites none. *)
LEMMA LedgersKept ==
  ASSUME WalletTypeOK, [WalletNext]_walletVars, NEW u \in User
  PROVE  \/ ledger'[u] = ledger[u]
         \/ \E m : /\ ledger'[u] = Append(ledger[u], m)
                  /\ m.type \in {"purchase", "refund"} /\ m.order \in OrderId
<1>1. CASE UNCHANGED walletVars
  BY <1>1 DEF walletVars
<1>2. ASSUME NEW v \in User, NEW o \in OrderId, NEW type \in {"purchase", "refund"}, NEW amount,
             ApplyTransaction(v, type, amount, o)
      PROVE  \/ ledger'[u] = ledger[u]
             \/ \E m : /\ ledger'[u] = Append(ledger[u], m)
                      /\ m.type \in {"purchase", "refund"} /\ m.order \in OrderId
  <2> DEFINE m == [type |-> type, amount |-> amount, after |-> balance[v] + amount, order |-> o]
  <2>1. ledger' = [ledger EXCEPT ![v] = Append(ledger[v], m)]
    BY <1>2 DEF ApplyTransaction
  <2>2. m.type = type /\ m.order = o
    OBVIOUS
  <2> HIDE DEF m
  <2> QED  BY <2>1, <2>2 DEF WalletTypeOK
<1> QED  BY <1>1, <1>2 DEF WalletNext, RecordRefund

(* Orders keep what they are, refunds are never taken back, a paid order   *)
(* stays known as paid, and no wallet movement is ever rewritten.          *)
THEOREM HistoryIsKept == Spec => HistoryKept
<1> DEFINE Kept ==
      /\ \A o \in DOMAIN orders :
           /\ o \in DOMAIN orders'
           /\ orders'[o].user = orders[o].user
           /\ orders'[o].key = orders[o].key
           /\ orders'[o].total = orders[o].total
           /\ orders'[o].refunded >= orders[o].refunded
           /\ orders[o].paidAt => orders'[o].paidAt
      /\ \A u \in User : \A i \in DOMAIN ledger[u] :
           i \in DOMAIN ledger'[u] /\ ledger'[u][i] = ledger[u][i]
<1>1. IInv /\ [Next]_vars => Kept
  <2> SUFFICES ASSUME IInv, [Next]_vars PROVE Kept
    OBVIOUS
  <2>1. WalletInv /\ TypeOK /\ SnapshotsStand
    BY DEF IInv, WalletInv, TypeOK
  <2>2. \A o \in DOMAIN orders : o \in DOMAIN orders' /\ Replaces(orders[o], orders'[o])
    BY <2>1, StepCases, RowsKept
  <2>3. ASSUME NEW u \in User, NEW i \in DOMAIN ledger[u]
        PROVE  i \in DOMAIN ledger'[u] /\ ledger'[u][i] = ledger[u][i]
    <3>1. /\ ledger[u] \in Seq(Entry)
          /\ ledger'[u] = ledger[u] \/ \E m : ledger'[u] = Append(ledger[u], m)
      BY <2>1, WalletStep, LedgersKept DEF TypeOK, WalletTypeOK
    <3> DEFINE s == ledger[u]
               t == ledger'[u]
    <3>2. s \in Seq(Entry) /\ i \in DOMAIN s /\ (t = s \/ \E m : t = Append(s, m))
      BY <3>1
    <3> HIDE DEF s, t
    <3>3. i \in DOMAIN t /\ t[i] = s[i]
      BY <3>2
    <3> QED  BY <3>3 DEF s, t
  <2> QED  BY <2>2, <2>3 DEF Replaces
<1>2. IInv /\ [Next]_vars => [Kept]_vars
  BY <1>1
<1> QED  BY <1>2, Invariance, PTL DEF Spec, HistoryKept

-----------------------------------------------------------------------------
(* What ChargesBacked asks of one movement m of user u. *)
Backed(m, u) ==
  m.type = "purchase" =>
    /\ m.order \in DOMAIN orders
    /\ orders[m.order].user = u
    /\ m.amount = - orders[m.order].total
    /\ orders[m.order].paidAt

(* ... and asks of it after a step. *)
StaysBacked(m, u) ==
  m.type = "purchase" =>
    /\ m.order \in DOMAIN orders'
    /\ orders'[m.order].user = u
    /\ m.amount = - orders'[m.order].total
    /\ orders'[m.order].paidAt

(* A purchase is appended only by a transaction that also writes the paid  *)
(* order it is for.                                                        *)
LEMMA PurchaseBacked ==
  ASSUME IInv, NEW w \in Worker, WorkerStep(w), NEW u \in User
  PROVE  \/ ledger'[u] = ledger[u]
         \/ \E m : ledger'[u] = Append(ledger[u], m) /\ StaysBacked(m, u)
<1> DEFINE t == task[w]
           o == t.order
           move(v, type, amount, p) == [type |-> type, amount |-> amount,
                                        after |-> balance[v] + amount, order |-> p]
<1>0. /\ t \in Task /\ ledger \in [User -> Seq(Entry)]
      /\ orders \in [DOMAIN orders -> OrderRow]
  BY DEF IInv, TypeOK, WalletTypeOK
<1>1. ASSUME NEW v, NEW type, NEW amount, NEW p, ApplyTransaction(v, type, amount, p)
      PROVE  ledger'[u] = ledger[u] \/ (v = u /\ ledger'[u] = Append(ledger[u], move(v, type, amount, p)))
  BY <1>0, <1>1 DEF ApplyTransaction
<1>2. \A v, type, amount, p :
        LET m == move(v, type, amount, p)
        IN  m.type = type /\ m.amount = amount /\ m.order = p
  OBVIOUS
<1> HIDE DEF move
<1>3. CASE CreateCommit(w)
  <2>1. /\ t.user \in User /\ t.key \in Key \cup {NoKey}
        /\ t.method \in {"balance", "external"} /\ t.total \in Nat
    BY <1>0, <1>3, TaskFields DEF CreateCommit
  <2>2. PICK p \in OrderId \ DOMAIN orders :
          /\ \/ t.method = "balance" /\ ApplyTransaction(t.user, "purchase", -t.total, p)
             \/ UNCHANGED walletVars
          /\ orders' = Put(orders, p, NewOrder(t.user, t.key, t.method, t.total))
    BY <1>3 DEF CreateCommit
  <2>3. CASE UNCHANGED walletVars
    BY <2>3 DEF walletVars
  <2>4. CASE t.method = "balance" /\ ApplyTransaction(t.user, "purchase", -t.total, p)
    <3> DEFINE r == NewOrder(t.user, t.key, t.method, t.total)
               m == move(t.user, "purchase", -t.total, p)
    <3>1. r.user = t.user /\ r.total = t.total /\ r.paidAt = TRUE
      BY <2>4 DEF NewOrder
    <3>2. orders' = Put(orders, p, r)
      BY <2>2
    <3>3. m.amount = -t.total /\ m.order = p
      BY <1>2
    <3>4. ledger'[u] = ledger[u] \/ (t.user = u /\ ledger'[u] = Append(ledger[u], m))
      BY <1>1, <2>4
    <3> HIDE DEF r, m
    <3>5. p \in DOMAIN orders' /\ orders'[p] = r
      BY <3>2 DEF Put
    <3>6. t.user = u => StaysBacked(m, u)
      BY <3>1, <3>3, <3>5 DEF StaysBacked
    <3> QED  BY <3>4, <3>6
  <2> QED  BY <2>2, <2>3, <2>4
<1>4. CASE MarkPaidCommit(w)
  <2>1. o \in DOMAIN orders /\ orders[o] \in OrderRow
    BY <1>0, <1>4 DEF IInv, SnapshotsStand, TypeOK, MarkPaidCommit
  <2> DEFINE r == WithMethod(PaymentState(orders[o], "succeeded"), t.method)
             m == move(orders[o].user, "purchase", -orders[o].total, o)
  <2>2. /\ \/ ApplyTransaction(orders[o].user, "purchase", -orders[o].total, o)
           \/ UNCHANGED walletVars
        /\ orders' = [orders EXCEPT ![o] = r]
    BY <1>4 DEF MarkPaidCommit
  <2>3. r.user = orders[o].user /\ r.total = orders[o].total /\ r.paidAt = TRUE
    BY <2>1 DEF WithMethod, PaymentState, OrderRow
  <2>4. m.amount = -orders[o].total /\ m.order = o
    BY <1>2
  <2>5. CASE UNCHANGED walletVars
    BY <2>5 DEF walletVars
  <2>6. CASE ApplyTransaction(orders[o].user, "purchase", -orders[o].total, o)
    <3>1. ledger'[u] = ledger[u] \/ (orders[o].user = u /\ ledger'[u] = Append(ledger[u], m))
      BY <1>1, <2>6
    <3> HIDE DEF r, m
    <3>2. o \in DOMAIN orders' /\ orders'[o] = r
      BY <1>0, <2>1, <2>2
    <3>3. orders[o].user = u => StaysBacked(m, u)
      BY <2>3, <2>4, <3>2 DEF StaysBacked
    <3> QED  BY <3>1, <3>3
  <2> QED  BY <2>2, <2>5, <2>6
<1>5. CASE RefundCommit(w)
  <2> DEFINE m == move(orders[o].user, "refund", t.amount, o)
  <2>1. ApplyTransaction(orders[o].user, "refund", t.amount, o)
    BY <1>5 DEF RefundCommit, RecordRefund
  <2>2. ledger'[u] = ledger[u] \/ ledger'[u] = Append(ledger[u], m)
    BY <1>1, <2>1
  <2>3. m.type = "refund"
    BY <1>2
  <2> HIDE DEF m
  <2>4. StaysBacked(m, u)
    BY <2>3 DEF StaysBacked
  <2> QED  BY <2>2, <2>4
<1>6. CASE \/ CallbackCommit(w) \/ CancelCommit(w)
           \/ CreateRead(w) \/ MarkPaidRead(w) \/ RefundRead(w) \/ CallbackRead(w)
           \/ UserCancelRead(w) \/ AdminCancelRead(w) \/ Abort(w)
  BY <1>6 DEF CallbackCommit, CancelCommit, CreateRead, MarkPaidRead, RefundRead, CallbackRead,
              UserCancelRead, AdminCancelRead, Abort, Accept, walletVars
<1> QED  BY <1>3, <1>4, <1>5, <1>6 DEF WorkerStep

LEMMA ChargesStep == IInv /\ ChargesBacked /\ [Next]_vars => ChargesBacked'
<1> SUFFICES ASSUME IInv, ChargesBacked, [Next]_vars,
                    NEW u \in User, NEW i \in DOMAIN ledger'[u]
             PROVE  StaysBacked(ledger'[u][i], u)
  BY DEF ChargesBacked, StaysBacked
<1>1. \A o \in DOMAIN orders : o \in DOMAIN orders' /\ Replaces(orders[o], orders'[o])
  BY StepCases, RowsKept DEF IInv
<1>2. ASSUME NEW j \in DOMAIN ledger[u] PROVE StaysBacked(ledger[u][j], u)
  <2> DEFINE m == ledger[u][j]
  <2>1. Backed(m, u)
    BY DEF ChargesBacked, Backed
  <2> HIDE DEF m
  <2>2. m.order \in DOMAIN orders => orders[m.order] \in OrderRow
    BY DEF IInv, TypeOK
  <2> QED  BY <1>1, <2>1, <2>2 DEF Backed, StaysBacked, Replaces, m
<1>3. ledger'[u] = ledger[u] \/ \E m : ledger'[u] = Append(ledger[u], m) /\ StaysBacked(m, u)
  <2>1. CASE UNCHANGED vars
    BY <2>1 DEF vars
  <2>2. CASE Next
    BY <2>2, PurchaseBacked DEF Next
  <2> QED  BY <2>1, <2>2
<1> DEFINE s == ledger[u]
           l == ledger'[u]
<1>4. s \in Seq(Entry)
  BY DEF IInv, TypeOK, WalletTypeOK
<1>5. /\ i \in DOMAIN l
      /\ \A j \in DOMAIN s : StaysBacked(s[j], u)
      /\ l = s \/ \E m : l = Append(s, m) /\ StaysBacked(m, u)
  BY <1>2, <1>3
<1> HIDE DEF s, l
<1>6. CASE l = s
  BY <1>5, <1>6 DEF l
<1>7. ASSUME NEW m, l = Append(s, m), StaysBacked(m, u)
      PROVE  StaysBacked(l[i], u)
  <2>1. Len(s) \in Nat /\ DOMAIN s = 1 .. Len(s) /\ DOMAIN l = 1 .. Len(s) + 1
    BY <1>4, <1>7
  <2>2. CASE i \in DOMAIN s
    <3>1. l[i] = s[i]
      BY <1>4, <1>7, <2>2
    <3> QED  BY <1>5, <2>2, <3>1
  <2>3. CASE i \notin DOMAIN s
    <3>1. i = Len(s) + 1
      BY <1>5, <2>1, <2>3
    <3>2. Append(s, m)[Len(s) + 1] = m
      BY <1>4
    <3>3. l[i] = m
      BY <1>7, <3>1, <3>2
    <3> QED  BY <1>7, <3>3
  <2> QED  BY <2>2, <2>3
<1> QED  BY <1>5, <1>6, <1>7 DEF l

(* Every purchase in a wallet belongs to an existing order of its owner,   *)
(* for that order's total, and the order was paid: CreateLogic and         *)
(* MarkPaidLogic leave no charge behind without its order.                 *)
THEOREM NoStrayCharge == Spec => []ChargesBacked
<1>1. Init => ChargesBacked
  BY DEF Init, WalletInit, SeededLedger, ChargesBacked
<1> QED  BY <1>1, ChargesStep, Invariance, PTL DEF Spec

-----------------------------------------------------------------------------
(* The positions in ledger l of the purchases made for order o. *)
IsCharge(m, o) == m.order = o /\ m.type = "purchase"
ChargesFor(l, o) == {i \in DOMAIN l : IsCharge(l[i], o)}

LEMMA AppendKeepsCharges ==
  ASSUME NEW s \in Seq(Entry), NEW m, NEW o, ~ IsCharge(m, o)
  PROVE  ChargesFor(Append(s, m), o) = ChargesFor(s, o)
<1> DEFINE l == Append(s, m)
<1>1. /\ DOMAIN s = 1 .. Len(s) /\ DOMAIN l = 1 .. Len(s) + 1
      /\ \A i \in DOMAIN s : i \in DOMAIN l /\ l[i] = s[i]
      /\ \A i \in DOMAIN l : i \in DOMAIN s \/ l[i] = m
  OBVIOUS
<1> HIDE DEF l
<1>2. ChargesFor(l, o) = ChargesFor(s, o)
  BY <1>1 DEF ChargesFor
<1> QED  BY <1>2 DEF l

LEMMA AppendFirstCharge ==
  ASSUME NEW s \in Seq(Entry), NEW m, NEW o, IsCharge(m, o), ChargesFor(s, o) = {}
  PROVE  ChargesFor(Append(s, m), o) = {Len(s) + 1}
<1> DEFINE l == Append(s, m)
           n == Len(s) + 1
<1>1. /\ \A i \in DOMAIN l : i = n \/ (i \in DOMAIN s /\ l[i] = s[i])
      /\ n \in DOMAIN l /\ l[n] = m
  OBVIOUS
<1> HIDE DEF l, n
<1>2. ChargesFor(l, o) = {n}
  BY <1>1 DEF ChargesFor
<1> QED  BY <1>2 DEF l, n

(* A step charges nobody for a prepaid order there was, and once for one   *)
(* it creates.                                                             *)
LEMMA PrepaidCharge ==
  ASSUME IInv, NEW w \in Worker, WorkerStep(w), NEW x \in DOMAIN orders', Prepaid(x)'
  PROVE  LET l == ledger[orders'[x].user]
             next == ledger'[orders'[x].user]
         IN  /\ orders'[x].user \in User
             /\ x \in DOMAIN orders =>
                  /\ Prepaid(x) /\ orders'[x].user = orders[x].user
                  /\ next = l \/ \E m : next = Append(l, m) /\ ~ IsCharge(m, x)
             /\ x \notin DOMAIN orders => \E m : next = Append(l, m) /\ IsCharge(m, x)
<1> DEFINE t == task[w]
           u == orders'[x].user
           move(v, type, amount, p) == [type |-> type, amount |-> amount,
                                        after |-> balance[v] + amount, order |-> p]
<1>0. /\ t \in Task /\ ledger \in [User -> Seq(Entry)]
      /\ orders \in [DOMAIN orders -> OrderRow] /\ DOMAIN payments \subseteq DOMAIN orders
  BY DEF IInv, TypeOK, WalletTypeOK
<1>1. u \in User
  <2>1. TypeOK'
    BY StepIInv DEF IInv, Next
  <2> QED  BY <2>1 DEF TypeOK, OrderRow
<1>2. x \in DOMAIN orders => Prepaid(x) /\ u = orders[x].user
  <2>1. /\ DOMAIN payments \subseteq DOMAIN payments'
        /\ x \in DOMAIN orders => Replaces(orders[x], orders'[x])
    BY CommitCases, RowsKept DEF IInv
  <2> QED  BY <2>1 DEF Prepaid, Replaces
<1>3. ASSUME NEW v, NEW type, NEW amount, NEW p, ApplyTransaction(v, type, amount, p)
      PROVE  /\ v = u => ledger'[u] = Append(ledger[u], move(v, type, amount, p))
             /\ v # u => ledger'[u] = ledger[u]
  BY <1>0, <1>1, <1>3 DEF ApplyTransaction
<1>4. \A v, type, amount, p :
        IsCharge(move(v, type, amount, p), x) <=> p = x /\ type = "purchase"
  BY DEF IsCharge
<1> DEFINE Moved(v, type, p) ==
             UNCHANGED walletVars \/ \E amount : ApplyTransaction(v, type, amount, p)
<1>5. ASSUME x \in DOMAIN orders, NEW v, NEW type, NEW p, Moved(v, type, p),
             p # x \/ type # "purchase"
      PROVE  ledger'[u] = ledger[u] \/ \E m : ledger'[u] = Append(ledger[u], m) /\ ~ IsCharge(m, x)
  <2>1. CASE UNCHANGED walletVars
    BY <2>1 DEF walletVars
  <2>2. ASSUME NEW amount, ApplyTransaction(v, type, amount, p)
        PROVE  ledger'[u] = ledger[u] \/ \E m : ledger'[u] = Append(ledger[u], m) /\ ~ IsCharge(m, x)
    <3> DEFINE m == move(v, type, amount, p)
    <3>1. ~ IsCharge(m, x) /\ (ledger'[u] = ledger[u] \/ ledger'[u] = Append(ledger[u], m))
      BY <1>3, <1>4, <1>5, <2>2
    <3> HIDE DEF m
    <3> QED  BY <3>1
  <2> QED  BY <1>5, <2>1, <2>2
<1> HIDE DEF move
<1>6. CASE x \in DOMAIN orders
  <2>1. PICK v, type, p : Moved(v, type, p) /\ (p # x \/ type # "purchase")
    <3>1. CASE CreateCommit(w)
      BY <1>6, <3>1 DEF CreateCommit
    <3>2. CASE MarkPaidCommit(w)
      <4>1. t.order \in DOMAIN payments /\ x \notin DOMAIN payments
        BY <1>2, <1>6, <3>2 DEF IInv, SnapshotsStand, MarkPaidCommit, Prepaid
      <4> QED  BY <3>2, <4>1 DEF MarkPaidCommit
    <3>3. CASE RefundCommit(w)
      BY <3>3 DEF RefundCommit, RecordRefund
    <3>4. CASE \/ CallbackCommit(w) \/ CancelCommit(w)
               \/ CreateRead(w) \/ MarkPaidRead(w) \/ RefundRead(w) \/ CallbackRead(w)
               \/ UserCancelRead(w) \/ AdminCancelRead(w) \/ Abort(w)
      <4>1. UNCHANGED walletVars
        BY <3>4 DEF CallbackCommit, CancelCommit, CreateRead, MarkPaidRead, RefundRead,
                    CallbackRead, UserCancelRead, AdminCancelRead, Abort, Accept
      <4>2. Moved(0, "refund", 0) /\ "refund" # "purchase"
        BY <4>1
      <4> QED  BY <4>2
    <3> QED  BY <3>1, <3>2, <3>3, <3>4 DEF WorkerStep
  <2> QED  BY <1>1, <1>2, <1>5, <1>6, <2>1
<1>7. CASE x \notin DOMAIN orders
  <2>1. CreateCommit(w)
    <3>1. CASE \/ MarkPaidCommit(w) \/ RefundCommit(w) \/ CallbackCommit(w) \/ CancelCommit(w)
      BY <1>0, <1>7, <3>1 DEF MarkPaidCommit, RefundCommit, CallbackCommit, CancelCommit
    <3>2. CASE \/ CreateRead(w) \/ MarkPaidRead(w) \/ RefundRead(w) \/ CallbackRead(w)
               \/ UserCancelRead(w) \/ AdminCancelRead(w) \/ Abort(w)
      BY <1>7, <3>2 DEF CreateRead, MarkPaidRead, RefundRead, CallbackRead, UserCancelRead,
                        AdminCancelRead, Abort, Accept, orderVars
    <3> QED  BY <3>1, <3>2 DEF WorkerStep
  <2>2. /\ t.user \in User /\ t.key \in Key \cup {NoKey}
        /\ t.method \in {"balance", "external"} /\ t.total \in Nat
    BY <1>0, <2>1, TaskFields DEF CreateCommit
  <2>3. PICK p \in OrderId \ DOMAIN orders :
          /\ \/ /\ t.total > 0 /\ t.method = "balance"
                /\ ApplyTransaction(t.user, "purchase", -t.total, p)
             \/ ~ (t.total > 0 /\ t.method = "balance") /\ UNCHANGED walletVars
          /\ Inserts(p, t.user, t.key, t.method, t.total)
    BY <2>1 DEF CreateCommit, Inserts, Owed
  <2>4. Inserted(p, t.user, t.key, t.method, t.total)
    BY <2>2, <2>3, CreatedRow DEF IInv
  <2>5. p = x
    BY <1>7, <2>4 DEF Inserted
  <2>6. u = t.user /\ orders'[x].total = t.total
    BY <2>4, <2>5 DEF Inserted, NewOrder
  <2>7. t.total > 0 /\ t.method = "balance"
    BY <2>2, <2>4, <2>5, <2>6 DEF Inserted, Owed, Prepaid
  <2> DEFINE m == move(u, "purchase", -t.total, x)
  <2>8. ledger'[u] = Append(ledger[u], m) /\ IsCharge(m, x)
    BY <1>3, <1>4, <2>3, <2>5, <2>6, <2>7
  <2> HIDE DEF m
  <2> QED  BY <1>1, <1>7, <2>8
<1> QED  BY <1>6, <1>7

(* PrepaidChargedOnce by the one position of the charge. *)
OneCharge ==
  \A o \in DOMAIN orders : Prepaid(o) => \E i : ChargesFor(ledger[orders[o].user], o) = {i}

LEMMA OneChargeStep == IInv /\ ChargesBacked /\ OneCharge /\ [Next]_vars => OneCharge'
<1> SUFFICES ASSUME IInv, ChargesBacked, OneCharge, [Next]_vars,
                    NEW x \in DOMAIN orders', Prepaid(x)'
             PROVE  \E i : ChargesFor(ledger'[orders'[x].user], x) = {i}
  BY DEF OneCharge, ChargesFor, IsCharge
<1>1. CASE UNCHANGED vars
  BY <1>1 DEF vars, OneCharge, Prepaid
<1>2. ASSUME NEW w \in Worker, WorkerStep(w)
      PROVE  \E i : ChargesFor(ledger'[orders'[x].user], x) = {i}
  <2> DEFINE u == orders'[x].user
             s == ledger[u]
             l == ledger'[u]
  <2>1. /\ u \in User
        /\ x \in DOMAIN orders =>
             /\ Prepaid(x) /\ u = orders[x].user
             /\ l = s \/ \E m : l = Append(s, m) /\ ~ IsCharge(m, x)
        /\ x \notin DOMAIN orders => \E m : l = Append(s, m) /\ IsCharge(m, x)
    BY <1>2, PrepaidCharge
  <2>2. s \in Seq(Entry)
    BY <2>1 DEF IInv, TypeOK, WalletTypeOK
  <2>3. x \in DOMAIN orders => \E i : ChargesFor(s, x) = {i}
    BY <2>1 DEF OneCharge
  <2>4. x \notin DOMAIN orders => ChargesFor(s, x) = {}
    BY <2>1 DEF ChargesBacked, ChargesFor, IsCharge
  <2> HIDE DEF u, s, l
  <2>5. CASE x \in DOMAIN orders
    <3>1. PICK i : ChargesFor(s, x) = {i}
      BY <2>3, <2>5
    <3>2. ASSUME NEW m, l = Append(s, m), ~ IsCharge(m, x) PROVE ChargesFor(l, x) = {i}
      BY <2>2, <3>1, <3>2, AppendKeepsCharges
    <3>3. ChargesFor(l, x) = {i}
      BY <2>1, <2>5, <3>1, <3>2
    <3> QED  BY <3>3 DEF u, l
  <2>6. CASE x \notin DOMAIN orders
    <3>1. PICK m : l = Append(s, m) /\ IsCharge(m, x)
      BY <2>1, <2>6
    <3>2. ChargesFor(l, x) = {Len(s) + 1}
      BY <2>2, <2>4, <2>6, <3>1, AppendFirstCharge
    <3> QED  BY <3>2 DEF u, l
  <2> QED  BY <2>5, <2>6
<1> QED  BY <1>1, <1>2 DEF Next

(* Whatever overlaps, the owner of an order paid from the wallet when it   *)
(* was created was charged for it exactly once: a retry of CreateLogic     *)
(* with the same key, or a late MarkPaid, never charges again.             *)
THEOREM PrepaidIsChargedOnce == Spec => []PrepaidChargedOnce
<1>1. Init => ChargesBacked /\ OneCharge
  BY DEF Init, WalletInit, SeededLedger, ChargesBacked, OneCharge
<1>2. OneCharge => PrepaidChargedOnce
  <2> SUFFICES ASSUME OneCharge, NEW o \in DOMAIN orders, Prepaid(o)
               PROVE  Cardinality(Movements(o, "purchase")) = 1
    BY DEF PrepaidChargedOnce
  <2>1. PICK i : ChargesFor(ledger[orders[o].user], o) = {i}
    BY DEF OneCharge
  <2>2. Movements(o, "purchase") = {i}
    BY <2>1 DEF Movements, ChargesFor, IsCharge
  <2> QED  BY <2>2, FS_Singleton
<1> QED  BY <1>1, <1>2, ChargesStep, OneChargeStep, Invariance, PTL DEF Spec

-----------------------------------------------------------------------------
(* Requests that do not meet.  The guards a handler checks before its      *)
(* transaction still hold in it when no other request about the same order *)
(* is under way; requests about other orders, and for new ones, may be.    *)
Concerns(t) == t.op \in {"markPaid", "refund", "callback", "userCancel", "adminCancel"}

Alone ==
  \A v, w \in Worker :
    v # w /\ Concerns(task[v]) /\ Concerns(task[w]) => task[v].order # task[w].order

GuardHolds(t) ==
  /\ t.op = "markPaid" => orders[t.order].status = "pending_payment"
  /\ t.op = "callback" => (payments[t.order] = "succeeded" => t.status = "succeeded")
  /\ t.op = "userCancel" => UserMayCancel(orders[t.order])
  /\ t.op = "adminCancel" => AdminMayCancel(orders[t.order])

GuardsHold == \A w \in Worker : GuardHolds(task[w])

(* A transaction writes the row of the order its request is about, and no  *)
(* other that was there.                                                   *)
LEMMA OwnRow ==
  ASSUME IInv, NEW w \in Worker, WorkerStep(w), NEW o \in DOMAIN orders,
         ~ (Concerns(task[w]) /\ task[w].order = o)
  PROVE  /\ orders'[o] = orders[o]
         /\ o \in DOMAIN payments => payments'[o] = payments[o]
<1>1. /\ task[w] \in Task
      /\ orders \in [DOMAIN orders -> OrderRow]
      /\ payments \in [DOMAIN payments -> PaymentStatus]
  BY DEF IInv, TypeOK
<1>2. CASE CreateCommit(w)
  <2>1. PICK p \in OrderId \ DOMAIN orders :
          Inserts(p, task[w].user, task[w].key, task[w].method, task[w].total)
    BY <1>2 DEF CreateCommit, Inserts, Owed
  <2>2. /\ task[w].user \in User /\ task[w].key \in Key \cup {NoKey}
        /\ task[w].method \in {"balance", "external"} /\ task[w].total \in Nat
    BY <1>1, <1>2, TaskFields DEF CreateCommit
  <2>3. Inserted(p, task[w].user, task[w].key, task[w].method, task[w].total)
    BY <2>1, <2>2, CreatedRow DEF IInv
  <2> QED  BY <2>3 DEF Inserted
<1>3. CASE MarkPaidCommit(w) \/ RefundCommit(w) \/ CallbackCommit(w) \/ CancelCommit(w)
  <2>1. task[w].order # o
    BY <1>3 DEF MarkPaidCommit, RefundCommit, CallbackCommit, CancelCommit, Concerns
  <2>2. orders'[o] = orders[o]
    BY <1>1, <1>3, <2>1 DEF MarkPaidCommit, RefundCommit, CallbackCommit, CancelCommit
  <2>3. o \in DOMAIN payments => payments'[o] = payments[o]
    BY <1>1, <1>3, <2>1 DEF MarkPaidCommit, RefundCommit, CallbackCommit, CancelCommit
  <2> QED  BY <2>2, <2>3
<1>4. CASE \/ CreateRead(w) \/ MarkPaidRead(w) \/ RefundRead(w) \/ CallbackRead(w)
           \/ UserCancelRead(w) \/ AdminCancelRead(w) \/ Abort(w)
  BY <1>4 DEF CreateRead, MarkPaidRead, RefundRead, CallbackRead, UserCancelRead,
              AdminCancelRead, Abort, Accept, orderVars
<1> QED  BY <1>2, <1>3, <1>4 DEF WorkerStep

(* A request is taken with its guard.                                      *)
LEMMA ReadGuards ==
  ASSUME IInv, NEW w \in Worker, NEW t, Accept(w, t),
         \/ CreateRead(w) \/ MarkPaidRead(w) \/ RefundRead(w) \/ CallbackRead(w)
         \/ UserCancelRead(w) \/ AdminCancelRead(w)
  PROVE  GuardHolds(task'[w])
<1>0. task \in [Worker -> Task]
  BY DEF IInv, TypeOK
<1>1. \A x : Accept(w, x) => task'[w] = x
  BY <1>0 DEF Accept
<1>2. CASE CreateRead(w)
  <2>1. task'[w].op = "create"
    BY <1>1, <1>2 DEF CreateRead
  <2> QED  BY <2>1 DEF GuardHolds
<1>3. CASE MarkPaidRead(w)
  <2>1. task'[w].op = "markPaid" /\ orders[task'[w].order].status = "pending_payment"
    BY <1>1, <1>3 DEF MarkPaidRead
  <2> QED  BY <2>1 DEF GuardHolds
<1>4. CASE RefundRead(w)
  <2>1. task'[w].op = "refund"
    BY <1>1, <1>4 DEF RefundRead
  <2> QED  BY <2>1 DEF GuardHolds
<1>5. CASE CallbackRead(w)
  <2>1. PICK o \in DOMAIN payments, s \in {"succeeded", "failed"} :
          /\ ~ (payments[o] = "succeeded" /\ s = "failed")
          /\ Accept(w, [op |-> "callback", order |-> o, status |-> s])
    BY <1>5 DEF CallbackRead
  <2>2. task'[w].op = "callback" /\ task'[w].order = o /\ task'[w].status = s
    BY <1>1, <2>1
  <2> QED  BY <2>1, <2>2 DEF GuardHolds
<1>6. CASE UserCancelRead(w)
  <2>1. task'[w].op = "userCancel" /\ UserMayCancel(orders[task'[w].order])
    BY <1>1, <1>6 DEF UserCancelRead
  <2> QED  BY <2>1 DEF GuardHolds
<1>7. CASE AdminCancelRead(w)
  <2>1. task'[w].op = "adminCancel" /\ AdminMayCancel(orders[task'[w].order])
    BY <1>1, <1>7 DEF AdminCancelRead
  <2> QED  BY <2>1 DEF GuardHolds
<1> QED  BY <1>2, <1>3, <1>4, <1>5, <1>6, <1>7

(* And keeps it until it commits.                                          *)
LEMMA GuardsStep ==
  ASSUME IInv, Alone, GuardsHold, [Next]_vars
  PROVE  GuardsHold'
<1>1. CASE UNCHANGED vars
  BY <1>1 DEF vars, GuardsHold, GuardHolds
<1>2. ASSUME NEW w \in Worker, WorkerStep(w), NEW v \in Worker
      PROVE  GuardHolds(task[v])'
  <2>1. task \in [Worker -> Task]
    BY DEF IInv, TypeOK
  <2>2. \/ Finish(w)
        \/ /\ \E t : Accept(w, t)
           /\ \/ CreateRead(w) \/ MarkPaidRead(w) \/ RefundRead(w) \/ CallbackRead(w)
              \/ UserCancelRead(w) \/ AdminCancelRead(w)
    BY <1>2 DEF WorkerStep, CreateRead, CreateCommit, MarkPaidRead, MarkPaidCommit, RefundRead,
         RefundCommit, CallbackRead, CallbackCommit, UserCancelRead, AdminCancelRead,
         CancelCommit, Abort
  <2>3. CASE v = w /\ Finish(w)
    <3>1. task'[v] = Idle
      BY <2>1, <2>3 DEF Finish
    <3>2. Idle.op = "idle"
      BY DEF Idle
    <3> QED  BY <3>1, <3>2 DEF GuardHolds
  <2>4. CASE v = w /\ ~ Finish(w)
    <3>1. GuardHolds(task'[w]) /\ UNCHANGED orderVars
      BY <2>2, <2>4, ReadGuards DEF Accept
    <3> QED  BY <2>4, <3>1 DEF GuardHolds, orderVars
  <2>5. CASE v # w
    <3>1. task'[v] = task[v]
      BY <2>1, <2>2, <2>5 DEF Finish, Accept
    <3>2. GuardHolds(task[v])
      BY DEF GuardsHold
    <3>3. CASE Concerns(task[v])
      <4> DEFINE o == task[v].order
      <4>1. /\ o \in DOMAIN orders
            /\ task[v].op = "callback" => o \in DOMAIN payments
        BY <3>3 DEF IInv, SnapshotsStand, TypeOK, Concerns
      <4>2. ~ (Concerns(task[w]) /\ task[w].order = o)
        BY <2>5, <3>3 DEF Alone
      <4>3. orders'[o] = orders[o] /\ (o \in DOMAIN payments => payments'[o] = payments[o])
        BY <1>2, <4>1, <4>2, OwnRow
      <4> QED  BY <3>1, <3>2, <4>1, <4>3 DEF GuardHolds
    <3>4. CASE ~ Concerns(task[v])
      BY <3>1, <3>4 DEF GuardHolds, Concerns
    <3> QED  BY <3>3, <3>4
  <2> QED  BY <2>3, <2>4, <2>5
<1> QED  BY <1>1, <1>2 DEF Next, GuardsHold

LEMMA GuardsInit == Init => GuardsHold
<1> SUFFICES ASSUME Init, NEW w \in Worker  PROVE GuardHolds(task[w])
  BY DEF GuardsHold
<1>1. task[w].op = "idle"
  BY DEF Init, Idle
<1> QED  BY <1>1 DEF GuardHolds

THEOREM GuardsInvariance == Spec /\ []Alone => []GuardsHold
BY GuardsInit, GuardsStep, Invariance, PTL DEF Spec

(* One request at a time, as a test sends them, is the simplest case.      *)
LEMMA SerialIsAlone == (\A v, w \in Worker : v = w) => Alone
BY DEF Alone

(* A payment that succeeded stays so, unless two callbacks for it overlap  *)
(* (PaymentCallbackLogic.Process).                                         *)
THEOREM NoDowngradeAlone == Spec /\ []Alone => NoPaymentDowngrade
<1> DEFINE Kept == \A o \in DOMAIN payments :
                     payments[o] = "succeeded" => payments'[o] = "succeeded"
<1>1. IInv /\ GuardsHold /\ [Next]_vars => Kept
  <2> SUFFICES ASSUME IInv, GuardsHold, [Next]_vars,
                      NEW o \in DOMAIN payments, payments[o] = "succeeded"
               PROVE  payments'[o] = "succeeded"
    OBVIOUS
  <2>1. CASE UNCHANGED vars
    BY <2>1 DEF vars
  <2>2. ASSUME NEW w \in Worker, WorkerStep(w)  PROVE payments'[o] = "succeeded"
    <3>1. o \in DOMAIN orders /\ payments \in [DOMAIN payments -> PaymentStatus]
      BY DEF IInv, TypeOK
    <3>2. CASE Concerns(task[w]) /\ task[w].order = o
      <4>1. CASE CallbackCommit(w)
        <5>1. task[w].status = "succeeded"
          BY <3>2, <4>1 DEF GuardsHold, GuardHolds, CallbackCommit
        <5> QED  BY <3>1, <3>2, <4>1, <5>1 DEF CallbackCommit
      <4>2. CASE CreateCommit(w)
        BY <3>2, <4>2 DEF CreateCommit, Concerns
      <4>3. CASE ~ CallbackCommit(w) /\ ~ CreateCommit(w)
        BY <2>2, <4>3 DEF WorkerStep, MarkPaidCommit, RefundCommit, CancelCommit, CreateRead,
            MarkPaidRead, RefundRead, CallbackRead, UserCancelRead, AdminCancelRead, Abort,
            Accept, orderVars
      <4> QED  BY <4>1, <4>2, <4>3
    <3>3. CASE ~ (Concerns(task[w]) /\ task[w].order = o)
      BY <2>2, <3>1, <3>3, OwnRow
    <3> QED  BY <3>2, <3>3
  <2> QED  BY <2>1, <2>2 DEF Next
<1>2. IInv /\ GuardsHold /\ [Next]_vars => [Kept]_vars
  BY <1>1
<1> QED  BY <1>2, Invariance, GuardsInvariance, PTL DEF Spec, NoPaymentDowngrade

(* An order is cancelled while it is pending, or when its owner has got    *)
(* back all it cost, unless a payment overlaps the cancellation            *)
(* (the guards of both CancelLogic.Cancel).                                *)
THEOREM CancelAlone == Spec /\ []Alone => CancelOnlyUnsettled
<1> DEFINE Unsettled(o) == \/ orders[o].status = "pending_payment"
                           \/ orders[o].refunded = orders[o].total
           Cancels(o) == orders'[o].status = "cancelled" /\ orders[o].status # "cancelled"
<1>1. IInv /\ GuardsHold /\ [Next]_vars => \A o \in DOMAIN orders : Cancels(o) => Unsettled(o)
  <2> SUFFICES ASSUME IInv, GuardsHold, [Next]_vars, NEW o \in DOMAIN orders, Cancels(o)
               PROVE  Unsettled(o)
    OBVIOUS
  <2>1. PICK w \in Worker : WorkerStep(w)
    BY DEF vars, Next
  <2>2. Concerns(task[w]) /\ task[w].order = o
    BY <2>1, OwnRow
  <2>3. orders[o] \in OrderRow /\ orders \in [DOMAIN orders -> OrderRow]
    BY DEF IInv, TypeOK
  <2>4. CASE CancelCommit(w)
    <3>1. UserMayCancel(orders[o]) \/ AdminMayCancel(orders[o])
      BY <2>2, <2>4 DEF GuardsHold, GuardHolds, CancelCommit
    <3>2. /\ orders[o].refunded <= orders[o].total
          /\ orders[o].refunded \in Nat /\ orders[o].total \in Nat
      BY <2>3 DEF IInv, RowsConsistent, OrderRow
    <3> QED  BY <3>1, <3>2 DEF UserMayCancel, AdminMayCancel
  <2>5. CASE MarkPaidCommit(w) \/ RefundCommit(w) \/ CallbackCommit(w)
    <3> DEFINE t == task[w]
    <3>1. \/ orders'[o] = WithMethod(PaymentState(orders[o], "succeeded"), t.method)
          \/ orders'[o] = AddRefund(orders[o], t.amount)
          \/ orders'[o] = PaymentState(orders[o], t.status)
      BY <2>2, <2>3, <2>5 DEF MarkPaidCommit, RefundCommit, CallbackCommit
    <3>2. ASSUME NEW x
          PROVE  /\ \A m : WithMethod(PaymentState(orders[o], x), m).status # "cancelled"
                 /\ AddRefund(orders[o], x).status # "cancelled"
                 /\ PaymentState(orders[o], x).status # "cancelled"
      BY <2>3 DEF WithMethod, PaymentState, AddRefund, OrderRow
    <3> QED  BY <3>1, <3>2
  <2>6. CASE \/ CreateCommit(w) \/ CreateRead(w) \/ MarkPaidRead(w) \/ RefundRead(w)
             \/ CallbackRead(w) \/ UserCancelRead(w) \/ AdminCancelRead(w) \/ Abort(w)
    <3>1. task[w].op = "create" \/ orders' = orders
      BY <2>6 DEF CreateCommit, CreateRead, MarkPaidRead, RefundRead, CallbackRead,
          UserCancelRead, AdminCancelRead, Abort, Accept, orderVars
    <3> QED  BY <2>2, <3>1 DEF Concerns
  <2> QED  BY <2>1, <2>4, <2>5, <2>6 DEF WorkerStep
<1>2. IInv /\ GuardsHold /\ [Next]_vars
        => [\A o \in DOMAIN orders : Cancels(o) => Unsettled(o)]_vars
  BY <1>1
<1> QED  BY <1>2, Invariance, GuardsInvariance, PTL DEF Spec, CancelOnlyUnsettled

(* A step adds at most one movement to a wallet, and a charge only for an  *)
(* order that is new or pending.                                           *)
LEMMA ChargeOfPending ==
  ASSUME IInv, GuardsHold, NEW w \in Worker, WorkerStep(w), NEW x \in DOMAIN orders'
  PROVE  LET l == ledger[orders'[x].user]
             next == ledger'[orders'[x].user]
         IN  /\ orders'[x].user \in User
             /\ x \in DOMAIN orders => orders'[x].user = orders[x].user
             /\ \/ next = l
                \/ \E m : /\ next = Append(l, m)
                          /\ IsCharge(m, x) /\ x \in DOMAIN orders
                               => orders[x].status = "pending_payment"
<1> DEFINE u == orders'[x].user
           move(v, type, amount, p) == [type |-> type, amount |-> amount,
                                        after |-> balance[v] + amount, order |-> p]
           Chargeable(p) == p \in DOMAIN orders => orders[p].status = "pending_payment"
           Moved(v, type, p) ==
             UNCHANGED walletVars \/ \E amount : ApplyTransaction(v, type, amount, p)
           Goal == \/ ledger'[u] = ledger[u]
                   \/ \E m : ledger'[u] = Append(ledger[u], m) /\ (IsCharge(m, x) => Chargeable(x))
<1>0. ledger \in [User -> Seq(Entry)]
  BY DEF IInv, TypeOK, WalletTypeOK
<1>1. u \in User
  <2>1. TypeOK'
    BY StepIInv DEF IInv, Next
  <2> QED  BY <2>1 DEF TypeOK, OrderRow
<1>2. x \in DOMAIN orders => u = orders[x].user
  <2>1. x \in DOMAIN orders => Replaces(orders[x], orders'[x])
    BY CommitCases, RowsKept DEF IInv
  <2> QED  BY <2>1 DEF Replaces
<1>3. PICK v, type, p : Moved(v, type, p) /\ (type = "purchase" => Chargeable(p))
  <2>1. CASE CreateCommit(w)
    BY <2>1 DEF CreateCommit
  <2>2. CASE MarkPaidCommit(w)
    <3>1. orders[task[w].order].status = "pending_payment"
      BY <2>2 DEF GuardsHold, GuardHolds, MarkPaidCommit
    <3> QED  BY <2>2, <3>1 DEF MarkPaidCommit
  <2>3. CASE RefundCommit(w)
    BY <2>3 DEF RefundCommit, RecordRefund
  <2>4. CASE \/ CallbackCommit(w) \/ CancelCommit(w)
             \/ CreateRead(w) \/ MarkPaidRead(w) \/ RefundRead(w) \/ CallbackRead(w)
             \/ UserCancelRead(w) \/ AdminCancelRead(w) \/ Abort(w)
    <3>1. UNCHANGED walletVars
      BY <2>4 DEF CallbackCommit, CancelCommit, CreateRead, MarkPaidRead, RefundRead,
                  CallbackRead, UserCancelRead, AdminCancelRead, Abort, Accept
    <3>2. Moved(0, "refund", 0) /\ "refund" # "purchase"
      BY <3>1
    <3> QED  BY <3>2
  <2> QED  BY <2>1, <2>2, <2>3, <2>4 DEF WorkerStep
<1>4. UNCHANGED walletVars => Goal
  BY DEF walletVars
<1>5. ASSUME NEW amount, ApplyTransaction(v, type, amount, p)  PROVE Goal
  <2> DEFINE m == move(v, type, amount, p)
  <2>1. ledger'[u] = ledger[u] \/ ledger'[u] = Append(ledger[u], m)
    BY <1>0, <1>1, <1>5 DEF ApplyTransaction
  <2>2. IsCharge(m, x) => p = x /\ type = "purchase"
    BY DEF IsCharge
  <2> HIDE DEF m
  <2> QED  BY <1>3, <2>1, <2>2
<1>6. Goal
  BY <1>3, <1>4, <1>5
<1> HIDE DEF u
<1>7. \/ ledger'[u] = ledger[u]
      \/ \E m : /\ ledger'[u] = Append(ledger[u], m)
                /\ IsCharge(m, x) /\ x \in DOMAIN orders
                     => orders[x].status = "pending_payment"
  BY <1>6
<1> QED  BY <1>1, <1>2, <1>7 DEF u

ChargedOnce ==
  \A o \in DOMAIN orders :
    LET charges == ChargesFor(ledger[orders[o].user], o)
    IN  charges = {} \/ \E i : charges = {i}

LEMMA ChargedOnceStep ==
  ASSUME IInv, GuardsHold, ChargesBacked, ChargedOnce, [Next]_vars
  PROVE  ChargedOnce'
<1> SUFFICES ASSUME NEW x \in DOMAIN orders'
             PROVE  LET charges == ChargesFor(ledger'[orders'[x].user], x)
                    IN  charges = {} \/ \E i : charges = {i}
  BY DEF ChargedOnce, ChargesFor, IsCharge
<1>1. CASE UNCHANGED vars
  BY <1>1 DEF vars, ChargedOnce
<1>2. ASSUME NEW w \in Worker, WorkerStep(w)
      PROVE  LET charges == ChargesFor(ledger'[orders'[x].user], x)
             IN  charges = {} \/ \E i : charges = {i}
  <2> DEFINE u == orders'[x].user
             s == ledger[u]
             l == ledger'[u]
             Once(f) == ChargesFor(f, x) = {} \/ \E i : ChargesFor(f, x) = {i}
  <2>1. /\ u \in User
        /\ x \in DOMAIN orders => u = orders[x].user
        /\ \/ l = s
           \/ \E m : /\ l = Append(s, m)
                     /\ IsCharge(m, x) /\ x \in DOMAIN orders
                          => orders[x].status = "pending_payment"
    BY <1>2, ChargeOfPending
  <2>2. s \in Seq(Entry)
    BY <2>1 DEF IInv, TypeOK, WalletTypeOK
  <2>3. /\ x \notin DOMAIN orders => ChargesFor(s, x) = {}
        /\ x \in DOMAIN orders /\ orders[x].status = "pending_payment" => ChargesFor(s, x) = {}
    BY <2>1 DEF ChargesBacked, ChargesFor, IsCharge, IInv, RowsConsistent
  <2>4. Once(s)
    BY <2>1, <2>3 DEF ChargedOnce
  <2> HIDE DEF u, s, l
  <2>5. ASSUME NEW m, l = Append(s, m),
               IsCharge(m, x) /\ x \in DOMAIN orders => orders[x].status = "pending_payment"
        PROVE  Once(l)
    <3>1. CASE IsCharge(m, x)
      <4>1. ChargesFor(l, x) = {Len(s) + 1}
        BY <2>2, <2>3, <2>5, <3>1, AppendFirstCharge
      <4> QED  BY <4>1
    <3>2. CASE ~ IsCharge(m, x)
      <4>1. ChargesFor(l, x) = ChargesFor(s, x)
        BY <2>2, <2>5, <3>2, AppendKeepsCharges
      <4> QED  BY <2>4, <4>1
    <3> QED  BY <3>1, <3>2
  <2>6. Once(l)
    BY <2>1, <2>4, <2>5
  <2> QED  BY <2>6 DEF u, l
<1> QED  BY <1>1, <1>2 DEF Next

(* No order is charged twice, unless two requests that settle it overlap   *)
(* (MarkPaidLogic.MarkPaid).                                               *)
THEOREM ChargedOnceAlone == Spec /\ []Alone => []ChargedAtMostOnce
<1>1. Init => ChargedOnce
  BY DEF Init, ChargedOnce
<1>2. ChargedOnce => ChargedAtMostOnce
  <2> SUFFICES ASSUME ChargedOnce, NEW o \in DOMAIN orders
               PROVE  Cardinality(Movements(o, "purchase")) <= 1
    BY DEF ChargedAtMostOnce
  <2>1. Movements(o, "purchase") = ChargesFor(ledger[orders[o].user], o)
    BY DEF Movements, ChargesFor, IsCharge
  <2>2. CASE ChargesFor(ledger[orders[o].user], o) = {}
    BY <2>1, <2>2, FS_EmptySet
  <2>3. ASSUME NEW i, ChargesFor(ledger[orders[o].user], o) = {i}
        PROVE  Cardinality(Movements(o, "purchase")) <= 1
    <3>1. Cardinality({i}) = 1
      BY FS_Singleton
    <3> QED  BY <2>1, <2>3, <3>1
  <2> QED  BY <2>2, <2>3 DEF ChargedOnce
<1> QED  BY <1>1, <1>2, ChargedOnceStep, Invariance, GuardsInvariance, NoStrayCharge, PTL
         DEF Spec

-----------------------------------------------------------------------------
(* Induction, for sets of numbers: a set of naturals has a least member,   *)
(* since the intervals up to its members are well founded.                 *)
LEMMA LeastOfNaturals ==
  ASSUME NEW T \in SUBSET Nat, T # {}
  PROVE  \E n \in T : \A m \in T : n <= m
<1>1. PICK n0 \in T : TRUE
  OBVIOUS
<1> DEFINE S == 0 .. n0
           F == {X \in SUBSET S : \E k \in T : X = 0 .. k}
<1>2. IsWellFoundedOn(StrictSubsetOrdering(S), FiniteSubsetsOf(S))
  BY FS_StrictSubsetOrderingWellFounded
<1>3. IsFiniteSet(S)
  BY <1>1, FS_Interval
<1>4. F \subseteq FiniteSubsetsOf(S)
  BY <1>3, FS_FiniteSubsetsOfFinite
<1>5. F # {}
  <2>1. S \in F
    BY <1>1
  <2> QED  BY <2>1
<1>6. PICK X \in F : \A Y \in F : ~ (<<Y, X>> \in StrictSubsetOrdering(S))
  BY <1>2, <1>4, <1>5, WFMin
<1>7. PICK k \in T : X = 0 .. k
  BY <1>6
<1>8. ASSUME NEW m \in T, m < k  PROVE FALSE
  <2>1. 0 .. m \subseteq X /\ k \notin 0 .. m /\ k \in X
    BY <1>7, <1>8
  <2>2. 0 .. m \in F
    BY <2>1, <1>6
  <2>3. <<0 .. m, X>> \in StrictSubsetOrdering(S)
    BY <2>1, <2>2 DEF StrictSubsetOrdering
  <2> QED  BY <1>6, <2>2, <2>3
<1> QED  BY <1>7, <1>8

LEMMA Induction ==
  ASSUME NEW T \in SUBSET Nat, 0 \in T, \A n \in T : n + 1 \in T
  PROVE  T = Nat
<1> SUFFICES ASSUME T # Nat PROVE FALSE
  OBVIOUS
<1>1. PICK n \in Nat \ T : \A m \in Nat \ T : n <= m
  BY LeastOfNaturals
<1>2. n - 1 \in T /\ n - 1 + 1 = n
  BY <1>1
<1> QED  BY <1>1, <1>2

(* f holds the sums of the first members of s. *)
Sums(f, s) ==
  /\ f \in [0 .. Len(s) -> Int]
  /\ f[0] = 0
  /\ \A n \in 1 .. Len(s) : f[n] = f[n - 1] + s[n]

LEMMA SumsExist ==
  ASSUME NEW s \in Seq(Int)
  PROVE  \E f : Sums(f, s)
<1> DEFINE N == Len(s)
           Upto(f, n) == /\ f \in [0 .. n -> Int]
                         /\ f[0] = 0
                         /\ \A i \in 1 .. n : f[i] = f[i - 1] + s[i]
           T == {n \in Nat : n <= N => \E f : Upto(f, n)}
<1>0. N \in Nat /\ \A i \in 1 .. N : s[i] \in Int
  OBVIOUS
<1>1. \E f : Upto(f, 0)
  <2>1. Upto([i \in 0 .. 0 |-> 0], 0)
    OBVIOUS
  <2> QED  BY <2>1
<1>2. ASSUME NEW n \in Nat, n + 1 <= N, NEW f, Upto(f, n)
      PROVE  \E g : Upto(g, n + 1)
  <2> DEFINE g == [i \in 0 .. n + 1 |-> IF i = n + 1 THEN f[n] + s[n + 1] ELSE f[i]]
  <2>1. s[n + 1] \in Int /\ f \in [0 .. n -> Int]
    BY <1>0, <1>2
  <2>2. g \in [0 .. n + 1 -> Int] /\ g[0] = 0
    BY <1>2, <2>1
  <2>3. ASSUME NEW i \in 1 .. n + 1 PROVE g[i] = g[i - 1] + s[i]
    BY <1>2, <2>1
  <2> HIDE DEF g
  <2> QED  BY <2>2, <2>3
<1> HIDE DEF Upto
<1>3. 0 \in T
  BY <1>1
<1>4. ASSUME NEW n \in T PROVE n + 1 \in T
  <2>1. n \in Nat /\ (n <= N => \E f : Upto(f, n))
    OBVIOUS
  <2>2. n + 1 <= N => \E f : Upto(f, n + 1)
    BY <1>0, <1>2, <2>1
  <2> QED  BY <2>1, <2>2
<1> HIDE DEF T
<1>5. T = Nat
  <2>1. T \in SUBSET Nat
    BY DEF T
  <2> QED  BY <1>3, <1>4, <2>1, Induction
<1>6. \E f : Upto(f, N)
  BY <1>0, <1>5 DEF T
<1> QED  BY <1>6 DEF Sums, Upto

LEMMA SumIs ==
  ASSUME NEW s \in Seq(Int), NEW f, Sums(f, s)
  PROVE  SumOf(s) = f[Len(s)]
<1> DEFINE N == Len(s)
           Solves(g) == g = [n \in 0 .. N |-> IF n = 0 THEN 0 ELSE g[n - 1] + s[n]]
           h == CHOOSE g : Solves(g)
           T == {n \in Nat : n <= N => h[n] = f[n]}
<1>0. N \in Nat
  OBVIOUS
<1>1. Solves(f)
  BY DEF Sums
<1>2. Solves(h)
  BY <1>1
<1>3. h[0] = 0 /\ \A n \in 1 .. N : h[n] = h[n - 1] + s[n]
  <2> HIDE DEF h
  <2> QED  BY <1>0, <1>2
<1> HIDE DEF h
<1>4. 0 \in T
  BY <1>3 DEF Sums
<1>5. ASSUME NEW n \in T PROVE n + 1 \in T
  <2> SUFFICES ASSUME n + 1 <= N PROVE h[n + 1] = f[n + 1]
    OBVIOUS
  <2>1. n \in Nat /\ n + 1 \in 1 .. N /\ n + 1 - 1 = n /\ h[n] = f[n]
    BY <1>0
  <2> QED  BY <1>3, <2>1 DEF Sums
<1> HIDE DEF T
<1>6. T = Nat
  <2>1. T \in SUBSET Nat
    BY DEF T
  <2> QED  BY <1>4, <1>5, <2>1, Induction
<1>7. h[N] = f[N]
  BY <1>0, <1>6 DEF T
<1>8. SumOf(s) = h[N]
  BY DEF SumOf, h
<1> QED  BY <1>7, <1>8

LEMMA SumIsInt ==
  ASSUME NEW s \in Seq(Int)
  PROVE  SumOf(s) \in Int
<1>1. PICK f : Sums(f, s)
  BY SumsExist
<1>2. f[Len(s)] \in Int
  BY <1>1 DEF Sums
<1> QED  BY <1>1, <1>2, SumIs

LEMMA SumOfNothing ==
  ASSUME NEW s \in Seq(Int), \A i \in DOMAIN s : s[i] = 0
  PROVE  SumOf(s) = 0
<1> DEFINE f == [n \in 0 .. Len(s) |-> 0]
<1>1. Len(s) \in Nat /\ DOMAIN s = 1 .. Len(s)
  OBVIOUS
<1>2. Sums(f, s)
  BY <1>1 DEF Sums
<1>3. f[Len(s)] = 0
  BY <1>1
<1> HIDE DEF f
<1> QED  BY <1>2, <1>3, SumIs

LEMMA SumOfAppend ==
  ASSUME NEW s \in Seq(Int), NEW a \in Int
  PROVE  SumOf(Append(s, a)) = SumOf(s) + a
<1>1. PICK f : Sums(f, s)
  BY SumsExist
<1> DEFINE l == Append(s, a)
           N == Len(s)
           g == [n \in 0 .. N + 1 |-> IF n = N + 1 THEN f[N] + a ELSE f[n]]
<1>2. /\ l \in Seq(Int) /\ N \in Nat /\ Len(l) = N + 1 /\ l[N + 1] = a
      /\ \A n \in 1 .. N : l[n] = s[n]
  OBVIOUS
<1> HIDE DEF l
<1>3. f \in [0 .. N -> Int] /\ f[0] = 0 /\ \A n \in 1 .. N : f[n] = f[n - 1] + s[n]
  BY <1>1 DEF Sums
<1>4. g \in [0 .. N + 1 -> Int] /\ g[0] = 0
  BY <1>2, <1>3
<1>5. ASSUME NEW n \in 1 .. N + 1 PROVE g[n] = g[n - 1] + l[n]
  BY <1>2, <1>3
<1>6. g[N + 1] = f[N] + a
  BY <1>2
<1> HIDE DEF g
<1>7. Sums(g, l)
  BY <1>2, <1>4, <1>5 DEF Sums
<1>8. SumOf(l) = g[N + 1]
  BY <1>2, <1>7, SumIs
<1>9. SumOf(s) = f[N]
  BY <1>1, SumIs
<1> QED  BY <1>6, <1>8, <1>9 DEF l

-----------------------------------------------------------------------------
(* What movement m refunds of order o. *)
Credit(m, o) == IF m.order = o /\ m.type = "refund" THEN m.amount ELSE 0

LEMMA RefundsOfAppend ==
  ASSUME NEW l \in Seq(Entry), NEW m, NEW o, Credit(m, o) \in Int
  PROVE  /\ RefundsOf(l, o) \in Seq(Int)
         /\ DOMAIN RefundsOf(l, o) = DOMAIN l
         /\ \A i \in DOMAIN l : RefundsOf(l, o)[i] = Credit(l[i], o)
         /\ RefundsOf(Append(l, m), o) = Append(RefundsOf(l, o), Credit(m, o))
<1> DEFINE N == Len(l)
           next == Append(l, m)
           s == RefundsOf(l, o)
           c == Credit(m, o)
<1>1. /\ N \in Nat /\ DOMAIN l = 1 .. N
      /\ DOMAIN next = 1 .. N + 1 /\ next[N + 1] = m
      /\ \A i \in 1 .. N : next[i] = l[i] /\ l[i] \in Entry
  OBVIOUS
<1> HIDE DEF next
<1>2. s = [i \in 1 .. N |-> Credit(l[i], o)]
  BY <1>1 DEF RefundsOf, Credit
<1>3. \A i \in 1 .. N : Credit(l[i], o) \in Int
  BY <1>1 DEF Entry, Credit
<1>4. RefundsOf(next, o) = [i \in 1 .. N + 1 |-> Credit(next[i], o)]
  BY <1>1 DEF RefundsOf, Credit
<1> HIDE DEF s, c
<1>5. s \in Seq(Int) /\ Len(s) = N
  BY <1>1, <1>2, <1>3
<1>6. Append(s, c) = [i \in 1 .. N + 1 |-> IF i = N + 1 THEN c ELSE s[i]]
  <2>1. c \in Int
    BY DEF c
  <2> DEFINE q == Append(s, c)
  <2>2. /\ q \in Seq(Int) /\ Len(q) = N + 1
        /\ \A i \in 1 .. N + 1 : q[i] = IF i = N + 1 THEN c ELSE s[i]
    BY <1>1, <1>5, <2>1
  <2> HIDE DEF q
  <2>3. q \in [1 .. N + 1 -> Int]
    BY <2>2
  <2>4. q = [i \in 1 .. N + 1 |-> IF i = N + 1 THEN c ELSE s[i]]
    BY <2>2, <2>3
  <2> QED  BY <2>4 DEF q
<1>7. \A i \in 1 .. N + 1 : Credit(next[i], o) = IF i = N + 1 THEN c ELSE s[i]
  BY <1>1, <1>2 DEF c
<1>8. RefundsOf(next, o) = Append(s, c)
  BY <1>4, <1>6, <1>7
<1> QED  BY <1>1, <1>2, <1>5, <1>8 DEF s, c, next

(* Nothing was refunded of an order that is not there yet. *)
RefundsBacked ==
  /\ \A o \in OrderId \ DOMAIN orders : refunds[o] = << >>
  /\ \A u \in User : \A i \in DOMAIN ledger[u] :
       ledger[u][i].type = "refund" => ledger[u][i].order \in DOMAIN orders

(* A step moves at most one wallet; if it credits order x, it refunds that *)
(* much in the three places.                                               *)
LEMMA RefundMoves ==
  ASSUME IInv, NEW w \in Worker, WorkerStep(w)
  PROVE  \/ /\ UNCHANGED refunds
            /\ \A x \in DOMAIN orders : orders'[x].refunded = orders[x].refunded
            /\ \/ UNCHANGED walletVars
               \/ \E v, amount, p : ApplyTransaction(v, "purchase", amount, p)
         \/ \E o \in DOMAIN orders, a \in Nat \ {0} :
              /\ ApplyTransaction(orders[o].user, "refund", a, o)
              /\ refunds' = [refunds EXCEPT ![o] = Append(@, a)]
              /\ orders' = [orders EXCEPT ![o] = AddRefund(@, a)]
<1> DEFINE t == task[w]
           o == t.order
           Same == \A x \in DOMAIN orders : orders'[x].refunded = orders[x].refunded
<1>1. /\ t \in Task /\ orders \in [DOMAIN orders -> OrderRow]
  BY DEF IInv, TypeOK
<1>2. CASE CreateCommit(w)
  <2>1. PICK p \in OrderId \ DOMAIN orders : Inserts(p, t.user, t.key, t.method, t.total)
    BY <1>2 DEF CreateCommit, Inserts, Owed
  <2>2. /\ t.user \in User /\ t.key \in Key \cup {NoKey}
        /\ t.method \in {"balance", "external"} /\ t.total \in Nat
    BY <1>1, <1>2, TaskFields DEF CreateCommit
  <2>3. Same
    BY <2>1, <2>2, CreatedRow DEF IInv, Inserted
  <2> QED  BY <1>2, <2>3 DEF CreateCommit
<1>3. CASE MarkPaidCommit(w) \/ CallbackCommit(w) \/ CancelCommit(w)
  <2>1. ASSUME NEW r \in OrderRow, NEW s, NEW m
        PROVE  /\ WithMethod(PaymentState(r, s), m).refunded = r.refunded
               /\ PaymentState(r, s).refunded = r.refunded
               /\ Cancelled(r).refunded = r.refunded
    BY DEF WithMethod, PaymentState, Cancelled, OrderRow
  <2>2. \E s, m : orders' \in {[orders EXCEPT ![o] = WithMethod(PaymentState(orders[o], s), m)],
                               [orders EXCEPT ![o] = PaymentState(orders[o], s)],
                               [orders EXCEPT ![o] = Cancelled(orders[o])]}
    BY <1>3 DEF MarkPaidCommit, CallbackCommit, CancelCommit
  <2>3. Same
    BY <1>1, <2>1, <2>2
  <2>4. /\ UNCHANGED refunds
        /\ \/ UNCHANGED walletVars
           \/ \E v, amount, p : ApplyTransaction(v, "purchase", amount, p)
    BY <1>3 DEF MarkPaidCommit, CallbackCommit, CancelCommit
  <2> QED  BY <2>3, <2>4
<1>4. CASE RefundCommit(w)
  <2> DEFINE a == t.amount
  <2>1. o \in DOMAIN orders
    BY <1>4 DEF IInv, SnapshotsStand, RefundCommit
  <2>2. a \in Int /\ a > 0
    BY <1>1, <1>4, TaskFields DEF RefundCommit, RecordRefund
  <2>3. /\ ApplyTransaction(orders[o].user, "refund", a, o)
        /\ refunds' = [refunds EXCEPT ![o] = Append(refunds[o], a)]
        /\ orders' = [orders EXCEPT ![o] = AddRefund(orders[o], a)]
    BY <1>4 DEF RefundCommit, RecordRefund
  <2>4. a \in Nat \ {0}
    BY <2>2
  <2> HIDE DEF a, o
  <2> QED  BY <2>1, <2>3, <2>4
<1>5. CASE \/ CreateRead(w) \/ MarkPaidRead(w) \/ RefundRead(w) \/ CallbackRead(w)
           \/ UserCancelRead(w) \/ AdminCancelRead(w) \/ Abort(w)
  <2>1. UNCHANGED <<walletVars, orders, refunds>>
    BY <1>5 DEF CreateRead, MarkPaidRead, RefundRead, CallbackRead, UserCancelRead,
                AdminCancelRead, Abort, Accept, orderVars
  <2> QED  BY <2>1
<1> QED  BY <1>2, <1>3, <1>4, <1>5 DEF WorkerStep

(* A new order has had no refund. *)
LEMMA NewOrderUnrefunded ==
  ASSUME IInv, NEW w \in Worker, WorkerStep(w), NEW x \in DOMAIN orders', x \notin DOMAIN orders
  PROVE  orders'[x].refunded = 0
<1>1. Quiet \/ Created \/ Changed
  BY CommitCases
<1>2. ~ Quiet /\ ~ Changed
  BY DEF Quiet, Changed
<1>3. PICK o \in OrderId \ DOMAIN orders, u \in User, k \in Key \cup {NoKey},
          m \in {"balance", "external"}, total \in Nat :
        Inserts(o, u, k, m, total)
  BY <1>1, <1>2 DEF Created
<1>4. Inserted(o, u, k, m, total)
  BY <1>3, CreatedRow DEF IInv
<1> QED  BY <1>4 DEF Inserted, NewOrder

(* What the wallet of u has been credited for x after a step.             *)
LEMMA CreditedStep ==
  ASSUME IInv, TypeOK', NEW u \in User, NEW x,
         NEW v, NEW type, NEW amount, NEW p, ApplyTransaction(v, type, amount, p),
         type = "refund" => amount \in Int
  PROVE  SumOf(RefundsOf(ledger'[u], x)) =
           SumOf(RefundsOf(ledger[u], x)) +
             IF v = u /\ type = "refund" /\ p = x THEN amount ELSE 0
<1> DEFINE m == [type |-> type, amount |-> amount, after |-> balance[v] + amount, order |-> p]
<1>1. ledger \in [User -> Seq(Entry)]
  BY DEF IInv, TypeOK, WalletTypeOK
<1>2. /\ v = u => ledger'[u] = Append(ledger[u], m)
      /\ v # u => ledger'[u] = ledger[u]
  BY <1>1 DEF ApplyTransaction
<1>3. Credit(m, x) = IF type = "refund" /\ p = x THEN amount ELSE 0
  BY DEF Credit
<1>4. Credit(m, x) \in Int
  BY <1>3
<1> HIDE DEF m
<1>5. ledger[u] \in Seq(Entry)
  BY <1>1
<1>6. /\ RefundsOf(ledger[u], x) \in Seq(Int)
      /\ RefundsOf(Append(ledger[u], m), x) = Append(RefundsOf(ledger[u], x), Credit(m, x))
  BY <1>4, <1>5, RefundsOfAppend
<1>7. SumOf(RefundsOf(Append(ledger[u], m), x)) = SumOf(RefundsOf(ledger[u], x)) + Credit(m, x)
  BY <1>4, <1>6, SumOfAppend
<1>8. SumOf(RefundsOf(ledger[u], x)) \in Int
  BY <1>6, SumIsInt
<1>9. CASE v = u
  BY <1>2, <1>3, <1>7, <1>9
<1>10. CASE v # u
  BY <1>2, <1>8, <1>10
<1> QED  BY <1>9, <1>10

LEMMA RefundsBackedStep ==
  ASSUME IInv, RefundsBacked, [Next]_vars
  PROVE  RefundsBacked'
<1>0. /\ ledger \in [User -> Seq(Entry)] /\ refunds \in [OrderId -> Seq(Nat)]
      /\ DOMAIN orders \subseteq OrderId
  BY DEF IInv, TypeOK, WalletTypeOK
<1>1. DOMAIN orders \subseteq DOMAIN orders'
  BY StepCases, RowsKept DEF IInv
<1>2. CASE UNCHANGED vars
  BY <1>2 DEF vars, RefundsBacked
<1>3. ASSUME NEW w \in Worker, WorkerStep(w)  PROVE RefundsBacked'
  <2>1. \A o \in OrderId \ DOMAIN orders : refunds'[o] = refunds[o]
    BY <1>0, <1>3, RefundMoves
  <2>2. ASSUME NEW u \in User, NEW i \in DOMAIN ledger'[u], ledger'[u][i].type = "refund"
        PROVE  ledger'[u][i].order \in DOMAIN orders
    <3>1. CASE UNCHANGED walletVars
      BY <2>2, <3>1 DEF walletVars, RefundsBacked
    <3>2. ASSUME NEW v, NEW type, NEW amount, NEW p, ApplyTransaction(v, type, amount, p),
                 type = "refund" => p \in DOMAIN orders
          PROVE  ledger'[u][i].order \in DOMAIN orders
      <4> DEFINE m == [type |-> type, amount |-> amount, after |-> balance[v] + amount, order |-> p]
      <4>1. ledger'[u] = ledger[u] \/ ledger'[u] = Append(ledger[u], m)
        BY <1>0, <3>2 DEF ApplyTransaction
      <4>2. m.type = type /\ m.order = p
        OBVIOUS
      <4> HIDE DEF m
      <4>3. ledger[u] \in Seq(Entry)
        BY <1>0
      <4>4. \/ i \in DOMAIN ledger[u] /\ ledger'[u][i] = ledger[u][i]
            \/ ledger'[u][i] = m
        BY <2>2, <4>1, <4>3
      <4> QED  BY <2>2, <3>2, <4>2, <4>4 DEF RefundsBacked
    <3> QED  BY <1>3, <3>1, <3>2, RefundMoves
  <2> QED  BY <1>1, <2>1, <2>2 DEF RefundsBacked
<1> QED  BY <1>2, <1>3 DEF Next

(* The three places a refund is written to stay equal.                     *)
LEMMA ReconcileStep ==
  ASSUME IInv, RefundsBacked, RefundsReconcile, [Next]_vars
  PROVE  RefundsReconcile'
<1> SUFFICES ASSUME NEW x \in DOMAIN orders'
             PROVE  LET r == orders'[x]
                    IN  /\ r.refunded = SumOf(refunds'[x])
                        /\ r.refunded = SumOf(RefundsOf(ledger'[r.user], x))
                        /\ r.refunded <= r.total
  BY DEF RefundsReconcile, RefundRows, Credited, RefundsOf
<1> DEFINE u == orders'[x].user
<1>0. /\ ledger \in [User -> Seq(Entry)] /\ refunds \in [OrderId -> Seq(Nat)]
      /\ orders \in [DOMAIN orders -> OrderRow] /\ DOMAIN orders \subseteq OrderId
  BY DEF IInv, TypeOK, WalletTypeOK
<1>1. IInv'
  BY StepIInv
<1>2. /\ u \in User /\ x \in OrderId /\ orders'[x].refunded <= orders'[x].total
      /\ x \in DOMAIN orders => u = orders[x].user
  <2>1. x \in DOMAIN orders => Replaces(orders[x], orders'[x])
    BY StepCases, RowsKept DEF IInv
  <2> QED  BY <1>1, <2>1 DEF IInv, TypeOK, OrderRow, RowsConsistent, Replaces
<1>3. CASE UNCHANGED vars
  BY <1>2, <1>3 DEF vars, RefundsReconcile, RefundRows, Credited
<1>4. ASSUME NEW w \in Worker, WorkerStep(w)
      PROVE  /\ orders'[x].refunded = SumOf(refunds'[x])
             /\ orders'[x].refunded = SumOf(RefundsOf(ledger'[u], x))
  <2> DEFINE before == IF x \in DOMAIN orders THEN orders[x].refunded ELSE 0
  <2>1. SumOf(refunds[x]) = before /\ SumOf(RefundsOf(ledger[u], x)) = before /\ before \in Int
    <3>1. CASE x \in DOMAIN orders
      BY <1>0, <1>2, <3>1 DEF RefundsReconcile, RefundRows, Credited, OrderRow
    <3>2. CASE x \notin DOMAIN orders
      <4>1. refunds[x] = << >>
        BY <1>2, <3>2 DEF RefundsBacked
      <4>2. SumOf(<< >>) = 0
        <5>1. << >> \in Seq(Int) /\ \A i \in DOMAIN << >> : << >>[i] = 0
          OBVIOUS
        <5> QED  BY <5>1, SumOfNothing
      <4>3. ledger[u] \in Seq(Entry)
        BY <1>0, <1>2
      <4>4. \A i \in DOMAIN ledger[u] : Credit(ledger[u][i], x) = 0
        BY <1>2, <3>2 DEF RefundsBacked, Credit
      <4> DEFINE s == RefundsOf(ledger[u], x)
      <4>5. s \in Seq(Int) /\ \A i \in DOMAIN s : s[i] = 0
        <5>1. ASSUME NEW m, Credit(m, x) \in Int PROVE s \in Seq(Int) /\ \A i \in DOMAIN s : s[i] = 0
          BY <4>3, <4>4, <5>1, RefundsOfAppend
        <5>2. Credit([order |-> x, type |-> "refund", amount |-> 0], x) \in Int
          BY DEF Credit
        <5> QED  BY <5>1, <5>2
      <4>6. SumOf(s) = 0
        BY <4>5, SumOfNothing
      <4> QED  BY <3>2, <4>1, <4>2, <4>6
    <3> QED  BY <3>1, <3>2
  <2>2. x \notin DOMAIN orders => orders'[x].refunded = 0
    BY <1>4, NewOrderUnrefunded
  <2>3. TypeOK'
    BY <1>1 DEF IInv
  <2>4. CASE /\ UNCHANGED refunds
             /\ \A y \in DOMAIN orders : orders'[y].refunded = orders[y].refunded
             /\ \/ UNCHANGED walletVars
                \/ \E v, amount, p : ApplyTransaction(v, "purchase", amount, p)
    <3>1. orders'[x].refunded = before
      BY <2>2, <2>4
    <3>2. SumOf(RefundsOf(ledger'[u], x)) = before
      <4>1. CASE UNCHANGED walletVars
        BY <2>1, <4>1 DEF walletVars
      <4>2. ASSUME NEW v, NEW amount, NEW p, ApplyTransaction(v, "purchase", amount, p)
            PROVE  SumOf(RefundsOf(ledger'[u], x)) = before
        <5>1. "purchase" # "refund"
          OBVIOUS
        <5>2. u \in User
          BY <1>2
        <5> HIDE DEF u
        <5>3. SumOf(RefundsOf(ledger'[u], x)) = SumOf(RefundsOf(ledger[u], x)) + 0
          BY <2>3, <4>2, <5>1, <5>2, CreditedStep
        <5> QED  BY <2>1, <5>3
      <4> QED  BY <2>4, <4>1, <4>2
    <3> QED  BY <2>1, <2>4, <3>1, <3>2
  <2>5. ASSUME NEW o \in DOMAIN orders, NEW a \in Nat \ {0},
               ApplyTransaction(orders[o].user, "refund", a, o),
               refunds' = [refunds EXCEPT ![o] = Append(@, a)],
               orders' = [orders EXCEPT ![o] = AddRefund(@, a)]
        PROVE  /\ orders'[x].refunded = SumOf(refunds'[x])
               /\ orders'[x].refunded = SumOf(RefundsOf(ledger'[u], x))
    <3>1. x \in DOMAIN orders
      BY <1>0, <2>5
    <3>2. SumOf(RefundsOf(ledger'[u], x)) = before + IF orders[o].user = u /\ o = x THEN a ELSE 0
      <4>1. u \in User /\ a \in Int
        BY <1>2
      <4> HIDE DEF u
      <4>2. SumOf(RefundsOf(ledger'[u], x)) =
              SumOf(RefundsOf(ledger[u], x)) +
                IF orders[o].user = u /\ "refund" = "refund" /\ o = x THEN a ELSE 0
        BY <2>3, <2>5, <4>1, CreditedStep
      <4> QED  BY <2>1, <4>2
    <3>3. CASE o = x
      <4>1. orders'[x].refunded = before + a
        BY <1>0, <2>5, <3>1, <3>3 DEF AddRefund, OrderRow
      <4>2. refunds'[x] = Append(refunds[x], a) /\ refunds[x] \in Seq(Int)
        BY <1>0, <1>2, <2>5, <3>3
      <4>3. SumOf(refunds'[x]) = before + a
        BY <2>1, <4>2, SumOfAppend
      <4> QED  BY <1>2, <3>1, <3>2, <3>3, <4>1, <4>3
    <3>4. CASE o # x
      <4>1. orders'[x] = orders[x] /\ refunds'[x] = refunds[x]
        BY <1>0, <1>2, <2>5, <3>1, <3>4
      <4> QED  BY <2>1, <3>1, <3>2, <3>4, <4>1
    <3> QED  BY <3>3, <3>4
  <2> QED  BY <1>4, <2>4, <2>5, RefundMoves
<1> QED  BY <1>2, <1>3, <1>4 DEF Next

(* However refunds overlap, orders.refunded_cents, order_refunds and the   *)
(* wallet agree on what was given back, which is never more than the order *)
(* cost (RefundLogic.Refund, AddRefund).                                   *)
THEOREM RefundsAlwaysReconcile == Spec => []RefundsReconcile
<1>1. Init => RefundsBacked /\ RefundsReconcile
  BY DEF Init, WalletInit, SeededLedger, RefundsBacked, RefundsReconcile
<1> QED  BY <1>1, RefundsBackedStep, ReconcileStep, Invariance, PTL DEF Spec

(* The balance in a wallet's row is the sum of all its movements, from the *)
(* seeded recharge on: ApplyTransaction never books one without the other. *)
Amounts(l) == [i \in DOMAIN l |-> l[i].amount]

THEOREM BalanceIsTheSum == Spec => [](\A u \in User : balance[u] = SumOf(Amounts(ledger[u])))
<1>1. ASSUME IInv, NEW u \in User  PROVE balance[u] = SumOf(Amounts(ledger[u]))
  <2> DEFINE l == ledger[u]
             N == Len(l)
             f == [n \in 0 .. N |-> BalanceAfter(l, n)]
  <2>1. /\ l \in Seq(Entry) /\ Chained(l) /\ balance[u] = BalanceAfter(l, N)
    BY <1>1 DEF IInv, TypeOK, WalletTypeOK, LedgerChain
  <2> HIDE DEF l
  <2>2. N \in Nat /\ DOMAIN l = 1 .. N /\ \A i \in 1 .. N : l[i] \in Entry
    BY <2>1
  <2>3. \A i \in 1 .. N : l[i].amount \in Int /\ l[i].after \in Int
    BY <2>2 DEF Entry
  <2>4. Amounts(l) = [i \in 1 .. N |-> l[i].amount]
    BY <2>2 DEF Amounts
  <2>5. Amounts(l) \in Seq(Int) /\ Len(Amounts(l)) = N
    BY <2>2, <2>3, <2>4
  <2>6. f \in [0 .. N -> Int] /\ f[0] = 0
    BY <2>2, <2>3 DEF BalanceAfter
  <2>7. \A n \in 1 .. N : f[n] = f[n - 1] + Amounts(l)[n]
    BY <2>1, <2>2, <2>3, <2>4 DEF Chained, BalanceAfter
  <2>8. f[N] = BalanceAfter(l, N)
    BY <2>2
  <2> HIDE DEF f
  <2>9. Sums(f, Amounts(l))
    BY <2>5, <2>6, <2>7 DEF Sums
  <2>10. SumOf(Amounts(l)) = f[N]
    BY <2>5, <2>9, SumIs
  <2> QED  BY <2>1, <2>8, <2>10 DEF l
<1>2. IInv => \A u \in User : balance[u] = SumOf(Amounts(ledger[u]))
  BY <1>1
<1> QED  BY <1>2, Invariance, PTL

=============================================================================
