------------------------------- MODULE Billing -------------------------------
(***************************************************************************)
(* The order handlers of logic/user/order and logic/admin/orders, run by   *)
(* concurrent workers on one database.                                     *)
(*                                                                         *)
(* Every handler reads the order and its payments outside any transaction, *)
(* checks its guards on that snapshot, and only then opens the transaction *)
(* that writes.  The ...Read actions are the first half: they leave behind *)
(* what the second half still uses of the request (all it uses of the      *)
(* order, its owner and its total, never changes).  The ...Commit actions  *)
(* are the transaction, which locks its rows but checks hardly any guard   *)
(* again.  A handler that returns early changes nothing, and is not a step.*)
(***************************************************************************)
EXTENDS Wallet, OrderRows, FiniteSets

CONSTANTS
  Key,        \* idempotency keys a client may send
  NoKey,      \* the NULL key, which the unique index ignores
  Worker,     \* requests the server works on at the same time
  Price,      \* plans.price_cents of the plans on sale, over time
  Quantity,   \* quantities clients ask for
  Refundable, \* amounts administrators ask to refund
  PaidBy      \* payment methods they type when marking an order paid, or ""

ASSUME BillingAssumption ==
  /\ NoKey \notin Key
  /\ Price \subseteq Nat
  /\ Quantity \subseteq Int
  /\ Refundable \subseteq Int
  /\ PaidBy \subseteq PaymentMethod \cup {""}

VARIABLES
  orders,     \* orders: a row for each order id in use
  payments,   \* order_payments.status, for the orders that have a payment
  refunds,    \* order_refunds: the refunded amounts of each order
  task        \* what each worker is about to commit

orderVars == <<orders, payments, refunds>>
vars == <<balance, ledger, orders, payments, refunds, task>>

-----------------------------------------------------------------------------
ClampQuantity(q) == IF q <= 0 THEN 1 ELSE IF q > 10 THEN 10 ELSE q

Total == {p * ClampQuantity(q) : p \in Price, q \in Quantity}

OrderRow ==
  [user : User, key : Key \cup {NoKey}, total : Nat, status : OrderStatus,
   method : PaymentMethod, payment : PaymentStatus, refunded : Nat,
   paidAt : BOOLEAN, cancelledAt : BOOLEAN]

Idle == [op |-> "idle"]

CreateTask == [op : {"create"}, user : User, key : Key \cup {NoKey},
               method : {"balance", "external"}, total : Total]
MarkPaidTask == [op : {"markPaid"}, order : OrderId, charge : BOOLEAN,
                 method : PaymentMethod \cup {""}]
RefundTask == [op : {"refund"}, order : OrderId, amount : Refundable]
CallbackTask == [op : {"callback"}, order : OrderId,
                 status : {"succeeded", "failed"}]
CancelTask == [op : {"userCancel", "adminCancel"}, order : OrderId]

Task == {Idle} \cup CreateTask \cup MarkPaidTask \cup RefundTask
          \cup CallbackTask \cup CancelTask

TypeOK ==
  /\ WalletTypeOK
  /\ DOMAIN orders \subseteq OrderId
  /\ orders \in [DOMAIN orders -> OrderRow]
  /\ DOMAIN payments \subseteq DOMAIN orders
  /\ payments \in [DOMAIN payments -> PaymentStatus]
  /\ refunds \in [OrderId -> Seq(Nat)]
  /\ task \in [Worker -> Task]

Init ==
  /\ WalletInit
  /\ orders = << >>
  /\ payments = << >>
  /\ refunds = [o \in OrderId |-> << >>]
  /\ task = [w \in Worker |-> Idle]

-----------------------------------------------------------------------------
(* Worker w takes a request whose guards hold now, and carries t forward.  *)
Accept(w, t) ==
  /\ task[w] = Idle
  /\ task' = [task EXCEPT ![w] = t]
  /\ UNCHANGED <<walletVars, orderVars>>

(* The transaction of worker w ends, and the request with it. *)
Finish(w) == task' = [task EXCEPT ![w] = Idle]

(* The transaction fails (lost connection, deadlock victim, cancelled      *)
(* context, refused guard, unique violation) and is rolled back, or the    *)
(* process dies: nothing of it is left.                                    *)
Abort(w) ==
  /\ task[w] # Idle
  /\ Finish(w)
  /\ UNCHANGED <<walletVars, orderVars>>

(* f with value v at o, which may be a new row. *)
Put(f, o, v) == [x \in DOMAIN f \cup {o} |-> IF x = o THEN v ELSE f[x]]

(* The unique index on (user_id, idempotency_key). *)
KeyTaken(u, k) ==
  k # NoKey /\ \E o \in DOMAIN orders : orders[o].user = u /\ orders[o].key = k

-----------------------------------------------------------------------------
(* A request with a known key is answered with the order it names.  The    *)
(* price read here is the one charged, even if the plan changes meanwhile. *)
CreateRead(w) ==
  \E u \in User, k \in Key \cup {NoKey},
     m \in {"balance", "external"}, total \in Total :
    /\ ~ KeyTaken(u, k)
    /\ Accept(w, [op |-> "create", user |-> u, key |-> k,
                  method |-> m, total |-> total])

(* Mutation: the charge is booked with the wrong sign. *)
CreateCommitCredits(w) ==
  /\ task[w].op = "create"
  /\ LET t == task[w]
         charge == t.total > 0 /\ t.method = "balance"
     IN  \E o \in OrderId \ DOMAIN orders :
           /\ \/ charge /\ ApplyTransaction(t.user, "purchase", t.total, o)
              \/ ~ charge /\ UNCHANGED walletVars
           /\ ~ KeyTaken(t.user, t.key)
           /\ orders' = Put(orders, o, NewOrder(t.user, t.key, t.method, t.total))
           /\ payments' = IF t.method = "external" /\ t.total > 0
                          THEN Put(payments, o, "pending") ELSE payments
  /\ Finish(w)
  /\ UNCHANGED refunds

(* Pays first, then inserts; a duplicate key rolls the payment back.       *)
CreateCommit(w) ==
  /\ task[w].op = "create"
  /\ LET t == task[w]
         charge == t.total > 0 /\ t.method = "balance"
     IN  \E o \in OrderId \ DOMAIN orders :
           /\ \/ charge /\ ApplyTransaction(t.user, "purchase", -t.total, o)
              \/ ~ charge /\ UNCHANGED walletVars
           /\ ~ KeyTaken(t.user, t.key)
           /\ orders' = Put(orders, o, NewOrder(t.user, t.key, t.method, t.total))
           /\ payments' = IF t.method = "external" /\ t.total > 0
                          THEN Put(payments, o, "pending") ELSE payments
  /\ Finish(w)
  /\ UNCHANGED refunds

-----------------------------------------------------------------------------
(* Mutation: the status of the order is not looked at. *)
MarkPaidReadAny(w) ==
  \E o \in DOMAIN orders, charge \in BOOLEAN, m \in PaidBy :
    Accept(w, [op |-> "markPaid", order |-> o, charge |-> charge,
               method |-> IF charge THEN "balance" ELSE m])

(* A paid order is returned as it is, any other but a pending one refused. *)
MarkPaidRead(w) ==
  \E o \in DOMAIN orders, charge \in BOOLEAN, m \in PaidBy :
    /\ orders[o].status = "pending_payment"
    /\ Accept(w, [op |-> "markPaid", order |-> o, charge |-> charge,
                  method |-> IF charge THEN "balance" ELSE m])

MarkPaidCommit(w) ==
  /\ task[w].op = "markPaid"
  /\ LET t == task[w]
         o == t.order
         row == orders[o]
         charge == t.charge /\ row.total > 0
     IN  /\ \/ charge /\ ApplyTransaction(row.user, "purchase", -row.total, o)
            \/ ~ charge /\ UNCHANGED walletVars
         /\ orders' = [orders EXCEPT
                         ![o] = WithMethod(PaymentState(row, "succeeded"), t.method)]
  /\ Finish(w)
  /\ UNCHANGED <<payments, refunds>>

-----------------------------------------------------------------------------
RefundRead(w) ==
  \E o \in DOMAIN orders, a \in Refundable :
    /\ RefundFits(orders[o], a)
    /\ orders[o].method = "balance"
    /\ Accept(w, [op |-> "refund", order |-> o, amount |-> a])

(* Mutation: AddRefund trusts the amount checked before the transaction. *)
RefundCommitUnchecked(w) ==
  /\ task[w].op = "refund"
  /\ LET o == task[w].order
         a == task[w].amount
     IN  /\ RecordRefund(orders[o].user, a, o)
         /\ refunds' = [refunds EXCEPT ![o] = Append(@, a)]
         /\ orders' = [orders EXCEPT ![o] = AddRefund(@, a)]
  /\ Finish(w)
  /\ UNCHANGED payments

(* Credits the wallet, records the refund, and adds it to the order, which *)
(* refuses it (and undoes all three) when it no longer fits.               *)
RefundCommit(w) ==
  /\ task[w].op = "refund"
  /\ LET o == task[w].order
         a == task[w].amount
     IN  /\ RecordRefund(orders[o].user, a, o)
         /\ refunds' = [refunds EXCEPT ![o] = Append(@, a)]
         /\ RefundFits(orders[o], a)
         /\ orders' = [orders EXCEPT ![o] = AddRefund(@, a)]
  /\ Finish(w)
  /\ UNCHANGED payments

-----------------------------------------------------------------------------
(* Mutation: a late failure is taken for news. *)
CallbackReadAny(w) ==
  \E o \in DOMAIN payments, s \in {"succeeded", "failed"} :
    /\ payments[o] # s
    /\ Accept(w, [op |-> "callback", order |-> o, status |-> s])

(* A repeated status is answered at once; a payment seen as succeeded is   *)
(* not failed.  The status of the order itself is not looked at.           *)
CallbackRead(w) ==
  \E o \in DOMAIN payments, s \in {"succeeded", "failed"} :
    /\ payments[o] # s
    /\ ~ (payments[o] = "succeeded" /\ s = "failed")
    /\ Accept(w, [op |-> "callback", order |-> o, status |-> s])

(* Mutation: the payment record is updated, the order is not. *)
CallbackCommitHalf(w) ==
  /\ task[w].op = "callback"
  /\ payments' = [payments EXCEPT ![task[w].order] = task[w].status]
  /\ Finish(w)
  /\ UNCHANGED <<walletVars, orders, refunds>>

CallbackCommit(w) ==
  /\ task[w].op = "callback"
  /\ LET o == task[w].order
         s == task[w].status
     IN  /\ payments' = [payments EXCEPT ![o] = s]
         /\ orders' = [orders EXCEPT ![o] = PaymentState(@, s)]
  /\ Finish(w)
  /\ UNCHANGED <<walletVars, refunds>>

-----------------------------------------------------------------------------
UserMayCancel(row) ==
  \/ row.status = "pending_payment"
  \/ row.status = "paid" /\ row.total = 0

UserCancelRead(w) ==
  \E o \in DOMAIN orders :
    /\ UserMayCancel(orders[o])
    /\ Accept(w, [op |-> "userCancel", order |-> o])

(* Mutation: a paid order need not have been refunded first. *)
AdminMayCancelPaid(row) == row.status \in {"pending_payment", "paid"}

AdminMayCancel(row) ==
  \/ row.status = "pending_payment"
  \/ row.status = "paid" /\ (row.total = 0 \/ row.refunded >= row.total)

AdminCancelRead(w) ==
  \E o \in DOMAIN orders :
    /\ AdminMayCancel(orders[o])
    /\ Accept(w, [op |-> "adminCancel", order |-> o])

(* Neither transaction looks at the order again. *)
CancelCommit(w) ==
  /\ task[w].op \in {"userCancel", "adminCancel"}
  /\ orders' = [orders EXCEPT ![task[w].order] = Cancelled(@)]
  /\ Finish(w)
  /\ UNCHANGED <<walletVars, payments, refunds>>

-----------------------------------------------------------------------------
WorkerStep(w) ==
  \/ CreateRead(w)     \/ CreateCommit(w)
  \/ MarkPaidRead(w)   \/ MarkPaidCommit(w)
  \/ RefundRead(w)     \/ RefundCommit(w)
  \/ CallbackRead(w)   \/ CallbackCommit(w)
  \/ UserCancelRead(w) \/ AdminCancelRead(w) \/ CancelCommit(w)
  \/ Abort(w)

Next == \E w \in Worker : WorkerStep(w)

Spec == Init /\ [][Next]_vars

-----------------------------------------------------------------------------
(* Properties that hold however the requests interleave.                   *)

(* The movements of type k that order o caused, by position in the ledger  *)
(* of its owner.                                                           *)
Movements(o, k) ==
  LET l == ledger[orders[o].user]
  IN  {i \in DOMAIN l : l[i].order = o /\ l[i].type = k}

SumOf(s) ==
  LET upTo[n \in 0 .. Len(s)] == IF n = 0 THEN 0 ELSE upTo[n - 1] + s[n]
  IN  upTo[Len(s)]

(* What each movement of ledger l refunds of order o. *)
RefundsOf(l, o) ==
  [i \in DOMAIN l |-> IF l[i].order = o /\ l[i].type = "refund" THEN l[i].amount ELSE 0]

Credited(o) == SumOf(RefundsOf(ledger[orders[o].user], o))

RefundRows(o) == SumOf(refunds[o])

(* A charge in a wallet always belongs to an order that exists, is its     *)
(* owner's, cost that much and has been paid: no request that was refused  *)
(* or rolled back leaves a charge behind.                                  *)
ChargesBacked ==
  \A u \in User : \A i \in DOMAIN ledger[u] :
    LET m == ledger[u][i]
    IN  m.type = "purchase" =>
          /\ m.order \in DOMAIN orders
          /\ orders[m.order].user = u
          /\ m.amount = - orders[m.order].total
          /\ orders[m.order].paidAt

(* The three places a refund is written to (orders.refunded_cents,         *)
(* order_refunds, the wallet) agree, and overlapping refunds never give    *)
(* back more than the order's total.                                       *)
RefundsReconcile ==
  \A o \in DOMAIN orders :
    /\ orders[o].refunded = RefundRows(o)
    /\ orders[o].refunded = Credited(o)
    /\ orders[o].refunded <= orders[o].total

(* An order the wallet paid for when it was created. *)
Prepaid(o) == orders[o].total > 0 /\ o \notin DOMAIN payments

(* Whatever overlaps, the status of a prepaid order says how much of it    *)
(* was refunded: stale snapshots never let it be cancelled, failed or paid *)
(* again.                                                                  *)
PrepaidStatus ==
  \A o \in DOMAIN orders : Prepaid(o) =>
    /\ orders[o].status = IF orders[o].refunded = 0 THEN "paid"
                          ELSE IF orders[o].refunded < orders[o].total
                               THEN "partially_refunded" ELSE "refunded"
    /\ orders[o].payment = "succeeded"

(* ... and its owner was charged for it exactly once. *)
PrepaidChargedOnce ==
  \A o \in DOMAIN orders : Prepaid(o) => Cardinality(Movements(o, "purchase")) = 1

(* For any order, a refund status tells the truth about the sum refunded,  *)
(* also when the refund overlaps a payment or a cancellation.              *)
RefundStatusTruthful ==
  \A o \in DOMAIN orders :
    /\ orders[o].status = "refunded" => orders[o].refunded = orders[o].total
    /\ orders[o].status = "partially_refunded" =>
         0 < orders[o].refunded /\ orders[o].refunded < orders[o].total

(* Only an order that was paid at some time shows a paid or refunded       *)
(* status, or a wallet to refund to.                                       *)
PaidEvidence ==
  \A o \in DOMAIN orders :
    \/ orders[o].status \in {"paid", "partially_refunded", "refunded"}
    \/ orders[o].method = "balance"
    => orders[o].paidAt

(* The payment record and the order's copy of its outcome do not           *)
(* contradict each other: callbacks write both in one transaction.  Only   *)
(* an administrator settles an order whose payment did not succeed.        *)
PaymentAgreement ==
  \A o \in DOMAIN payments :
    /\ payments[o] = "succeeded" => orders[o].payment = "succeeded"
    /\ orders[o].payment = "failed" => payments[o] = "failed"

(* A key names one order, and so one payment, however many copies of the   *)
(* request run at once.                                                    *)
KeyNamesOneOrder ==
  \A o, p \in DOMAIN orders :
    /\ orders[o].key # NoKey
    /\ orders[o].user = orders[p].user /\ orders[o].key = orders[p].key
    => o = p

(* What a step may never do: change what an order is, take back a refund,  *)
(* forget that it was paid, or rewrite a wallet movement.                  *)
HistoryKept ==
  [][ /\ \A o \in DOMAIN orders :
           /\ o \in DOMAIN orders'
           /\ orders'[o].user = orders[o].user
           /\ orders'[o].key = orders[o].key
           /\ orders'[o].total = orders[o].total
           /\ orders'[o].refunded >= orders[o].refunded
           /\ orders[o].paidAt => orders'[o].paidAt
      /\ \A u \in User : \A i \in DOMAIN ledger[u] :
           i \in DOMAIN ledger'[u] /\ ledger'[u][i] = ledger[u][i]
    ]_vars

-----------------------------------------------------------------------------
(* The inductive invariant behind these properties.                        *)

(* What is still true at commit of the snapshot a handler checked: only an *)
(* order with a payment was ever pending, so only such an order can be     *)
(* marked paid, called back or, unless it is free, cancelled.              *)
SnapshotsStand ==
  \A w \in Worker :
    LET t == task[w]
    IN  /\ t.op \in {"markPaid", "callback"} => t.order \in DOMAIN payments
        /\ t.op \in {"userCancel", "adminCancel"} =>
             /\ t.order \in DOMAIN orders
             /\ t.order \in DOMAIN payments \/ orders[t.order].total = 0
        /\ t.op = "refund" =>
             /\ t.order \in DOMAIN orders
             /\ orders[t.order].paidAt

RowsConsistent ==
  \A o \in DOMAIN orders :
    /\ orders[o].refunded <= orders[o].total
    /\ orders[o].status = "pending_payment" => o \in DOMAIN payments /\ ~ orders[o].paidAt
    /\ orders[o].total = 0 => o \notin DOMAIN payments
    /\ orders[o].total = 0 => orders[o].status \in {"paid", "cancelled"}

IInv ==
  /\ TypeOK
  /\ LedgerChain
  /\ SnapshotsStand
  /\ RowsConsistent
  /\ PrepaidStatus
  /\ RefundStatusTruthful
  /\ PaidEvidence
  /\ PaymentAgreement
  /\ KeyNamesOneOrder

-----------------------------------------------------------------------------
(* Properties of requests that do not overlap; two workers break them.     *)

(* A payment that succeeded stays succeeded: PaymentCallbackLogic.Process  *)
(* refuses the downgrade of the payment it read (docs/ROADMAP.md:30).      *)
NoPaymentDowngrade ==
  [][ \A o \in DOMAIN payments :
        payments[o] = "succeeded" => payments'[o] = "succeeded" ]_vars

(* Only a pending order, or one that has cost its owner nothing in the     *)
(* end, is cancelled (the guards of both CancelLogic.Cancel).              *)
CancelOnlyUnsettled ==
  [][ \A o \in DOMAIN orders :
        orders'[o].status = "cancelled" /\ orders[o].status # "cancelled" =>
          \/ orders[o].status = "pending_payment"
          \/ orders[o].refunded = orders[o].total ]_vars

(* No order is charged to the wallet twice: MarkPaidLogic.MarkPaid charges *)
(* only an order it saw pending, CreateLogic.Create only a new one.        *)
ChargedAtMostOnce ==
  \A o \in DOMAIN orders : Cardinality(Movements(o, "purchase")) <= 1

=============================================================================
