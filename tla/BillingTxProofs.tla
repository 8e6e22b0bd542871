---------------------------- MODULE BillingTxProofs ----------------------------
(***************************************************************************)
(* Theorems about the transactions of the order handlers: for any number   *)
(* of workers, users, orders and keys, the row locks and unique indexes    *)
(* make each of them the one step that Billing takes it for, and no two    *)
(* wait for each other.                                                    *)
(***************************************************************************)
EXTENDS BillingTx, BillingProofs

(* The wallet and the amount a task is about, and the movement it makes.   *)
Owner(w) == IF task[w].op = "create" THEN task[w].user ELSE orders[task[w].order].user
Due(w) == IF task[w].op = "create" THEN task[w].total ELSE orders[task[w].order].total

Charges(t, total) ==
  total > 0 /\ \/ t.op = "create" /\ t.method = "balance"
               \/ t.op = "markPaid" /\ t.charge

Kind(t, total) ==
  IF Charges(t, total) THEN "purchase" ELSE IF t.op = "refund" THEN "refund" ELSE "none"

Amount(t, total) ==
  IF Charges(t, total) THEN -total ELSE IF t.op = "refund" THEN t.amount ELSE 0

(* A transaction is its task's, and a new order's number is nobody else's. *)
Agrees(w) ==
  /\ tx[w] = Closed <=> task[w] = Idle
  /\ tx[w] # Closed =>
       /\ tx[w].user = Owner(w)
       /\ tx[w].type = Kind(task[w], Due(w)) /\ tx[w].amount = Amount(task[w], Due(w))
       /\ task[w].op = "create" => tx[w].order \notin DOMAIN orders
       /\ task[w].op # "create" => tx[w].order = task[w].order

NumbersApart ==
  \A v, w \in Worker :
    /\ v # w /\ tx[v] # Closed /\ tx[w] # Closed
    /\ task[v].op = "create" /\ task[w].op = "create"
    => tx[v].order # tx[w].order

(* The balance a transaction has read stands, as it has the lock.          *)
WalletRead(w) ==
  tx[w].at \in {"order", "insert", "commit"} /\ tx[w].type # "none" =>
    /\ WalletLock(tx[w].user) \in locks[w]
    /\ tx[w].read = balance[tx[w].user]
    /\ tx[w].read + tx[w].amount >= 0

(* ... and so does the order it has read, or the absence of its key.       *)
OrderRead(w) ==
  tx[w].at = "commit" /\ task[w].op # "create" =>
    /\ OrderLock(tx[w].order) \in locks[w]
    /\ tx[w].row = Updated(task[w], orders[tx[w].order])
    /\ task[w].op = "refund" => RefundFits(orders[tx[w].order], task[w].amount)

KeyRead(w) ==
  tx[w].at = "commit" /\ task[w].op = "create" =>
    /\ tx[w].row = NewOrder(task[w].user, task[w].key, task[w].method, task[w].total)
    /\ ~ KeyTaken(task[w].user, task[w].key)
    /\ task[w].key # NoKey => KeyLock(task[w].user, task[w].key) \in locks[w]

Staged(w) ==
  /\ tx[w].at \in {"wallet", "newWallet"} => tx[w].type # "none"
  /\ tx[w].at = "payment" => task[w].op = "callback"
  /\ tx[w].at = "order" => task[w].op # "create"
  /\ tx[w].at = "insert" => task[w].op = "create"

(* Locks are taken in one order: a wallet, then a payment, then an order   *)
(* or a key.                                                               *)
LocksOrdered(w) ==
  /\ tx[w].at \in {"closed", "wallet", "newWallet", "payment"} => locks[w] = {}
  /\ tx[w].at # "commit" =>
       locks[w] \subseteq {WalletLock(u) : u \in User} \cup {PaymentLock(o) : o \in OrderId}

LocksExclusive == \A v, w \in Worker : v # w => locks[v] \cap locks[w] = {}

(* Where there is no wallet row there is no balance.                       *)
NoRow == \A u \in User \ rows : balance[u] = 0

Holds(w) ==
  Agrees(w) /\ WalletRead(w) /\ OrderRead(w) /\ KeyRead(w) /\ Staged(w) /\ LocksOrdered(w)

TxIInv ==
  /\ IInv
  /\ TxTypeOK
  /\ \A w \in Worker : Holds(w)
  /\ NumbersApart /\ LocksExclusive /\ NoRow

-----------------------------------------------------------------------------
LEMMA OpenTx ==
  ASSUME TxTypeOK, NEW w \in Worker, tx[w] # Closed
  PROVE  /\ tx[w] \in [at : Stage, order : OrderId, user : User,
                       type : {"none", "purchase", "refund"}, amount : Int, read : Int,
                       row : OrderRow \cup {Closed}]
         /\ tx[w].at \in Stage /\ tx[w].order \in OrderId /\ tx[w].user \in User
         /\ tx[w].type \in {"none", "purchase", "refund"}
         /\ tx[w].amount \in Int /\ tx[w].read \in Int
BY DEF TxTypeOK, Tx

LEMMA AtClosed ==
  ASSUME TxTypeOK, NEW w \in Worker
  PROVE  tx[w] = Closed <=> tx[w].at = "closed"
<1>1. Closed.at = "closed"
  BY DEF Closed
<1>2. tx[w] # Closed => tx[w].at # "closed"
  BY OpenTx DEF Stage
<1> QED  BY <1>1, <1>2

(* What a worker carries stands while nobody touches the tables. *)
LEMMA Undisturbed ==
  ASSUME NEW v \in Worker, Holds(v), tx'[v] = tx[v], task'[v] = task[v],
         locks'[v] = locks[v], balance' = balance, orders' = orders
  PROVE  Holds(v)'
<1>1. Owner(v)' = Owner(v) /\ Due(v)' = Due(v)
  BY DEF Owner, Due
<1>2. Agrees(v)'
  BY <1>1 DEF Holds, Agrees
<1>3. WalletRead(v)' /\ Staged(v)' /\ LocksOrdered(v)'
  BY DEF Holds, WalletRead, Staged, LocksOrdered
<1>4. OrderRead(v)'
  BY DEF Holds, OrderRead
<1>5. KeyRead(v)'
  BY DEF Holds, KeyRead, KeyTaken
<1> QED  BY <1>2, <1>3, <1>4, <1>5 DEF Holds

(* A statement leaves to be shown what its own transaction carries on. *)
LEMMA StatementStep ==
  ASSUME TxIInv, NEW w \in Worker, tx[w] # Closed,
         NEW y \in Tx, y # Closed, y.order = tx[w].order, Statement(w, y), rows' = rows,
         NEW l \in Lock, UNCHANGED locks \/ Take(w, l),
         Holds(w)'
  PROVE  TxIInv'
<1>1. UNCHANGED vars /\ tx' = [tx EXCEPT ![w] = y]
  BY DEF Statement
<1>2. IInv'
  BY <1>1, StepIInv DEF TxIInv
<1>3. TxTypeOK'
  <2>1. locks' \in [Worker -> SUBSET Lock]
    BY DEF TxIInv, TxTypeOK, Take
  <2>2. tx' \in [Worker -> Tx]
    BY <1>1 DEF TxIInv, TxTypeOK
  <2> QED  BY <1>2, <2>1, <2>2 DEF TxIInv, TxTypeOK, IInv
<1>4. UNCHANGED <<balance, orders, task>>
  BY <1>1 DEF vars
<1>5. tx'[w] = y /\ \A v \in Worker \ {w} : tx'[v] = tx[v] /\ locks'[v] = locks[v]
  BY <1>1 DEF TxIInv, TxTypeOK, Take
<1>6. \A v \in Worker : Holds(v)'
  BY <1>4, <1>5, Undisturbed DEF TxIInv
<1>7. NumbersApart'
  BY <1>4, <1>5 DEF TxIInv, NumbersApart
<1>8. LocksExclusive'
  <2>1. ASSUME NEW v \in Worker \ {w} PROVE locks'[v] \cap locks'[w] = {}
    <3>1. locks'[w] \subseteq locks[w] \cup {l} /\ (locks'[w] = locks[w] \/ l \notin locks[v])
      BY DEF TxIInv, TxTypeOK, Take, Free
    <3> QED  BY <1>5, <3>1 DEF TxIInv, LocksExclusive
  <2> QED  BY <1>5, <2>1 DEF TxIInv, LocksExclusive
<1>9. NoRow'
  BY <1>4 DEF TxIInv, NoRow
<1> QED  BY <1>2, <1>3, <1>6, <1>7, <1>8, <1>9 DEF TxIInv

-----------------------------------------------------------------------------
Ops == {"create", "markPaid", "refund", "callback", "userCancel", "adminCancel"}

LEMMA TaskOps == \A t \in Task : t = Idle \/ t.op \in Ops
BY DEF Task, CreateTask, MarkPaidTask, RefundTask, CallbackTask, CancelTask, Ops

LEMMA IdleOp == Idle.op \notin Ops
BY DEF Idle, Ops

(* The order a handler of an open transaction is about exists. *)
LEMMA AboutOrder ==
  ASSUME TypeOK, SnapshotsStand, NEW w \in Worker, task[w].op \in Ops, task[w].op # "create"
  PROVE  task[w].order \in DOMAIN orders
BY DEF TypeOK, SnapshotsStand, Ops

LEMMA OrderTypes ==
  ASSUME TypeOK, NEW o \in DOMAIN orders
  PROVE  /\ o \in OrderId /\ orders[o] \in OrderRow
         /\ orders[o].user \in User /\ orders[o].total \in Nat
BY DEF TypeOK, OrderRow

(* A transaction starts at its first lock. *)
LEMMA OpenedFields ==
  ASSUME NEW t \in Task, t.op \in Ops, NEW o \in OrderId, NEW u \in User, NEW total \in Nat,
         NEW x, x = Opened(t, o, u, total)
  PROVE  /\ x \in Tx /\ x # Closed
         /\ x.order = o /\ x.user = u
         /\ x.type = Kind(t, total) /\ x.amount = Amount(t, total)
         /\ x.at = IF x.type # "none" THEN "wallet"
                   ELSE IF t.op = "create" THEN "insert"
                   ELSE IF t.op = "callback" THEN "payment" ELSE "order"
<1> DEFINE kind == Kind(t, total)
           amount == Amount(t, total)
           at == IF kind # "none" THEN "wallet"
                 ELSE IF t.op = "create" THEN "insert"
                 ELSE IF t.op = "callback" THEN "payment" ELSE "order"
<1>1. kind \in {"none", "purchase", "refund"} /\ at \in Stage
  BY DEF Kind, Stage
<1>2. amount \in Int
  <2>1. t.op = "refund" => t.amount \in Int
    BY TaskFields
  <2>2. - total \in Int
    OBVIOUS
  <2> QED  BY <2>1, <2>2 DEF Amount
<1>3. x = [order |-> o, user |-> u, type |-> kind, read |-> 0, row |-> Closed,
           amount |-> amount, at |-> at]
  BY DEF Opened, Kind, Amount, Charges, Ops
<1> HIDE DEF kind, amount, at
<1>4. x.at = at /\ x.order = o /\ x.user = u /\ x.type = kind /\ x.amount = amount
  BY <1>3
<1>5. x \in Tx
  BY <1>1, <1>2, <1>3 DEF Tx
<1>6. x # Closed
  BY <1>1, <1>4 DEF Stage, Closed
<1> QED  BY <1>4, <1>5, <1>6 DEF kind, amount, at

LEMMA BeginCases ==
  ASSUME TxIInv, NEW w \in Worker, Begin(w)
  PROVE  \E t \in Task, o \in OrderId, u \in User, total \in Nat :
           /\ t.op \in Ops /\ Accept(w, t)
           /\ tx' = [tx EXCEPT ![w] = Opened(t, o, u, total)]
           /\ \/ t.op = "create" /\ Fresh(o) /\ u = t.user /\ total = t.total
              \/ /\ t.op # "create" /\ o = t.order /\ o \in DOMAIN orders
                 /\ u = orders[o].user /\ total = orders[o].total
<1>0. TypeOK /\ \A v \in Worker : task[v] \in Task
  BY DEF TxIInv, TxTypeOK, TypeOK
<1>1. \A t : Accept(w, t) => task'[w] = t
  BY <1>0 DEF TypeOK, Accept
<1>2. CASE CreateRead(w) /\ LET t == task'[w]
                            IN \E o \in OrderId : Fresh(o)
                                /\ tx' = [tx EXCEPT ![w] = Opened(t, o, t.user, t.total)]
  <2>1. PICK u \in User, k \in Key \cup {NoKey}, m \in {"balance", "external"}, total \in Total :
          Accept(w, [op |-> "create", user |-> u, key |-> k, method |-> m, total |-> total])
    BY <1>2 DEF CreateRead
  <2> DEFINE t == [op |-> "create", user |-> u, key |-> k, method |-> m, total |-> total]
  <2>2. t \in Task /\ t.op = "create" /\ t.user = u /\ t.total = total /\ total \in Nat
    BY TotalIsNat DEF Task, CreateTask
  <2>3. task'[w] = t /\ Accept(w, t)
    BY <1>1, <2>1
  <2> HIDE DEF t
  <2>4. PICK o \in OrderId : Fresh(o) /\ tx' = [tx EXCEPT ![w] = Opened(t, o, u, total)]
    BY <1>2, <2>2, <2>3
  <2> QED  BY <2>2, <2>3, <2>4 DEF Ops
<1>3. CASE /\ \/ MarkPaidRead(w) \/ RefundRead(w) \/ CallbackRead(w)
              \/ UserCancelRead(w) \/ AdminCancelRead(w)
           /\ LET t == task'[w]
                  row == orders[t.order]
              IN  tx' = [tx EXCEPT ![w] = Opened(t, t.order, row.user, row.total)]
  <2>1. PICK t : /\ Accept(w, t) /\ t.op \in Ops /\ t.op # "create"
                 /\ t \in Task /\ t.order \in DOMAIN orders
    <3>1. \A o \in DOMAIN orders : o \in OrderId
      BY <1>0 DEF TypeOK
    <3>2. CASE MarkPaidRead(w)
      <4>1. PICK o \in DOMAIN orders, charge \in BOOLEAN, m \in PaidBy :
              Accept(w, [op |-> "markPaid", order |-> o, charge |-> charge,
                         method |-> IF charge THEN "balance" ELSE m])
        BY <3>2 DEF MarkPaidRead
      <4> DEFINE t == [op |-> "markPaid", order |-> o, charge |-> charge,
                       method |-> IF charge THEN "balance" ELSE m]
      <4>2. t \in MarkPaidTask /\ t.op = "markPaid" /\ t.order = o
        BY <3>1, BillingAssumption DEF MarkPaidTask, PaymentMethod
      <4>3. Accept(w, t)
        BY <4>1
      <4> HIDE DEF t
      <4> QED  BY <4>2, <4>3 DEF Task, Ops
    <3>3. CASE RefundRead(w)
      <4>1. PICK o \in DOMAIN orders, a \in Refundable :
              Accept(w, [op |-> "refund", order |-> o, amount |-> a])
        BY <3>3 DEF RefundRead
      <4> DEFINE t == [op |-> "refund", order |-> o, amount |-> a]
      <4>2. t \in RefundTask /\ t.op = "refund" /\ t.order = o
        BY <3>1 DEF RefundTask
      <4>3. Accept(w, t)
        BY <4>1
      <4> HIDE DEF t
      <4> QED  BY <4>2, <4>3 DEF Task, Ops
    <3>4. CASE CallbackRead(w)
      <4>1. PICK o \in DOMAIN payments, s \in {"succeeded", "failed"} :
              Accept(w, [op |-> "callback", order |-> o, status |-> s])
        BY <3>4 DEF CallbackRead
      <4> DEFINE t == [op |-> "callback", order |-> o, status |-> s]
      <4>2. o \in DOMAIN orders
        BY <1>0 DEF TypeOK
      <4>3. t \in CallbackTask /\ t.op = "callback" /\ t.order = o
        BY <3>1, <4>2 DEF CallbackTask
      <4>4. Accept(w, t)
        BY <4>1
      <4> HIDE DEF t
      <4> QED  BY <4>2, <4>3, <4>4 DEF Task, Ops
    <3>5. CASE UserCancelRead(w) \/ AdminCancelRead(w)
      <4>1. PICK o \in DOMAIN orders, op \in {"userCancel", "adminCancel"} :
              Accept(w, [op |-> op, order |-> o])
        BY <3>5 DEF UserCancelRead, AdminCancelRead
      <4> DEFINE t == [op |-> op, order |-> o]
      <4>2. t \in CancelTask /\ t.op = op /\ t.order = o
        BY <3>1 DEF CancelTask
      <4>3. Accept(w, t)
        BY <4>1
      <4> HIDE DEF t
      <4> QED  BY <4>2, <4>3 DEF Task, Ops
    <3> QED  BY <1>3, <3>2, <3>3, <3>4, <3>5
  <2>2. task'[w] = t
    BY <1>1, <2>1
  <2>3. tx' = [tx EXCEPT ![w] = Opened(t, t.order, orders[t.order].user, orders[t.order].total)]
    BY <1>3, <2>2
  <2> QED  BY <1>0, <2>1, <2>3, OrderTypes
<1> QED  BY <1>2, <1>3 DEF Begin

LEMMA BeginRefines == ASSUME NEW w \in Worker, Begin(w) PROVE Next
BY DEF Begin, Next, WorkerStep

LEMMA BeginStep ==
  ASSUME TxIInv, NEW w \in Worker, Begin(w)
  PROVE  TxIInv'
<1>1. PICK t \in Task, o \in OrderId, u \in User, total \in Nat :
         /\ t.op \in Ops /\ Accept(w, t)
         /\ tx' = [tx EXCEPT ![w] = Opened(t, o, u, total)]
         /\ \/ t.op = "create" /\ Fresh(o) /\ u = t.user /\ total = t.total
            \/ /\ t.op # "create" /\ o = t.order /\ o \in DOMAIN orders
               /\ u = orders[o].user /\ total = orders[o].total
  BY BeginCases
<1> DEFINE x == Opened(t, o, u, total)
<1>2. /\ x \in Tx /\ x # Closed
      /\ x.order = o /\ x.user = u
      /\ x.type = Kind(t, total) /\ x.amount = Amount(t, total)
      /\ x.at = IF x.type # "none" THEN "wallet"
                ELSE IF t.op = "create" THEN "insert"
                ELSE IF t.op = "callback" THEN "payment" ELSE "order"
  BY <1>1, OpenedFields
<1> HIDE DEF x
<1>3. /\ TypeOK /\ rows \subseteq User /\ tx \in [Worker -> Tx]
      /\ locks \in [Worker -> SUBSET Lock] /\ task \in [Worker -> Task]
  BY DEF TxIInv, TxTypeOK, TypeOK
<1>4. /\ tx' = [tx EXCEPT ![w] = x] /\ task[w] = Idle
      /\ task' = [task EXCEPT ![w] = t]
      /\ UNCHANGED <<balance, ledger, orders, payments, refunds, rows, locks>>
  BY <1>1 DEF x, Accept, Begin, walletVars, orderVars
<1>5. tx[w] = Closed /\ locks[w] = {} /\ t # Idle
  BY <1>1, <1>3, <1>4, AtClosed, IdleOp DEF TxIInv, Holds, Agrees, LocksOrdered
<1>6. IInv'
  BY BeginRefines, StepIInv DEF TxIInv
<1>7. TxTypeOK'
  BY <1>2, <1>3, <1>4, <1>6 DEF IInv, TxTypeOK
<1>8. /\ tx'[w] = x /\ task'[w] = t
      /\ \A v \in Worker \ {w} : tx'[v] = tx[v] /\ task'[v] = task[v]
  BY <1>3, <1>4
<1>9. Holds(w)'
  <2>1. Owner(w)' = u /\ Due(w)' = total
    BY <1>1, <1>4, <1>8 DEF Owner, Due
  <2>2. t.op = "create" => o \notin DOMAIN orders
    BY <1>1 DEF Fresh
  <2>3. Agrees(w)'
    BY <1>1, <1>2, <1>4, <1>5, <1>8, <2>1, <2>2 DEF Agrees
  <2>4. x.at # "commit" /\ locks'[w] = {}
    BY <1>2, <1>4, <1>5
  <2>5. WalletRead(w)' /\ OrderRead(w)' /\ KeyRead(w)' /\ Staged(w)' /\ LocksOrdered(w)'
    BY <1>2, <1>8, <2>4 DEF WalletRead, OrderRead, KeyRead, Staged, LocksOrdered
  <2> QED  BY <2>3, <2>5 DEF Holds
<1>10. \A v \in Worker : Holds(v)'
  BY <1>4, <1>8, <1>9, Undisturbed DEF TxIInv
<1>11. NumbersApart'
  <2>1. \A v \in Worker \ {w} : tx[v] # Closed /\ t.op = "create" => tx[v].order # x.order
    BY <1>1, <1>2 DEF Fresh
  <2> QED  BY <1>4, <1>8, <2>1 DEF TxIInv, NumbersApart
<1>12. LocksExclusive' /\ NoRow'
  BY <1>4 DEF TxIInv, LocksExclusive, NoRow
<1> QED  BY <1>6, <1>7, <1>10, <1>11, <1>12 DEF TxIInv

LEMMA InitTx == TxInit => TxIInv
<1> SUFFICES ASSUME TxInit PROVE TxIInv
  OBVIOUS
<1>1. IInv
  BY InitIInv DEF TxInit
<1>2. \A w \in Worker : tx[w] = Closed /\ locks[w] = {} /\ task[w] = Idle
  BY DEF TxInit, Init
<1>3. Closed.at = "closed"
  BY DEF Closed
<1>4. TxTypeOK
  BY <1>1 DEF TxInit, TxTypeOK, IInv, Tx
<1>5. \A w \in Worker : Holds(w)
  BY <1>2, <1>3 DEF Holds, Agrees, WalletRead, OrderRead, KeyRead, Staged, LocksOrdered
<1>6. NumbersApart /\ LocksExclusive
  BY <1>2 DEF NumbersApart, LocksExclusive
<1>7. NoRow
  <2>1. balance = Opening /\ \A u \in User : Opening[u] > 0 => u \in rows
    BY DEF TxInit, Init, WalletInit
  <2>2. ASSUME NEW u \in User, u \notin rows PROVE Opening[u] = 0
    <3>1. Opening[u] \in Nat /\ ~ (Opening[u] > 0)
      BY <2>1, <2>2, WalletAssumption
    <3> QED  BY <3>1
  <2> QED  BY <2>1, <2>2 DEF NoRow
<1> QED  BY <1>1, <1>4, <1>5, <1>6, <1>7 DEF TxIInv

-----------------------------------------------------------------------------
(* What is open stands for a task with its fields. *)
LEMMA OpenTask ==
  ASSUME TxIInv, NEW w \in Worker, tx[w] # Closed
  PROVE  /\ task[w] \in Task /\ task[w].op \in Ops
         /\ Owner(w) \in User /\ Due(w) \in Nat
         /\ tx[w].user = Owner(w)
         /\ tx[w].type = Kind(task[w], Due(w)) /\ tx[w].amount = Amount(task[w], Due(w))
<1>1. task[w] \in Task /\ task[w] # Idle
  BY DEF TxIInv, TxTypeOK, TypeOK, Holds, Agrees
<1>2. task[w].op \in Ops
  BY <1>1, TaskOps
<1>3. task[w].op = "create" => task[w].user \in User /\ task[w].total \in Nat
  BY <1>1, TaskFields
<1>4. task[w].op # "create" =>
        orders[task[w].order].user \in User /\ orders[task[w].order].total \in Nat
  BY <1>2, AboutOrder, OrderTypes DEF TxIInv, IInv
<1> QED  BY <1>1, <1>2, <1>3, <1>4 DEF Owner, Due, TxIInv, Holds, Agrees

(* The movement is booked: its owner's balance has been read under the     *)
(* lock, and stays.                                                        *)
LEMMA MovedStep ==
  ASSUME TxIInv, NEW w \in Worker, tx[w] # Closed, tx[w].at \in {"wallet", "newWallet"},
         Take(w, WalletLock(tx[w].user)), Moved(w, balance[tx[w].user]), rows' = rows
  PROVE  TxIInv'
<1> DEFINE x == tx[w]
           l == WalletLock(x.user)
           y == [x EXCEPT !.at = IF task[w].op = "create" THEN "insert" ELSE "order",
                          !.read = balance[x.user]]
<1>1. /\ x \in [at : Stage, order : OrderId, user : User,
                type : {"none", "purchase", "refund"}, amount : Int, read : Int,
                row : OrderRow \cup {Closed}]
      /\ x.user \in User
  BY OpenTx DEF TxIInv
<1>2. balance[x.user] \in Int
  BY <1>1 DEF TxIInv, TxTypeOK, TypeOK, WalletTypeOK
<1>3. /\ y.at = IF task[w].op = "create" THEN "insert" ELSE "order"
      /\ y.read = balance[x.user] /\ y.order = x.order /\ y.user = x.user
      /\ y.type = x.type /\ y.amount = x.amount
  BY <1>1
<1>4. y \in Tx /\ y # Closed
  BY <1>1, <1>2, <1>3 DEF Tx, Stage, Closed
<1>5. Statement(w, y) /\ balance[x.user] + x.amount >= 0
  BY DEF Moved
<1>6. l \in Lock
  BY <1>1 DEF Lock
<1> HIDE DEF y
<1>7. Holds(w)'
  <2>1. UNCHANGED <<balance, orders, task>> /\ tx'[w] = y
    BY <1>5 DEF Statement, vars, TxIInv, TxTypeOK
  <2>2. locks'[w] = locks[w] \cup {l} /\ locks[w] = {}
    BY DEF Take, TxIInv, TxTypeOK, Holds, LocksOrdered
  <2>3. Holds(w)
    BY DEF TxIInv
  <2>4. Agrees(w)'
    BY <1>3, <1>4, <2>1, <2>3 DEF Holds, Agrees, Owner, Due
  <2>5. WalletRead(w)'
    BY <1>3, <1>5, <2>1, <2>2 DEF WalletRead
  <2>6. OrderRead(w)' /\ KeyRead(w)' /\ Staged(w)'
    BY <1>3, <2>1 DEF OrderRead, KeyRead, Staged
  <2>7. LocksOrdered(w)'
    BY <1>1, <1>3, <2>1, <2>2 DEF LocksOrdered
  <2> QED  BY <2>4, <2>5, <2>6, <2>7 DEF Holds
<1> QED  BY <1>3, <1>4, <1>5, <1>6, <1>7, StatementStep

LEMMA LockWalletStep ==
  ASSUME TxIInv, NEW w \in Worker, LockWallet(w)
  PROVE  TxIInv'
<1> DEFINE x == tx[w]
<1>1. x # Closed /\ x.at = "wallet"
  BY DEF LockWallet, Closed
<1>2. CASE x.user \in rows
  BY <1>1, <1>2, MovedStep DEF LockWallet
<1>3. CASE x.user \notin rows
  <2> DEFINE y == [x EXCEPT !.at = "newWallet"]
  <2>1. /\ x \in [at : Stage, order : OrderId, user : User,
                  type : {"none", "purchase", "refund"}, amount : Int, read : Int,
                  row : OrderRow \cup {Closed}]
        /\ x.user \in User
    BY <1>1, OpenTx DEF TxIInv
  <2>2. /\ y.at = "newWallet" /\ y.order = x.order /\ y.user = x.user
        /\ y.type = x.type /\ y.amount = x.amount /\ y.read = x.read
    BY <2>1
  <2>3. y \in Tx /\ y # Closed
    BY <2>1, <2>2 DEF Tx, Stage, Closed
  <2>4. Statement(w, y) /\ UNCHANGED locks /\ rows' = rows
    BY <1>3 DEF LockWallet
  <2>5. WalletLock(x.user) \in Lock
    BY <2>1 DEF Lock
  <2> HIDE DEF y
  <2>6. Holds(w)'
    <3>1. UNCHANGED <<balance, orders, task>> /\ tx'[w] = y /\ locks'[w] = locks[w]
      BY <2>4 DEF Statement, vars, TxIInv, TxTypeOK
    <3>2. Holds(w)
      BY DEF TxIInv
    <3> QED  BY <1>1, <2>2, <2>3, <3>1, <3>2 DEF Holds, Agrees, Owner, Due, WalletRead,
                OrderRead, KeyRead, Staged, LocksOrdered
  <2> QED  BY <1>1, <2>2, <2>3, <2>4, <2>5, <2>6, StatementStep
<1> QED  BY <1>2, <1>3

LEMMA CreateWalletStep ==
  ASSUME TxIInv, NEW w \in Worker, CreateWallet(w)
  PROVE  TxIInv'
<1>1. tx[w] # Closed /\ tx[w].at = "newWallet"
  BY DEF CreateWallet, Closed
<1>2. tx[w].user \in User \ rows
  BY <1>1, OpenTx DEF TxIInv, CreateWallet
<1>3. balance[tx[w].user] = 0
  BY <1>2 DEF TxIInv, NoRow
<1> QED  BY <1>1, <1>3, MovedStep DEF CreateWallet

LEMMA LockPaymentStep ==
  ASSUME TxIInv, NEW w \in Worker, LockPayment(w)
  PROVE  TxIInv'
<1> DEFINE x == tx[w]
           l == PaymentLock(x.order)
           y == [x EXCEPT !.at = "order"]
<1>1. x # Closed /\ x.at = "payment"
  BY DEF LockPayment, Closed
<1>2. /\ x \in [at : Stage, order : OrderId, user : User,
                type : {"none", "purchase", "refund"}, amount : Int, read : Int,
                row : OrderRow \cup {Closed}]
      /\ x.order \in OrderId
  BY <1>1, OpenTx DEF TxIInv
<1>3. /\ y.at = "order" /\ y.order = x.order /\ y.user = x.user
      /\ y.type = x.type /\ y.amount = x.amount /\ y.read = x.read
  BY <1>2
<1>4. y \in Tx /\ y # Closed
  BY <1>2, <1>3 DEF Tx, Stage, Closed
<1>5. Statement(w, y) /\ Take(w, l) /\ rows' = rows
  BY DEF LockPayment
<1>6. l \in Lock
  BY <1>2 DEF Lock
<1> HIDE DEF y
<1>7. Holds(w)'
  <2>1. UNCHANGED <<balance, orders, task>> /\ tx'[w] = y
    BY <1>5 DEF Statement, vars, TxIInv, TxTypeOK
  <2>2. Holds(w) /\ task[w].op = "callback" /\ locks[w] = {}
    BY <1>1 DEF TxIInv, Holds, Staged, LocksOrdered
  <2>3. locks'[w] = {l}
    BY <1>5, <2>2 DEF Take, TxIInv, TxTypeOK
  <2>4. x.type = "none"
    BY <1>1, <2>2, OpenTask DEF Kind, Charges
  <2>5. Agrees(w)'
    BY <1>1, <1>3, <1>4, <2>1, <2>2 DEF Holds, Agrees, Owner, Due
  <2>6. WalletRead(w)' /\ OrderRead(w)' /\ KeyRead(w)' /\ Staged(w)'
    BY <1>3, <2>1, <2>2, <2>4 DEF WalletRead, OrderRead, KeyRead, Staged
  <2>7. LocksOrdered(w)'
    BY <1>2, <1>3, <2>1, <2>3 DEF LocksOrdered
  <2> QED  BY <2>5, <2>6, <2>7 DEF Holds
<1> QED  BY <1>1, <1>3, <1>4, <1>5, <1>6, <1>7, StatementStep

(* What the handler makes of an order is an order. *)
LEMMA UpdatedType ==
  ASSUME NEW t \in Task, t.op \in Ops, t.op # "create", NEW r \in OrderRow,
         t.op = "refund" => RefundFits(r, t.amount)
  PROVE  Updated(t, r) \in OrderRow
<1>1. CASE t.op = "markPaid"
  <2>1. PaymentState(r, "succeeded") \in OrderRow /\ t.method \in PaymentMethod \cup {""}
    BY <1>1, RowTypes, TaskFields
  <2>2. WithMethod(PaymentState(r, "succeeded"), t.method) \in OrderRow
    BY <2>1, RowTypes
  <2> QED  BY <1>1, <2>2 DEF Updated
<1>2. CASE t.op = "callback"
  BY <1>2, RowTypes, TaskFields DEF Updated
<1>3. CASE t.op = "refund"
  BY <1>3, RowTypes, TaskFields DEF Updated
<1>4. CASE t.op \in {"userCancel", "adminCancel"}
  BY <1>4, RowTypes DEF Updated
<1> QED  BY <1>1, <1>2, <1>3, <1>4 DEF Ops

LEMMA LockOrderStep ==
  ASSUME TxIInv, NEW w \in Worker, LockOrder(w)
  PROVE  TxIInv'
<1> DEFINE x == tx[w]
           t == task[w]
           l == OrderLock(x.order)
           row == Updated(t, orders[x.order])
           y == [x EXCEPT !.at = "commit", !.row = row]
<1>1. x # Closed /\ x.at = "order"
  BY DEF LockOrder, Closed
<1>2. /\ x \in [at : Stage, order : OrderId, user : User,
                type : {"none", "purchase", "refund"}, amount : Int, read : Int,
                row : OrderRow \cup {Closed}]
      /\ x.order \in OrderId
  BY <1>1, OpenTx DEF TxIInv
<1>3. Holds(w) /\ t.op \in Ops /\ t.op # "create" /\ t \in Task /\ x.order = t.order
  BY <1>1, OpenTask DEF TxIInv, Holds, Staged, Agrees
<1>4. /\ Statement(w, y) /\ Take(w, l) /\ rows' = rows
      /\ t.op = "refund" => RefundFits(orders[x.order], t.amount)
  BY DEF LockOrder
<1>5. row \in OrderRow
  <2>1. orders[x.order] \in OrderRow
    BY <1>3, AboutOrder, OrderTypes DEF TxIInv, IInv
  <2> QED  BY <1>3, <1>4, <2>1, UpdatedType
<1>6. l \in Lock
  BY <1>2 DEF Lock
<1> HIDE DEF row
<1>7. /\ y.at = "commit" /\ y.row = row /\ y.order = x.order /\ y.user = x.user
      /\ y.type = x.type /\ y.amount = x.amount /\ y.read = x.read
  BY <1>2
<1>8. y \in Tx /\ y # Closed
  BY <1>2, <1>5, <1>7 DEF Tx, Stage, Closed
<1> HIDE DEF y
<1>9. Holds(w)'
  <2>1. UNCHANGED <<balance, orders, task>> /\ tx'[w] = y
    BY <1>4 DEF Statement, vars, TxIInv, TxTypeOK
  <2>2. locks'[w] = locks[w] \cup {l}
    BY <1>4 DEF Take, TxIInv, TxTypeOK
  <2>3. Agrees(w)'
    BY <1>1, <1>3, <1>7, <1>8, <2>1 DEF Holds, Agrees, Owner, Due
  <2>4. WalletRead(w)'
    BY <1>1, <1>3, <1>7, <2>1, <2>2 DEF Holds, WalletRead
  <2>5. OrderRead(w)'
    BY <1>4, <1>7, <2>1, <2>2 DEF OrderRead, row
  <2>6. KeyRead(w)' /\ Staged(w)' /\ LocksOrdered(w)'
    BY <1>3, <1>7, <2>1 DEF KeyRead, Staged, LocksOrdered
  <2> QED  BY <2>3, <2>4, <2>5, <2>6 DEF Holds
<1> QED  BY <1>1, <1>4, <1>6, <1>7, <1>8, <1>9, StatementStep

LEMMA InsertOrderStep ==
  ASSUME TxIInv, NEW w \in Worker, InsertOrder(w)
  PROVE  TxIInv'
<1> DEFINE x == tx[w]
           t == task[w]
           row == NewOrder(t.user, t.key, t.method, t.total)
           y == [x EXCEPT !.at = "commit", !.row = row]
<1>1. x # Closed /\ x.at = "insert"
  BY DEF InsertOrder, Closed
<1>2. x \in [at : Stage, order : OrderId, user : User,
             type : {"none", "purchase", "refund"}, amount : Int, read : Int,
             row : OrderRow \cup {Closed}]
  BY <1>1, OpenTx DEF TxIInv
<1>3. Holds(w) /\ t.op = "create" /\ t \in Task
  BY <1>1, OpenTask DEF TxIInv, Holds, Staged
<1>4. /\ t.user \in User /\ t.key \in Key \cup {NoKey}
      /\ t.method \in {"balance", "external"} /\ t.total \in Nat
  BY <1>3, TaskFields
<1>5. row \in OrderRow
  BY <1>4, NewOrderType
<1>6. /\ Statement(w, y) /\ ~ KeyTaken(t.user, t.key) /\ rows' = rows
      /\ \/ t.key = NoKey /\ UNCHANGED locks
         \/ t.key # NoKey /\ Take(w, KeyLock(t.user, t.key))
  BY DEF InsertOrder
<1> HIDE DEF row
<1>7. /\ y.at = "commit" /\ y.row = row /\ y.order = x.order /\ y.user = x.user
      /\ y.type = x.type /\ y.amount = x.amount /\ y.read = x.read
  BY <1>2
<1>8. y \in Tx /\ y # Closed
  BY <1>2, <1>5, <1>7 DEF Tx, Stage, Closed
<1> HIDE DEF y
<1>9. Holds(w)'
  <2>1. UNCHANGED <<balance, orders, task>> /\ tx'[w] = y
    BY <1>6 DEF Statement, vars, TxIInv, TxTypeOK
  <2>2. /\ locks[w] \subseteq locks'[w]
        /\ t.key # NoKey => KeyLock(t.user, t.key) \in locks'[w]
    BY <1>6 DEF Take, TxIInv, TxTypeOK
  <2>3. Agrees(w)'
    BY <1>1, <1>3, <1>7, <1>8, <2>1 DEF Holds, Agrees, Owner, Due
  <2>4. WalletRead(w)'
    BY <1>1, <1>3, <1>7, <2>1, <2>2 DEF Holds, WalletRead
  <2>5. KeyRead(w)'
    BY <1>6, <1>7, <2>1, <2>2 DEF KeyRead, KeyTaken, row
  <2>6. OrderRead(w)' /\ Staged(w)' /\ LocksOrdered(w)'
    BY <1>3, <1>7, <2>1 DEF OrderRead, Staged, LocksOrdered
  <2> QED  BY <2>3, <2>4, <2>5, <2>6 DEF Holds
<1>10. CASE t.key = NoKey
  <2>1. UNCHANGED locks /\ WalletLock(x.user) \in Lock
    BY <1>1, <1>6, <1>10, OpenTx DEF TxIInv, Lock
  <2> QED  BY <1>1, <1>6, <1>7, <1>8, <1>9, <2>1, StatementStep
<1>11. CASE t.key # NoKey
  <2>1. Take(w, KeyLock(t.user, t.key)) /\ KeyLock(t.user, t.key) \in Lock
    BY <1>4, <1>6, <1>11 DEF Lock
  <2> QED  BY <1>1, <1>6, <1>7, <1>8, <1>9, <2>1, StatementStep
<1> QED  BY <1>10, <1>11

-----------------------------------------------------------------------------
LEMMA PutReplaces ==
  ASSUME NEW f, NEW o \in DOMAIN f, NEW v, f = [x \in DOMAIN f |-> f[x]]
  PROVE  Put(f, o, v) = [f EXCEPT ![o] = v]
BY DEF Put

(* The movement a transaction commits is the one the wallet promises, for  *)
(* nobody has touched the balance it read.                                 *)
LEMMA CommitMoves ==
  ASSUME TxIInv, NEW w \in Worker, Commit(w)
  PROVE  /\ Kind(task[w], Due(w)) = "none" => UNCHANGED <<walletVars, rows>>
         /\ Kind(task[w], Due(w)) # "none" =>
              /\ ApplyTransaction(Owner(w), Kind(task[w], Due(w)),
                                  Amount(task[w], Due(w)), tx[w].order)
              /\ rows' = rows \cup {Owner(w)}
<1> DEFINE x == tx[w]
           kind == Kind(task[w], Due(w))
           amount == Amount(task[w], Due(w))
<1>1. x # Closed /\ x.at = "commit"
  BY DEF Commit, Closed
<1>2. /\ x.type = kind /\ x.amount = amount /\ x.user = Owner(w) /\ Owner(w) \in User
      /\ Due(w) \in Nat /\ task[w] \in Task /\ amount \in Int
  <2>1. x.amount \in Int
    BY <1>1, OpenTx DEF TxIInv
  <2> QED  BY <1>1, <2>1, OpenTask
<1>3. CASE kind = "none"
  BY <1>2, <1>3 DEF Commit
<1>4. CASE kind # "none"
  <2>1. x.read = balance[Owner(w)] /\ x.read + amount >= 0
    BY <1>1, <1>2, <1>4 DEF TxIInv, Holds, WalletRead
  <2>2. amount # 0
    <3>1. CASE Charges(task[w], Due(w))
      <4>1. Due(w) > 0 /\ amount = - Due(w)
        BY <3>1 DEF Charges, Amount
      <4> QED  BY <1>2, <4>1
    <3>2. CASE ~ Charges(task[w], Due(w))
      <4>1. task[w].op = "refund" /\ amount = task[w].amount
        BY <1>4, <3>2 DEF Kind, Amount
      <4>2. RefundFits(orders[x.order], task[w].amount)
        BY <1>1, <4>1 DEF TxIInv, Holds, OrderRead
      <4> QED  BY <1>2, <4>1, <4>2 DEF RefundFits
    <3> QED  BY <3>1, <3>2
  <2>3. /\ balance' = [balance EXCEPT ![Owner(w)] = x.read + amount]
        /\ ledger' = [ledger EXCEPT ![Owner(w)] = Append(@, [type |-> kind, amount |-> amount,
                        after |-> x.read + amount, order |-> x.order])]
        /\ rows' = rows \cup {Owner(w)}
    BY <1>2, <1>4 DEF Commit
  <2> HIDE DEF kind, amount
  <2>4. ApplyTransaction(Owner(w), kind, amount, x.order) /\ rows' = rows \cup {Owner(w)}
    BY <2>1, <2>2, <2>3 DEF ApplyTransaction
  <2> QED  BY <1>4, <2>4 DEF kind, amount
<1> QED  BY <1>3, <1>4

(* At every commit the tables change as the handler of Billing changes     *)
(* them in one step.                                                       *)
LEMMA CommitRefines ==
  ASSUME TxIInv, NEW w \in Worker, Commit(w)
  PROVE  Next
<1> DEFINE x == tx[w]
           t == task[w]
           o == x.order
<1>1. x # Closed /\ x.at = "commit" /\ Finish(w)
  BY DEF Commit, Closed
<1>2. t \in Task /\ t.op \in Ops /\ Holds(w) /\ o \in OrderId
  BY <1>1, OpenTask, OpenTx DEF TxIInv
<1>3. CASE t.op = "create"
  <2>1. /\ t.user \in User /\ t.method \in {"balance", "external"} /\ t.total \in Nat
    BY <1>2, <1>3, TaskFields
  <2>2. Owner(w) = t.user /\ Due(w) = t.total
    BY <1>3 DEF Owner, Due
  <2>3. /\ Charges(t, t.total) <=> t.total > 0 /\ t.method = "balance"
        /\ Charges(t, t.total) =>
             Kind(t, t.total) = "purchase" /\ Amount(t, t.total) = - t.total
        /\ ~ Charges(t, t.total) => Kind(t, t.total) = "none"
    BY <1>3 DEF Charges, Kind, Amount
  <2>4. \/ t.total > 0 /\ t.method = "balance" /\ ApplyTransaction(t.user, "purchase", -t.total, o)
        \/ ~ (t.total > 0 /\ t.method = "balance") /\ UNCHANGED walletVars
    BY <2>2, <2>3, CommitMoves
  <2>5. o \in OrderId \ DOMAIN orders
    BY <1>1, <1>2, <1>3 DEF Holds, Agrees
  <2>6. x.row = NewOrder(t.user, t.key, t.method, t.total) /\ ~ KeyTaken(t.user, t.key)
    BY <1>1, <1>2, <1>3 DEF Holds, KeyRead
  <2>7. x.row.payment = "pending" <=> t.method = "external" /\ t.total > 0
    BY <2>1, <2>6 DEF NewOrder
  <2>8. /\ orders' = Put(orders, o, NewOrder(t.user, t.key, t.method, t.total))
        /\ payments' = IF t.method = "external" /\ t.total > 0
                       THEN Put(payments, o, "pending") ELSE payments
        /\ refunds' = refunds
    BY <1>3, <2>6, <2>7 DEF Commit
  <2> HIDE DEF x, t, o
  <2>9. CreateCommit(w)
    BY <1>1, <1>3, <2>4, <2>5, <2>6, <2>8 DEF CreateCommit, t
  <2> QED  BY <2>9 DEF Next, WorkerStep
<1>4. CASE t.op # "create"
  <2>1. o = t.order /\ o \in DOMAIN orders
    BY <1>1, <1>2, <1>4, AboutOrder DEF TxIInv, IInv, Holds, Agrees
  <2>2. Owner(w) = orders[o].user /\ Due(w) = orders[o].total /\ orders[o].total \in Nat
    BY <1>4, <2>1, OrderTypes DEF Owner, Due, TxIInv, IInv
  <2>3. x.row = Updated(t, orders[o]) /\ (t.op = "refund" => RefundFits(orders[o], t.amount))
    BY <1>1, <1>2, <1>4 DEF Holds, OrderRead
  <2>4. orders' = [orders EXCEPT ![o] = Updated(t, orders[o])]
    <3>1. orders' = Put(orders, o, x.row) /\ orders = [y \in DOMAIN orders |-> orders[y]]
      BY DEF Commit, TxIInv, TxTypeOK, TypeOK
    <3> HIDE DEF o, x, t
    <3> QED  BY <2>1, <2>3, <3>1, PutReplaces
  <2>5. CASE t.op = "markPaid"
    <3>1. /\ Charges(t, Due(w)) <=> t.charge /\ orders[o].total > 0
          /\ Charges(t, Due(w)) =>
               Kind(t, Due(w)) = "purchase" /\ Amount(t, Due(w)) = - orders[o].total
          /\ ~ Charges(t, Due(w)) => Kind(t, Due(w)) = "none"
      BY <2>2, <2>5 DEF Charges, Kind, Amount
    <3>2. \/ /\ t.charge /\ orders[o].total > 0
             /\ ApplyTransaction(orders[o].user, "purchase", -orders[o].total, o)
          \/ ~ (t.charge /\ orders[o].total > 0) /\ UNCHANGED walletVars
      BY <2>2, <3>1, CommitMoves
    <3>3. orders' = [orders EXCEPT ![o] = WithMethod(PaymentState(orders[o], "succeeded"), t.method)]
      BY <2>4, <2>5 DEF Updated
    <3>4. payments' = payments /\ refunds' = refunds
      BY <2>5 DEF Commit
    <3>5. MarkPaidCommit(w)
      BY <1>1, <2>1, <2>5, <3>2, <3>3, <3>4 DEF MarkPaidCommit
    <3> QED  BY <3>5 DEF Next, WorkerStep
  <2>6. CASE t.op = "refund"
    <3>1. ~ Charges(t, Due(w)) /\ Kind(t, Due(w)) = "refund" /\ Amount(t, Due(w)) = t.amount
      BY <2>6 DEF Charges, Kind, Amount
    <3>2. RecordRefund(orders[o].user, t.amount, o)
      BY <2>2, <2>3, <2>6, <3>1, CommitMoves DEF RecordRefund, RefundFits
    <3>3. orders' = [orders EXCEPT ![o] = AddRefund(orders[o], t.amount)]
      BY <2>4, <2>6 DEF Updated
    <3>4. payments' = payments /\ refunds' = [refunds EXCEPT ![o] = Append(@, t.amount)]
      BY <2>6 DEF Commit
    <3>5. RefundCommit(w)
      BY <1>1, <2>1, <2>3, <2>6, <3>2, <3>3, <3>4 DEF RefundCommit
    <3> QED  BY <3>5 DEF Next, WorkerStep
  <2>7. CASE t.op = "callback"
    <3>1. Kind(t, Due(w)) = "none"
      BY <2>7 DEF Charges, Kind
    <3>2. UNCHANGED walletVars
      BY <3>1, CommitMoves
    <3>3. orders' = [orders EXCEPT ![o] = PaymentState(orders[o], t.status)]
      BY <2>4, <2>7 DEF Updated
    <3>4. payments' = [payments EXCEPT ![o] = t.status] /\ refunds' = refunds
      BY <2>7 DEF Commit
    <3>5. CallbackCommit(w)
      BY <1>1, <2>1, <2>7, <3>2, <3>3, <3>4 DEF CallbackCommit
    <3> QED  BY <3>5 DEF Next, WorkerStep
  <2>8. CASE t.op \in {"userCancel", "adminCancel"}
    <3>1. Kind(t, Due(w)) = "none"
      BY <2>8 DEF Charges, Kind
    <3>2. UNCHANGED walletVars
      BY <3>1, CommitMoves
    <3>3. orders' = [orders EXCEPT ![o] = Cancelled(orders[o])]
      BY <2>4, <2>8 DEF Updated
    <3>4. payments' = payments /\ refunds' = refunds
      BY <2>8 DEF Commit
    <3>5. CancelCommit(w)
      BY <1>1, <2>1, <2>8, <3>2, <3>3, <3>4 DEF CancelCommit
    <3> QED  BY <3>5 DEF Next, WorkerStep
  <2> QED  BY <1>2, <1>4, <2>5, <2>6, <2>7, <2>8 DEF Ops
<1> QED  BY <1>3, <1>4

-----------------------------------------------------------------------------
(* A worker whose transaction has ended carries nothing. *)
LEMMA ClosedHolds ==
  ASSUME NEW w \in Worker, tx'[w] = Closed, task'[w] = Idle, locks'[w] = {}
  PROVE  Holds(w)'
BY DEF Closed, Holds, Agrees, WalletRead, OrderRead, KeyRead, Staged, LocksOrdered

(* What a commit changes, it had locked.                                   *)
LEMMA CommitTouches ==
  ASSUME TxIInv, NEW w \in Worker, Commit(w)
  PROVE  /\ tx[w].order \in OrderId
         /\ DOMAIN orders' = DOMAIN orders \cup {tx[w].order}
         /\ \A p \in DOMAIN orders : p # tx[w].order => orders'[p] = orders[p]
         /\ task[w].op = "create" =>
              /\ tx[w].order \notin DOMAIN orders
              /\ orders'[tx[w].order].user = task[w].user
              /\ orders'[tx[w].order].key = task[w].key
              /\ task[w].key # NoKey => KeyLock(task[w].user, task[w].key) \in locks[w]
         /\ task[w].op # "create" =>
              /\ tx[w].order \in DOMAIN orders
              /\ OrderLock(tx[w].order) \in locks[w]
         /\ \A u \in User : balance'[u] # balance[u] => WalletLock(u) \in locks[w]
<1> DEFINE x == tx[w]
           t == task[w]
           o == x.order
<1>1. x # Closed /\ x.at = "commit" /\ orders' = Put(orders, o, x.row)
  BY DEF Commit, Closed
<1>2. t \in Task /\ t.op \in Ops /\ Holds(w) /\ o \in OrderId
  BY <1>1, OpenTask, OpenTx DEF TxIInv
<1>3. /\ DOMAIN orders' = DOMAIN orders \cup {o} /\ orders'[o] = x.row
      /\ \A p \in DOMAIN orders : p # o => orders'[p] = orders[p]
  BY <1>1 DEF Put
<1>4. t.op = "create" =>
        /\ o \notin DOMAIN orders /\ x.row = NewOrder(t.user, t.key, t.method, t.total)
        /\ t.key # NoKey => KeyLock(t.user, t.key) \in locks[w]
  BY <1>1, <1>2 DEF Holds, Agrees, KeyRead
<1>5. t.op = "create" => x.row.user = t.user /\ x.row.key = t.key
  BY <1>4 DEF NewOrder
<1>6. t.op # "create" => o \in DOMAIN orders /\ OrderLock(o) \in locks[w]
  BY <1>1, <1>2, AboutOrder DEF TxIInv, IInv, Holds, Agrees, OrderRead
<1>7. ASSUME NEW u \in User, balance'[u] # balance[u] PROVE WalletLock(u) \in locks[w]
  <2>1. Kind(t, Due(w)) # "none" /\ balance' = [balance EXCEPT ![Owner(w)] = @ + Amount(t, Due(w))]
    BY <1>7, CommitMoves DEF ApplyTransaction, walletVars
  <2>2. u = Owner(w)
    BY <1>7, <2>1 DEF TxIInv, TxTypeOK, TypeOK, WalletTypeOK
  <2>3. x.type = Kind(t, Due(w)) /\ x.user = Owner(w)
    BY <1>1, OpenTask
  <2> QED  BY <1>1, <1>2, <2>1, <2>2, <2>3 DEF Holds, WalletRead
<1> QED  BY <1>2, <1>3, <1>4, <1>5, <1>6, <1>7

(* ... so what another open transaction has read still stands.             *)
LEMMA CommitSpares ==
  ASSUME TxIInv, NEW w \in Worker, Commit(w), NEW v \in Worker, v # w, tx[v] # Closed
  PROVE  Holds(v)'
<1> DEFINE x == tx[v]
           t == task[v]
           o == tx[w].order
<1>1. /\ tx'[v] = x /\ task'[v] = t /\ locks'[v] = locks[v]
  BY DEF Commit, Close, Finish, TxIInv, TxTypeOK, TypeOK
<1>2. /\ Holds(v) /\ t \in Task /\ t.op \in Ops
      /\ t.op # "create" => x.order = t.order /\ t.order \in DOMAIN orders
      /\ x.user \in User
  BY OpenTask, OpenTx, AboutOrder DEF TxIInv, IInv, Holds, Agrees
<1>3. tx[w] # Closed /\ locks[v] \cap locks[w] = {}
  BY DEF Commit, Closed, TxIInv, LocksExclusive
<1>4. \A p \in DOMAIN orders : p \in DOMAIN orders' /\ Replaces(orders[p], orders'[p])
  BY CommitRefines, StepCases, RowsKept DEF TxIInv, IInv
<1>5. Owner(v)' = Owner(v) /\ Due(v)' = Due(v)
  BY <1>1, <1>2, <1>4 DEF Owner, Due, Replaces
<1>6. Agrees(v)'
  <2>1. t.op = "create" => x.order \notin DOMAIN orders'
    <3>1. t.op = "create" => x.order \notin DOMAIN orders
      BY <1>2 DEF Holds, Agrees
    <3>2. t.op = "create" /\ task[w].op = "create" => x.order # o
      BY <1>3 DEF TxIInv, NumbersApart
    <3> QED  BY <3>1, <3>2, CommitTouches
  <2> QED  BY <1>1, <1>2, <1>5, <2>1 DEF Holds, Agrees
<1>7. WalletRead(v)'
  <2>1. WalletLock(x.user) \in locks[v] => balance'[x.user] = balance[x.user]
    BY <1>2, <1>3, CommitTouches
  <2> QED  BY <1>1, <1>2, <2>1 DEF Holds, WalletRead
<1>8. OrderRead(v)'
  <2>1. t.op # "create" /\ OrderLock(x.order) \in locks[v] => orders'[x.order] = orders[x.order]
    BY <1>2, <1>3, CommitTouches
  <2> QED  BY <1>1, <1>2, <2>1 DEF Holds, OrderRead
<1>9. KeyRead(v)'
  <2>1. SUFFICES ASSUME x.at = "commit", t.op = "create", KeyTaken(t.user, t.key)' PROVE FALSE
    BY <1>1, <1>2 DEF Holds, KeyRead, KeyTaken
  <2>2. ~ KeyTaken(t.user, t.key) /\ (t.key # NoKey => KeyLock(t.user, t.key) \in locks[v])
    BY <1>2, <2>1 DEF Holds, KeyRead
  <2>3. PICK p \in DOMAIN orders' : orders'[p].user = t.user /\ orders'[p].key = t.key
    BY <1>1, <2>1 DEF KeyTaken
  <2>4. t.key # NoKey
    BY <1>1, <2>1 DEF KeyTaken
  <2>5. CASE p \in DOMAIN orders
    <3>1. orders[p].user = t.user /\ orders[p].key = t.key
      BY <1>4, <2>3, <2>5 DEF Replaces
    <3> QED  BY <2>2, <2>4, <2>5, <3>1 DEF KeyTaken
  <2>6. CASE p \notin DOMAIN orders
    <3>1. p = o /\ task[w].op = "create"
      BY <2>6, CommitTouches
    <3>2. task[w].user = t.user /\ task[w].key = t.key
      BY <2>3, <3>1, CommitTouches
    <3> QED  BY <1>3, <2>2, <2>4, <3>1, <3>2, CommitTouches
  <2> QED  BY <2>5, <2>6
<1>10. Staged(v)' /\ LocksOrdered(v)'
  BY <1>1, <1>2 DEF Holds, Staged, LocksOrdered
<1> QED  BY <1>6, <1>7, <1>8, <1>9, <1>10 DEF Holds

LEMMA CommitStep ==
  ASSUME TxIInv, NEW w \in Worker, Commit(w)
  PROVE  TxIInv'
<1>1. /\ TypeOK /\ rows \subseteq User /\ tx \in [Worker -> Tx]
      /\ locks \in [Worker -> SUBSET Lock] /\ task \in [Worker -> Task]
  BY DEF TxIInv, TxTypeOK, TypeOK
<1>2. /\ tx' = [tx EXCEPT ![w] = Closed] /\ locks' = [locks EXCEPT ![w] = {}]
      /\ task' = [task EXCEPT ![w] = Idle] /\ tx[w] # Closed
  BY DEF Commit, Close, Finish, Closed
<1>3. IInv'
  BY CommitRefines, StepIInv DEF TxIInv
<1>4. /\ Kind(task[w], Due(w)) = "none" => UNCHANGED <<walletVars, rows>>
      /\ Kind(task[w], Due(w)) # "none" =>
           /\ balance' = [balance EXCEPT ![Owner(w)] = @ + Amount(task[w], Due(w))]
           /\ rows' = rows \cup {Owner(w)}
      /\ Owner(w) \in User
  BY <1>2, CommitMoves, OpenTask DEF ApplyTransaction
<1>5. TxTypeOK'
  <2>1. rows' \subseteq User
    BY <1>1, <1>4
  <2>2. Closed \in Tx
    BY DEF Tx
  <2> QED  BY <1>1, <1>2, <1>3, <2>1, <2>2 DEF IInv, TxTypeOK
<1>6. ASSUME NEW v \in Worker PROVE Holds(v)'
  <2>1. CASE v = w
    <3>1. tx'[v] = Closed /\ task'[v] = Idle /\ locks'[v] = {}
      BY <1>1, <1>2, <2>1
    <3> QED  BY <3>1, ClosedHolds
  <2>2. CASE v # w /\ tx[v] # Closed
    BY <2>2, CommitSpares
  <2>3. CASE v # w /\ tx[v] = Closed
    <3>1. tx[v] = Closed /\ task[v] = Idle /\ locks[v] = {}
      BY <1>1, <2>3, AtClosed DEF TxIInv, Holds, Agrees, LocksOrdered
    <3>2. tx'[v] = Closed /\ task'[v] = Idle /\ locks'[v] = {}
      BY <1>1, <1>2, <2>3, <3>1
    <3> QED  BY <3>2, ClosedHolds
  <2> QED  BY <2>1, <2>2, <2>3
<1>7. NumbersApart'
  BY <1>1, <1>2 DEF TxIInv, NumbersApart
<1>8. LocksExclusive'
  BY <1>1, <1>2 DEF TxIInv, LocksExclusive
<1>9. NoRow'
  <2>1. SUFFICES ASSUME NEW u \in User \ rows' PROVE balance'[u] = balance[u] /\ u \notin rows
    BY DEF TxIInv, NoRow
  <2>2. CASE Kind(task[w], Due(w)) = "none"
    BY <1>4, <2>1, <2>2 DEF walletVars
  <2>3. CASE Kind(task[w], Due(w)) # "none"
    BY <1>1, <1>4, <2>1, <2>3 DEF TypeOK, WalletTypeOK
  <2> QED  BY <2>2, <2>3
<1> QED  BY <1>3, <1>5, <1>6, <1>7, <1>8, <1>9 DEF TxIInv

(* A transaction that is rolled back was never there. *)
LEMMA RollbackStep ==
  ASSUME TxIInv, NEW w \in Worker, Rollback(w)
  PROVE  Next /\ TxIInv'
<1>1. /\ TypeOK /\ rows \subseteq User /\ tx \in [Worker -> Tx]
      /\ locks \in [Worker -> SUBSET Lock] /\ task \in [Worker -> Task]
  BY DEF TxIInv, TxTypeOK, TypeOK
<1>2. /\ tx' = [tx EXCEPT ![w] = Closed] /\ locks' = [locks EXCEPT ![w] = {}]
      /\ task' = [task EXCEPT ![w] = Idle]
      /\ UNCHANGED <<balance, ledger, orders, payments, refunds, rows>>
  BY DEF Rollback, Abort, Close, Finish, walletVars, orderVars
<1>3. Next
  BY DEF Rollback, Next, WorkerStep
<1>4. IInv'
  BY <1>3, StepIInv DEF TxIInv
<1>5. TxTypeOK'
  <2>1. Closed \in Tx
    BY DEF Tx
  <2> QED  BY <1>1, <1>2, <1>4, <2>1 DEF IInv, TxTypeOK
<1>6. ASSUME NEW v \in Worker PROVE Holds(v)'
  <2>1. CASE v = w
    <3>1. tx'[v] = Closed /\ task'[v] = Idle /\ locks'[v] = {}
      BY <1>1, <1>2, <2>1
    <3> QED  BY <3>1, ClosedHolds
  <2>2. CASE v # w
    <3>1. tx'[v] = tx[v] /\ task'[v] = task[v] /\ locks'[v] = locks[v]
      BY <1>1, <1>2, <2>2
    <3>2. Holds(v)
      BY DEF TxIInv
    <3> QED  BY <1>2, <3>1, <3>2, Undisturbed
  <2> QED  BY <2>1, <2>2
<1>7. NumbersApart' /\ LocksExclusive' /\ NoRow'
  BY <1>1, <1>2 DEF TxIInv, NumbersApart, LocksExclusive, NoRow
<1> QED  BY <1>3, <1>4, <1>5, <1>6, <1>7 DEF TxIInv

-----------------------------------------------------------------------------
LEMMA TxStep ==
  ASSUME TxIInv, [TxNext]_<<vars, txVars>>
  PROVE  [Next]_vars /\ TxIInv'
<1>1. CASE UNCHANGED <<vars, txVars>>
  <2>1. IInv'
    BY <1>1, StepIInv DEF TxIInv
  <2>2. TxTypeOK'
    BY <1>1, <2>1 DEF TxIInv, TxTypeOK, IInv, txVars
  <2>3. \A w \in Worker : Holds(w)'
    BY <1>1, Undisturbed DEF TxIInv, vars, txVars
  <2>4. NumbersApart' /\ LocksExclusive' /\ NoRow'
    BY <1>1 DEF TxIInv, NumbersApart, LocksExclusive, NoRow, vars, txVars
  <2> QED  BY <1>1, <2>1, <2>2, <2>3, <2>4 DEF TxIInv
<1>2. ASSUME NEW w \in Worker, Begin(w) PROVE [Next]_vars /\ TxIInv'
  BY <1>2, BeginRefines, BeginStep
<1>3. ASSUME NEW w \in Worker, Acquire(w) PROVE [Next]_vars /\ TxIInv'
  <2>1. UNCHANGED vars
    BY <1>3 DEF Acquire, LockWallet, CreateWallet, LockPayment, LockOrder, InsertOrder,
                Moved, Statement
  <2> QED  BY <1>3, <2>1, LockWalletStep, CreateWalletStep, LockPaymentStep, LockOrderStep,
              InsertOrderStep DEF Acquire
<1>4. ASSUME NEW w \in Worker, Commit(w) PROVE [Next]_vars /\ TxIInv'
  BY <1>4, CommitRefines, CommitStep
<1>5. ASSUME NEW w \in Worker, Refused(w) \/ Rollback(w) PROVE [Next]_vars /\ TxIInv'
  BY <1>5, RollbackStep DEF Refused
<1> QED  BY <1>1, <1>2, <1>3, <1>4, <1>5 DEF TxNext

(* What a transaction has read under its locks stands until it commits,    *)
(* however the statements of the others fall between its own.              *)
THEOREM TxInvariance == TxSpec => []TxIInv
BY InitTx, TxStep, PTL DEF TxSpec

(* The statements keep the tables, the open transactions and the locks     *)
(* well typed (ApplyTransaction, UpdatePaymentState, AddRefund, Create).   *)
THEOREM TxTypeCorrect == TxSpec => []TxTypeOK
<1>1. TxIInv => TxTypeOK
  BY DEF TxIInv
<1> QED  BY <1>1, TxInvariance, PTL

(* The row locks and the unique index on (user_id, idempotency_key) make   *)
(* every transaction of the order handlers the one step Billing takes it   *)
(* for: what Billing's theorems say holds of the statements too.           *)
THEOREM ImplementsBilling == TxSpec => Spec
<1>1. TxInit => Init
  BY DEF TxInit
<1> QED  BY <1>1, TxStep, TxInvariance, PTL DEF TxSpec, Spec

(* So what the atomic handlers keep true of orders, payments, refunds and  *)
(* wallets is true of the committed tables between any two statements.     *)
THEOREM KeptStatementByStatement ==
  TxSpec => [](RefundsReconcile /\ ChargesBacked /\ PrepaidStatus /\ PrepaidChargedOnce
                 /\ RefundStatusTruthful /\ PaymentAgreement /\ KeyNamesOneOrder)
BY ImplementsBilling, RefundsAlwaysReconcile, NoStrayCharge, PrepaidSafe, PrepaidIsChargedOnce,
   RefundStatusIsTrue, PaymentsAgree, KeysUnique, PTL

-----------------------------------------------------------------------------
(* A worker that waits for v is further back in the order of locks than v. *)
Rank(w) ==
  CASE tx[w].at \in {"wallet", "newWallet", "payment"} -> 0
    [] tx[w].at \in {"order", "insert"} -> 1
    [] OTHER -> 2

LEMMA WaitsForLater ==
  ASSUME TxIInv, NEW w \in Worker, NEW v \in Worker, WaitsFor(w, v)
  PROVE  Rank(w) < Rank(v)
<1>1. /\ tx[w] # Closed /\ tx[w].at \in Stage /\ tx[w].order \in OrderId
      /\ LocksOrdered(v) /\ locks[v] # {}
  BY OpenTx DEF WaitsFor, TxIInv, Holds
<1>2. tx[v].at \in {"order", "insert", "commit"}
  <2>1. tx[v].at \in Stage
    BY <1>1, OpenTx DEF TxIInv, LocksOrdered, Closed
  <2> QED  BY <1>1, <2>1 DEF LocksOrdered, Stage
<1>3. CASE tx[w].at \in {"wallet", "newWallet", "payment"}
  BY <1>2, <1>3 DEF Rank
<1>4. CASE tx[w].at \in {"order", "insert"}
  <2>1. PICK l \in locks[v] : l[1] \in {"order", "key"}
    BY <1>4 DEF WaitsFor, OrderLock, KeyLock
  <2>2. \A u : WalletLock(u)[1] = "wallet" /\ PaymentLock(u)[1] = "payment"
    BY DEF WalletLock, PaymentLock
  <2>3. tx[v].at = "commit"
    BY <1>1, <2>1, <2>2 DEF LocksOrdered
  <2> QED  BY <1>4, <2>3 DEF Rank
<1>5. CASE tx[w].at = "commit"
  BY <1>5 DEF WaitsFor
<1> QED  BY <1>1, <1>3, <1>4, <1>5 DEF Stage

(* No transactions of the order handlers wait for each other, as all take  *)
(* their locks in the order wallet, payment, order or key.                 *)
THEOREM NobodyWaitsInCircle == TxSpec => []NoWaitCycle
<1>1. TxIInv => NoWaitCycle
  <2> SUFFICES ASSUME TxIInv, NEW ws \in SUBSET Worker, ws # {},
                      \A w \in ws : \E v \in ws \ {w} : WaitsFor(w, v)
               PROVE  FALSE
    BY DEF NoWaitCycle
  <2>1. \A w \in ws : Rank(w) \in 0 .. 2
    BY DEF Rank
  <2>2. \A w \in ws : \E v \in ws : Rank(w) < Rank(v)
    BY WaitsForLater
  <2>3. PICK w \in ws : TRUE
    OBVIOUS
  <2>4. PICK v \in ws : Rank(w) < Rank(v)
    BY <2>2, <2>3
  <2>5. PICK u \in ws : Rank(v) < Rank(u)
    BY <2>2, <2>4
  <2>6. PICK s \in ws : Rank(u) < Rank(s)
    BY <2>2, <2>5
  <2> QED  BY <2>1, <2>4, <2>5, <2>6
<1> QED  BY <1>1, TxInvariance, PTL

=============================================================================
