------------------------------ MODULE BillingTx ------------------------------
(***************************************************************************)
(* The transactions of the order handlers, statement by statement, on a    *)
(* database whose SELECT ... FOR UPDATE locks the rows it finds and        *)
(* nothing else (PostgreSQL; InnoDB when the row is there).  Billing makes *)
(* each of them one step; this module shows that these locks and the       *)
(* unique indexes are what makes them so, and that no two transactions     *)
(* wait for each other.                                                    *)
(*                                                                         *)
(* Billing's variables hold what is committed.  What a transaction has     *)
(* written and not yet committed is in tx, invisible to the others, who    *)
(* wait at a lock it holds and read what is committed once they have it.   *)
(***************************************************************************)
EXTENDS Billing

VARIABLES
  rows,   \* the users who have a row in user_balances
  tx,     \* the open transaction of each worker
  locks   \* the row locks and index entries each worker holds

txVars == <<rows, tx, locks>>

(* What can be locked: a wallet row, the unique entry of a new wallet row, *)
(* a payment row, an order row, the unique entry of an idempotency key.    *)
WalletLock(u) == <<"wallet", u>>
PaymentLock(o) == <<"payment", o>>
OrderLock(o) == <<"order", o>>
KeyLock(u, k) == <<"key", u, k>>

Lock == {WalletLock(u) : u \in User} \cup {PaymentLock(o) : o \in OrderId}
          \cup {OrderLock(o) : o \in OrderId}
          \cup {KeyLock(u, k) : u \in User, k \in Key}

Closed == [at |-> "closed"]

Stage == {"wallet", "newWallet", "payment", "order", "insert", "commit"}

(* at: the next statement; order: the row concerned; user, type, amount:   *)
(* the wallet movement, when there is one; read: the balance seen under    *)
(* the lock; row: the order as this transaction leaves it.                 *)
Tx == {Closed} \cup
  [at : Stage, order : OrderId, user : User, type : {"none", "purchase", "refund"},
   amount : Int, read : Int, row : OrderRow \cup {Closed}]

TxTypeOK ==
  /\ TypeOK
  /\ rows \subseteq User
  /\ tx \in [Worker -> Tx]
  /\ locks \in [Worker -> SUBSET Lock]

TxInit ==
  /\ Init
  /\ rows \in SUBSET User
  /\ \A u \in User : Opening[u] > 0 => u \in rows
  /\ tx = [w \in Worker |-> Closed]
  /\ locks = [w \in Worker |-> {}]

-----------------------------------------------------------------------------
Free(w, l) == \A v \in Worker \ {w} : l \notin locks[v]

Take(w, l) ==
  /\ Free(w, l)
  /\ locks' = [locks EXCEPT ![w] = @ \cup {l}]

(* Statements leave the committed tables alone. *)
Statement(w, next) ==
  /\ tx' = [tx EXCEPT ![w] = next]
  /\ UNCHANGED vars

(* The numbers of orders being created are reserved by their transactions. *)
Fresh(o) == o \notin DOMAIN orders /\ \A v \in Worker : tx[v] # Closed => tx[v].order # o

(* The transaction of task t, for order o of this user and total.          *)
Opened(t, o, user, total) ==
  LET charge == total > 0 /\ \/ t.op = "create" /\ t.method = "balance"
                             \/ t.op = "markPaid" /\ t.charge
      type   == IF charge THEN "purchase"
                ELSE IF t.op = "refund" THEN "refund" ELSE "none"
  IN  [order |-> o, user |-> user, type |-> type, read |-> 0, row |-> Closed,
       amount |-> CASE type = "purchase" -> -total
                    [] type = "refund"   -> t.amount
                    [] OTHER             -> 0,
       at |-> IF type # "none" THEN "wallet"
              ELSE CASE t.op = "create"   -> "insert"
                     [] t.op = "callback" -> "payment"
                     [] OTHER             -> "order"]

(* A request passes its guards, numbers the order it is to create, and     *)
(* opens its transaction, which holds nothing yet.                         *)
Begin(w) ==
  /\ \/ /\ CreateRead(w)
        /\ LET t == task'[w]
           IN  \E o \in OrderId :
                 Fresh(o) /\ tx' = [tx EXCEPT ![w] = Opened(t, o, t.user, t.total)]
     \/ /\ \/ MarkPaidRead(w) \/ RefundRead(w) \/ CallbackRead(w)
           \/ UserCancelRead(w) \/ AdminCancelRead(w)
        /\ LET t == task'[w]
               row == orders[t.order]
           IN  tx' = [tx EXCEPT ![w] = Opened(t, t.order, row.user, row.total)]
  /\ UNCHANGED <<rows, locks>>

-----------------------------------------------------------------------------
(* Mutation: the overdraft check is dropped. *)
MovedOverdrawn(w, read) ==
  Statement(w, [tx[w] EXCEPT !.at = IF task[w].op = "create" THEN "insert" ELSE "order",
                             !.read = read])

(* ApplyTransaction, which writes the movement and the new balance once it *)
(* has the lock.  A missing row is not locked: both of two first movements *)
(* of a user come to CreateWallet, and the unique index on user_id makes   *)
(* the second insert wait, and then fail.                                  *)
Moved(w, read) ==
  /\ read + tx[w].amount >= 0
  /\ Statement(w, [tx[w] EXCEPT !.at = IF task[w].op = "create" THEN "insert" ELSE "order",
                                !.read = read])

(* Mutation: the wallet row is read without FOR UPDATE. *)
LockWalletUnlocked(w) ==
  LET u == tx[w].user
  IN  /\ tx[w].at = "wallet"
      /\ \/ u \in rows /\ UNCHANGED locks /\ Moved(w, balance[u])
         \/ /\ u \notin rows
            /\ Statement(w, [tx[w] EXCEPT !.at = "newWallet"])
            /\ UNCHANGED locks
      /\ UNCHANGED rows

LockWallet(w) ==
  LET u == tx[w].user
  IN  /\ tx[w].at = "wallet"
      /\ \/ u \in rows /\ Take(w, WalletLock(u)) /\ Moved(w, balance[u])
         \/ /\ u \notin rows
            /\ Statement(w, [tx[w] EXCEPT !.at = "newWallet"])
            /\ UNCHANGED locks
      /\ UNCHANGED rows

CreateWallet(w) ==
  LET u == tx[w].user
  IN  /\ tx[w].at = "newWallet"
      /\ u \notin rows /\ Take(w, WalletLock(u)) /\ Moved(w, 0)
      /\ UNCHANGED rows

(* UpdatePaymentRecord *)
LockPayment(w) ==
  /\ tx[w].at = "payment"
  /\ Take(w, PaymentLock(tx[w].order))
  /\ Statement(w, [tx[w] EXCEPT !.at = "order"])
  /\ UNCHANGED rows

(* What the handler makes of the order row it has locked.                  *)
Updated(t, row) ==
  CASE t.op = "markPaid" -> WithMethod(PaymentState(row, "succeeded"), t.method)
    [] t.op = "callback" -> PaymentState(row, t.status)
    [] t.op = "refund"   -> AddRefund(row, t.amount)
    [] OTHER             -> Cancelled(row)

(* Mutation: a refund locks its order before the wallet. *)
LockOrderEarly(w) ==
  LET o == tx[w].order
  IN  \/ /\ tx[w].at = "order"
         /\ Take(w, OrderLock(o))
         /\ task[w].op = "refund" => RefundFits(orders[o], task[w].amount)
         /\ Statement(w, [tx[w] EXCEPT !.at = "commit", !.row = Updated(task[w], orders[o])])
         /\ UNCHANGED rows
      \/ /\ tx[w].at = "wallet" /\ task[w].op = "refund"
         /\ Take(w, OrderLock(o))
         /\ UNCHANGED <<vars, tx, rows>>

(* UpdatePaymentState, UpdateStatus and AddRefund; the latter may refuse.  *)
LockOrder(w) ==
  LET o == tx[w].order
  IN  /\ tx[w].at = "order"
      /\ Take(w, OrderLock(o))
      /\ task[w].op = "refund" => RefundFits(orders[o], task[w].amount)
      /\ Statement(w, [tx[w] EXCEPT !.at = "commit", !.row = Updated(task[w], orders[o])])
      /\ UNCHANGED rows

(* Mutation: no unique index stands behind the lookup of CreateRead. *)
InsertOrderUnindexed(w) ==
  LET t == task[w]
  IN  /\ tx[w].at = "insert"
      /\ Statement(w, [tx[w] EXCEPT !.at = "commit",
                                    !.row = NewOrder(t.user, t.key, t.method, t.total)])
      /\ UNCHANGED <<rows, locks>>

(* Create of the order repository: waits for an uncommitted insert of the  *)
(* same key, and fails once such a key is committed.                       *)
InsertOrder(w) ==
  LET t == task[w]
  IN  /\ tx[w].at = "insert"
      /\ ~ KeyTaken(t.user, t.key)
      /\ \/ t.key = NoKey /\ UNCHANGED locks
         \/ t.key # NoKey /\ Take(w, KeyLock(t.user, t.key))
      /\ Statement(w, [tx[w] EXCEPT !.at = "commit",
                                    !.row = NewOrder(t.user, t.key, t.method, t.total)])
      /\ UNCHANGED rows

-----------------------------------------------------------------------------
Close(w) ==
  /\ tx' = [tx EXCEPT ![w] = Closed]
  /\ locks' = [locks EXCEPT ![w] = {}]

(* What was written becomes visible at once. *)
Commit(w) ==
  LET x == tx[w]
      t == task[w]
      after == x.read + x.amount
  IN  /\ x.at = "commit"
      /\ IF x.type = "none"
         THEN UNCHANGED <<walletVars, rows>>
         ELSE /\ balance' = [balance EXCEPT ![x.user] = after]
              /\ ledger' = [ledger EXCEPT ![x.user] =
                   Append(@, [type |-> x.type, amount |-> x.amount,
                              after |-> after, order |-> x.order])]
              /\ rows' = rows \cup {x.user}
      /\ orders' = Put(orders, x.order, x.row)
      /\ payments' =
           IF t.op = "callback" THEN [payments EXCEPT ![x.order] = t.status]
           ELSE IF t.op = "create" /\ x.row.payment = "pending"
           THEN Put(payments, x.order, "pending") ELSE payments
      /\ refunds' = IF t.op = "refund"
                    THEN [refunds EXCEPT ![x.order] = Append(@, t.amount)] ELSE refunds
      /\ Finish(w)
      /\ Close(w)

(* A refused statement, a lost connection, a crash: the database forgets   *)
(* the transaction and releases its locks.                                 *)
Rollback(w) ==
  /\ Abort(w)
  /\ Close(w)
  /\ UNCHANGED rows

-----------------------------------------------------------------------------
Acquire(w) ==
  LockWallet(w) \/ CreateWallet(w) \/ LockPayment(w) \/ LockOrder(w) \/ InsertOrder(w)

(* What the database or the handler refuses ends the transaction.          *)
Refused(w) ==
  /\ tx[w] # Closed
  /\ LET u == tx[w].user
         o == tx[w].order
     IN  \/ /\ tx[w].at = "wallet" /\ u \in rows /\ Free(w, WalletLock(u))
            /\ balance[u] + tx[w].amount < 0
         \/ tx[w].at = "newWallet" /\ (u \in rows \/ tx[w].amount < 0)
         \/ /\ tx[w].at = "order" /\ Free(w, OrderLock(o))
            /\ task[w].op = "refund" /\ ~ RefundFits(orders[o], task[w].amount)
         \/ tx[w].at = "insert" /\ KeyTaken(u, task[w].key)
  /\ Rollback(w)

TxNext ==
  \E w \in Worker : Begin(w) \/ Acquire(w) \/ Commit(w) \/ Refused(w) \/ Rollback(w)

(* A handler that is running keeps running; a lock that is free again and  *)
(* again is given to whoever waits for it, as the lock queue of the        *)
(* database does, whether the statement then succeeds or is refused.       *)
TxFairness ==
  \A w \in Worker :
    /\ WF_<<vars, txVars>>(Commit(w))
    /\ SF_<<vars, txVars>>(Acquire(w) \/ Refused(w))

TxSpec == TxInit /\ [][TxNext]_<<vars, txVars>> /\ TxFairness

-----------------------------------------------------------------------------
(* Billing's Spec is the abstract specification: at every commit the       *)
(* tables change as the atomic handler changes them, however statements    *)
(* of other transactions came between.                                     *)

(* Nobody waits in a circle: the locks each transaction waits for come     *)
(* after those it holds, in the order wallet, payment, order or key.       *)
WaitsFor(w, v) ==
  /\ tx[w] # Closed
  /\ LET wanted == CASE tx[w].at \in {"wallet", "newWallet"} -> {WalletLock(tx[w].user)}
                     [] tx[w].at = "payment" -> {PaymentLock(tx[w].order)}
                     [] tx[w].at = "order" -> {OrderLock(tx[w].order)}
                     [] tx[w].at = "insert" -> {KeyLock(task[w].user, task[w].key)}
                     [] OTHER -> {}
     IN  wanted \cap locks[v] # {}

NoWaitCycle ==
  ~ \E ws \in SUBSET Worker :
      /\ ws # {}
      /\ \A w \in ws : \E v \in ws \ {w} : WaitsFor(w, v)

(* Every request is answered: no handler waits for a lock for ever.        *)
RequestsEnd == \A w \in Worker : task[w] # Idle ~> task[w] = Idle
=============================================================================
