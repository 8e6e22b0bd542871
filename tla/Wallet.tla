------------------------------- MODULE Wallet -------------------------------
(***************************************************************************)
(* The prepaid wallet of repository/balance_repository.go: one aggregate   *)
(* row per user (user_balances) and an append-only list of signed          *)
(* movements (balance_transactions).  ApplyTransaction is one step here;   *)
(* module BillingTx splits it into its SQL statements and shows that the    *)
(* row lock makes it atomic.                                               *)
(***************************************************************************)
EXTENDS Integers, Sequences

CONSTANTS
  User,       \* user ids
  OrderId,    \* ids an order row can take, the references of a movement
  NoOrder,    \* the reference of a movement no order caused
  Opening     \* Opening[u]: what seeding credits to u, 0 for no movement

ASSUME WalletAssumption ==
  /\ Opening \in [User -> Nat]
  /\ NoOrder \notin OrderId

VARIABLES
  balance,    \* user_balances.balance_cents, 0 when there is no row
  ledger      \* balance_transactions of each user, oldest first

walletVars == <<balance, ledger>>

Entry == [type : {"recharge", "purchase", "refund"}, amount : Int,
          after : Nat, order : OrderId \cup {NoOrder}]

WalletTypeOK ==
  /\ balance \in [User -> Nat]
  /\ ledger \in [User -> Seq(Entry)]

-----------------------------------------------------------------------------
(* seedUserBalances writes the row and, for a positive amount, the single  *)
(* recharge movement that explains it.                                     *)
SeededLedger(u) ==
  IF Opening[u] = 0
  THEN << >>
  ELSE << [type |-> "recharge", amount |-> Opening[u],
           after |-> Opening[u], order |-> NoOrder] >>

WalletInit ==
  /\ balance = Opening
  /\ ledger = [u \in User |-> SeededLedger(u)]

(* Mutation: the overdraft check is dropped. *)
OverdrawingTransaction(u, type, amount, o) ==
  LET newBalance == balance[u] + amount
  IN  /\ amount # 0
      /\ ledger' = [ledger EXCEPT ![u] = Append(@,
                      [type |-> type, amount |-> amount, after |-> newBalance, order |-> o])]
      /\ balance' = [balance EXCEPT ![u] = newBalance]

(* Refuses a zero amount and a movement that would overdraw the wallet;    *)
(* otherwise inserts the movement with the balance it leaves, and stores   *)
(* that balance in the aggregate row.                                      *)
ApplyTransaction(u, type, amount, o) ==
  LET newBalance == balance[u] + amount
      movement   == [type |-> type, amount |-> amount,
                     after |-> newBalance, order |-> o]
  IN  /\ amount # 0
      /\ newBalance >= 0
      /\ ledger' = [ledger EXCEPT ![u] = Append(@, movement)]
      /\ balance' = [balance EXCEPT ![u] = newBalance]

(* RecordRefund only ever credits. *)
RecordRefund(u, amount, o) ==
  /\ amount > 0
  /\ ApplyTransaction(u, "refund", amount, o)

(* The whole promise of the wallet: it changes by one purchase or one      *)
(* refund of one user at a time, the amount being what the balance moved.  *)
WalletNext ==
  \E u \in User, o \in OrderId :
    LET amount == balance'[u] - balance[u]
    IN  \/ amount < 0 /\ ApplyTransaction(u, "purchase", amount, o)
        \/ RecordRefund(u, amount, o)

WalletSpec == WalletInit /\ [][WalletNext]_walletVars

-----------------------------------------------------------------------------
(* The balance the first n movements of s leave, by the last of them. *)
BalanceAfter(s, n) == IF n = 0 THEN 0 ELSE s[n].after

(* Every movement of s starts from the balance its predecessor left. *)
Chained(s) ==
  \A i \in 1 .. Len(s) : s[i].after = BalanceAfter(s, i - 1) + s[i].amount

(* The movements of a wallet are chained, and the aggregate row is what    *)
(* the newest one left: no movement is lost or counted twice, whatever     *)
(* handlers ran (ApplyTransaction).                                        *)
LedgerChain ==
  \A u \in User :
    /\ Chained(ledger[u])
    /\ balance[u] = BalanceAfter(ledger[u], Len(ledger[u]))

=============================================================================
