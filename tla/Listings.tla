------------------------------ MODULE Listings ------------------------------
(***************************************************************************)
(* The listings of the panel, and a client that walks through one of them, *)
(* page by page while has_next is set, as others add rows, change them and *)
(* refund orders.  A page is a COUNT, a SELECT of the page, and for orders *)
(* one SELECT for each kind of detail, without a transaction around them.  *)
(*                                                                         *)
(* A row has a sort column; columns that are sorted the other way round    *)
(* are the same under a renaming of their values.  Two layers bring the    *)
(* size of a page into its limits, the repository for the page and the     *)
(* logic for the answer's page and has_next, and they do it in two ways.   *)
(* MaxRows and MaxRefunds bound the tables.                                *)
(***************************************************************************)
EXTENDS Naturals, Sequences, FiniteSets

CONSTANTS
  DefaultSize, MaxSize,   \* 20 and 100
  Ask,                    \* sizes asked for, zero where it is left out
  Key,                    \* values of the sort column
  MaxRows, MaxRefunds

ASSUME ListingsAssumption ==
  /\ DefaultSize \in Nat \ {0} /\ MaxSize \in Nat /\ DefaultSize <= MaxSize
  /\ Ask \subseteq Nat /\ Key \subseteq Nat /\ Key # {}
  /\ MaxRows \in Nat /\ MaxRefunds \in Nat

Clamp == [n \in Ask |-> IF n = 0 THEN DefaultSize ELSE IF n > MaxSize THEN MaxSize ELSE n]
Reset == [n \in Ask |-> IF n = 0 \/ n > MaxSize THEN DefaultSize ELSE n]

\* The repositories: the limit they set, and whether the id settles ties.
OrderRows        == [limit |-> Reset, ties |-> TRUE]
PlanRows         == [limit |-> Reset, ties |-> TRUE]
AnnouncementRows == [limit |-> Reset, ties |-> TRUE]
TransactionRows  == [limit |-> Reset, ties |-> TRUE]
NodeRows         == [limit |-> Clamp, ties |-> FALSE]
TemplateRows     == [limit |-> Clamp, ties |-> FALSE]
SubscriptionRows == [limit |-> Clamp, ties |-> FALSE]

\* The logic: the size it tells, and what it reads before and after the page.
Orders        == [rows |-> OrderRows, size |-> Reset, balance |-> FALSE, refunds |-> TRUE]
UserOrders    == [rows |-> OrderRows, size |-> Reset, balance |-> FALSE, refunds |-> TRUE]
Plans         == [rows |-> PlanRows, size |-> Clamp, balance |-> FALSE, refunds |-> FALSE]
Announcements == [rows |-> AnnouncementRows, size |-> Clamp, balance |-> FALSE, refunds |-> FALSE]
Transactions  == [rows |-> TransactionRows, size |-> Reset, balance |-> TRUE, refunds |-> FALSE]
Nodes         == [rows |-> NodeRows, size |-> Clamp, balance |-> FALSE, refunds |-> FALSE]
Templates     == [rows |-> TemplateRows, size |-> Clamp, balance |-> FALSE, refunds |-> FALSE]
Subscriptions == [rows |-> SubscriptionRows, size |-> Clamp, balance |-> FALSE, refunds |-> FALSE]

Listing == {Orders, UserOrders, Plans, Announcements, Transactions, Nodes, Templates, Subscriptions}

VARIABLES
  listing,    \* the listing that is walked through
  key,        \* the rows, by id: their sort column
  refunded,   \* the refunds an order row counts
  refunds,    \* the rows of its refunds
  at,         \* where the request for the page is
  asked, page,
  balance,    \* the last transaction in the balance that was read
  total,
  shown,      \* the page: the refunds each of its rows counts
  seen,       \* rows of the pages before
  twice,      \* was a row on two of them?
  start,      \* how many rows there were when the walk began
  calm        \* what others did since: "still", "grown" or "moved"

table == <<key, refunded, refunds>>
walk == <<asked, page, balance, total, shown, seen, twice, start>>
vars == <<listing, table, at, walk, calm>>

Id == 1..Len(key)

Init ==
  /\ listing \in Listing
  /\ key = <<>> /\ refunded = <<>> /\ refunds = <<>>
  /\ at = "idle" /\ asked \in Ask /\ page = 1
  /\ balance = 0 /\ total = 0 /\ shown = <<>> /\ seen = {} /\ twice = FALSE /\ start = 0
  /\ calm = "still"

-----------------------------------------------------------------------------
(* The others. *)

\* Transactions are sorted by their time, the others by a column of choice.
Insert(k) ==
  /\ Len(key) < MaxRows
  /\ listing.balance => \A i \in Id : k >= key[i]
  /\ key' = Append(key, k)
  /\ refunded' = Append(refunded, 0) /\ refunds' = Append(refunds, 0)
  /\ calm' = (IF at = "idle" THEN "still"
              ELSE IF at = "find" \/ calm = "moved" THEN "moved" ELSE "grown")
  /\ UNCHANGED <<listing, at, walk>>

Moves(i, k) ==
  /\ key' = [key EXCEPT ![i] = k]
  /\ calm' = (IF at = "idle" \/ k = key[i] THEN calm ELSE "moved")

\* A plan is edited, a node synchronised, an announcement published, ...
Change(i, k) ==
  /\ ~listing.balance /\ k # key[i] /\ Moves(i, k)
  /\ UNCHANGED <<listing, refunded, refunds, at, walk>>

\* Mutant: the order is saved and the refund's row is not.
RefundAlone(i, k) ==
  /\ listing.refunds /\ refunded[i] < MaxRefunds
  /\ refunded' = [refunded EXCEPT ![i] = @ + 1]
  /\ Moves(i, k)
  /\ UNCHANGED <<listing, refunds, at, walk>>

\* The order and the row of its refund are written in one transaction; the
\* order may be sorted by the time of its last change.
Refund(i, k) ==
  /\ listing.refunds /\ refunds[i] < MaxRefunds
  /\ refunded' = [refunded EXCEPT ![i] = @ + 1]
  /\ refunds' = [refunds EXCEPT ![i] = @ + 1]
  /\ Moves(i, k)
  /\ UNCHANGED <<listing, at, walk>>

-----------------------------------------------------------------------------
(* The walk. *)

Begin ==
  /\ at = "idle" /\ at' = "ask"
  /\ start' = Len(key)
  /\ UNCHANGED <<listing, table, asked, page, balance, total, shown, seen, twice, calm>>

\* The balance is read before its transactions are.
ReadBalance ==
  /\ at = "ask" /\ at' = "count"
  /\ balance' = (IF listing.balance THEN Len(key) ELSE balance)
  /\ UNCHANGED <<listing, table, asked, page, total, shown, seen, twice, start, calm>>

\* An empty table is answered without a SELECT.
Count ==
  /\ at = "count"
  /\ total' = Len(key) /\ shown' = <<>>
  /\ at' = (IF key = <<>> THEN "answer" ELSE "find")
  /\ UNCHANGED <<listing, table, asked, page, balance, seen, twice, start, calm>>

\* Mutant: the offset of pages of the usual size.
DefaultOffset == (page - 1) * DefaultSize

Offset == (page - 1) * listing.rows.limit[asked]

Before(i, j) == key[i] > key[j] \/ (listing.rows.ties /\ key[i] = key[j] /\ i > j)

Closed(S) == \A i \in S, j \in Id \ S : ~Before(j, i)

Least(m, n) == IF m < n THEN m ELSE n

\* What LIMIT and OFFSET may cut out of the rows: where the order leaves a
\* tie the database is free in every statement.
Pages ==
  {P \in SUBSET Id :
     \E U \in SUBSET (Id \ P) :
       /\ Cardinality(U) = Least(Offset, Len(key))
       /\ Cardinality(P) = Least(listing.rows.limit[asked], Len(key) - Cardinality(U))
       /\ Closed(U) /\ Closed(U \cup P)}

Find ==
  /\ at = "find"
  /\ \E P \in Pages : shown' = [i \in P |-> refunded[i]]
  /\ at' = "answer"
  /\ UNCHANGED <<listing, table, asked, page, balance, total, seen, twice, start, calm>>

\* Mutant: the last full page counts as the last.
HasNextButOne == page * listing.size[asked] + 1 < total

HasNext == page * listing.size[asked] < total

\* The details of the rows that were found complete the answer, and the client
\* asks for the next page.
Answer ==
  /\ at = "answer"
  /\ seen' = seen \cup DOMAIN shown
  /\ twice' = (twice \/ seen \cap DOMAIN shown # {})
  /\ at' = (IF HasNext THEN "ask" ELSE "done")
  /\ page' = (IF HasNext THEN page + 1 ELSE page)
  /\ shown' = <<>>
  /\ UNCHANGED <<listing, table, asked, balance, total, start, calm>>

\* A statement fails, and the client asks for the page again.
Fails ==
  /\ at \in {"count", "find", "answer"} /\ at' = "ask" /\ shown' = <<>>
  /\ UNCHANGED <<listing, table, asked, page, balance, total, seen, twice, start, calm>>

Next ==
  \/ \E k \in Key : Insert(k)
  \/ \E i \in Id, k \in Key : Change(i, k) \/ Refund(i, k)
  \/ Begin \/ ReadBalance \/ Count \/ Find \/ Answer \/ Fails

Spec == Init /\ [][Next]_vars

-----------------------------------------------------------------------------
(* Properties. *)

\* The rows have one order: the id settles ties, or there are none.
Ordered == listing.rows.ties \/ \A i, j \in Id : key[i] = key[j] => i = j

\* The logic of plans and announcements tells a page of MaxSize rows of a
\* request for more, where the repository makes it one of DefaultSize.
SizesAgree == listing \in {Plans, Announcements} => asked <= MaxSize

\* Who walks to the end has seen every row there was when he began, also
\* when rows are added on the way; only a row that is added between a COUNT
\* and its SELECT, or moved, can hide another.
NothingMissed ==
  at = "done" /\ calm # "moved" /\ Ordered /\ SizesAgree => 1..start \subseteq seen

\* While nothing is added or moved no row is on two pages.
NothingTwice == calm = "still" /\ Ordered => ~twice

\* What is read in several statements fits together: an order is never shown
\* with fewer refunds than its own row counts, nor a balance without the
\* transaction that made it.
ShownTogether ==
  at = "answer" =>
    /\ \A i \in DOMAIN shown : shown[i] <= refunds[i]
    /\ listing.balance /\ page = 1 /\ balance # 0 => \E i \in DOMAIN shown : i >= balance
=============================================================================
