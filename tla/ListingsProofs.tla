--------------------------- MODULE ListingsProofs ---------------------------
(***************************************************************************)
(* Theorems about the listings and the walk through one of them, for every *)
(* size of a page, every number of rows and every order of the statements  *)
(* of the walk and the writes of the others.                               *)
(***************************************************************************)
EXTENDS Listings, FiniteSetTheorems, TLAPS

\* The rows a SELECT may cut out.
Limit == listing.rows.limit[asked]

ListingsTypeOK ==
  /\ listing \in Listing /\ asked \in Ask
  /\ key \in Seq(Nat) /\ refunded \in Seq(Nat) /\ refunds \in Seq(Nat)
  /\ Len(refunded) = Len(key) /\ Len(refunds) = Len(key)
  /\ at \in {"idle", "ask", "count", "find", "answer", "done"}
  /\ page \in Nat \ {0}
  /\ total \in Nat /\ balance \in 0 .. Len(key) /\ start \in 0 .. Len(key)
  /\ shown \in [DOMAIN shown -> Nat] /\ DOMAIN shown \subseteq Id /\ seen \subseteq Id
  /\ twice \in BOOLEAN
  /\ calm \in {"still", "grown", "moved"}

\* Before a walk nothing is known of the rows, and between two pages none is at
\* hand.
Fresh ==
  /\ at = "idle" => page = 1 /\ seen = {} /\ ~twice /\ calm = "still"
  /\ at # "answer" => DOMAIN shown = {}

\* An order counts the refunds that have a row; a page shows no more of them
\* than there are by now.
Details ==
  /\ refunded = refunds
  /\ \A i \in DOMAIN shown : shown[i] <= refunds[i]

\* The transactions are in the order of their ids, and the first page, read
\* after the balance, has the last of them.
Latest ==
  /\ listing.balance => \A i, j \in Id : i <= j => key[i] <= key[j]
  /\ at = "answer" /\ listing.balance /\ page = 1 /\ balance # 0 =>
       \E i \in DOMAIN shown : i >= balance

\* The rows of the pages so far, and of the one at hand.
Got == seen \cup DOMAIN shown

\* Of the rows there were at the beginning, those that some later order of all
\* rows puts on the pages so far have been seen.
Missing(S, pages) ==
  \A U \in SUBSET Id :
    Closed(U) /\ Cardinality(U) <= pages * Limit => U \cap (1 .. start) \subseteq S

Progress ==
  calm # "moved" /\ Ordered =>
    /\ at \in {"ask", "count", "find", "answer"} => Missing(seen, page - 1)
    /\ at = "find" => total = Len(key)
    /\ at = "answer" => Missing(Got, page)
    /\ at = "answer" /\ page * Limit >= total => 1 .. start \subseteq Got
    /\ at = "done" /\ SizesAgree => 1 .. start \subseteq seen

\* As long as nothing moves, the pages so far are the first rows of the order.
Prefix(S, pages) == Closed(S) /\ Cardinality(S) = Least(pages * Limit, Len(key))

Partition ==
  calm = "still" /\ Ordered =>
    /\ ~twice
    /\ at \in {"ask", "count", "find", "answer"} => Prefix(seen, page - 1)
    /\ at = "answer" => Prefix(Got, page) /\ seen \cap DOMAIN shown = {}

ListingsInv == ListingsTypeOK /\ Fresh /\ Details /\ Latest /\ Progress /\ Partition

-----------------------------------------------------------------------------
(* The rows and their order. *)

(* Both ways to bring the size of a page into its limits leave at least    *)
(* one row, and they are one way for every request SizesAgree allows.      *)
LEMMA Limits ==
  ASSUME listing \in Listing, asked \in Ask
  PROVE  /\ Limit \in Nat \ {0}
         /\ listing.size[asked] \in Nat \ {0}
         /\ SizesAgree => listing.size[asked] = Limit
         /\ listing.balance => listing.rows.ties /\ ~listing.refunds
<1>1. /\ Clamp[asked] \in Nat \ {0} /\ Reset[asked] \in Nat \ {0}
      /\ asked <= MaxSize => Clamp[asked] = Reset[asked]
  BY ListingsAssumption DEF Clamp, Reset
<1>2. /\ listing.rows.limit = listing.size \/ listing \in {Plans, Announcements}
      /\ listing.size \in {Clamp, Reset} /\ listing.rows.limit \in {Clamp, Reset}
      /\ listing.balance => listing.rows.ties /\ ~listing.refunds
  BY DEF Listing, Orders, UserOrders, Plans, Announcements, Transactions, Nodes, Templates,
         Subscriptions, OrderRows, PlanRows, AnnouncementRows, TransactionRows, NodeRows,
         TemplateRows, SubscriptionRows
<1> HIDE DEF Clamp, Reset
<1>3. SizesAgree => listing.size[asked] = listing.rows.limit[asked]
  BY <1>1, <1>2 DEF SizesAgree
<1> QED  BY <1>1, <1>2, <1>3 DEF Limit

LEMMA RowsAreFinite ==
  ASSUME ListingsTypeOK
  PROVE  /\ IsFiniteSet(Id) /\ Cardinality(Id) = Len(key)
         /\ \A S \in SUBSET Id : /\ IsFiniteSet(S) /\ Cardinality(S) \in Nat
                                 /\ Cardinality(S) <= Len(key)
<1>1. Len(key) \in Nat
  BY DEF ListingsTypeOK
<1>2. IsFiniteSet(Id) /\ Cardinality(Id) = Len(key)
  BY <1>1, FS_Interval DEF Id
<1> QED  BY <1>2, FS_Subset, FS_CardinalityType

(* Where the rows have one order, of two of its beginnings one begins the  *)
(* other; so no two of them are of one length.                             *)
LEMMA OneOrder ==
  ASSUME ListingsTypeOK, Ordered, NEW S \in SUBSET Id, NEW T \in SUBSET Id,
         Closed(S), Closed(T)
  PROVE  S \subseteq T \/ T \subseteq S
<1> SUFFICES ASSUME NEW i \in S \ T, NEW j \in T \ S  PROVE FALSE
  OBVIOUS
<1>1. i \in Id /\ j \in Id /\ i # j /\ key[i] \in Nat /\ key[j] \in Nat /\ i \in Nat /\ j \in Nat
  <2>1. i \in Id /\ j \in Id /\ i # j
    OBVIOUS
  <2>2. \A x \in Id : x \in Nat /\ key[x] \in Nat
    BY DEF ListingsTypeOK, Id
  <2> QED  BY <2>1, <2>2
<1>2. Before(i, j) \/ Before(j, i)
  <2>1. key[i] > key[j] \/ key[j] > key[i] \/ key[i] = key[j]
    BY <1>1
  <2>2. i > j \/ j > i
    BY <1>1
  <2> QED  BY <1>1, <2>1, <2>2 DEF Before, Ordered
<1>3. ~Before(i, j) /\ ~Before(j, i)
  BY <1>1 DEF Closed
<1> QED  BY <1>2, <1>3

LEMMA ShorterWithin ==
  ASSUME ListingsTypeOK, Ordered, NEW S \in SUBSET Id, NEW T \in SUBSET Id,
         Closed(S), Closed(T), Cardinality(S) <= Cardinality(T)
  PROVE  S \subseteq T
<1>1. CASE T \subseteq S
  <2>1. IsFiniteSet(S) /\ Cardinality(S) \in Nat /\ Cardinality(T) \in Nat
    BY RowsAreFinite
  <2>2. Cardinality(T) <= Cardinality(S)
    BY <1>1, <2>1, FS_Subset
  <2>3. Cardinality(S) = Cardinality(T)
    BY <2>1, <2>2
  <2> QED  BY <1>1, <2>1, <2>3, FS_Subset
<1> QED  BY <1>1, OneOrder

LEMMA AllRowsClosed == Closed(Id) /\ Closed({})
BY DEF Closed

(* A page is what follows a beginning of as many rows as its offset, and   *)
(* both together are a beginning, of as many rows as the pages up to it    *)
(* hold or of all there are.                                               *)
LEMMA PageOf ==
  ASSUME ListingsTypeOK, NEW P \in Pages
  PROVE  \E U \in SUBSET (Id \ P) :
           /\ P \subseteq Id /\ U \subseteq Id /\ U \cup P \subseteq Id
           /\ Closed(U) /\ Closed(U \cup P)
           /\ Cardinality(U) = Least((page - 1) * Limit, Len(key))
           /\ Cardinality(U \cup P) = Least(page * Limit, Len(key))
           /\ (page - 1) * Limit \in Nat /\ page * Limit = (page - 1) * Limit + Limit
<1>1. PICK U \in SUBSET (Id \ P) :
        /\ Cardinality(U) = Least((page - 1) * Limit, Len(key))
        /\ Cardinality(P) = Least(Limit, Len(key) - Cardinality(U))
        /\ Closed(U) /\ Closed(U \cup P)
  BY DEF Pages, Offset, Limit
<1>2. P \subseteq Id /\ U \subseteq Id /\ U \cup P \subseteq Id /\ U \cap P = {}
  BY DEF Pages
<1>3. /\ IsFiniteSet(U) /\ IsFiniteSet(P)
      /\ Cardinality(U) \in Nat /\ Cardinality(P) \in Nat
      /\ Cardinality(U) <= Len(key)
  BY <1>2, RowsAreFinite
<1>4. Cardinality(U \cup P) = Cardinality(U) + Cardinality(P)
  <2>1. Cardinality(U \cap P) = 0
    BY <1>2, FS_EmptySet
  <2>2. Cardinality(U \cup P) = Cardinality(U) + Cardinality(P) - Cardinality(U \cap P)
    BY <1>3, FS_Union
  <2> QED  BY <1>3, <2>1, <2>2
<1>5. Limit \in Nat /\ page \in Nat /\ page >= 1 /\ Len(key) \in Nat
  BY Limits DEF ListingsTypeOK
<1>6. (page - 1) * Limit \in Nat /\ page * Limit = (page - 1) * Limit + Limit
  BY <1>5
<1> DEFINE a == (page - 1) * Limit
           b == page * Limit
           n == Len(key)
<1> HIDE DEF a, b, n
<1>7. Cardinality(U \cup P) = Least(b, n)
  <2>1. a \in Nat /\ b = a + Limit /\ n \in Nat
    BY <1>5, <1>6 DEF a, b, n
  <2>2. Cardinality(U) = Least(a, n) /\ Cardinality(P) = Least(Limit, n - Cardinality(U))
    BY <1>1 DEF a, n
  <2> QED  BY <1>3, <1>4, <1>5, <2>1, <2>2 DEF Least
<1> QED  BY <1>1, <1>2, <1>6, <1>7 DEF b, n

-----------------------------------------------------------------------------
(* What the others do to the order. *)

(* A row that is added leaves the order of the others as it was: without   *)
(* it, a beginning of the rows is a beginning of the rows before.          *)
LEMMA InsertKeepsOrder ==
  ASSUME ListingsTypeOK, NEW k \in Key, Insert(k)
  PROVE  /\ Id \subseteq Id' /\ Len(key') = Len(key) + 1
         /\ \A i \in Id : key'[i] = key[i]
         /\ Ordered' => Ordered
         /\ \A U \in SUBSET Id' :
              Closed(U)' => /\ U \cap Id \in SUBSET Id /\ Closed(U \cap Id)
                            /\ ListingsTypeOK' => Cardinality(U \cap Id) <= Cardinality(U)
<1>1. /\ key \in Seq(Nat) /\ key' = Append(key, k) /\ k \in Nat
      /\ UNCHANGED <<listing, asked>>
  BY ListingsAssumption DEF ListingsTypeOK, Insert, walk
<1>2. Len(key') = Len(key) + 1 /\ \A i \in 1 .. Len(key) : key'[i] = key[i]
  BY <1>1
<1>3. Id \subseteq Id' /\ \A i \in Id : key'[i] = key[i]
  BY <1>1, <1>2 DEF Id
<1>4. Ordered' => Ordered
  BY <1>1, <1>3 DEF Ordered
<1>5. ASSUME NEW U \in SUBSET Id', Closed(U)'
      PROVE  Closed(U \cap Id)
  <2>1. ASSUME NEW i \in U \cap Id, NEW j \in Id \ U  PROVE ~Before(j, i)
    <3>1. ~Before(j, i)'
      BY <1>3, <1>5, <2>1 DEF Closed
    <3> QED  BY <1>1, <1>3, <2>1, <3>1 DEF Before
  <2> QED  BY <2>1 DEF Closed
<1>6. ASSUME NEW U \in SUBSET Id', ListingsTypeOK'
      PROVE  Cardinality(U \cap Id) <= Cardinality(U)
  <2>1. IsFiniteSet(Id')
    <3>1. Len(key') \in Nat
      BY <1>6 DEF ListingsTypeOK
    <3> QED  BY <3>1, FS_Interval DEF Id
  <2>2. IsFiniteSet(U)
    BY <2>1, FS_Subset
  <2> QED  BY <2>2, FS_Subset
<1> QED  BY <1>2, <1>3, <1>4, <1>5, <1>6

(* So a row that is added hides none of those that have not been seen.     *)
LEMMA InsertKeepsMissing ==
  ASSUME ListingsTypeOK, ListingsTypeOK', NEW k \in Key, Insert(k),
         NEW S, NEW n \in Nat, Missing(S, n)
  PROVE  \A U \in SUBSET Id' :
           Closed(U)' /\ Cardinality(U) <= n * Limit => U \cap (1 .. start) \subseteq S
<1>1. UNCHANGED <<listing, asked, start>> /\ start \in 0 .. Len(key) /\ Len(key) \in Nat
  BY DEF Insert, walk, ListingsTypeOK
<1>2. Limit \in Nat
  BY <1>1, Limits DEF ListingsTypeOK
<1>3. ASSUME NEW U \in SUBSET Id', Closed(U)', Cardinality(U) <= n * Limit
      PROVE  U \cap (1 .. start) \subseteq S
  <2>1. /\ U \cap Id \in SUBSET Id /\ Closed(U \cap Id)
        /\ Cardinality(U \cap Id) <= Cardinality(U)
    BY <1>3, InsertKeepsOrder
  <2>2. Cardinality(U \cap Id) \in Nat
    BY <2>1, RowsAreFinite
  <2>3. Cardinality(U) \in Nat
    <3>1. IsFiniteSet(Id') /\ U \subseteq Id'
      <4>1. Len(key') \in Nat
        BY DEF ListingsTypeOK
      <4> QED  BY <1>3, <4>1, FS_Interval DEF Id
    <3> QED  BY <3>1, FS_Subset, FS_CardinalityType
  <2>4. Cardinality(U \cap Id) <= n * Limit
    <3>1. n * Limit \in Nat
      BY <1>2
    <3> QED  BY <1>3, <2>1, <2>2, <2>3, <3>1
  <2>5. 1 .. start \subseteq Id
    BY <1>1 DEF Id
  <2> QED  BY <2>1, <2>4, <2>5 DEF Missing
<1> QED  BY <1>3

(* The order is a matter of the rows and of the listing alone.             *)
LEMMA SameOrder ==
  ASSUME UNCHANGED <<listing, asked, key>>
  PROVE  /\ Id' = Id /\ Limit' = Limit
         /\ Ordered' <=> Ordered
         /\ SizesAgree' <=> SizesAgree
         /\ \A i, j : Before(i, j)' <=> Before(i, j)
         /\ \A U : Closed(U)' <=> Closed(U)
<1>1. Id' = Id /\ Limit' = Limit
  BY DEF Id, Limit
<1>2. (Ordered' <=> Ordered) /\ (SizesAgree' <=> SizesAgree)
  BY <1>1 DEF Ordered, SizesAgree
<1>3. \A i, j : Before(i, j)' <=> Before(i, j)
  BY DEF Before
<1>4. \A U : Closed(U)' <=> Closed(U)
  BY <1>1, <1>3 DEF Closed
<1> QED  BY <1>1, <1>2, <1>3, <1>4

-----------------------------------------------------------------------------
(* The steps. *)

LEMMA ListingsStart == Init => ListingsInv
<1> SUFFICES ASSUME Init  PROVE ListingsInv
  OBVIOUS
<1>1. /\ key = <<>> /\ refunded = <<>> /\ refunds = <<>> /\ shown = <<>>
      /\ at = "idle" /\ listing \in Listing /\ asked \in Ask
  BY DEF Init
<1>2. /\ <<>> \in Seq(Nat) /\ Len(<<>>) = 0 /\ DOMAIN <<>> = {}
      /\ <<>> \in [DOMAIN <<>> -> Nat]
  OBVIOUS
<1>3. Id = {}
  BY <1>1, <1>2 DEF Id
<1>4. ListingsTypeOK
  <2>1. DOMAIN shown = {} /\ seen = {} /\ shown \in [DOMAIN shown -> Nat]
    BY <1>1, <1>2 DEF Init
  <2>2. balance \in 0 .. Len(key) /\ start \in 0 .. Len(key)
    BY <1>1, <1>2 DEF Init
  <2>3. /\ key \in Seq(Nat) /\ refunded \in Seq(Nat) /\ refunds \in Seq(Nat)
        /\ Len(refunded) = Len(key) /\ Len(refunds) = Len(key)
    BY <1>1, <1>2
  <2>4. page = 1 /\ total = 0 /\ twice = FALSE /\ calm = "still"
    BY DEF Init
  <2>5. page \in Nat \ {0} /\ total \in Nat
    BY <2>4
  <2>6. DOMAIN shown \subseteq Id /\ seen \subseteq Id
    BY <2>1
  <2>7. twice \in BOOLEAN /\ calm \in {"still", "grown", "moved"}
    BY <2>4
  <2>8. shown \in [DOMAIN shown -> Nat]
    BY <2>1
  <2> QED  BY <1>1, <2>2, <2>3, <2>5, <2>6, <2>7, <2>8 DEF ListingsTypeOK
<1>5. Fresh /\ Details /\ Latest
  BY <1>1, <1>2, <1>3 DEF Init, Fresh, Details, Latest
<1>6. Progress /\ Partition
  BY <1>1 DEF Init, Progress, Partition
<1> QED  BY <1>4, <1>5, <1>6 DEF ListingsInv

(* A row is added.                                                         *)
LEMMA InsertKeeps ==
  ASSUME ListingsInv, NEW k \in Key, Insert(k)
  PROVE  ListingsInv'
<1> USE DEF ListingsInv
<1>1. /\ key \in Seq(Nat) /\ refunded \in Seq(Nat) /\ refunds \in Seq(Nat)
      /\ Len(refunded) = Len(key) /\ Len(refunds) = Len(key)
      /\ k \in Nat /\ 0 \in Nat
      /\ key' = Append(key, k) /\ refunded' = Append(refunded, 0) /\ refunds' = Append(refunds, 0)
      /\ UNCHANGED <<listing, at, asked, page, balance, total, shown, seen, twice, start>>
      /\ calm' \in {"still", "grown", "moved"}
      /\ listing.balance => \A i \in Id : k >= key[i]
  BY ListingsAssumption DEF ListingsTypeOK, Insert, walk
<1>2. /\ key' \in Seq(Nat) /\ refunded' \in Seq(Nat) /\ refunds' \in Seq(Nat)
      /\ Len(key') = Len(key) + 1 /\ Len(refunded') = Len(key) + 1 /\ Len(refunds') = Len(key) + 1
      /\ key'[Len(key) + 1] = k
      /\ \A i \in 1 .. Len(key) : key'[i] = key[i] /\ refunds'[i] = refunds[i]
  BY <1>1
<1>3. Len(key) \in Nat /\ Id \subseteq Id'
  BY <1>1, <1>2 DEF Id
<1>4. ListingsTypeOK'
  <2>1. DOMAIN shown' \subseteq Id' /\ seen' \subseteq Id'
    BY <1>1, <1>3 DEF ListingsTypeOK
  <2>2. balance' \in 0 .. Len(key') /\ start' \in 0 .. Len(key')
    BY <1>1, <1>2, <1>3 DEF ListingsTypeOK
  <2> QED  BY <1>1, <1>2, <2>1, <2>2 DEF ListingsTypeOK
<1>5. Fresh'
  BY <1>1 DEF Fresh, Insert
<1>6. Details'
  <2>1. \A i \in DOMAIN shown : i \in 1 .. Len(key)
    BY DEF ListingsTypeOK, Id
  <2> QED  BY <1>1, <1>2, <2>1 DEF Details
<1>7. Latest'
  <2>1. ASSUME listing.balance, NEW i \in Id', NEW j \in Id', i <= j
        PROVE  key'[i] <= key'[j]
    <3>1. i \in Nat /\ j \in Nat /\ i <= Len(key) + 1 /\ j <= Len(key) + 1
      BY <1>2, <1>3 DEF Id
    <3>2. CASE j = Len(key) + 1
      <4>1. CASE i = j
        BY <1>1, <1>2, <3>2, <4>1
      <4>2. CASE i # j
        <5>1. i \in Id /\ key'[i] = key[i]
          BY <1>2, <1>3, <2>1, <3>1, <3>2, <4>2 DEF Id
        <5>2. k >= key[i] /\ key[i] \in Nat
          BY <1>1, <2>1, <5>1 DEF Id
        <5> QED  BY <1>1, <1>2, <3>2, <5>1, <5>2
      <4> QED  BY <4>1, <4>2
    <3>3. CASE j # Len(key) + 1
      <4>1. i \in Id /\ j \in Id
        BY <1>2, <1>3, <2>1, <3>1, <3>3 DEF Id
      <4> QED  BY <1>2, <2>1, <4>1 DEF Latest, Id
    <3> QED  BY <3>2, <3>3
  <2> QED  BY <1>1, <2>1 DEF Latest
<1>8. Progress'
  <2> SUFFICES ASSUME calm' # "moved", Ordered'
               PROVE  /\ at \in {"ask", "count", "find", "answer"} => Missing(seen, page - 1)'
                      /\ at = "find" => total = Len(key')
                      /\ at = "answer" => Missing(Got, page)'
                      /\ at = "answer" /\ page * Limit >= total => 1 .. start \subseteq Got
                      /\ at = "done" /\ SizesAgree => 1 .. start \subseteq seen
    BY <1>1 DEF Progress, Got, Limit, SizesAgree
  <2>1. at # "idle" => calm # "moved" /\ at # "find"
    BY DEF Insert
  <2>2. Ordered
    BY InsertKeepsOrder
  <2>3. Limit' = Limit
    BY <1>1 DEF Limit
  <2>4. page - 1 \in Nat /\ page \in Nat
    BY DEF ListingsTypeOK
  <2>5. ASSUME at \in {"ask", "count", "find", "answer"}  PROVE Missing(seen, page - 1)'
    <3>1. Missing(seen, page - 1)
      BY <2>1, <2>2, <2>5 DEF Progress
    <3>2. \A U \in SUBSET Id' : Closed(U)' /\ Cardinality(U) <= (page - 1) * Limit
                                  => U \cap (1 .. start) \subseteq seen
      BY <1>4, <2>4, <3>1, InsertKeepsMissing
    <3> QED  BY <1>1, <2>3, <3>2 DEF Missing
  <2>6. ASSUME at = "answer"  PROVE Missing(Got, page)'
    <3>1. Missing(Got, page)
      BY <2>1, <2>2, <2>6 DEF Progress
    <3>2. \A U \in SUBSET Id' : Closed(U)' /\ Cardinality(U) <= page * Limit
                                  => U \cap (1 .. start) \subseteq Got
      BY <1>4, <2>4, <3>1, InsertKeepsMissing
    <3> QED  BY <1>1, <2>3, <3>2 DEF Missing, Got
  <2> QED  BY <1>1, <2>1, <2>2, <2>5, <2>6 DEF Progress
<1>9. Partition'
  BY <1>1 DEF Partition, Insert, Fresh
<1> QED  BY <1>4, <1>5, <1>6, <1>7, <1>8, <1>9

(* A row is changed, or an order refunded.                                 *)
LEMMA WriteKeeps ==
  ASSUME ListingsInv, NEW i \in Id, NEW k \in Key, Change(i, k) \/ Refund(i, k)
  PROVE  ListingsInv'
<1> USE DEF ListingsInv
<1>1. /\ key \in Seq(Nat) /\ refunded \in Seq(Nat) /\ refunds \in Seq(Nat)
      /\ Len(refunded) = Len(key) /\ Len(refunds) = Len(key)
      /\ k \in Nat /\ i \in 1 .. Len(key)
      /\ key' = [key EXCEPT ![i] = k]
      /\ UNCHANGED <<listing, at, asked, page, balance, total, shown, seen, twice, start>>
      /\ calm' = IF at = "idle" \/ k = key[i] THEN calm ELSE "moved"
  BY ListingsAssumption DEF ListingsTypeOK, Change, Refund, Moves, walk, Id
<1>2. key' \in Seq(Nat) /\ Len(key') = Len(key) /\ Id' = Id
  BY <1>1 DEF Id
<1>3. /\ refunded' \in Seq(Nat) /\ refunds' \in Seq(Nat)
      /\ Len(refunded') = Len(key) /\ Len(refunds') = Len(key)
      /\ refunded' = refunds'
      /\ \A j \in 1 .. Len(key) : refunds[j] <= refunds'[j]
  <2>1. CASE Change(i, k)
    BY <1>1, <2>1 DEF Change, Details
  <2>2. CASE Refund(i, k)
    <3>1. refunded = refunds /\ refunds' = [refunds EXCEPT ![i] = refunds[i] + 1]
          /\ refunded' = [refunded EXCEPT ![i] = refunded[i] + 1]
      BY <2>2 DEF Refund, Details
    <3>2. \A j \in 1 .. Len(key) : refunds[j] \in Nat
      BY <1>1
    <3> QED  BY <1>1, <3>1, <3>2
  <2> QED  BY <2>1, <2>2
<1>4. ListingsTypeOK'
  BY <1>1, <1>2, <1>3 DEF ListingsTypeOK
<1>5. Fresh'
  BY <1>1 DEF Fresh
<1>6. Details'
  <2>1. \A j \in DOMAIN shown : j \in 1 .. Len(key) /\ shown[j] \in Nat
    BY DEF ListingsTypeOK, Id
  <2>2. \A j \in 1 .. Len(key) : refunds[j] \in Nat
    BY <1>1
  <2>3. \A j \in 1 .. Len(key) : refunds'[j] \in Nat
    <3>1. \A j \in 1 .. Len(refunds') : refunds'[j] \in Nat
      BY <1>3
    <3> QED  BY <1>3, <3>1
  <2> QED  BY <1>1, <1>3, <2>1, <2>2, <2>3 DEF Details
<1>7. Latest'
  <2>1. ~listing.balance
    BY Limits DEF Change, Refund, ListingsTypeOK
  <2> QED  BY <1>1, <2>1 DEF Latest
<1>8. CASE at = "idle" \/ calm' = "moved"
  <2>1. Progress' /\ Partition'
    BY <1>1, <1>8 DEF Progress, Partition, Fresh
  <2> QED  BY <1>4, <1>5, <1>6, <1>7, <2>1
<1>9. CASE k = key[i] /\ at # "idle"
  <2>1. key' = key /\ calm' = calm
    BY <1>1, <1>9
  <2>2. Progress' /\ Partition'
    BY <1>1, <2>1, SameOrder DEF Progress, Partition, Missing, Prefix, Got, Closed
  <2> QED  BY <1>4, <1>5, <1>6, <1>7, <2>2
<1> QED  BY <1>1, <1>8, <1>9

(* The walk begins with nothing behind it.                                 *)
LEMMA BeginKeeps == ASSUME ListingsInv, Begin  PROVE ListingsInv'
<1> USE DEF ListingsInv
<1>1. /\ at = "idle" /\ at' = "ask" /\ start' = Len(key)
      /\ UNCHANGED <<listing, key, refunded, refunds, asked, page, balance, total, shown, seen,
                     twice, calm>>
      /\ page = 1 /\ seen = {} /\ ~twice /\ calm = "still" /\ DOMAIN shown = {}
  BY DEF Begin, table, Fresh
<1>2. Id' = Id /\ Len(key) \in Nat /\ Limit \in Nat /\ Limit' = Limit
  BY <1>1, Limits, SameOrder DEF ListingsTypeOK
<1>3. ListingsTypeOK'
  BY <1>1, <1>2 DEF ListingsTypeOK
<1>4. Fresh' /\ Details' /\ Latest'
  BY <1>1, <1>2 DEF Fresh, Details, Latest
<1>5. Progress'
  <2>1. ASSUME NEW U \in SUBSET Id, Cardinality(U) <= (page - 1) * Limit
        PROVE  U = {}
    <3>1. (page - 1) * Limit = 0
      BY <1>1, <1>2
    <3>2. IsFiniteSet(U) /\ Cardinality(U) \in Nat
      BY RowsAreFinite
    <3>3. Cardinality(U) = 0
      BY <2>1, <3>1, <3>2
    <3> QED  BY <3>2, <3>3, FS_EmptySet
  <2> QED  BY <1>1, <1>2, <2>1 DEF Progress, Missing
<1>6. Partition'
  <2>1. (page - 1) * Limit = 0 /\ Least(0, Len(key)) = 0
    BY <1>1, <1>2 DEF Least
  <2>2. Cardinality({}) = 0
    BY FS_EmptySet
  <2> QED  BY <1>1, <1>2, <2>1, <2>2 DEF Partition, Prefix, Closed
<1> QED  BY <1>3, <1>4, <1>5, <1>6

(* What is read or fails in between leaves what was seen.                  *)
LEMMA ReadKeeps ==
  ASSUME ListingsInv, ReadBalance \/ Fails
  PROVE  ListingsInv'
<1> USE DEF ListingsInv
<1>1. /\ at \in {"ask", "count", "find", "answer"} /\ at' \in {"ask", "count"}
      /\ UNCHANGED <<listing, key, refunded, refunds, asked, page, total, seen, twice, start, calm>>
      /\ balance' \in {balance, Len(key)} /\ DOMAIN shown' = {} /\ shown' \in [DOMAIN shown' -> Nat]
  <2>1. <<>> \in [DOMAIN <<>> -> Nat] /\ DOMAIN <<>> = {}
    OBVIOUS
  <2>2. CASE ReadBalance
    BY <2>2 DEF ReadBalance, table, Fresh, ListingsTypeOK
  <2>3. CASE Fails
    <3>1. shown' = <<>>
      BY <2>3 DEF Fails
    <3>2. DOMAIN shown' = {} /\ shown' \in [DOMAIN shown' -> Nat]
      BY <2>1, <3>1
    <3> QED  BY <2>3, <3>2 DEF Fails, table
  <2> QED  BY <2>2, <2>3
<1>2. Id' = Id /\ Len(key) \in Nat
  BY <1>1, SameOrder DEF ListingsTypeOK
<1>3. ListingsTypeOK'
  BY <1>1, <1>2 DEF ListingsTypeOK
<1>4. Fresh' /\ Details' /\ Latest'
  BY <1>1, <1>2 DEF Fresh, Details, Latest
<1>5. Progress' /\ Partition'
  BY <1>1, SameOrder DEF Progress, Partition, Missing, Prefix, Closed
<1> QED  BY <1>3, <1>4, <1>5

(* An empty table has been seen whole.                                     *)
LEMMA CountKeeps == ASSUME ListingsInv, Count  PROVE ListingsInv'
<1> USE DEF ListingsInv
<1>1. /\ at = "count" /\ total' = Len(key) /\ shown' = <<>>
      /\ at' = IF key = <<>> THEN "answer" ELSE "find"
      /\ UNCHANGED <<listing, key, refunded, refunds, asked, page, balance, seen, twice, start, calm>>
  BY DEF Count, table
<1>2. DOMAIN <<>> = {} /\ <<>> \in [DOMAIN <<>> -> Nat] /\ Len(<<>>) = 0
  OBVIOUS
<1>3. Id' = Id /\ Len(key) \in Nat /\ (key = <<>> => Id = {} /\ start = 0 /\ balance = 0)
  <2>1. Id' = Id /\ Len(key) \in Nat
    BY <1>1, SameOrder DEF ListingsTypeOK
  <2>2. ASSUME key = <<>>  PROVE Id = {} /\ start = 0 /\ balance = 0
    <3>1. Len(key) = 0
      BY <1>2, <2>2
    <3> QED  BY <3>1 DEF Id, ListingsTypeOK
  <2> QED  BY <2>1, <2>2
<1>4. ListingsTypeOK'
  BY <1>1, <1>2, <1>3 DEF ListingsTypeOK
<1>5. Fresh' /\ Details' /\ Latest'
  BY <1>1, <1>2, <1>3 DEF Fresh, Details, Latest
<1>6. Progress'
  <2>1. 1 .. 0 = {}
    OBVIOUS
  <2> QED  BY <1>1, <1>3, <2>1, SameOrder DEF Progress, Missing, Got
<1>7. Partition'
  <2>1. ASSUME key = <<>>, Prefix(seen, page - 1)  PROVE Prefix(seen, page)
    <3>1. seen = {} /\ Len(key) = 0 /\ Cardinality({}) = 0
      BY <1>2, <1>3, <2>1, FS_EmptySet DEF ListingsTypeOK
    <3>2. page * Limit \in Nat
      BY Limits DEF ListingsTypeOK
    <3>3. Least(page * Limit, 0) = 0
      BY <3>2 DEF Least
    <3> QED  BY <2>1, <3>1, <3>3 DEF Prefix
  <2>2. calm = "still" /\ Ordered => ~twice /\ Prefix(seen, page - 1)
    BY <1>1 DEF Partition
  <2>3. at' = "answer" => key = <<>>
    BY <1>1
  <2>4. Got' = seen /\ seen \cap DOMAIN shown' = {}
    BY <1>1, <1>2 DEF Got
  <2> QED  BY <1>1, <2>1, <2>2, <2>3, <2>4, SameOrder DEF Partition, Prefix, Closed
<1> QED  BY <1>4, <1>5, <1>6, <1>7

(* What a page adds to what was seen.                                      *)
LEMMA FindKeeps == ASSUME ListingsInv, Find  PROVE ListingsInv'
<1> USE DEF ListingsInv
<1>1. PICK P \in Pages : shown' = [i \in P |-> refunded[i]]
  BY DEF Find
<1>2. /\ at = "find" /\ at' = "answer"
      /\ UNCHANGED <<listing, key, refunded, refunds, asked, page, balance, total, seen, twice,
                     start, calm>>
  BY DEF Find, table
<1>3. PICK U \in SUBSET (Id \ P) :
        /\ P \subseteq Id /\ U \subseteq Id /\ U \cup P \subseteq Id
        /\ Closed(U) /\ Closed(U \cup P)
        /\ Cardinality(U) = Least((page - 1) * Limit, Len(key))
        /\ Cardinality(U \cup P) = Least(page * Limit, Len(key))
        /\ (page - 1) * Limit \in Nat /\ page * Limit = (page - 1) * Limit + Limit
  BY PageOf
<1>4. DOMAIN shown' = P /\ Got' = seen \cup P
  BY <1>1, <1>2 DEF Got
<1>5. Limit \in Nat \ {0} /\ page \in Nat \ {0} /\ Len(key) \in Nat
  BY Limits DEF ListingsTypeOK
<1>6. \A i \in Id : refunded[i] \in Nat /\ refunded[i] = refunds[i]
  BY DEF ListingsTypeOK, Details, Id
<1>7. ListingsTypeOK'
  <2>1. shown' \in [DOMAIN shown' -> Nat]
    BY <1>1, <1>3, <1>4, <1>6
  <2> QED  BY <1>2, <1>3, <1>4, <2>1, SameOrder DEF ListingsTypeOK
<1>8. Fresh' /\ Details'
  BY <1>1, <1>2, <1>3, <1>4, <1>6 DEF Fresh, Details
<1>9. Latest'
  <2>1. ASSUME listing.balance, page = 1, balance # 0
        PROVE  \E i \in P : i >= balance
    <3>1. Len(key) >= balance /\ balance \in Nat \ {0} /\ Len(key) \in Id
      BY <2>1 DEF ListingsTypeOK, Id
    <3>2. Cardinality(U \cup P) # 0 /\ Cardinality(U) = 0
      BY <1>3, <1>5, <2>1, <3>1 DEF Least
    <3>3. U = {} /\ U \cup P # {}
      BY <1>3, <3>2, RowsAreFinite, FS_EmptySet
    <3>4. PICK i \in P : TRUE
      BY <3>3
    <3>5. i \in Id /\ i <= Len(key) /\ key[i] <= key[Len(key)]
      BY <1>3, <2>1, <3>1 DEF Latest, Id
    <3>6. CASE i = Len(key)
      BY <3>1, <3>6
    <3>7. CASE i # Len(key)
      <4>1. listing.rows.ties
        BY <2>1, Limits DEF ListingsTypeOK
      <4>2. key[i] \in Nat /\ key[Len(key)] \in Nat /\ i \in Nat
        BY <3>1, <3>5 DEF ListingsTypeOK, Id
      <4>3. Before(Len(key), i)
        BY <1>5, <3>5, <3>7, <4>1, <4>2 DEF Before
      <4>4. Len(key) \in P
        BY <1>3, <3>1, <3>3, <4>3 DEF Closed
      <4> QED  BY <3>1, <4>4
    <3> QED  BY <3>6, <3>7
  <2> QED  BY <1>2, <1>4, <2>1, SameOrder DEF Latest
<1>10. Progress'
  <2> SUFFICES ASSUME calm # "moved", Ordered
               PROVE  /\ Missing(seen, page - 1)'
                      /\ Missing(Got, page)'
                      /\ page * Limit >= total => 1 .. start \subseteq Got'
    BY <1>2, SameOrder DEF Progress, Got
  <2>1. Missing(seen, page - 1) /\ total = Len(key)
    BY <1>2 DEF Progress
  <2>2. ASSUME NEW V \in SUBSET Id, Closed(V), Cardinality(V) <= page * Limit
        PROVE  V \cap (1 .. start) \subseteq seen \cup P
    <3>1. Cardinality(V) \in Nat /\ Cardinality(V) <= Len(key)
      BY RowsAreFinite
    <3>2. Cardinality(V) <= Cardinality(U \cup P)
      BY <1>3, <2>2, <3>1 DEF Least
    <3>3. V \subseteq U \cup P
      BY <1>3, <2>2, <3>2, ShorterWithin
    <3>4. Cardinality(U) <= (page - 1) * Limit
      BY <1>3, <1>5 DEF Least
    <3>5. U \cap (1 .. start) \subseteq seen
      BY <1>3, <2>1, <3>4 DEF Missing
    <3> QED  BY <3>3, <3>5
  <2>3. Missing(seen, page - 1)'
    BY <1>2, <2>1, SameOrder DEF Missing
  <2>4. Missing(Got, page)'
    BY <1>2, <1>4, <2>2, SameOrder DEF Missing
  <2>5. ASSUME page * Limit >= total  PROVE 1 .. start \subseteq Got'
    <3>1. Cardinality(Id) <= page * Limit
      BY <2>1, <2>5, RowsAreFinite
    <3>2. Id \cap (1 .. start) \subseteq seen \cup P
      BY <2>2, <3>1, AllRowsClosed
    <3>3. 1 .. start \subseteq Id
      BY DEF ListingsTypeOK, Id
    <3> QED  BY <1>4, <3>2, <3>3
  <2> QED  BY <2>3, <2>4, <2>5
<1>11. Partition'
  <2> SUFFICES ASSUME calm = "still", Ordered
               PROVE  /\ ~twice
                      /\ Prefix(seen, page - 1)'
                      /\ Prefix(Got, page)' /\ seen \cap P = {}
    BY <1>2, <1>4, SameOrder DEF Partition
  <2>1. ~twice /\ Prefix(seen, page - 1)
    BY <1>2 DEF Partition
  <2>2. seen \in SUBSET Id /\ Closed(seen) /\ Cardinality(seen) = Cardinality(U)
    BY <1>3, <2>1 DEF Prefix, ListingsTypeOK
  <2>3. Cardinality(U) \in Nat /\ Cardinality(seen) \in Nat
    BY <1>3, <2>2, RowsAreFinite
  <2>4. seen \subseteq U /\ U \subseteq seen
    BY <1>3, <2>2, <2>3, ShorterWithin
  <2>5. seen = U
    BY <2>4
  <2>6. Got' = U \cup P /\ seen' = U
    BY <1>2, <1>4, <2>5
  <2>7. Prefix(Got, page)'
    BY <1>2, <1>3, <2>6, SameOrder DEF Prefix, Closed
  <2>8. Prefix(seen, page - 1)'
    BY <1>2, <2>1, SameOrder DEF Prefix, Closed
  <2> QED  BY <2>1, <2>5, <2>7, <2>8
<1> QED  BY <1>7, <1>8, <1>9, <1>10, <1>11

(* The rows of the page count as seen; without a next one all are.         *)
LEMMA AnswerKeeps == ASSUME ListingsInv, Answer  PROVE ListingsInv'
<1> USE DEF ListingsInv
<1>1. /\ at = "answer" /\ at' = (IF HasNext THEN "ask" ELSE "done")
      /\ page' = (IF HasNext THEN page + 1 ELSE page)
      /\ shown' = <<>> /\ seen' = Got
      /\ twice' = (twice \/ seen \cap DOMAIN shown # {})
      /\ UNCHANGED <<listing, key, refunded, refunds, asked, balance, total, start, calm>>
  BY DEF Answer, table, Got
<1>2. DOMAIN <<>> = {} /\ <<>> \in [DOMAIN <<>> -> Nat]
  OBVIOUS
<1>3. page \in Nat \ {0} /\ page' \in Nat \ {0} /\ (HasNext => page' - 1 = page)
  <2>1. page \in Nat \ {0} /\ page' \in {page, page + 1}
    BY <1>1 DEF ListingsTypeOK
  <2>2. page' \in Nat \ {0}
    BY <2>1
  <2>3. ASSUME HasNext  PROVE page' - 1 = page
    <3>1. page' = page + 1
      BY <1>1, <2>3
    <3> QED  BY <2>1, <3>1
  <2> QED  BY <2>1, <2>2, <2>3
<1>4. Got \subseteq Id
  BY DEF ListingsTypeOK, Got
<1>5. ListingsTypeOK'
  BY <1>1, <1>2, <1>3, <1>4, SameOrder DEF ListingsTypeOK
<1>6. Fresh' /\ Details' /\ Latest'
  BY <1>1, <1>2, SameOrder DEF Fresh, Details, Latest
<1>7. Progress'
  <2> SUFFICES ASSUME calm # "moved", Ordered
               PROVE  /\ HasNext => Missing(seen, page - 1)'
                      /\ ~HasNext /\ SizesAgree => 1 .. start \subseteq Got
    BY <1>1, SameOrder DEF Progress
  <2>1. Missing(Got, page) /\ (page * Limit >= total => 1 .. start \subseteq Got)
    BY <1>1 DEF Progress
  <2>2. ASSUME HasNext  PROVE Missing(seen, page - 1)'
    BY <1>1, <1>3, <2>1, <2>2, SameOrder DEF Missing
  <2>3. ASSUME ~HasNext, SizesAgree  PROVE 1 .. start \subseteq Got
    <3>1. listing.size[asked] = Limit /\ Limit \in Nat
      BY <2>3, Limits DEF ListingsTypeOK
    <3>2. page * Limit >= total
      BY <1>3, <2>3, <3>1 DEF HasNext, ListingsTypeOK
    <3> QED  BY <2>1, <3>2
  <2> QED  BY <2>2, <2>3
<1>8. Partition'
  <2> SUFFICES ASSUME calm = "still", Ordered
               PROVE  ~twice' /\ (HasNext => Prefix(seen, page - 1)')
    BY <1>1, SameOrder DEF Partition
  <2>1. ~twice /\ Prefix(Got, page) /\ seen \cap DOMAIN shown = {}
    BY <1>1 DEF Partition
  <2>2. ASSUME HasNext  PROVE Prefix(seen, page - 1)'
    BY <1>1, <1>3, <2>1, <2>2, SameOrder DEF Prefix, Closed
  <2> QED  BY <1>1, <2>1, <2>2
<1> QED  BY <1>5, <1>6, <1>7, <1>8

LEMMA ListingsStep == ListingsInv /\ [Next]_vars => ListingsInv'
<1> SUFFICES ASSUME ListingsInv, [Next]_vars  PROVE ListingsInv'
  OBVIOUS
<1>1. CASE UNCHANGED vars
  <2>1. UNCHANGED <<listing, key, refunded, refunds, at, asked, page, balance, total, shown, seen,
                    twice, start, calm>>
    BY <1>1 DEF vars, table, walk
  <2>2. ListingsTypeOK' /\ Fresh' /\ Details' /\ Latest'
    BY <2>1, SameOrder DEF ListingsInv, ListingsTypeOK, Fresh, Details, Latest
  <2>3. Progress' /\ Partition'
    BY <2>1, SameOrder DEF ListingsInv, Progress, Partition, Missing, Prefix, Got, Closed
  <2> QED  BY <2>2, <2>3 DEF ListingsInv
<1> QED  BY <1>1, InsertKeeps, WriteKeeps, BeginKeeps, ReadKeeps, CountKeeps, FindKeeps, AnswerKeeps
     DEF Next

THEOREM ListingsInvariant == Spec => []ListingsInv
BY ListingsStart, ListingsStep, PTL DEF Spec

(* Who walks to the last page has seen every row there was when he began,  *)
(* whatever was added on the way (List and Count of the repositories,      *)
(* has_next of the logic).                                                 *)
THEOREM NothingEverMissed == Spec => []NothingMissed
<1>1. ListingsInv => NothingMissed
  BY DEF ListingsInv, Progress, NothingMissed
<1> QED  BY <1>1, ListingsInvariant, PTL

(* And while nothing is added or moved, no row is on two of his pages.     *)
THEOREM NothingEverTwice == Spec => []NothingTwice
<1>1. ListingsInv => NothingTwice
  BY DEF ListingsInv, Partition, NothingTwice
<1> QED  BY <1>1, ListingsInvariant, PTL

(* The statements of one answer fit together: an order is not shown with   *)
(* fewer refunds than it counts, nor a balance without its transaction     *)
(* (admin and user order listings, the balance page).                      *)
THEOREM AlwaysShownTogether == Spec => []ShownTogether
<1>1. ListingsInv => ShownTogether
  BY DEF ListingsInv, Details, Latest, ShownTogether
<1> QED  BY <1>1, ListingsInvariant, PTL
=============================================================================
