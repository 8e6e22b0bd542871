--------------------------- MODULE SettingsProofs ---------------------------
(***************************************************************************)
(* Theorems about the security settings, for any number of administrators  *)
(* and requests, any columns, and however long the clock runs.             *)
(***************************************************************************)
EXTENDS Settings, TLAPS

Place == {"idle", "lock", "get", "create", "got"}
Holding == {"get", "create", "got"}
Hand == [first : BOOLEAN, content : Setting, rev : Nat]

TypeOK ==
  /\ row \in Setting \cup {Absent} /\ orphans \in Nat /\ seeded \in BOOLEAN
  /\ writes \in Seq(Nat) /\ now \in Nat \ {0}
  /\ mu \in Request \cup {Nobody} /\ lockedAt \in Nat
  /\ cached \in Nat /\ cachedAt \in Nat
  /\ pc \in [Worker -> Place] /\ hand \in [Worker -> Hand]

(* Who is between Lock and its end has the mutex, and not for long.        *)
Exclusive ==
  /\ \A r \in Request : pc[r] \in Holding <=> mu = r
  /\ mu # Nobody => lockedAt <= now /\ now <= lockedAt + MaxFetch

History ==
  /\ \A n \in 1..Len(writes) : writes[n] <= now
  /\ row = Absent => writes = <<>>
  /\ seeded => row # Absent /\ orphans = 0 /\ \A w \in Worker : pc[w] # "create"

(* What replaced the copy came at most one read before it was stored.      *)
CopyAge ==
  /\ cached <= Len(writes) /\ cachedAt <= now
  /\ cachedAt # 0 => row # Absent
  /\ cachedAt # 0 /\ cached < Len(writes) => cachedAt <= writes[cached + 1] + MaxFetch
  /\ cachedAt = 0 => cached = 0

(* What a worker has read was the row at its revision.                     *)
HandsTrue ==
  \A w \in Worker :
    /\ pc[w] = "create" => hand[w].rev = 0
    /\ pc[w] \in {"create", "got"} => hand[w].rev <= Len(writes)
    /\ pc[w] = "got" =>
         /\ row # Absent
         /\ hand[w].first /\ hand[w].rev = Len(writes) => hand[w].content = row

(* What the holder of the mutex has read was replaced, if it was, after it *)
(* took the mutex, and is not older than the copy it replaces.             *)
HandsNew ==
  \A r \in Request : pc[r] \in {"create", "got"} =>
    /\ cached <= hand[r].rev
    /\ hand[r].rev < Len(writes) => lockedAt <= writes[hand[r].rev + 1]

SettingsIInv == TypeOK /\ Exclusive /\ History /\ CopyAge /\ HandsTrue /\ HandsNew

LEMMA BlankHand == Blank \in Hand /\ Blank.rev = 0 /\ Blank.content = Default /\ Blank.first
BY SettingsAssumption DEF Blank, Hand

LEMMA Starts == Init => SettingsIInv
<1> SUFFICES ASSUME Init  PROVE SettingsIInv
  OBVIOUS
<1> USE SettingsAssumption DEF Init
<1>1. TypeOK
  BY BlankHand DEF TypeOK, Place
<1>2. Exclusive
  BY DEF Exclusive, Holding, Worker
<1>3. History
  BY DEF History
<1>4. CopyAge
  BY DEF CopyAge
<1>5. HandsTrue /\ HandsNew
  BY DEF HandsTrue, HandsNew, Worker
<1> QED  BY <1>1, <1>2, <1>3, <1>4, <1>5 DEF SettingsIInv

(* Whoever ends holds nothing any more: its end disturbs nothing, if it    *)
(* gives the mutex back where it has it.                                   *)
LEMMA EndsSafe ==
  ASSUME SettingsIInv, NEW w \in Worker, Ends(w),
         UNCHANGED <<row, orphans, seeded, writes, now, copy>>,
         \/ w \in Request /\ pc[w] \in Holding /\ Unlock
         \/ (w \in Request => pc[w] \notin Holding) /\ UNCHANGED mutex
  PROVE  SettingsIInv'
<1> USE SettingsAssumption DEF SettingsIInv
<1>0. /\ UNCHANGED <<row, orphans, seeded, writes, now, cached, cachedAt>>
      /\ pc' = [pc EXCEPT ![w] = "idle"] /\ hand' = [hand EXCEPT ![w] = Blank]
  BY DEF Ends, Goes, Has, copy
<1>1. TypeOK'
  BY <1>0, BlankHand DEF TypeOK, Place, Unlock, mutex
<1>2. Exclusive'
  BY <1>0 DEF Exclusive, TypeOK, Unlock, mutex, Holding, Worker
<1>3. History' /\ CopyAge'
  BY <1>0 DEF History, CopyAge, TypeOK
<1>4. HandsTrue'
  BY <1>0 DEF HandsTrue, TypeOK
<1>5. HandsNew'
  BY <1>0 DEF HandsNew, TypeOK, Unlock, mutex, Exclusive, Holding, Worker
<1> QED  BY <1>1, <1>2, <1>3, <1>4, <1>5

LEMMA FirstSafe ==
  ASSUME SettingsIInv, NEW w \in Worker, First(w)
  PROVE  SettingsIInv'
<1> USE SettingsAssumption DEF SettingsIInv
<1>0. /\ UNCHANGED <<row, orphans, seeded, writes, now, mu, lockedAt, cached, cachedAt>>
      /\ pc[w] = "get"
  BY DEF First, copy, mutex
<1>1. CASE row = Absent
  <2>1. /\ pc' = [pc EXCEPT ![w] = "create"] /\ hand' = [hand EXCEPT ![w] = Blank]
        /\ writes = <<>> /\ cached = 0 /\ ~seeded
    BY <1>0, <1>1 DEF First, Goes, Has, History, CopyAge, TypeOK
  <2>2. TypeOK'
    BY <1>0, <2>1, BlankHand DEF TypeOK, Place
  <2>3. Exclusive' /\ History' /\ CopyAge'
    BY <1>0, <2>1 DEF Exclusive, History, CopyAge, TypeOK, Holding, Worker
  <2>4. HandsTrue' /\ HandsNew'
    BY <1>0, <2>1, BlankHand DEF HandsTrue, HandsNew, TypeOK, Worker
  <2> QED  BY <2>2, <2>3, <2>4
<1>2. CASE row # Absent
  <2> DEFINE h == [first |-> TRUE, content |-> row, rev |-> Len(writes)]
  <2>1. /\ pc' = [pc EXCEPT ![w] = "got"] /\ hand' = [hand EXCEPT ![w] = h]
    BY <1>0, <1>2 DEF First, Goes, Has
  <2>2. h \in Hand /\ h.rev = Len(writes) /\ h.content = row
    BY <1>2 DEF TypeOK, Hand
  <2> HIDE DEF h
  <2>3. TypeOK'
    BY <1>0, <2>1, <2>2 DEF TypeOK, Place
  <2>4. Exclusive' /\ History' /\ CopyAge'
    BY <1>0, <2>1 DEF Exclusive, History, CopyAge, TypeOK, Holding, Worker
  <2>5. HandsTrue' /\ HandsNew'
    BY <1>0, <1>2, <2>1, <2>2 DEF HandsTrue, HandsNew, TypeOK, Worker, CopyAge
  <2> QED  BY <2>3, <2>4, <2>5
<1> QED  BY <1>1, <1>2

LEMMA CreateSafe ==
  ASSUME SettingsIInv, NEW w \in Worker, Create(w)
  PROVE  SettingsIInv'
<1> USE SettingsAssumption DEF SettingsIInv
<1> DEFINE h == [Blank EXCEPT !.first = (row = Absent)]
<1>0. /\ UNCHANGED <<seeded, writes, now, mu, lockedAt, cached, cachedAt>>
      /\ pc[w] = "create" /\ ~seeded /\ hand[w].rev = 0
      /\ pc' = [pc EXCEPT ![w] = "got"] /\ hand' = [hand EXCEPT ![w] = h]
  BY DEF Create, copy, mutex, Goes, Has, History, HandsTrue
<1>1. h \in Hand /\ h.rev = 0 /\ h.content = Default /\ h.first = (row = Absent)
  BY BlankHand DEF Hand, Blank
<1>2. /\ row = Absent => row' = Default /\ orphans' = orphans /\ writes = <<>>
      /\ row # Absent => row' = row /\ orphans' = orphans + 1
      /\ row' # Absent
  BY DEF Create, History
<1> HIDE DEF h
<1>3. TypeOK'
  BY <1>0, <1>1, <1>2 DEF TypeOK, Place
<1>4. Exclusive' /\ History' /\ CopyAge'
  BY <1>0, <1>2 DEF Exclusive, History, CopyAge, TypeOK, Holding, Worker
<1>5. HandsTrue'
  <2> SUFFICES ASSUME NEW v \in Worker
               PROVE  /\ pc'[v] = "create" => hand'[v].rev = 0
                      /\ pc'[v] \in {"create", "got"} => hand'[v].rev <= Len(writes')
                      /\ pc'[v] = "got" =>
                           /\ row' # Absent
                           /\ hand'[v].first /\ hand'[v].rev = Len(writes') => hand'[v].content = row'
    BY DEF HandsTrue
  <2>1. CASE v = w
    BY <1>0, <1>1, <1>2, <2>1 DEF TypeOK
  <2>2. CASE v # w
    BY <1>0, <1>2, <2>2 DEF TypeOK, HandsTrue
  <2> QED  BY <2>1, <2>2
<1>6. HandsNew'
  BY <1>0, <1>1 DEF HandsNew, TypeOK, Worker
<1> QED  BY <1>3, <1>4, <1>5, <1>6

(* One more write of the row: the revisions before it keep their times.    *)
LEMMA Written ==
  ASSUME NEW ws \in Seq(Nat), NEW t \in Nat
  PROVE  /\ Append(ws, t) \in Seq(Nat) /\ Len(Append(ws, t)) = Len(ws) + 1
         /\ Append(ws, t)[Len(ws) + 1] = t
         /\ \A n \in 1..Len(ws) : Append(ws, t)[n] = ws[n]
OBVIOUS

LEMMA OverlaySetting ==
  ASSUME NEW c \in Setting, NEW q \in Ask
  PROVE  Overlay(c, q) \in Setting
BY SettingsAssumption DEF Overlay, Setting

LEMMA UpsertSafe ==
  ASSUME SettingsIInv, NEW a \in Admin, NEW q \in Ask, Upsert(a, q)
  PROVE  SettingsIInv'
<1> USE SettingsAssumption DEF SettingsIInv
<1>0. a \in Worker /\ a \notin Request
  BY DEF Worker
<1>1. CASE ~hand[a].first
  <2>1. UNCHANGED <<row, orphans, seeded, writes, now, copy, mutex>> /\ Ends(a)
    BY <1>1 DEF Upsert
  <2> QED  BY <1>0, <2>1, EndsSafe
<1>2. CASE hand[a].first
  <2> DEFINE new == Overlay(hand[a].content, q)
             log == Append(writes, now)
  <2>1. /\ pc[a] = "got" /\ row' = new /\ writes' = log
        /\ pc' = [pc EXCEPT ![a] = "idle"] /\ hand' = [hand EXCEPT ![a] = Blank]
        /\ UNCHANGED <<orphans, seeded, now, mu, lockedAt, cached, cachedAt>>
    BY <1>2 DEF Upsert, Ends, Goes, Has, copy, mutex
  <2>2. hand[a].content \in Setting
    BY <1>0 DEF TypeOK, Hand
  <2>3. new \in Setting /\ new # Absent
    BY <2>2, OverlaySetting
  <2>4. /\ log \in Seq(Nat) /\ Len(log) = Len(writes) + 1 /\ log[Len(writes) + 1] = now
        /\ \A n \in 1..Len(writes) : log[n] = writes[n]
    BY Written DEF TypeOK
  <2> HIDE DEF new, log
  <2>5. TypeOK'
    BY <1>0, <2>1, <2>3, <2>4, BlankHand DEF TypeOK, Place
  <2>6. Exclusive'
    BY <1>0, <2>1 DEF Exclusive, TypeOK, Holding, Worker
  <2>7. History'
    <3>1. \A n \in 1..Len(log) : log[n] <= now
      <4> SUFFICES ASSUME NEW n \in 1..Len(log)  PROVE log[n] <= now
        OBVIOUS
      <4>1. n \in 1..Len(writes) \/ n = Len(writes) + 1
        BY <2>4 DEF TypeOK
      <4> QED  BY <2>4, <4>1 DEF History, TypeOK
    <3>2. seeded => orphans = 0 /\ \A w \in Worker : pc'[w] # "create"
      BY <2>1 DEF History, TypeOK
    <3> QED  BY <2>1, <2>3, <3>1, <3>2 DEF History
  <2>8. CopyAge'
    <3>1. cached \in Nat /\ Len(writes) \in Nat /\ cachedAt \in Nat /\ MaxFetch \in Nat /\ now \in Nat
      BY DEF TypeOK
    <3>2. cachedAt # 0 /\ cached < Len(log) => cachedAt <= log[cached + 1] + MaxFetch
      <4>1. CASE cached < Len(writes)
        <5>1. cached + 1 \in 1..Len(writes)
          BY <3>1, <4>1
        <5>2. log[cached + 1] = writes[cached + 1]
          BY <2>4, <5>1
        <5> QED  BY <4>1, <5>2 DEF CopyAge
      <4>2. CASE cached = Len(writes)
        <5>1. log[cached + 1] = now
          BY <2>4, <4>2
        <5>2. cachedAt <= now
          BY DEF CopyAge
        <5> QED  BY <3>1, <5>1, <5>2
      <4>3. cached <= Len(writes)
        BY DEF CopyAge
      <4> QED  BY <3>1, <4>1, <4>2, <4>3
    <3> QED  BY <2>1, <2>3, <2>4, <3>1, <3>2 DEF CopyAge
  <2>9. HandsTrue'
    <3> SUFFICES ASSUME NEW v \in Worker
                 PROVE  /\ pc'[v] = "create" => hand'[v].rev = 0
                        /\ pc'[v] \in {"create", "got"} => hand'[v].rev <= Len(writes')
                        /\ pc'[v] = "got" =>
                             /\ row' # Absent
                             /\ hand'[v].first /\ hand'[v].rev = Len(writes')
                                  => hand'[v].content = row'
      BY DEF HandsTrue
    <3>1. CASE v = a
      BY <1>0, <2>1, <3>1 DEF TypeOK
    <3>2. CASE v # a
      <4>1. pc'[v] = pc[v] /\ hand'[v] = hand[v] /\ hand[v].rev \in Nat /\ Len(writes) \in Nat
        BY <2>1, <3>2 DEF TypeOK, Hand
      <4> QED  BY <2>1, <2>3, <2>4, <4>1 DEF HandsTrue
    <3> QED  BY <3>1, <3>2
  <2>10. HandsNew'
    <3> SUFFICES ASSUME NEW r \in Request, pc'[r] \in {"create", "got"}
                 PROVE  /\ cached <= hand[r].rev
                        /\ hand[r].rev < Len(log) => lockedAt <= log[hand[r].rev + 1]
      BY <1>0, <2>1 DEF HandsNew, TypeOK, Worker
    <3>1. /\ pc[r] \in {"create", "got"} /\ hand[r].rev \in Nat /\ hand[r].rev <= Len(writes)
          /\ lockedAt <= now /\ Len(writes) \in Nat
      BY <1>0, <2>1 DEF TypeOK, Hand, Worker, HandsTrue, Exclusive, Holding
    <3>2. hand[r].rev < Len(writes) => lockedAt <= writes[hand[r].rev + 1]
      BY <3>1 DEF HandsNew
    <3>3. cached <= hand[r].rev
      BY <3>1 DEF HandsNew
    <3> QED  BY <2>4, <3>1, <3>2, <3>3
  <2> QED  BY <2>5, <2>6, <2>7, <2>8, <2>9, <2>10
<1> QED  BY <1>1, <1>2

LEMMA LoadSafe ==
  ASSUME SettingsIInv, NEW w \in Worker,
         \/ w \in Request /\ Load(w)
         \/ w \in Admin /\ Arrives(w)
  PROVE  SettingsIInv'
<1> USE SettingsAssumption DEF SettingsIInv
<1>0. /\ UNCHANGED <<row, orphans, seeded, writes, now, mu, lockedAt, cached, cachedAt, hand>>
      /\ pc[w] = "idle"
      /\ \E p \in {"lock", "get"} : pc' = [pc EXCEPT ![w] = p] /\ (w \in Request => p = "lock")
  BY DEF Load, Arrives, copy, mutex, Goes
<1>1. TypeOK'
  BY <1>0 DEF TypeOK, Place
<1>2. Exclusive' /\ History' /\ CopyAge'
  BY <1>0 DEF Exclusive, History, CopyAge, TypeOK, Holding, Worker
<1>3. HandsTrue' /\ HandsNew'
  BY <1>0 DEF HandsTrue, HandsNew, TypeOK, Worker
<1> QED  BY <1>1, <1>2, <1>3

LEMMA LockSafe ==
  ASSUME SettingsIInv, NEW r \in Request, Lock(r)
  PROVE  SettingsIInv'
<1> USE SettingsAssumption DEF SettingsIInv
<1>0. r \in Worker /\ pc[r] = "lock" /\ mu = Nobody
      /\ UNCHANGED <<row, orphans, seeded, writes, now, copy>>
  BY DEF Lock, Worker
<1>1. CASE Fresh
  BY <1>0, <1>1, EndsSafe DEF Lock, Holding
<1>2. CASE ~Fresh
  <2>1. /\ UNCHANGED <<row, orphans, seeded, writes, now, cached, cachedAt, hand>>
        /\ mu' = r /\ lockedAt' = now /\ pc' = [pc EXCEPT ![r] = "get"]
    BY <1>2 DEF Lock, copy, Goes
  <2>2. TypeOK'
    BY <1>0, <2>1 DEF TypeOK, Place
  <2>3. Exclusive'
    BY <1>0, <2>1 DEF Exclusive, TypeOK, Holding, Worker
  <2>4. History' /\ CopyAge' /\ HandsTrue'
    BY <1>0, <2>1 DEF History, CopyAge, HandsTrue, TypeOK
  <2>5. HandsNew'
    BY <1>0, <2>1 DEF HandsNew, Exclusive, Holding, TypeOK, Worker
  <2> QED  BY <2>2, <2>3, <2>4, <2>5
<1> QED  BY <1>1, <1>2

LEMMA StoreSafe ==
  ASSUME SettingsIInv, NEW r \in Request, Store(r)
  PROVE  SettingsIInv' /\ cached' >= cached
<1> USE SettingsAssumption DEF SettingsIInv
<1>0. /\ UNCHANGED <<row, orphans, seeded, writes, now>> /\ pc[r] = "got" /\ r \in Worker
      /\ cached' = hand[r].rev /\ cachedAt' = now /\ mu' = Nobody /\ lockedAt' = 0
      /\ pc' = [pc EXCEPT ![r] = "idle"] /\ hand' = [hand EXCEPT ![r] = Blank]
  BY DEF Store, Ends, Goes, Has, Unlock, Worker
<1>1. /\ mu = r /\ hand[r] \in Hand /\ hand[r].rev \in Nat /\ hand[r].rev <= Len(writes)
      /\ cached <= hand[r].rev /\ row # Absent
      /\ hand[r].rev < Len(writes) => lockedAt <= writes[hand[r].rev + 1]
      /\ now <= lockedAt + MaxFetch
  BY <1>0 DEF TypeOK, Hand, Exclusive, Holding, HandsTrue, HandsNew
<1>2. TypeOK'
  BY <1>0, <1>1, BlankHand DEF TypeOK, Place
<1>3. Exclusive'
  BY <1>0, <1>1 DEF Exclusive, TypeOK, Holding, Worker
<1>4. History' /\ HandsTrue'
  BY <1>0 DEF History, HandsTrue, TypeOK
<1>5. CopyAge'
  <2>1. hand[r].rev < Len(writes) => writes[hand[r].rev + 1] \in Nat
    BY <1>1 DEF TypeOK
  <2> QED  BY <1>0, <1>1, <2>1 DEF CopyAge, TypeOK
<1>6. HandsNew'
  BY <1>0, <1>1 DEF HandsNew, Exclusive, Holding, TypeOK, Worker
<1>7. cached' >= cached
  BY <1>0, <1>1 DEF TypeOK
<1> QED  BY <1>2, <1>3, <1>4, <1>5, <1>6, <1>7

LEMMA RestartSafe == SettingsIInv /\ Restart => SettingsIInv'
<1> SUFFICES ASSUME SettingsIInv, Restart  PROVE SettingsIInv'
  OBVIOUS
<1> USE SettingsAssumption DEF SettingsIInv
<1>0. /\ UNCHANGED <<row, orphans, seeded, writes, now>>
      /\ pc' = [w \in Worker |-> "idle"] /\ hand' = [w \in Worker |-> Blank]
      /\ mu' = Nobody /\ lockedAt' = 0 /\ cached' = 0 /\ cachedAt' = 0
  BY DEF Restart, Unlock
<1>1. TypeOK'
  BY <1>0, BlankHand DEF TypeOK, Place
<1>2. Exclusive' /\ HandsNew'
  BY <1>0 DEF Exclusive, HandsNew, Holding, Worker
<1>3. History' /\ CopyAge' /\ HandsTrue'
  BY <1>0 DEF History, CopyAge, HandsTrue, TypeOK
<1> QED  BY <1>1, <1>2, <1>3

LEMMA TickSafe == SettingsIInv /\ Tick => SettingsIInv'
<1> SUFFICES ASSUME SettingsIInv, Tick  PROVE SettingsIInv'
  OBVIOUS
<1> USE SettingsAssumption DEF SettingsIInv
<1>0. /\ UNCHANGED <<row, orphans, seeded, writes, mu, lockedAt, cached, cachedAt, pc, hand>>
      /\ now' = now + 1 /\ (mu # Nobody => now < lockedAt + MaxFetch)
  BY DEF Tick, copy, mutex
<1>1. TypeOK'
  BY <1>0 DEF TypeOK
<1>2. Exclusive'
  BY <1>0 DEF Exclusive, TypeOK
<1>3. History' /\ CopyAge'
  BY <1>0 DEF History, CopyAge, TypeOK
<1>4. HandsTrue' /\ HandsNew'
  BY <1>0 DEF HandsTrue, HandsNew
<1> QED  BY <1>1, <1>2, <1>3, <1>4

LEMMA StutterSafe == SettingsIInv /\ UNCHANGED vars => SettingsIInv'
<1> SUFFICES ASSUME SettingsIInv, UNCHANGED vars  PROVE SettingsIInv'
  OBVIOUS
<1>1. UNCHANGED <<row, orphans, seeded, writes, now, mu, lockedAt, cached, cachedAt, pc, hand>>
  BY DEF vars, mutex, copy
<1>2. TypeOK' /\ Exclusive' /\ History' /\ CopyAge'
  BY <1>1 DEF SettingsIInv, TypeOK, Exclusive, History, CopyAge
<1>3. HandsTrue' /\ HandsNew'
  BY <1>1 DEF SettingsIInv, HandsTrue, HandsNew
<1> QED  BY <1>2, <1>3 DEF SettingsIInv

LEMMA Step == SettingsIInv /\ [Next]_vars => SettingsIInv'
<1> SUFFICES ASSUME SettingsIInv, [Next]_vars  PROVE SettingsIInv'
  OBVIOUS
<1>1. ASSUME NEW a \in Admin, Arrives(a)  PROVE SettingsIInv'
  BY <1>1, LoadSafe DEF Worker
<1>2. ASSUME NEW w \in Worker, First(w)  PROVE SettingsIInv'
  BY <1>2, FirstSafe
<1>3. ASSUME NEW w \in Worker, Create(w)  PROVE SettingsIInv'
  BY <1>3, CreateSafe
<1>4. ASSUME NEW a \in Admin, Leaves(a)  PROVE SettingsIInv'
  <2>1. a \in Worker /\ a \notin Request
    BY SettingsAssumption DEF Worker
  <2> QED  BY <1>4, <2>1, EndsSafe DEF Leaves
<1>5. ASSUME NEW a \in Admin, NEW q \in Ask, Upsert(a, q)  PROVE SettingsIInv'
  BY <1>5, UpsertSafe
<1>6. ASSUME NEW r \in Request, Load(r)  PROVE SettingsIInv'
  BY <1>6, LoadSafe DEF Worker
<1>7. ASSUME NEW r \in Request, Lock(r)  PROVE SettingsIInv'
  BY <1>7, LockSafe
<1>8. ASSUME NEW r \in Request, Fails(r)  PROVE SettingsIInv'
  <2>1. r \in Worker /\ pc[r] \in Holding /\ Ends(r) /\ Unlock
        /\ UNCHANGED <<row, orphans, seeded, writes, now, copy>>
    BY <1>8 DEF Fails, Holding, Worker
  <2> QED  BY <2>1, EndsSafe
<1>9. ASSUME NEW r \in Request, Store(r)  PROVE SettingsIInv'
  BY <1>9, StoreSafe
<1> QED
  BY <1>1, <1>2, <1>3, <1>4, <1>5, <1>6, <1>7, <1>8, <1>9, RestartSafe, TickSafe,
     StutterSafe
     DEF Next, Serves, Worker

THEOREM Invariance == Spec => []SettingsIInv
BY Starts, Step, PTL DEF Spec

(* Who has its row from the start never gets a second one.                 *)
THEOREM RowIsOne == Spec => []OneRow
<1>1. SettingsIInv => OneRow
  BY DEF SettingsIInv, History, OneRow
<1> QED  BY <1>1, Invariance, PTL

(* However many write and read, the settings in use were in force less     *)
(* than the life of a copy and a read ago.                                 *)
THEOREM StaleIsBounded == Spec => []StaleBound
<1>1. SettingsIInv => StaleBound
  <2> SUFFICES ASSUME SettingsIInv, Fresh, cached < Len(writes)
               PROVE  now - writes[cached + 1] < CacheDuration + MaxFetch
    BY DEF StaleBound
  <2>1. /\ now \in Nat /\ cachedAt \in Nat /\ cached \in Nat /\ writes[cached + 1] \in Nat
        /\ CacheDuration \in Nat /\ MaxFetch \in Nat
    BY SettingsAssumption DEF SettingsIInv, TypeOK
  <2>2. cachedAt <= writes[cached + 1] + MaxFetch /\ now - cachedAt < CacheDuration
    BY DEF SettingsIInv, CopyAge, Fresh
  <2> QED  BY <2>1, <2>2
<1> QED  BY <1>1, Invariance, PTL

(* The copy of a process never goes back to older settings.                *)
THEOREM CacheGoesForward == Spec => CacheForward
<1>1. SettingsIInv /\ [Next]_vars => [cachedAt # 0 /\ cachedAt' # 0 => cached' >= cached]_vars
  <2> SUFFICES ASSUME SettingsIInv, Next, cachedAt' # 0  PROVE cached' >= cached
    OBVIOUS
  <2>1. cached \in Nat
    BY DEF SettingsIInv, TypeOK
  <2>2. ASSUME NEW r \in Request, Store(r)  PROVE cached' >= cached
    BY <2>2, StoreSafe
  <2>3. ~Restart
    BY DEF Restart
  <2>4. CASE UNCHANGED cached
    BY <2>1, <2>4
  <2> QED
    BY <2>2, <2>3, <2>4 DEF Next, Serves, Arrives, First, Create, Leaves, Upsert, Load, Lock,
                            Fails, Tick, copy
<1> QED  BY <1>1, Invariance, PTL DEF Spec, CacheForward

(* An update undoes what another changed only if the two overlap.          *)
THEOREM ChangesAreAsked == Spec => ChangesAsked
<1> DEFINE asked(a) ==
      /\ pc[a] = "got" /\ pc'[a] = "idle"
      /\ \/ hand[a].rev < Len(writes)
         \/ \E q \in Ask : AsAsked(q)
<1>1. ASSUME SettingsIInv, Next, row # Absent, row' # row
      PROVE  \E a \in Admin : asked(a)
  <2>1. \E a \in Admin, q \in Ask : Upsert(a, q) /\ hand[a].first
    BY <1>1 DEF Next, Serves, Arrives, First, Create, Leaves, Upsert, Load, Lock, Fails, Store,
                Restart, Tick
  <2>2. PICK a \in Admin, q \in Ask : Upsert(a, q) /\ hand[a].first
    BY <2>1
  <2>3. a \in Worker /\ pc[a] = "got" /\ pc'[a] = "idle" /\ row' = Overlay(hand[a].content, q)
    BY <1>1, <2>2 DEF Upsert, Ends, Goes, Worker, SettingsIInv, TypeOK
  <2>4. hand[a].rev <= Len(writes) /\ (hand[a].rev = Len(writes) => hand[a].content = row)
    BY <1>1, <2>2, <2>3 DEF SettingsIInv, HandsTrue
  <2>5. hand[a].rev \in Nat /\ Len(writes) \in Nat
    BY <1>1, <2>3 DEF SettingsIInv, TypeOK, Hand
  <2>6. CASE hand[a].rev = Len(writes)
    <3>1. AsAsked(q)
      BY <2>3, <2>4, <2>6 DEF Overlay, AsAsked
    <3> QED  BY <2>3, <3>1
  <2>7. CASE hand[a].rev < Len(writes)
    BY <2>3, <2>7
  <2> QED  BY <2>4, <2>5, <2>6, <2>7
<1>2. SettingsIInv /\ [Next]_vars =>
        [row # Absent /\ row' # row => \E a \in Admin : asked(a)]_vars
  BY <1>1
<1> QED  BY <1>2, Invariance, PTL DEF Spec, ChangesAsked
=============================================================================
