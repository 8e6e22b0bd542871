--------------------------- MODULE MigrationsProofs ---------------------------
(***************************************************************************)
(* With one process at a time, Apply keeps schema_migrations without a gap *)
(* and the schema in step with it, for every ordered registry, whatever    *)
(* releases and targets are used and wherever it fails or dies.            *)
(***************************************************************************)
EXTENDS Migrations, FiniteSetTheorems, WellFoundedInduction, TLAPS

(* Max of a set that has a largest element is that element. *)
LEMMA MaxIs ==
  ASSUME NEW S \in SUBSET Int, NEW m \in S, \A x \in S : x <= m
  PROVE  Max(S) = m
<1> DEFINE Top(x) == x \in S /\ \A y \in S : x >= y
<1>1. \A y \in S : m >= y
  OBVIOUS
<1>2. ASSUME NEW x \in S, \A y \in S : x >= y PROVE x = m
  BY <1>2
<1> QED
  BY <1>1, <1>2 DEF Max

(* What the registry is made of. *)
LEMMA RegistryTypes ==
  /\ Len(registry) \in Nat
  /\ Index = 1 .. Len(registry)
  /\ \A i \in Index : /\ Version(i) \in Nat \ {0}
                      /\ registry[i].up \in Seq(SUBSET STRING)
                      /\ registry[i].down \in Seq(SUBSET STRING)
                      /\ registry[i].version = Version(i)
<1> DEFINE R == [version : Nat \ {0}, needs : SUBSET STRING,
                 up : Seq(SUBSET STRING), down : Seq(SUBSET STRING)]
<1>1. registry \in Seq(R)
  BY MigrationsAssumption
<1>2. Len(registry) \in Nat /\ \A i \in 1 .. Len(registry) : registry[i] \in R
  <2> HIDE DEF R
  <2> QED
    BY <1>1
<1> QED
  BY <1>2 DEF Index, Version

(* Versions order the positions of the registry. *)
LEMMA Ascending ==
  ASSUME NEW i \in Index, NEW j \in Index
  PROVE  /\ Version(i) < Version(j) <=> i < j
         /\ Version(i) = Version(j) <=> i = j
<1> USE RegistryTypes
<1>1. i < j => Version(i) < Version(j)
  BY RegistryAssumption
<1>2. j < i => Version(j) < Version(i)
  BY RegistryAssumption
<1>3. i < j \/ j < i \/ i = j
  OBVIOUS
<1> QED
  BY <1>1, <1>2, <1>3

(* Of some versions one is the newest: the one with the fewest after it.   *)
LEMMA NewestOfSome ==
  ASSUME NEW S \in SUBSET {Version(i) : i \in Index}, S # {}
  PROVE  \E m \in S : \A x \in S : x <= m
<1> USE RegistryTypes
<1> DEFINE After(i) == {j \in Index : i < j}
           Tails == {T \in SUBSET Index : \E i \in Index : Version(i) \in S /\ T = After(i)}
<1>1. IsWellFoundedOn(StrictSubsetOrdering(Index), FiniteSubsetsOf(Index))
  BY FS_StrictSubsetOrderingWellFounded
<1>2. Tails \subseteq FiniteSubsetsOf(Index)
  <2>1. IsFiniteSet(Index)
    <3>1. Len(registry) \in Int /\ 1 \in Int
      OBVIOUS
    <3> QED  BY ONLY <3>1, FS_Interval DEF Index
  <2>2. FiniteSubsetsOf(Index) = SUBSET Index
    BY <2>1, FS_FiniteSubsetsOfFinite
  <2> QED  BY <2>2
<1>3. Tails # {}
  <2>1. PICK i \in Index : Version(i) \in S
    OBVIOUS
  <2>2. After(i) \in Tails
    BY <2>1
  <2> QED  BY <2>2
<1>4. PICK T \in Tails : \A U \in Tails : ~ (<<U, T>> \in StrictSubsetOrdering(Index))
  BY <1>1, <1>2, <1>3, WFMin
<1>5. PICK i \in Index : Version(i) \in S /\ T = After(i)
  BY <1>4
<1>6. ASSUME NEW j \in Index, Version(j) \in S, i < j  PROVE FALSE
  <2>1. After(j) \subseteq T /\ j \in T /\ j \notin After(j)
    BY <1>5, <1>6
  <2>2. After(j) \in Tails
    BY <1>6
  <2>3. <<After(j), T>> \in StrictSubsetOrdering(Index)
    BY <2>1, <2>2, <1>4 DEF StrictSubsetOrdering
  <2> QED  BY <1>4, <2>2, <2>3
<1>7. ASSUME NEW j \in Index, Version(j) \in S  PROVE Version(j) <= Version(i)
  <2>1. ~ (i < j)
    BY <1>6, <1>7
  <2> QED  BY <2>1, Ascending
<1> QED  BY <1>5, <1>7

(* The newest of the k oldest versions. *)
LEMMA Newest ==
  ASSUME NEW k \in 0 .. Len(registry), recorded = Oldest(k)
  PROVE  CurrentVersion = IF k = 0 THEN 0 ELSE Version(k)
<1> USE RegistryTypes
<1>1. recorded \cup {0} \subseteq Int
  BY DEF Oldest
<1>2. CASE k = 0
  <2>1. recorded \cup {0} = {0}
    BY <1>2 DEF Oldest
  <2>2. Max({0}) = 0
    <3>1. {0} \in SUBSET Int /\ 0 \in {0} /\ \A x \in {0} : x <= 0
      OBVIOUS
    <3> QED
      BY ONLY <3>1, MaxIs
  <2> QED
    BY <2>1, <2>2, <1>2 DEF CurrentVersion
<1>3. CASE k # 0
  <2>1. Version(k) \in recorded \cup {0}
    BY <1>3 DEF Oldest
  <2>2. \A x \in recorded \cup {0} : x <= Version(k)
    <3>1. \A i \in 1 .. k : Version(i) <= Version(k)
      <4>1. ASSUME NEW i \in 1 .. k PROVE Version(i) <= Version(k)
        BY Ascending, <1>3
      <4> QED
        BY <4>1
    <3> QED
      BY <3>1, <1>3 DEF Oldest
  <2> QED
    BY <1>1, <2>1, <2>2, <1>3, MaxIs DEF CurrentVersion
<1> QED
  BY <1>2, <1>3

(* With the k oldest versions recorded, the loop goes on with number k+1.  *)
LEMMA NextInLine ==
  ASSUME NEW k \in 0 .. Len(registry), NEW i \in 0 .. k, NEW latest \in Index,
         NEW target \in Nat, NEW current \in Nat,
         current = (IF k = 0 THEN 0 ELSE Version(k)),
         NEW j \in NextUp(i, latest, current, target)
  PROVE  j = k + 1 /\ j \in Index
<1> USE RegistryTypes
<1>1. j \in Index /\ j \in i + 1 .. latest
  BY DEF NextUp
<1>2. current < Version(j)
  BY DEF NextUp
<1>3. j > k
  BY <1>1, <1>2, Ascending
<1>4. k + 1 < j => Version(k + 1) <= current
  BY <1>1 DEF NextUp
<1>5. k + 1 < j => Version(k + 1) > current
  <2> SUFFICES ASSUME k + 1 < j PROVE Version(k + 1) > current
    OBVIOUS
  <2>1. k + 1 \in Index
    BY <1>1
  <2>2. CASE k = 0
    BY <2>1, <2>2
  <2>3. CASE k # 0
    <3>1. k \in Index
      BY <2>3
    <3> QED
      BY <2>1, <3>1, <2>3, Ascending
  <2> QED
    BY <2>2, <2>3
<1>6. k + 1 < j => FALSE
  <2> SUFFICES ASSUME k + 1 < j PROVE FALSE
    OBVIOUS
  <2>1. Version(k + 1) \in Nat
    BY <1>1
  <2> QED
    BY <2>1, <1>4, <1>5
<1> QED
  BY <1>1, <1>3, <1>6

(* The version with which the loop of one process starts or goes on.       *)
LEMMA ContinueInStep ==
  ASSUME TypeOK, NEW P, Process = {P},
         NEW k \in 0 .. Len(registry), NEW i \in 0 .. k, NEW latest \in Index,
         NEW target \in Nat, recorded' = Oldest(k),
         Continue(P, i, latest, IF k = 0 THEN 0 ELSE Version(k), target)
  PROVE  /\ proc' \in [Process -> {Idle} \cup Forward \cup Rollback]
         /\ InStep(k)'
<1> USE RegistryTypes
<1> DEFINE current == IF k = 0 THEN 0 ELSE Version(k)
<1>1. current \in Nat
  OBVIOUS
<1>2. CASE NextUp(i, latest, current, target) = {}
  <2>1. proc' = [proc EXCEPT ![P] = Idle]
    BY <1>2 DEF Continue, Become
  <2> QED
    BY <2>1 DEF InStep, TypeOK, Idle
<1>3. ASSUME NEW j \in NextUp(i, latest, current, target),
             proc' = [proc EXCEPT ![P] =
               [at |-> "forward", next |-> j, latest |-> latest, target |-> target]]
      PROVE  /\ proc' \in [Process -> {Idle} \cup Forward \cup Rollback]
             /\ InStep(k)'
  <2>1. j = k + 1 /\ j \in Index
    BY <1>1, NextInLine
  <2> QED
    BY <1>3, <2>1 DEF InStep, TypeOK, Forward
<1> QED
  BY <1>2, <1>3 DEF Continue, Become

(* Every step of one process keeps the invariant.                          *)
LEMMA OneProcessStep ==
  ASSUME NEW P, Process = {P}, SerialInv, [Next]_vars
  PROVE  SerialInv'
<1> USE RegistryTypes
<1>k. PICK k \in 0 .. Len(registry) : InStep(k)
  BY DEF SerialInv
<1>t. /\ ddlCommits \in BOOLEAN
      /\ schema \subseteq Object
      /\ recorded \subseteq {Version(i) : i \in Index}
      /\ proc \in [Process -> {Idle} \cup Forward \cup Rollback]
  BY DEF SerialInv, TypeOK
<1>c. CurrentVersion = IF k = 0 THEN 0 ELSE Version(k)
  BY <1>k, Newest DEF InStep
<1>r. \A i \in Index : Version(i) \in recorded <=> i <= k
  BY <1>k, Ascending DEF InStep, Oldest
<1>1. CASE UNCHANGED vars
  BY <1>1 DEF vars, SerialInv, TypeOK, RecordedPresent, InStep
<1>2. CASE Start(P)
  <2>1. PICK latest \in Latest, target \in Target, allowRollback \in BOOLEAN :
          LET known == {Version(i) : i \in 1 .. latest}
              effective == IF target = 0 THEN Max(known) ELSE target
          IN  /\ proc[P] = Idle
              /\ recorded \subseteq known
              /\ effective <= Max(known)
              /\ \/ /\ effective > CurrentVersion
                    /\ Continue(P, 0, latest, CurrentVersion, effective)
                 \/ /\ effective < CurrentVersion
                    /\ allowRollback
                    /\ Become(P, [at |-> "rollback", todo |-> {v \in recorded : v > effective}])
              /\ UNCHANGED <<ddlCommits, schema, recorded>>
    BY <1>2 DEF Start
  <2> DEFINE known == {Version(i) : i \in 1 .. latest}
             effective == IF target = 0 THEN Max(known) ELSE target
  <2>2. latest \in Index /\ target \in Nat
    BY MigrationsAssumption
  <2>3. Max(known) = Version(latest)
    <3>1. known \in SUBSET Int /\ Version(latest) \in known
      BY <2>2
    <3>2. \A x \in known : x <= Version(latest)
      <4>1. ASSUME NEW i \in 1 .. latest PROVE Version(i) <= Version(latest)
        BY <2>2, Ascending
      <4> QED
        BY <4>1
    <3> QED
      BY <3>1, <3>2, MaxIs
  <2>4. effective \in Nat
    BY <2>2, <2>3
  <2>5. UNCHANGED <<ddlCommits, schema, recorded>>
    BY <2>1
  <2>6. CASE Continue(P, 0, latest, CurrentVersion, effective)
    <3>1. recorded' = Oldest(k)
      BY <2>5, <1>k DEF InStep
    <3>2. /\ proc' \in [Process -> {Idle} \cup Forward \cup Rollback]
          /\ InStep(k)'
      <4>1. 0 \in 0 .. k
        OBVIOUS
      <4> HIDE DEF effective
      <4>2. Continue(P, 0, latest, IF k = 0 THEN 0 ELSE Version(k), effective)
        BY <2>6, <1>c
      <4>3. TypeOK
        BY DEF SerialInv
      <4> QED
        BY <2>2, <2>4, <3>1, <4>1, <4>2, <4>3, ContinueInStep
    <3> QED
      BY <3>2, <2>5, <1>t DEF SerialInv, TypeOK, RecordedPresent
  <2>7. CASE /\ effective < CurrentVersion
             /\ Become(P, [at |-> "rollback", todo |-> {v \in recorded : v > effective}])
    <3> DEFINE todo == {v \in recorded : v > effective}
    <3>1. proc' = [proc EXCEPT ![P] = [at |-> "rollback", todo |-> todo]]
      BY <2>7 DEF Become
    <3>2. todo # {}
      <4>1. k # 0
        BY <2>7, <1>c, <2>4
      <4>2. Version(k) \in todo
        BY <4>1, <2>7, <1>c, <1>r
      <4> QED
        BY <4>2
    <3>3. \A u \in todo, v \in recorded : u <= v => v \in todo
      BY <1>t, <2>4
    <3>4. todo \subseteq recorded
      OBVIOUS
    <3>5. [at |-> "rollback", todo |-> todo] \in Rollback
      BY <3>2, <3>4, <1>t DEF Rollback
    <3>6. proc' \in [Process -> {Idle} \cup Forward \cup Rollback]
      BY <3>1, <3>5, <1>t
    <3>7. proc'[P] = [at |-> "rollback", todo |-> todo]
      BY <3>1, <1>t
    <3>8. InStep(k)'
      <4> HIDE DEF todo
      <4> QED
        BY <3>7, <3>3, <3>4, <2>5, <1>k DEF InStep
    <3> QED
      BY <3>6, <3>8, <2>5, <1>t DEF SerialInv, TypeOK, RecordedPresent
  <2> QED
    BY <2>1, <2>6, <2>7
<1>3. CASE ApplyMigration(P)
  <2>1. /\ proc[P] \in Forward
        /\ proc[P].next = k + 1
        /\ k + 1 \in Index
    BY <1>3, <1>k, <1>t DEF ApplyMigration, InStep, Forward, Rollback, Idle
  <2> DEFINE job == proc[P]
             migration == registry[k + 1]
  <2>2. /\ schema' = schema \cup Whole(migration.up)
        /\ recorded' = recorded \cup {Version(k + 1)}
        /\ Continue(P, k + 1, job.latest, Version(k + 1), job.target)
        /\ ddlCommits' = ddlCommits
    BY <1>3, <2>1 DEF ApplyMigration
  <2>3. recorded' = Oldest(k + 1)
    BY <2>2, <1>k DEF InStep, Oldest
  <2>4. job.latest \in Index /\ job.target \in Nat
    BY <2>1 DEF Forward
  <2>5. /\ proc' \in [Process -> {Idle} \cup Forward \cup Rollback]
        /\ InStep(k + 1)'
    <3>1. k + 1 \in 0 .. Len(registry) /\ k + 1 # 0
      BY <2>1
    <3>2. Continue(P, k + 1, job.latest, IF k + 1 = 0 THEN 0 ELSE Version(k + 1), job.target)
      BY <3>1, <2>2
    <3>3. TypeOK
      BY DEF SerialInv
    <3> DEFINE n == k + 1
    <3>4. n \in 0 .. Len(registry) /\ n \in 0 .. n
      BY <3>1
    <3>5. recorded' = Oldest(n)
      BY <2>3
    <3>6. Continue(P, n, job.latest, IF n = 0 THEN 0 ELSE Version(n), job.target)
      BY <3>2
    <3> HIDE DEF n, job
    <3>7. /\ proc' \in [Process -> {Idle} \cup Forward \cup Rollback]
          /\ InStep(n)'
      BY <2>4, <3>3, <3>4, <3>5, <3>6, ContinueInStep
    <3> QED
      BY <3>7 DEF n
  <2>6. schema' \subseteq Object
    BY <2>1, <2>2, <1>t DEF Object
  <2>7. RecordedPresent'
    <3>1. registry[k + 1].needs \subseteq schema'
      BY <2>1, <2>2, RegistryAssumption
    <3>2. \A i \in Index : Version(i) \in recorded' => Version(i) \in recorded \/ i = k + 1
      BY <2>1, <2>2, Ascending
    <3> QED
      BY <3>1, <3>2, <2>2 DEF SerialInv, RecordedPresent
  <2> QED
    BY <2>1, <2>2, <2>5, <2>6, <2>7, <1>t DEF SerialInv, TypeOK
<1>4. ASSUME proc[P].at = "forward", recorded' = recorded, ddlCommits' = ddlCommits,
             NEW left \in Leftovers(registry[proc[P].next].up), schema' = schema \cup left,
             \/ proc' = [proc EXCEPT ![P] = [proc[P] EXCEPT !.at = "cleanup"]]
             \/ proc' = [proc EXCEPT ![P] = Idle]
      PROVE  SerialInv'
  <2>1. proc[P] \in Forward /\ proc[P].next = k + 1 /\ k + 1 \in Index
    BY <1>4, <1>k, <1>t DEF InStep, Forward, Rollback, Idle
  <2>2. left \subseteq Whole(registry[k + 1].up)
    BY <2>1, <1>4 DEF Leftovers, Whole, Done
  <2>3. schema' \subseteq Object
    BY <2>1, <2>2, <1>4, <1>t DEF Object
  <2>4. \/ proc'[P] = Idle
        \/ proc'[P] \in Forward /\ proc'[P].at = "cleanup" /\ proc'[P].next = k + 1
    BY <2>1, <1>4, <1>t DEF Forward
  <2>5. proc' \in [Process -> {Idle} \cup Forward \cup Rollback]
    BY <2>1, <1>4, <1>t DEF Forward
  <2>6. InStep(k)'
    BY <2>4, <1>4, <1>k DEF InStep, Idle
  <2> QED
    BY <2>3, <2>5, <2>6, <1>4, <1>t DEF SerialInv, TypeOK, RecordedPresent
<1>5. CASE ApplyFails(P)
  BY <1>5, <1>4 DEF ApplyFails, Become
<1>6. CASE Cleanup(P)
  <2>1. proc[P] \in Forward /\ proc[P].next = k + 1 /\ k + 1 \in Index
    BY <1>6, <1>k, <1>t DEF Cleanup, InStep, Forward, Rollback, Idle
  <2>2. PICK n \in 0 .. Len(registry[k + 1].down) :
          schema' = schema \ Done(registry[k + 1].down, n)
    BY <2>1, <1>6 DEF Cleanup
  <2>3. Done(registry[k + 1].down, n) \subseteq Whole(registry[k + 1].down)
    <3>1. Len(registry[k + 1].down) \in Nat
      BY <2>1
    <3>2. 1 .. n \subseteq 1 .. Len(registry[k + 1].down)
      BY <3>1
    <3> QED
      BY <3>2 DEF Done, Whole
  <2>4. \A i \in Index : i <= k => registry[i].needs \cap Whole(registry[k + 1].down) = {}
    BY <2>1, RegistryAssumption
  <2>5. proc' = [proc EXCEPT ![P] = Idle] /\ recorded' = recorded /\ ddlCommits' = ddlCommits
    BY <1>6 DEF Cleanup, Become
  <2>6. RecordedPresent'
    BY <2>2, <2>3, <2>4, <2>5, <1>r DEF SerialInv, RecordedPresent
  <2>7. InStep(k)'
    BY <2>5, <1>k, <1>t DEF InStep, Idle
  <2> QED
    BY <2>2, <2>5, <2>6, <2>7, <1>t DEF SerialInv, TypeOK
<1>7. CASE proc[P].at = "rollback"
  <2> DEFINE todo == proc[P].todo
  <2>1. /\ proc[P] \in Rollback
        /\ todo # {}
        /\ todo \subseteq recorded
        /\ \A u \in todo, v \in recorded : u <= v => v \in todo
    BY <1>7, <1>k, <1>t DEF InStep, Forward, Rollback, Idle
  <2>2. k # 0 /\ k \in Index
    <3>1. recorded # {}
      BY <2>1
    <3> QED
      BY <3>1, <1>k DEF InStep, Oldest
  <2>3. \A v \in recorded : v <= Version(k)
    <3>1. ASSUME NEW i \in 1 .. k PROVE Version(i) <= Version(k)
      BY <2>2, Ascending
    <3> QED
      BY <3>1, <1>k DEF InStep, Oldest
  <2>4. Version(k) \in todo
    BY <2>1, <2>2, <2>3, <1>r
  <2>5. Max(todo) = Version(k)
    <3>1. todo \in SUBSET Int
      BY <2>1, <1>t
    <3>2. \A v \in todo : v <= Version(k)
      BY <2>1, <2>3
    <3> HIDE DEF todo
    <3> QED
      BY <3>1, <3>2, <2>4, MaxIs
  <2>6. MigrationOf(Version(k)) = registry[k]
    BY <2>2, Ascending DEF MigrationOf
  <2>7. \A i \in Index : i < k => registry[i].needs \cap Whole(registry[k].down) = {}
    BY <2>2, RegistryAssumption
  <2>8. CASE RollbackMigration(P)
    <3>1. /\ schema' = schema \ Whole(registry[k].down)
          /\ recorded' = recorded \ {Version(k)}
          /\ ddlCommits' = ddlCommits
          /\ proc' = [proc EXCEPT ![P] = IF todo = {Version(k)} THEN Idle
                                         ELSE [proc[P] EXCEPT !.todo = todo \ {Version(k)}]]
      BY <2>8, <2>5, <2>6 DEF RollbackMigration, Become
    <3>2. recorded' = Oldest(k - 1)
      BY <3>1, <1>k, <2>2, Ascending DEF InStep, Oldest
    <3>3. \/ proc'[P] = Idle
          \/ /\ proc'[P] \in Rollback
             /\ proc'[P].at = "rollback"
             /\ proc'[P].todo = todo \ {Version(k)}
      BY <3>1, <2>1, <2>4, <1>t DEF Rollback
    <3>4. proc' \in [Process -> {Idle} \cup Forward \cup Rollback]
      BY <3>1, <3>3, <1>t
    <3>5. InStep(k - 1)'
      BY <3>1, <3>2, <3>3, <2>1 DEF InStep, Idle
    <3>6. \A i \in Index : Version(i) \in recorded' => Version(i) \in recorded /\ i < k
      BY <3>1, <1>r, <2>2
    <3>7. RecordedPresent'
      BY <3>1, <3>6, <2>7 DEF SerialInv, RecordedPresent
    <3>8. k - 1 \in 0 .. Len(registry)
      BY <2>2
    <3> QED
      BY <3>1, <3>4, <3>5, <3>7, <3>8, <1>t DEF SerialInv, TypeOK
  <2>9. CASE RollbackFails(P) \/ Crash(P)
    <3>1. /\ proc' = [proc EXCEPT ![P] = Idle]
          /\ recorded' = recorded /\ ddlCommits' = ddlCommits
      BY <2>9 DEF RollbackFails, Crash, Become
    <3>2. PICK left \in Leftovers(registry[k].down) : schema' = schema \ left
      BY <2>9, <2>5, <2>6, <1>7 DEF RollbackFails, Crash
    <3>3. ~ ddlCommits => left = {}
      BY <3>2 DEF Leftovers, Done
    <3>4. RecordedPresent'
      BY <3>1, <3>2, <3>3 DEF SerialInv, RecordedPresent
    <3>5. InStep(k)'
      BY <3>1, <1>k, <1>t DEF InStep, Idle
    <3> QED
      BY <3>1, <3>2, <3>4, <3>5, <1>t DEF SerialInv, TypeOK
  <2>10. ~ Start(P) /\ ~ ApplyMigration(P) /\ ~ ApplyFails(P) /\ ~ Cleanup(P)
    <3>1. Start(P) => proc[P] = Idle
      BY DEF Start
    <3> QED
      BY <3>1, <1>7 DEF ApplyMigration, ApplyFails, Cleanup, Idle
  <2> QED
    BY <2>8, <2>9, <2>10, <1>1 DEF Next, Step
<1>8. CASE Crash(P)
  <2>1. CASE proc[P].at = "forward"
    BY <2>1, <1>8, <1>4 DEF Crash, Become
  <2>2. CASE proc[P].at = "cleanup"
    <3>1. /\ proc' = [proc EXCEPT ![P] = Idle]
          /\ UNCHANGED <<schema, recorded, ddlCommits>>
      BY <2>2, <1>8 DEF Crash, Become
    <3>2. InStep(k)'
      BY <3>1, <1>k, <1>t DEF InStep, Idle
    <3> QED
      BY <3>1, <3>2, <1>t DEF SerialInv, TypeOK, RecordedPresent
  <2> QED
    BY <2>1, <2>2, <1>7, <1>8 DEF Crash
<1>9. RollbackMigration(P) \/ RollbackFails(P) => proc[P].at = "rollback"
  BY DEF RollbackMigration, RollbackFails
<1> QED
  BY <1>1, <1>2, <1>3, <1>5, <1>6, <1>7, <1>8, <1>9 DEF Next, Step

(* One process at a time, whatever fails: the versions recorded are the    *)
(* oldest ones, what they brought is there, and a process that is in the   *)
(* middle of something knows where it is.                                  *)
THEOREM OneProcess ==
  ASSUME NEW P, Process = {P}
  PROVE  Spec => []SerialInv
<1>1. Init => SerialInv
  <2> USE RegistryTypes
  <2> SUFFICES ASSUME Init PROVE SerialInv
    OBVIOUS
  <2>1. TypeOK
    BY DEF Init, TypeOK
  <2>2. RecordedPresent
    BY DEF Init, RecordedPresent
  <2>3. InStep(0)
    BY DEF Init, InStep, Oldest, Idle
  <2> QED
    BY <2>1, <2>2, <2>3 DEF SerialInv
<1>2. SerialInv /\ [Next]_vars => SerialInv'
  BY OneProcessStep
<1> QED
  BY <1>1, <1>2, PTL DEF Spec

(* With one process at a time schema_migrations never has a gap (Apply).   *)
THEOREM NeverAGap ==
  ASSUME NEW P, Process = {P}
  PROVE  Spec => []NoGap
<1>1. SerialInv => NoGap
  <2> SUFFICES ASSUME SerialInv PROVE NoGap
    OBVIOUS
  <2>1. PICK k \in 0 .. Len(registry) : InStep(k)
    BY DEF SerialInv
  <2> QED
    BY <2>1, RegistryTypes, Ascending DEF NoGap, InStep, Oldest
<1>2. Spec => []SerialInv
  BY OneProcess
<1> QED
  BY <1>1, <1>2, PTL

(* ... and, on a database that undoes DDL, what is recorded is there       *)
(* (applyMigration, rollbackMigration).                                    *)
THEOREM RecordedIsThere ==
  ASSUME NEW P, Process = {P}
  PROVE  Spec => []RecordedPresent
<1>1. SerialInv => RecordedPresent
  BY DEF SerialInv
<1>2. Spec => []SerialInv
  BY OneProcess
<1> QED
  BY <1>1, <1>2, PTL

(* Without --rollback nothing is lost: what the recorded migrations brought *)
(* survives every failed migration and what is cleaned up behind it        *)
(* (applyMigration).                                                       *)
THEOREM ForwardIsSafe ==
  ASSUME NEW P, Process = {P}
  PROVE  Spec => ForwardKeeps
<1> DEFINE Kept ==
      \A p \in Process :
        proc[p].at \in {"forward", "cleanup"} /\ proc'[p] # proc[p] =>
          \A i \in Index :
            Version(i) \in recorded =>
              registry[i].needs \cap schema \subseteq schema'
<1>1. SerialInv /\ [Next]_vars => Kept
  <2> USE RegistryTypes
  <2> SUFFICES ASSUME SerialInv, [Next]_vars,
                      proc[P].at \in {"forward", "cleanup"}, proc'[P] # proc[P],
                      NEW i \in Index, Version(i) \in recorded
               PROVE  registry[i].needs \cap schema \subseteq schema'
    OBVIOUS
  <2>k. PICK k \in 0 .. Len(registry) : InStep(k)
    BY DEF SerialInv
  <2>1. proc[P].next = k + 1 /\ proc[P] \in Forward
    BY <2>k DEF InStep, SerialInv, TypeOK, Forward, Rollback, Idle
  <2>2. i <= k
    BY <2>k, Ascending DEF InStep, Oldest
  <2>3. Step(P)
    BY DEF Next, vars
  <2>4. CASE Cleanup(P)
    <3>1. k + 1 \in Index /\ Len(registry[k + 1].down) \in Nat
      BY <2>1 DEF Forward
    <3>2. PICK n \in 0 .. Len(registry[k + 1].down) :
            schema' = schema \ Done(registry[k + 1].down, n)
      BY <2>1, <2>4 DEF Cleanup
    <3>3. 1 .. n \subseteq 1 .. Len(registry[k + 1].down)
      BY <3>1
    <3>4. Done(registry[k + 1].down, n) \subseteq Whole(registry[k + 1].down)
      BY <3>3 DEF Done, Whole
    <3>5. registry[i].needs \cap Whole(registry[k + 1].down) = {}
      BY <2>2, <3>1, RegistryAssumption
    <3> QED
      BY <3>2, <3>4, <3>5
  <2>5. CASE ApplyMigration(P) \/ ApplyFails(P)
    BY <2>5 DEF ApplyMigration, ApplyFails
  <2>6. CASE Crash(P)
    BY <2>6 DEF Crash
  <2>7. ~ Start(P)
    <3>1. Start(P) => proc[P] = Idle
      BY DEF Start
    <3> QED
      BY <3>1 DEF Idle
  <2>8. ~ RollbackMigration(P) /\ ~ RollbackFails(P)
    BY DEF RollbackMigration, RollbackFails
  <2> QED
    BY <2>3, <2>4, <2>5, <2>6, <2>7, <2>8 DEF Step
<1>2. SerialInv /\ [Next]_vars => [Kept]_vars
  BY <1>1
<1>3. Spec => []SerialInv
  BY OneProcess
<1> QED
  BY <1>2, <1>3, PTL DEF Spec, ForwardKeeps

-----------------------------------------------------------------------------
(* However many processes migrate at once.                                 *)
LEMMA ContinueType ==
  ASSUME TypeOK, NEW p \in Process, NEW i \in Nat, NEW latest \in Index,
         NEW target \in Nat, NEW current, Continue(p, i, latest, current, target)
  PROVE  proc' \in [Process -> {Idle} \cup Forward \cup Rollback]
<1>1. CASE proc' = [proc EXCEPT ![p] = Idle]
  BY <1>1 DEF TypeOK
<1>2. ASSUME NEW j \in NextUp(i, latest, current, target),
             Become(p, [at |-> "forward", next |-> j, latest |-> latest, target |-> target])
      PROVE  proc' \in [Process -> {Idle} \cup Forward \cup Rollback]
  <2>1. j \in Index
    BY RegistryTypes DEF NextUp
  <2>2. [at |-> "forward", next |-> j, latest |-> latest, target |-> target] \in Forward
    BY <2>1 DEF Forward
  <2> QED  BY <1>2, <2>2 DEF TypeOK, Become
<1> QED  BY <1>1, <1>2 DEF Continue, Become

(* A version below the current one leaves something to roll back. *)
LEMMA SomethingAbove ==
  ASSUME TypeOK, NEW effective \in Nat, effective < CurrentVersion
  PROVE  {v \in recorded : v > effective} # {}
<1>1. recorded \subseteq {Version(i) : i \in Index} /\ recorded \subseteq Nat
  BY RegistryTypes DEF TypeOK
<1>2. CASE recorded = {}
  <2>1. {0} \in SUBSET Int /\ 0 \in {0} /\ \A x \in {0} : x <= 0
    OBVIOUS
  <2>2. Max({0}) = 0
    BY ONLY <2>1, MaxIs
  <2>3. recorded \cup {0} = {0}
    BY <1>2
  <2> QED  BY <2>2, <2>3 DEF CurrentVersion
<1>3. CASE recorded # {}
  <2>1. PICK m \in recorded : \A x \in recorded : x <= m
    BY <1>1, <1>3, NewestOfSome
  <2>2. /\ recorded \cup {0} \in SUBSET Int
        /\ m \in recorded \cup {0}
        /\ \A x \in recorded \cup {0} : x <= m
    BY <1>1, <2>1
  <2>3. CurrentVersion = m
    BY <2>2, MaxIs DEF CurrentVersion
  <2> QED  BY <2>3
<1> QED  BY <1>2, <1>3

LEMMA TypesStep == TypeOK /\ [Next]_vars => TypeOK'
<1> SUFFICES ASSUME TypeOK, [Next]_vars  PROVE TypeOK'
  OBVIOUS
<1> USE RegistryTypes
<1> DEFINE Job == {Idle} \cup Forward \cup Rollback
<1>t. /\ ddlCommits \in BOOLEAN /\ schema \subseteq Object
      /\ recorded \subseteq {Version(i) : i \in Index}
      /\ proc \in [Process -> Job]
  BY DEF TypeOK
<1>1. CASE UNCHANGED vars
  BY <1>1 DEF vars, TypeOK
<1>2. ASSUME NEW p \in Process, Start(p)  PROVE TypeOK'
  <2>1. PICK latest \in Latest, target \in Target, allowRollback \in BOOLEAN :
          LET known == {Version(i) : i \in 1 .. latest}
              effective == IF target = 0 THEN Max(known) ELSE target
          IN  /\ \/ /\ effective > CurrentVersion
                    /\ Continue(p, 0, latest, CurrentVersion, effective)
                 \/ /\ effective < CurrentVersion
                    /\ Become(p, [at |-> "rollback", todo |-> {v \in recorded : v > effective}])
              /\ UNCHANGED <<ddlCommits, schema, recorded>>
    BY <1>2 DEF Start
  <2> DEFINE known == {Version(i) : i \in 1 .. latest}
             effective == IF target = 0 THEN Max(known) ELSE target
             todo == {v \in recorded : v > effective}
  <2>2. latest \in Index /\ target \in Nat
    BY MigrationsAssumption
  <2>3. Max(known) = Version(latest)
    <3>1. known \in SUBSET Int /\ Version(latest) \in known
      BY <2>2
    <3>2. ASSUME NEW i \in 1 .. latest PROVE Version(i) <= Version(latest)
      BY <2>2, Ascending
    <3>3. \A x \in known : x <= Version(latest)
      BY <3>2
    <3> QED  BY <3>1, <3>3, MaxIs
  <2>4. effective \in Nat
    BY <2>2, <2>3
  <2>5. UNCHANGED <<ddlCommits, schema, recorded>>
    BY <2>1
  <2>6. CASE Continue(p, 0, latest, CurrentVersion, effective)
    <3> HIDE DEF effective
    <3>1. proc' \in [Process -> Job]
      BY <2>2, <2>4, <2>6, ContinueType
    <3> QED  BY <1>t, <2>5, <3>1 DEF TypeOK
  <2>7. CASE /\ effective < CurrentVersion
             /\ Become(p, [at |-> "rollback", todo |-> todo])
    <3>1. todo # {}
      <4> HIDE DEF effective
      <4> QED  BY <2>4, <2>7, SomethingAbove
    <3>2. [at |-> "rollback", todo |-> todo] \in Rollback
      BY <1>t, <3>1 DEF Rollback
    <3> HIDE DEF todo
    <3> QED  BY <1>t, <2>5, <2>7, <3>2 DEF TypeOK, Become
  <2> QED  BY <2>1, <2>6, <2>7
<1>3. ASSUME NEW p \in Process, proc[p].at \in {"forward", "cleanup"}
      PROVE  /\ proc[p] \in Forward
             /\ \A k \in 0 .. Len(registry[proc[p].next].up) :
                  Done(registry[proc[p].next].up, k) \subseteq Object
             /\ [proc[p] EXCEPT !.at = "cleanup"] \in Forward
  <2>1. proc[p] \in Forward
    BY <1>t, <1>3 DEF Idle, Rollback
  <2>2. proc[p].next \in Index
    BY <2>1 DEF Forward
  <2>3. [proc[p] EXCEPT !.at = "cleanup"] \in Forward
    BY <2>1 DEF Forward
  <2>4. ASSUME NEW k \in 0 .. Len(registry[proc[p].next].up)
        PROVE  Done(registry[proc[p].next].up, k) \subseteq Whole(registry[proc[p].next].up)
    <3>1. Len(registry[proc[p].next].up) \in Nat
      BY <2>2
    <3>2. 1 .. k \subseteq 1 .. Len(registry[proc[p].next].up)
      BY <3>1
    <3> QED  BY <3>2 DEF Done, Whole
  <2> QED  BY <2>1, <2>2, <2>3, <2>4 DEF Object
<1>4. ASSUME NEW p \in Process, ApplyMigration(p)  PROVE TypeOK'
  <2> DEFINE job == proc[p]
  <2>1. /\ job \in Forward /\ job.next \in Index
        /\ job.latest \in Index /\ job.target \in Nat
    BY <1>3, <1>4 DEF ApplyMigration, Forward
  <2>2. /\ schema' = schema \cup Whole(registry[job.next].up)
        /\ recorded' = recorded \cup {Version(job.next)}
        /\ Continue(p, job.next, job.latest, Version(job.next), job.target)
        /\ ddlCommits' = ddlCommits
    BY <1>4, <2>1 DEF ApplyMigration
  <2>3. Whole(registry[job.next].up) \subseteq Object
    BY <2>1 DEF Object
  <2>4. proc' \in [Process -> Job]
    <3>1. job.next \in Nat
      BY <2>1
    <3> HIDE DEF job
    <3> QED  BY <2>1, <2>2, <3>1, ContinueType
  <2> QED  BY <1>t, <2>1, <2>2, <2>3, <2>4 DEF TypeOK
<1>5. ASSUME NEW p \in Process,
             \/ ApplyFails(p)
             \/ Crash(p) /\ proc[p].at = "forward"
      PROVE  TypeOK'
  <2>1. /\ UNCHANGED <<ddlCommits, recorded>> /\ proc[p].at = "forward"
        /\ \E left \in Leftovers(registry[proc[p].next].up) : schema' = schema \cup left
        /\ Become(p, [proc[p] EXCEPT !.at = "cleanup"]) \/ Become(p, Idle)
    BY <1>5 DEF ApplyFails, Crash
  <2>2. proc[p] \in Forward /\ proc[p].next \in Index
    BY <2>1, <1>3 DEF Forward
  <2>3. Len(registry[proc[p].next].up) \in Nat
    BY <2>2
  <2>4. schema' \subseteq Object
    <3>1. PICK left \in Leftovers(registry[proc[p].next].up) : schema' = schema \cup left
      BY <2>1
    <3>2. PICK k \in 0 .. Len(registry[proc[p].next].up) :
            left = Done(registry[proc[p].next].up, k)
      BY <2>3, <3>1 DEF Leftovers
    <3> QED  BY <1>3, <1>t, <2>1, <3>1, <3>2
  <2>5. proc' \in [Process -> Job]
    BY <1>3, <1>t, <2>1 DEF Become
  <2> QED  BY <1>t, <2>1, <2>4, <2>5 DEF TypeOK
<1>6. ASSUME NEW p \in Process,
             \/ Cleanup(p)
             \/ RollbackFails(p)
             \/ Crash(p) /\ proc[p].at # "forward"
      PROVE  TypeOK'
  <2>1. /\ UNCHANGED <<ddlCommits, recorded>>
        /\ schema' \subseteq schema
        /\ Become(p, Idle)
    BY <1>6 DEF Cleanup, RollbackFails, Crash
  <2> QED  BY <1>t, <2>1 DEF TypeOK, Become
<1>7. ASSUME NEW p \in Process, RollbackMigration(p)  PROVE TypeOK'
  <2> DEFINE v == Max(proc[p].todo)
             left == [proc[p] EXCEPT !.todo = @ \ {v}]
  <2>1. proc[p] \in Rollback
    BY <1>7, <1>t DEF RollbackMigration, Idle, Forward
  <2>2. /\ schema' \subseteq schema /\ recorded' \subseteq recorded
        /\ ddlCommits' = ddlCommits
        /\ Become(p, IF proc[p].todo = {v} THEN Idle ELSE left)
    BY <1>7 DEF RollbackMigration
  <2>3. proc[p].todo # {v} => left \in Rollback
    <3> HIDE DEF v
    <3> QED  BY <2>1 DEF Rollback
  <2> HIDE DEF left, v
  <2> QED  BY <1>t, <2>2, <2>3 DEF TypeOK, Become
<1>8. ASSUME NEW p \in Process, Step(p)  PROVE TypeOK'
  <2>1. CASE Start(p) \/ ApplyMigration(p) \/ RollbackMigration(p)
    BY <1>2, <1>4, <1>7, <2>1
  <2>2. CASE ApplyFails(p) \/ Cleanup(p) \/ RollbackFails(p) \/ Crash(p)
    BY <1>5, <1>6, <2>2
  <2> QED  BY <1>8, <2>1, <2>2 DEF Step
<1> QED  BY <1>1, <1>8 DEF Next

(* Whatever processes overlap and wherever they die, every one of them is  *)
(* at a step of Apply that exists, a rollback under way has a version left *)
(* to go, and what is in the database comes from the registry.             *)
THEOREM TypeCorrect == Spec => []TypeOK
<1>1. Init => TypeOK
  BY DEF Init, TypeOK
<1> QED  BY <1>1, TypesStep, PTL DEF Spec
=============================================================================
