------------------------------ MODULE Settings ------------------------------
(***************************************************************************)
(* The security settings: one row of the database that the first who reads *)
(* it creates, administrators who read it, lay the fields of their request *)
(* over it and write all of it back, and the third-party middleware of one *)
(* panel process, which judges requests by a copy it keeps for a while     *)
(* under a mutex.                                                          *)
(*                                                                         *)
(* Readers see the first row only.  Its revisions are a history: `writes`  *)
(* has the time of every write of it, and revision n is what it holds      *)
(* after the nth.  MaxTime and MaxWrites bound the clock and the writes.   *)
(***************************************************************************)
EXTENDS Naturals, Sequences

CONSTANTS
  Admin,          \* requests of administrators
  Request,        \* requests that pass the middleware
  Nobody, Absent, \* no holder of the mutex, no row
  Keep,           \* a field that a request leaves out
  Field, Value, Default,   \* the columns, and a new row
  Ask,            \* what administrators ask for: fields to values or Keep, once
                  \* an empty algorithm is left out and a negative TTL is zero
  CacheDuration,
  MaxFetch,       \* how long the mutex is held for a read at most
  MaxTime, MaxWrites

Setting == [Field -> Value]

ASSUME SettingsAssumption ==
  /\ Admin \cap Request = {} /\ Nobody \notin Request
  /\ Keep \notin Value /\ Absent \notin Setting
  /\ Default \in Setting /\ Ask \subseteq [Field -> Value \cup {Keep}]
  /\ CacheDuration \in Nat /\ MaxFetch \in Nat /\ MaxTime \in Nat /\ MaxWrites \in Nat

Worker == Admin \cup Request

VARIABLES
  row,        \* the first row of the table, or Absent
  orphans,    \* how many rows there are behind it
  seeded,     \* did it have its row from the start?
  writes, now,
  mu,         \* the request that has the middleware's mutex
  lockedAt,   \* since when
  cached,     \* the copy, by its revision
  cachedAt,
  pc,
  hand        \* the row a worker has read: is it the first, its content and revision

mutex == <<mu, lockedAt>>
copy == <<cached, cachedAt>>
vars == <<row, orphans, seeded, writes, now, mutex, copy, pc, hand>>

Blank == [first |-> TRUE, content |-> Default, rev |-> 0]

\* cachedAt is zero until the first copy, so the clock starts at one.
Init ==
  /\ seeded \in BOOLEAN /\ row = (IF seeded THEN Default ELSE Absent) /\ orphans = 0
  /\ writes = <<>> /\ now = 1
  /\ mu = Nobody /\ lockedAt = 0 /\ cached = 0 /\ cachedAt = 0
  /\ pc = [w \in Worker |-> "idle"]
  /\ hand = [w \in Worker |-> Blank]

Goes(w, p) == pc' = [pc EXCEPT ![w] = p]
Has(w, x) == hand' = [hand EXCEPT ![w] = x]
Ends(w) == Goes(w, "idle") /\ Has(w, Blank)
Unlock == mu' = Nobody /\ lockedAt' = 0

-----------------------------------------------------------------------------
(* GetThirdPartyAPIConfig: a SELECT, and an INSERT if it found nothing. *)

\* Mutant: every error of the SELECT counts as a missing row.
FirstOrError(w) ==
  /\ pc[w] = "get"
  /\ \/ Goes(w, "create") /\ Has(w, Blank)
     \/ /\ row # Absent /\ Goes(w, "got")
        /\ Has(w, [first |-> TRUE, content |-> row, rev |-> Len(writes)])
  /\ UNCHANGED <<row, orphans, seeded, writes, now, mutex, copy>>

First(w) ==
  /\ pc[w] = "get"
  /\ IF row = Absent
       THEN Goes(w, "create") /\ Has(w, Blank)
       ELSE Goes(w, "got") /\ Has(w, [first |-> TRUE, content |-> row, rev |-> Len(writes)])
  /\ UNCHANGED <<row, orphans, seeded, writes, now, mutex, copy>>

Create(w) ==
  /\ pc[w] = "create"
  /\ IF row = Absent THEN row' = Default /\ UNCHANGED orphans
                     ELSE orphans' = orphans + 1 /\ UNCHANGED row
  /\ Has(w, [Blank EXCEPT !.first = (row = Absent)])
  /\ Goes(w, "got")
  /\ UNCHANGED <<seeded, writes, now, mutex, copy>>

-----------------------------------------------------------------------------
(* Administrators. *)

Arrives(a) ==
  /\ pc[a] = "idle" /\ Goes(a, "get")
  /\ UNCHANGED <<row, orphans, seeded, writes, now, mutex, copy, hand>>

\* Mutant: a field that is left out takes its default.
OverlayDefault(setting, q) == [f \in Field |-> IF q[f] = Keep THEN Default[f] ELSE q[f]]

Overlay(setting, q) == [f \in Field |-> IF q[f] = Keep THEN setting[f] ELSE q[f]]

\* UpsertThirdPartyAPIConfig writes all the columns of the row that was read;
\* its answer reads the first row again.
Upsert(a, q) ==
  /\ pc[a] = "got" /\ Len(writes) < MaxWrites
  /\ IF hand[a].first
       THEN row' = Overlay(hand[a].content, q) /\ writes' = Append(writes, now)
       ELSE UNCHANGED <<row, writes>>
  /\ Ends(a)
  /\ UNCHANGED <<orphans, seeded, now, mutex, copy>>

\* GetLogic only reads; an update may fail at each of its statements.
Leaves(a) ==
  /\ pc[a] \in {"get", "create", "got"} /\ Ends(a)
  /\ UNCHANGED <<row, orphans, seeded, writes, now, mutex, copy>>

-----------------------------------------------------------------------------
(* The middleware. *)

Fresh == cachedAt # 0 /\ now - cachedAt < CacheDuration

\* The copy and its time are read under RLock, which waits for a writer; a
\* request that finds the copy fresh is judged by it at once.
Load(r) ==
  /\ pc[r] = "idle" /\ mu = Nobody /\ ~Fresh
  /\ Goes(r, "lock")
  /\ UNCHANGED <<row, orphans, seeded, writes, now, mutex, copy, hand>>

\* Mutant: the mutex is given back before the database is asked.
LockBriefly(r) ==
  /\ pc[r] = "lock" /\ mu = Nobody
  /\ IF Fresh THEN Ends(r) ELSE Goes(r, "get") /\ UNCHANGED hand
  /\ UNCHANGED <<row, orphans, seeded, writes, now, mutex, copy>>

\* Mutant: a copy that is used lives on.
LockProlongs(r) ==
  /\ pc[r] = "lock" /\ mu = Nobody
  /\ IF Fresh THEN Ends(r) /\ cachedAt' = now /\ UNCHANGED mutex
              ELSE /\ Goes(r, "get") /\ mu' = r /\ lockedAt' = now
                   /\ UNCHANGED <<hand, cachedAt>>
  /\ UNCHANGED <<row, orphans, seeded, writes, now, cached>>

\* Who waited for the mutex looks again: another may have loaded.
Lock(r) ==
  /\ pc[r] = "lock" /\ mu = Nobody
  /\ IF Fresh THEN Ends(r) /\ UNCHANGED mutex
              ELSE Goes(r, "get") /\ mu' = r /\ lockedAt' = now /\ UNCHANGED hand
  /\ UNCHANGED <<row, orphans, seeded, writes, now, copy>>

Store(r) ==
  /\ pc[r] = "got"
  /\ cached' = hand[r].rev /\ cachedAt' = now
  /\ Unlock /\ Ends(r)
  /\ UNCHANGED <<row, orphans, seeded, writes, now>>

\* Mutant: an error returns without Unlock.
FailsLocked(r) ==
  /\ pc[r] \in {"get", "create"} /\ Ends(r)
  /\ UNCHANGED <<row, orphans, seeded, writes, now, mutex, copy>>

\* A statement of the database fails; the deferred Unlock gives the mutex back.
Fails(r) ==
  /\ pc[r] \in {"get", "create"} /\ Ends(r) /\ Unlock
  /\ UNCHANGED <<row, orphans, seeded, writes, now, copy>>

-----------------------------------------------------------------------------
(* A new process has no copy; the requests of the old one are gone. *)
Restart ==
  /\ cachedAt # 0
  /\ pc' = [w \in Worker |-> "idle"] /\ Unlock
  /\ cached' = 0 /\ cachedAt' = 0
  /\ hand' = [w \in Worker |-> Blank]
  /\ UNCHANGED <<row, orphans, seeded, writes, now>>

Tick ==
  /\ now < MaxTime
  /\ mu # Nobody => now < lockedAt + MaxFetch
  /\ now' = now + 1
  /\ UNCHANGED <<row, orphans, seeded, writes, mutex, copy, pc, hand>>

Serves(r) == First(r) \/ Create(r) \/ Fails(r) \/ Store(r)

Next ==
  \/ \E a \in Admin : Arrives(a) \/ First(a) \/ Create(a) \/ Leaves(a) \/ \E q \in Ask : Upsert(a, q)
  \/ \E r \in Request : Load(r) \/ Lock(r) \/ Serves(r)
  \/ Restart \/ Tick

\* The database answers, and a mutex that is free again and again is granted.
Fairness == \A r \in Request : WF_vars(Serves(r)) /\ SF_vars(Lock(r))

Spec == Init /\ [][Next]_vars /\ Fairness

-----------------------------------------------------------------------------
(* Properties. *)

\* A table that has its row before the service starts never gets a second
\* one, which nobody would ever read: GetThirdPartyAPIConfig creates a row
\* only where none is found, and an update writes the row it read.
OneRow == seeded => orphans = 0

\* No request is judged by settings that were replaced longer ago than a
\* copy may live and a read may take: a hit does not prolong the copy, and
\* its time is not that of a read by another.
StaleBound ==
  Fresh /\ cached < Len(writes) =>
    now - writes[cached + 1] < CacheDuration + MaxFetch

\* A process does not go back to older settings: of two requests that find
\* the copy too old only one reads, and none stores what was read before the
\* copy it replaces.
CacheForward == [][cachedAt # 0 /\ cachedAt' # 0 => cached' >= cached]_vars

\* The row changes as request q asks, and in nothing it leaves out.
AsAsked(q) == \A f \in Field : IF q[f] = Keep THEN row'[f] = row[f] ELSE row'[f] = q[f]

\* The settings in force change as one administrator asked, and in nothing he
\* left out, unless he had read them before the last change: an overlap is
\* the only thing that undoes an update.
ChangesAsked ==
  [][row # Absent /\ row' # row =>
       \E a \in Admin :
         /\ pc[a] = "got" /\ pc'[a] = "idle"
         /\ \/ hand[a].rev < Len(writes)
            \/ \E q \in Ask : AsAsked(q)]_vars

\* Every request gets past the middleware, through errors and restarts.
Answered == \A r \in Request : pc[r] # "idle" ~> pc[r] = "idle"
=============================================================================
