------------------------------ MODULE Migrations ------------------------------
(***************************************************************************)
(* Apply of internal/bootstrap/migrations/registry.go, run by the migrate  *)
(* command and by every server that starts with --auto-migrate.  It reads  *)
(* schema_migrations once and then runs one transaction per migration,     *)
(* without any lock against another process doing the same.                *)
(***************************************************************************)
EXTENDS Integers, Sequences, FiniteSetsExt

CONSTANTS
  Process,    \* processes that migrate the database at the same time
  registry,   \* the migrations, see SchemaRegistry
  Latest,     \* how many of them the releases in use know
  Target      \* the versions that --to and --migrate-to name, 0 for the latest

Index == 1 .. Len(registry)

ASSUME MigrationsAssumption ==
  /\ registry \in Seq([version : Nat \ {0}, needs : SUBSET STRING,
                       up : Seq(SUBSET STRING), down : Seq(SUBSET STRING)])
  /\ Latest \subseteq Index
  /\ Target \subseteq Nat

Version(i) == registry[i].version

(* What the first k of some statements make or drop. *)
Done(statements, k) == UNION {statements[i] : i \in 1 .. k}
Whole(statements) == Done(statements, Len(statements))

Object == UNION {Whole(registry[i].up) : i \in Index}

(* init sorts the registry by version, which no two share; what a Down     *)
(* drops is nothing that an older migration was written to bring.          *)
ASSUME RegistryAssumption ==
  /\ \A i, j \in Index : i < j =>
       /\ Version(i) < Version(j)
       /\ registry[i].needs \cap Whole(registry[j].down) = {}
  /\ \A i \in Index :
       registry[i].needs \subseteq Whole(registry[i].up)

VARIABLES
  ddlCommits, \* the database commits at every DDL statement (MySQL)
  schema,     \* the tables, columns and indexes there are
  recorded,   \* the versions in schema_migrations
  proc        \* what each process is in the middle of

vars == <<ddlCommits, schema, recorded, proc>>

Idle == [at |-> "idle"]
Forward == [at : {"forward", "cleanup"}, next : Index, latest : Index, target : Nat]
Rollback == [at : {"rollback"}, todo : (SUBSET {Version(i) : i \in Index}) \ {{}}]

TypeOK ==
  /\ ddlCommits \in BOOLEAN
  /\ schema \subseteq Object
  /\ recorded \subseteq {Version(i) : i \in Index}
  /\ proc \in [Process -> {Idle} \cup Forward \cup Rollback]

Init ==
  /\ ddlCommits \in BOOLEAN
  /\ schema = {}
  /\ recorded = {}
  /\ proc = [p \in Process |-> Idle]

-----------------------------------------------------------------------------
(* What may be left of statements in a transaction that was rolled back. *)
Leftovers(statements) ==
  {Done(statements, k) : k \in IF ddlCommits THEN 0 .. Len(statements) ELSE {0}}

CurrentVersion == Max(recorded \cup {0})

MigrationOf(v) == registry[CHOOSE i \in Index : Version(i) = v]

(* Mutation: the loop runs over the unordered map of the registry. *)
NextUpUnordered(i, latest, current, target) ==
  {j \in 1 .. latest : current < Version(j) /\ Version(j) <= target}

(* Mutation: the current version is applied once more. *)
NextUpAgain(i, latest, current, target) ==
  {j \in i + 1 .. latest :
     /\ current <= Version(j) /\ Version(j) <= target
     /\ \A k \in i + 1 .. j - 1 : Version(k) < current}

(* The loop over the registry, from behind position i: skips what is not   *)
(* above the current version, stops at the first one beyond the target.    *)
NextUp(i, latest, current, target) ==
  {j \in i + 1 .. latest :
     /\ current < Version(j) /\ Version(j) <= target
     /\ \A k \in i + 1 .. j - 1 : Version(k) <= current}

Become(p, job) == proc' = [proc EXCEPT ![p] = job]

(* Process p goes on after position i, with current as its version. *)
Continue(p, i, latest, current, target) ==
  \/ \E j \in NextUp(i, latest, current, target) :
       Become(p, [at |-> "forward", next |-> j, latest |-> latest, target |-> target])
  \/ /\ NextUp(i, latest, current, target) = {}
     /\ Become(p, Idle)

-----------------------------------------------------------------------------
(* A process of a release that knows the first migrations only reads what  *)
(* is recorded, refuses what it does not know or may not do, and otherwise *)
(* plans its loop.                                                         *)
Start(p) ==
  \E latest \in Latest, target \in Target, allowRollback \in BOOLEAN :
    LET known == {Version(i) : i \in 1 .. latest}
        effective == IF target = 0 THEN Max(known) ELSE target
    IN  /\ proc[p] = Idle
        /\ recorded \subseteq known
        /\ effective <= Max(known)
        /\ \/ /\ effective > CurrentVersion
              /\ Continue(p, 0, latest, CurrentVersion, effective)
           \/ /\ effective < CurrentVersion
              /\ allowRollback
              /\ Become(p, [at |-> "rollback", todo |-> {v \in recorded : v > effective}])
        /\ UNCHANGED <<ddlCommits, schema, recorded>>

(* applyMigration, when its transaction commits. *)
ApplyMigration(p) ==
  LET job == proc[p]
      migration == registry[job.next]
  IN  /\ job.at = "forward"
      /\ migration.version \notin recorded
      /\ schema' = schema \cup Whole(migration.up)
      /\ recorded' = recorded \cup {migration.version}
      /\ Continue(p, job.next, job.latest, migration.version, job.target)
      /\ UNCHANGED ddlCommits

(* Mutation: the version is recorded before its transaction. *)
ApplyFailsRecorded(p) ==
  /\ proc[p].at = "forward"
  /\ \E left \in Leftovers(registry[proc[p].next].up) : schema' = schema \cup left
  /\ recorded' = recorded \cup {Version(proc[p].next)}
  /\ Become(p, [proc[p] EXCEPT !.at = "cleanup"])
  /\ UNCHANGED ddlCommits

(* It fails, always if another process has recorded the version: what the  *)
(* database rolls back is gone, and Down is to clean up the rest.          *)
ApplyFails(p) ==
  /\ proc[p].at = "forward"
  /\ \E left \in Leftovers(registry[proc[p].next].up) : schema' = schema \cup left
  /\ Become(p, [proc[p] EXCEPT !.at = "cleanup"])
  /\ UNCHANGED <<ddlCommits, recorded>>

(* Down, on the connection itself: every statement counts, and it may fail *)
(* after any of them.  Apply returns the error.                            *)
Cleanup(p) ==
  LET down == registry[proc[p].next].down
  IN  /\ proc[p].at = "cleanup"
      /\ \E k \in 0 .. Len(down) : schema' = schema \ Done(down, k)
      /\ Become(p, Idle)
      /\ UNCHANGED <<ddlCommits, recorded>>

(* rollbackMigration of the newest version still to go, when its           *)
(* transaction commits.                                                    *)
RollbackMigration(p) ==
  LET todo == proc[p].todo
      v == Max(todo)
  IN  /\ proc[p].at = "rollback"
      /\ v \in recorded
      /\ schema' = schema \ Whole(MigrationOf(v).down)
      /\ recorded' = recorded \ {v}
      /\ Become(p, IF todo = {v} THEN Idle ELSE [proc[p] EXCEPT !.todo = @ \ {v}])
      /\ UNCHANGED ddlCommits

RollbackFails(p) ==
  /\ proc[p].at = "rollback"
  /\ \E left \in Leftovers(MigrationOf(Max(proc[p].todo)).down) : schema' = schema \ left
  /\ Become(p, Idle)
  /\ UNCHANGED <<ddlCommits, recorded>>

(* The process dies, in or between its transactions. *)
Crash(p) ==
  /\ \/ /\ proc[p].at = "forward"
        /\ \E left \in Leftovers(registry[proc[p].next].up) : schema' = schema \cup left
     \/ /\ proc[p].at = "rollback"
        /\ \E left \in Leftovers(MigrationOf(Max(proc[p].todo)).down) : schema' = schema \ left
     \/ /\ proc[p].at = "cleanup"
        /\ UNCHANGED schema
  /\ Become(p, Idle)
  /\ UNCHANGED <<ddlCommits, recorded>>

Step(p) ==
  \/ Start(p) \/ ApplyMigration(p) \/ ApplyFails(p) \/ Cleanup(p)
  \/ RollbackMigration(p) \/ RollbackFails(p) \/ Crash(p)

Next == \E p \in Process : Step(p)

Spec == Init /\ [][Next]_vars

-----------------------------------------------------------------------------
(* The recorded versions are the oldest ones, without a gap: whatever      *)
(* releases, targets, rollbacks and failures came, the newest recorded     *)
(* version alone says where the next Apply has to go on.                   *)
NoGap ==
  \A i, j \in Index : i < j /\ Version(j) \in recorded => Version(i) \in recorded

(* What a recorded migration was written to bring is there, although every *)
(* other one adds, drops and cleans up columns of the same table: a server *)
(* that finds its version recorded finds its schema.  Only a database that *)
(* undoes DDL can promise this, MySQL cannot (rollbackMigration counts on  *)
(* the transaction, applyMigration on Down).                               *)
RecordedPresent ==
  ~ ddlCommits => \A i \in Index : Version(i) \in recorded => registry[i].needs \subseteq schema

(* On any database: without --rollback nothing is lost.  A process that    *)
(* applies migrations, and cleans up behind one that failed, leaves what   *)
(* the recorded migrations brought.                                        *)
ForwardKeeps ==
  [][ \A p \in Process :
        proc[p].at \in {"forward", "cleanup"} /\ proc'[p] # proc[p] =>
          \A i \in Index :
            Version(i) \in recorded =>
              registry[i].needs \cap schema \subseteq schema' ]_vars

-----------------------------------------------------------------------------
(* The inductive invariant of one process at a time.                       *)
Oldest(k) == {Version(i) : i \in 1 .. k}

(* What is recorded are the k oldest versions; a process that applies goes *)
(* on with the next one, a process that rolls back has still to go through *)
(* the newest ones.                                                        *)
InStep(k) ==
  /\ recorded = Oldest(k)
  /\ \A p \in Process :
       /\ proc[p].at \in {"forward", "cleanup"} => proc[p].next = k + 1
       /\ proc[p].at = "rollback" =>
            /\ proc[p].todo \subseteq recorded
            /\ \A u \in proc[p].todo, v \in recorded : u <= v => v \in proc[p].todo

SerialInv ==
  /\ TypeOK
  /\ RecordedPresent
  /\ \E k \in 0 .. Len(registry) : InStep(k)
=============================================================================
