-------------------------------- MODULE Nodes --------------------------------
(***************************************************************************)
(* Synchronisation of a node with its kernel: fetch the configuration over *)
(* HTTP, then record it for the protocol it names, in a transaction that   *)
(* locks the node's row.  Nodes are seeded; the gRPC provider answers      *)
(* nothing yet.  A configuration is the time at which the kernel made it.  *)
(***************************************************************************)
EXTENDS Naturals

CONSTANTS
  Node, Protocol,
  Worker,    \* requests in progress
  MaxTime    \* bound: the clock stops

ASSUME MaxTimeAssumption == MaxTime \in Nat \ {0}

VARIABLES
  now,
  remote,   \* by node: what its kernel would answer
  nodes,    \* rows, by node
  kernels,  \* rows, by node and protocol
  task,     \* by worker: the sync it has in hand
  overlap   \* auxiliary: workers whose sync met another one of the node

vars == <<now, remote, nodes, kernels, task, overlap>>

Time == 0..MaxTime
NodeRow == [protocols : SUBSET Protocol, synced : Time, updated : Time,
            status : {"online", "maintenance"}]
NodeKernel == [config : Time, synced : Time, updated : Time]
NodeConfig == [protocol : Protocol, config : Time]

(* answer: what was fetched; synced: when it was there; updated: when the  *)
(* recording began; row: the node's row, read under its lock.              *)
Idle == [at |-> "idle"]
Fetched == [at : {"fetched"}, node : Node, answer : NodeConfig]
Retrieved == [at : {"retrieved"}, node : Node, answer : NodeConfig, synced : Time]
Recording == [at : {"recording"}, node : Node, answer : NodeConfig,
              synced : Time, updated : Time]
Locked == [at : {"locked"}, node : Node, answer : NodeConfig,
           synced : Time, updated : Time, row : NodeRow]

Tasks == {Idle} \cup Fetched \cup Retrieved \cup Recording \cup Locked

TypeOK ==
  /\ now \in Time
  /\ remote \in [Node -> NodeConfig]
  /\ nodes \in [Node -> NodeRow]
  /\ DOMAIN kernels = Node
  /\ \A n \in Node : /\ DOMAIN kernels[n] \subseteq Protocol
                     /\ kernels[n] \in [DOMAIN kernels[n] -> NodeKernel]
  /\ task \in [Worker -> Tasks]
  /\ overlap \subseteq Worker

(* The two kinds of nodes that are seeded: one with a kernel synced last   *)
(* and one before it, and one that was changed after its only kernel.      *)
Edge(p, q) ==
  [row |-> [protocols |-> {p, q}, synced |-> 1, updated |-> 1, status |-> "online"],
   kernels |-> [i \in {p, q} |->
                  [config |-> 0, synced |-> IF i = p THEN 1 ELSE 0, updated |-> 1]]]

Maintained(p) ==
  [row |-> [protocols |-> {p}, synced |-> 0, updated |-> 1, status |-> "maintenance"],
   kernels |-> [i \in {p} |-> [config |-> 0, synced |-> 0, updated |-> 1]]]

SeededNodes ==
  (UNION {{Edge(p, q) : q \in Protocol \ {p}} : p \in Protocol})
    \cup {Maintained(p) : p \in Protocol}

Init ==
  /\ now = 1
  /\ \E seed \in [Node -> SeededNodes] :
       /\ nodes = [n \in Node |-> seed[n].row]
       /\ kernels = [n \in Node |-> seed[n].kernels]
  /\ remote \in [Node -> [protocol : Protocol, config : {0}]]
  /\ task = [w \in Worker |-> Idle]
  /\ overlap = {}

-----------------------------------------------------------------------------
Syncs(w, n) == task[w] # Idle /\ task[w].node = n

(* A sync begins when its kernel answers.                                  *)
SyncBegins(w, n, answer) ==
  LET met == {v \in Worker : Syncs(v, n)}
  IN  /\ task[w] = Idle
      /\ task' = [task EXCEPT ![w] = [at |-> "fetched", node |-> n, answer |-> answer]]
      /\ overlap' = IF met = {} THEN overlap ELSE overlap \cup met \cup {w}
      /\ UNCHANGED <<now, remote, nodes, kernels>>

(* Mutation: the provider answers from a cache. *)
FetchCached(w, n) ==
  \E c \in 0..remote[n].config : SyncBegins(w, n, [remote[n] EXCEPT !.config = c])

(* The kernel answers ...                                                  *)
Fetch(w, n) == SyncBegins(w, n, remote[n])

(* ... the answer is there and is given the time ...                       *)
Retrieve(w) ==
  LET x == task[w]
  IN  /\ x.at = "fetched"
      /\ task' = [task EXCEPT ![w] = [at |-> "retrieved", node |-> x.node,
                                      answer |-> x.answer, synced |-> now]]
      /\ UNCHANGED <<now, remote, nodes, kernels, overlap>>

(* ... and so is its recording, before it waits for the node's row.        *)
RecordBegins(w) ==
  LET x == task[w]
  IN  /\ x.at = "retrieved"
      /\ task' = [task EXCEPT ![w] = [at |-> "recording", node |-> x.node,
                                      answer |-> x.answer, synced |-> x.synced,
                                      updated |-> now]]
      /\ UNCHANGED <<now, remote, nodes, kernels, overlap>>

LockedBy(x, row) ==
  [at |-> "locked", node |-> x.node, answer |-> x.answer,
   synced |-> x.synced, updated |-> x.updated, row |-> row]

(* Mutation: the row is read without FOR UPDATE. *)
LockNodeUnlocked(w) ==
  /\ task[w].at = "recording"
  /\ task' = [task EXCEPT ![w] = LockedBy(@, nodes[@.node])]
  /\ UNCHANGED <<now, remote, nodes, kernels, overlap>>

LockNode(w) ==
  /\ task[w].at = "recording"
  /\ \A v \in Worker : task[v].at = "locked" => task[v].node # task[w].node
  /\ task' = [task EXCEPT ![w] = LockedBy(@, nodes[@.node])]
  /\ UNCHANGED <<now, remote, nodes, kernels, overlap>>

Later(s, t) == IF s > t THEN s ELSE t

(* Mutation: the last writer's time is kept. *)
NodeSyncedLast(x) ==
  [protocols |-> x.row.protocols \cup {x.answer.protocol},
   synced |-> x.synced, updated |-> now, status |-> "online"]

(* The node's row: it has the protocol and keeps the later time; GORM's    *)
(* Save sets updated to its own clock, whatever the row has there.         *)
NodeSynced(x) ==
  [protocols |-> x.row.protocols \cup {x.answer.protocol},
   synced |-> Later(x.synced, x.row.synced), updated |-> now, status |-> "online"]

(* The kernel's row is created or overwritten, and the node's row saved.   *)
RecordKernelSync(w) ==
  LET x == task[w]
      p == x.answer.protocol
  IN  /\ x.at = "locked"
      /\ kernels' = [kernels EXCEPT ![x.node] = [i \in DOMAIN @ \cup {p} |->
           IF i = p THEN [config |-> x.answer.config, synced |-> x.synced,
                          updated |-> IF p \in DOMAIN @ THEN now ELSE x.updated]
           ELSE @[i]]]
      /\ nodes' = [nodes EXCEPT ![x.node] = NodeSynced(x)]
      /\ task' = [task EXCEPT ![w] = Idle]
      /\ overlap' = overlap \ {w}
      /\ UNCHANGED <<now, remote>>

(* A refused statement, a lost connection, a cancelled request, a crash.   *)
Fails(w) ==
  /\ task[w] # Idle
  /\ task' = [task EXCEPT ![w] = Idle]
  /\ overlap' = overlap \ {w}
  /\ UNCHANGED <<now, remote, nodes, kernels>>

Sync(w) ==
  \/ \E n \in Node : Fetch(w, n)
  \/ Retrieve(w) \/ RecordBegins(w) \/ LockNode(w) \/ RecordKernelSync(w) \/ Fails(w)

KernelChanges(n) ==
  /\ \E p \in Protocol : remote' = [remote EXCEPT ![n] = [protocol |-> p, config |-> now]]
  /\ UNCHANGED <<now, nodes, kernels, task, overlap>>

Tick ==
  /\ now < MaxTime
  /\ now' = now + 1
  /\ UNCHANGED <<remote, nodes, kernels, task, overlap>>

Next == Tick \/ (\E n \in Node : KernelChanges(n)) \/ (\E w \in Worker : Sync(w))

Spec == Init /\ [][Next]_vars

-----------------------------------------------------------------------------
(* What a node's row says of its kernels is true: it names exactly their   *)
(* protocols, and was synchronised and changed no earlier than any.        *)
NodeCoversKernels ==
  \A n \in Node :
    /\ nodes[n].protocols = DOMAIN kernels[n]
    /\ \A p \in DOMAIN kernels[n] : /\ kernels[n][p].synced <= nodes[n].synced
                                    /\ kernels[n][p].updated <= nodes[n].updated

(* The times of a node never go back, and no protocol or kernel is lost,   *)
(* whatever overlaps.                                                      *)
NodesForward ==
  [][\A n \in Node : /\ nodes[n].synced <= nodes'[n].synced
                     /\ nodes[n].updated <= nodes'[n].updated
                     /\ DOMAIN kernels[n] \subseteq DOMAIN kernels'[n]]_vars

(* A configuration is replaced by an older one, or by one retrieved        *)
(* earlier, only if two syncs of the node overlapped.                      *)
KernelsForward ==
  [][\A w \in Worker \ overlap : RecordKernelSync(w) =>
       \A n \in Node : \A p \in DOMAIN kernels[n] :
         /\ kernels[n][p].config <= kernels'[n][p].config
         /\ kernels[n][p].synced <= kernels'[n][p].synced]_vars

-----------------------------------------------------------------------------
(* What makes these true: the inductive invariant.                         *)

LocksExclusive ==
  \A v, w \in Worker :
    v # w /\ task[v].at = "locked" /\ task[w].at = "locked" => task[v].node # task[w].node

ReadsStand == \A w \in Worker : task[w].at = "locked" => task[w].row = nodes[task[w].node]

(* Nothing is ahead of the clock, or of what the kernel would answer.      *)
NothingAhead ==
  /\ \A n \in Node : remote[n].config <= now /\ nodes[n].updated <= now
  /\ \A n \in Node : \A p \in DOMAIN kernels[n] :
       kernels[n][p].config <= remote[n].config /\ kernels[n][p].synced <= now
  /\ \A w \in Worker : task[w] # Idle =>
       /\ task[w].answer.config <= remote[task[w].node].config
       /\ task[w].at # "fetched" => task[w].synced <= now
       /\ task[w].at \in {"recording", "locked"} => task[w].updated <= now

(* A sync that met no other knows the newest configuration stored.         *)
AloneIsNewest ==
  \A w \in Worker \ overlap : task[w] # Idle =>
    /\ \A v \in Worker \ {w} : ~ Syncs(v, task[w].node)
    /\ \A p \in DOMAIN kernels[task[w].node] :
         LET k == kernels[task[w].node][p]
         IN  /\ k.config <= task[w].answer.config
             /\ task[w].at # "fetched" => k.synced <= task[w].synced

NodesIInv ==
  /\ TypeOK /\ NodeCoversKernels
  /\ LocksExclusive /\ ReadsStand /\ NothingAhead /\ AloneIsNewest
=============================================================================
