----------------------------- MODULE NodesProofs -----------------------------
(***************************************************************************)
(* Theorems about the synchronisation of nodes, for any number of nodes,   *)
(* protocols and requests that overlap, and however long the clock runs.   *)
(***************************************************************************)
EXTENDS Nodes, TLAPS

(* What a worker carries, by how far it has come. *)
LEMMA Fields ==
  ASSUME TypeOK, NEW w \in Worker, task[w] # Idle
  PROVE  /\ task[w].at \in {"fetched", "retrieved", "recording", "locked"}
         /\ task[w].node \in Node /\ task[w].answer \in NodeConfig
         /\ task[w].at # "fetched" => task[w].synced \in Time
         /\ task[w].at \in {"recording", "locked"} => task[w].updated \in Time
         /\ task[w].at = "locked" => task[w].row \in NodeRow
<1>1. task[w] \in Fetched \cup Retrieved \cup Recording \cup Locked
  BY DEF TypeOK, Tasks
<1> QED  BY <1>1 DEF Fetched, Retrieved, Recording, Locked

LEMMA InFlight ==
  ASSUME NEW x, x.at \in {"fetched", "retrieved", "recording", "locked"}
  PROVE  x # Idle
BY DEF Idle

LEMMA LaterTime ==
  ASSUME NEW s \in Time, NEW t \in Time
  PROVE  Later(s, t) \in Time /\ s <= Later(s, t) /\ t <= Later(s, t)
BY MaxTimeAssumption DEF Later, Time

(* A step between the answer and the recording changes only how far the    *)
(* worker has come.                                                        *)
OnwardTo(w, y) ==
  /\ y \in Retrieved \cup Recording \cup Locked
  /\ task' = [task EXCEPT ![w] = y]
  /\ task[w] # Idle
  /\ y.node = task[w].node /\ y.answer = task[w].answer
  /\ y.synced = IF task[w].at = "fetched" THEN now ELSE task[w].synced
  /\ y.at \in {"recording", "locked"} =>
       /\ task[w].at # "fetched"
       /\ y.updated = IF task[w].at = "retrieved" THEN now ELSE task[w].updated
  /\ y.at = "locked" =>
       /\ y.row = nodes[task[w].node]
       /\ \A v \in Worker : task[v].at = "locked" => task[v].node # task[w].node
  /\ UNCHANGED <<now, remote, nodes, kernels, overlap>>

LEMMA OnwardSteps ==
  ASSUME NodesIInv, NEW w \in Worker, Retrieve(w) \/ RecordBegins(w) \/ LockNode(w)
  PROVE  \E y : OnwardTo(w, y)
<1> USE DEF NodesIInv
<1>0. now \in Time
  BY DEF TypeOK
<1>1. CASE Retrieve(w)
  <2> DEFINE y == [at |-> "retrieved", node |-> task[w].node,
                   answer |-> task[w].answer, synced |-> now]
  <2>1. task[w].at = "fetched" /\ task[w] # Idle
    BY <1>1, InFlight DEF Retrieve
  <2>2. y \in Retrieved
    BY <1>0, <2>1, Fields DEF Retrieved
  <2>3. /\ task' = [task EXCEPT ![w] = y] /\ UNCHANGED <<now, remote, nodes, kernels, overlap>>
    BY <1>1 DEF Retrieve
  <2>4. /\ y.node = task[w].node /\ y.answer = task[w].answer /\ y.at = "retrieved"
        /\ y.synced = now
    OBVIOUS
  <2> HIDE DEF y
  <2>5. OnwardTo(w, y)
    BY <2>1, <2>2, <2>3, <2>4 DEF OnwardTo
  <2> QED  BY <2>5
<1>2. CASE RecordBegins(w)
  <2> DEFINE y == [at |-> "recording", node |-> task[w].node, answer |-> task[w].answer,
                   synced |-> task[w].synced, updated |-> now]
  <2>1. task[w].at = "retrieved" /\ task[w] # Idle
    BY <1>2, InFlight DEF RecordBegins
  <2>2. y \in Recording
    BY <1>0, <2>1, Fields DEF Recording
  <2>3. /\ task' = [task EXCEPT ![w] = y] /\ UNCHANGED <<now, remote, nodes, kernels, overlap>>
    BY <1>2 DEF RecordBegins
  <2>4. /\ y.node = task[w].node /\ y.answer = task[w].answer /\ y.at = "recording"
        /\ y.synced = task[w].synced /\ y.updated = now
    OBVIOUS
  <2> HIDE DEF y
  <2>5. OnwardTo(w, y)
    BY <2>1, <2>2, <2>3, <2>4 DEF OnwardTo
  <2> QED  BY <2>5
<1>3. CASE LockNode(w)
  <2> DEFINE y == LockedBy(task[w], nodes[task[w].node])
  <2>1. task[w].at = "recording" /\ task[w] # Idle
    BY <1>3, InFlight DEF LockNode
  <2>2. nodes[task[w].node] \in NodeRow
    BY <2>1, Fields DEF TypeOK
  <2>3. y \in Locked
    BY <2>1, <2>2, Fields DEF Locked, LockedBy
  <2>4. task' = [task EXCEPT ![w] = y] /\ UNCHANGED <<now, remote, nodes, kernels, overlap>>
    BY <1>3 DEF LockNode, TypeOK
  <2>5. \A v \in Worker : task[v].at = "locked" => task[v].node # task[w].node
    BY <1>3 DEF LockNode
  <2>6. /\ y.node = task[w].node /\ y.answer = task[w].answer /\ y.at = "locked"
        /\ y.synced = task[w].synced /\ y.updated = task[w].updated /\ y.row = nodes[task[w].node]
    BY DEF LockedBy
  <2> HIDE DEF y
  <2>7. OnwardTo(w, y)
    BY <2>1, <2>3, <2>4, <2>5, <2>6 DEF OnwardTo
  <2> QED  BY <2>7
<1> QED  BY <1>1, <1>2, <1>3

-----------------------------------------------------------------------------
(* Each kind of step preserves the inductive invariant. *)

LEMMA TickStep ==
  ASSUME NodesIInv, Tick
  PROVE  NodesIInv'
<1> USE DEF NodesIInv
<1>1. /\ now \in Time /\ now' \in Time /\ now <= now'
      /\ UNCHANGED <<remote, nodes, kernels, task, overlap>>
  BY MaxTimeAssumption DEF TypeOK, Tick, Time
<1>2. TypeOK' /\ NodeCoversKernels' /\ LocksExclusive' /\ ReadsStand' /\ AloneIsNewest'
  BY <1>1 DEF TypeOK, NodeCoversKernels, LocksExclusive, ReadsStand, AloneIsNewest, Syncs
<1>3. NothingAhead'
  <2>1. \A s \in Time : s <= now => s <= now'
    BY <1>1, MaxTimeAssumption DEF Time
  <2>2. \A n \in Node : remote[n].config \in Time
    BY DEF TypeOK, NodeConfig
  <2>3. \A n \in Node : \A p \in DOMAIN kernels[n] : kernels[n][p].synced \in Time
    BY DEF TypeOK, NodeKernel
  <2>4. \A w \in Worker : task[w] # Idle =>
          /\ task[w].at # "fetched" => task[w].synced \in Time
          /\ task[w].at \in {"recording", "locked"} => task[w].updated \in Time
    BY Fields
  <2>5. \A n \in Node : nodes[n].updated \in Time
    BY DEF TypeOK, NodeRow
  <2> QED  BY <1>1, <2>1, <2>2, <2>3, <2>4, <2>5 DEF NothingAhead
<1> QED  BY <1>2, <1>3

LEMMA KernelChangesStep ==
  ASSUME NodesIInv, NEW n \in Node, KernelChanges(n)
  PROVE  NodesIInv'
<1> USE DEF NodesIInv
<1>1. PICK p \in Protocol : remote' = [remote EXCEPT ![n] = [protocol |-> p, config |-> now]]
  BY DEF KernelChanges
<1>2. UNCHANGED <<now, nodes, kernels, task, overlap>>
  BY DEF KernelChanges
<1>3. remote' \in [Node -> NodeConfig] /\ \A m \in Node : remote[m].config \in Time
  BY <1>1 DEF TypeOK, NodeConfig
<1>4. \A m \in Node : /\ remote[m].config <= remote'[m].config
                      /\ remote'[m].config <= now /\ remote'[m].config \in Time
  BY <1>1, <1>3, MaxTimeAssumption DEF TypeOK, NothingAhead, NodeConfig, Time
<1>5. TypeOK' /\ NodeCoversKernels' /\ LocksExclusive' /\ ReadsStand' /\ AloneIsNewest'
  BY <1>2, <1>3 DEF TypeOK, NodeCoversKernels, LocksExclusive, ReadsStand, AloneIsNewest, Syncs
<1>6. NothingAhead'
  <2>1. \A c \in Time : \A m \in Node : c <= remote[m].config => c <= remote'[m].config
    BY <1>3, <1>4, MaxTimeAssumption DEF Time
  <2>2. \A m \in Node : \A q \in DOMAIN kernels[m] : kernels[m][q].config \in Time
    BY DEF TypeOK, NodeKernel
  <2>3. \A w \in Worker : task[w] # Idle => task[w].answer.config \in Time /\ task[w].node \in Node
    BY Fields DEF NodeConfig
  <2> QED  BY <1>2, <1>4, <2>1, <2>2, <2>3 DEF NothingAhead
<1> QED  BY <1>5, <1>6

LEMMA FetchStep ==
  ASSUME NodesIInv, NEW w \in Worker, NEW n \in Node, Fetch(w, n)
  PROVE  NodesIInv'
<1> USE DEF NodesIInv
<1> DEFINE y == [at |-> "fetched", node |-> n, answer |-> remote[n]]
           met == {v \in Worker : Syncs(v, n)}
<1>1. /\ task[w] = Idle /\ task' = [task EXCEPT ![w] = y]
      /\ overlap' = IF met = {} THEN overlap ELSE overlap \cup met \cup {w}
      /\ UNCHANGED <<now, remote, nodes, kernels>>
  BY DEF Fetch, SyncBegins
<1>2. y \in Fetched /\ y.at = "fetched" /\ y.node = n /\ y.answer = remote[n]
  BY DEF Fetched, TypeOK
<1> HIDE DEF y
<1>3. \A v \in Worker : task'[v] = IF v = w THEN y ELSE task[v]
  BY <1>1 DEF TypeOK
<1>4. y # Idle
  BY <1>2, InFlight
<1>5. TypeOK'
  BY <1>1, <1>2 DEF TypeOK, Tasks
<1>6. NodeCoversKernels' /\ LocksExclusive' /\ ReadsStand'
  BY <1>1, <1>2, <1>3 DEF NodeCoversKernels, LocksExclusive, ReadsStand
<1>7. NothingAhead'
  <2>1. remote[n].config <= remote[n].config
    BY MaxTimeAssumption DEF TypeOK, NodeConfig, Time
  <2> QED  BY <2>1, <1>1, <1>2, <1>3 DEF NothingAhead
<1>8. AloneIsNewest'
  <2> SUFFICES ASSUME NEW v \in Worker, v \notin overlap', task'[v] # Idle
               PROVE  /\ \A u \in Worker \ {v} : ~ Syncs(u, task[v].node)'
                      /\ \A p \in DOMAIN kernels[task'[v].node] :
                           LET k == kernels[task'[v].node][p]
                           IN  /\ k.config <= task'[v].answer.config
                               /\ task'[v].at # "fetched" => k.synced <= task'[v].synced
    BY <1>1 DEF AloneIsNewest
  <2>1. CASE v = w
    <3>1. met = {}
      BY <2>1, <1>1
    <3> QED  BY <2>1, <3>1, <1>1, <1>2, <1>3 DEF Syncs, NothingAhead
  <2>2. CASE v # w
    <3>1. v \notin overlap /\ task'[v] = task[v]
      BY <2>2, <1>1, <1>3
    <3>2. v \notin met \/ met = {}
      BY <1>1
    <3>3. task[v].node # n
      BY <3>1, <3>2 DEF Syncs
    <3> QED  BY <2>2, <3>1, <3>3, <1>2, <1>3 DEF AloneIsNewest, Syncs
  <2> QED  BY <2>1, <2>2
<1> QED  BY <1>5, <1>6, <1>7, <1>8

LEMMA OnwardStep ==
  ASSUME NodesIInv, NEW w \in Worker, NEW y, OnwardTo(w, y)
  PROVE  NodesIInv'
<1> USE DEF NodesIInv
<1>1. /\ y \in Retrieved \cup Recording \cup Locked /\ y.at # "fetched" /\ y # Idle
      /\ y.at \in {"retrieved", "recording", "locked"} /\ y \in Tasks
  BY InFlight DEF OnwardTo, Retrieved, Recording, Locked, Tasks
<1>2. /\ task' = [task EXCEPT ![w] = y] /\ task[w] # Idle
      /\ UNCHANGED <<now, remote, nodes, kernels, overlap>>
      /\ y.node = task[w].node /\ y.answer = task[w].answer
  BY DEF OnwardTo
<1>3. \A v \in Worker : task'[v] = IF v = w THEN y ELSE task[v]
  BY <1>2 DEF TypeOK
<1>4. \A v \in Worker : \A n \in Node : Syncs(v, n)' <=> Syncs(v, n)
  BY <1>1, <1>2, <1>3 DEF Syncs
<1>5. TypeOK' /\ NodeCoversKernels'
  BY <1>1, <1>2 DEF TypeOK, NodeCoversKernels
<1>6. LocksExclusive' /\ ReadsStand'
  BY <1>2, <1>3 DEF OnwardTo, LocksExclusive, ReadsStand
<1>7. NothingAhead'
  <2>1. now <= now
    BY MaxTimeAssumption DEF TypeOK, Time
  <2>2. y.synced <= now
    BY <1>2, <2>1 DEF OnwardTo, NothingAhead
  <2>3. task[w].at \in {"fetched", "retrieved", "recording", "locked"}
    BY <1>2, Fields
  <2>4. y.at \in {"recording", "locked"} => y.updated <= now
    BY <1>2, <2>1, <2>3 DEF OnwardTo, NothingAhead, TypeOK
  <2> QED  BY <1>1, <1>2, <1>3, <2>2, <2>4 DEF NothingAhead
<1>8. AloneIsNewest'
  <2> SUFFICES ASSUME NEW v \in Worker, v \notin overlap, task'[v] # Idle
               PROVE  /\ \A u \in Worker \ {v} : ~ Syncs(u, task[v].node)'
                      /\ \A p \in DOMAIN kernels[task'[v].node] :
                           LET k == kernels[task'[v].node][p]
                           IN  /\ k.config <= task'[v].answer.config
                               /\ task'[v].at # "fetched" => k.synced <= task'[v].synced
    BY <1>2 DEF AloneIsNewest
  <2>1. task[v] # Idle /\ task'[v].node = task[v].node /\ task'[v].answer = task[v].answer
    BY <1>2, <1>3
  <2>2. task[v].node \in Node
    BY <2>1, Fields
  <2>3. \A u \in Worker \ {v} : ~ Syncs(u, task[v].node)'
    BY <1>4, <2>1, <2>2 DEF AloneIsNewest, Syncs
  <2>4. CASE v # w
    BY <2>1, <2>3, <2>4, <1>3 DEF AloneIsNewest
  <2>5. CASE v = w
    <3>1. \A p \in DOMAIN kernels[task[v].node] : kernels[task[v].node][p].synced <= now
      BY <2>2 DEF NothingAhead
    <3>2. y.synced = IF task[w].at = "fetched" THEN now ELSE task[w].synced
      BY DEF OnwardTo
    <3> QED  BY <2>1, <2>3, <2>5, <3>1, <3>2, <1>3 DEF AloneIsNewest
  <2> QED  BY <2>4, <2>5
<1> QED  BY <1>5, <1>6, <1>7, <1>8

(* What recording writes, to the row of its node and of one kernel of it. *)
LEMMA RecordWrites ==
  ASSUME NodesIInv, NEW w \in Worker, RecordKernelSync(w)
  PROVE  LET x == task[w]
             n == x.node
             p == x.answer.protocol
         IN  /\ x # Idle /\ x.at = "locked" /\ n \in Node /\ p \in Protocol
             /\ x.answer \in NodeConfig /\ x.synced \in Time /\ x.updated \in Time
             /\ UNCHANGED <<now, remote>>
             /\ DOMAIN kernels' = Node
             /\ DOMAIN kernels'[n] = DOMAIN kernels[n] \cup {p}
             /\ kernels'[n][p] = [config |-> x.answer.config, synced |-> x.synced,
                                  updated |-> IF p \in DOMAIN kernels[n] THEN now ELSE x.updated]
             /\ \A q \in DOMAIN kernels[n] \ {p} : kernels'[n][q] = kernels[n][q]
             /\ kernels'[n] \in [DOMAIN kernels'[n] -> NodeKernel]
             /\ nodes' \in [Node -> NodeRow]
             /\ nodes'[n].protocols = nodes[n].protocols \cup {p}
             /\ nodes'[n].synced = Later(x.synced, nodes[n].synced)
             /\ nodes'[n].updated = now
             /\ \A m \in Node \ {n} : kernels'[m] = kernels[m] /\ nodes'[m] = nodes[m]
<1> USE DEF NodesIInv
<1> DEFINE x == task[w]
           n == x.node
           p == x.answer.protocol
           row == [config |-> x.answer.config, synced |-> x.synced,
                   updated |-> IF p \in DOMAIN kernels[n] THEN now ELSE x.updated]
           rows == [i \in DOMAIN kernels[n] \cup {p} |-> IF i = p THEN row ELSE kernels[n][i]]
           saved == NodeSynced(x)
<1>1. x.at = "locked" /\ x # Idle
  BY InFlight DEF RecordKernelSync
<1>2. /\ n \in Node /\ x.answer \in NodeConfig /\ x.synced \in Time /\ x.updated \in Time
      /\ x.row = nodes[n] /\ nodes[n] \in NodeRow /\ now \in Time
  BY <1>1, Fields DEF ReadsStand, TypeOK
<1>3. p \in Protocol /\ row \in NodeKernel
  BY <1>2 DEF NodeConfig, NodeKernel
<1>4. /\ saved \in NodeRow
      /\ saved.protocols = nodes[n].protocols \cup {p}
      /\ saved.synced = Later(x.synced, nodes[n].synced)
      /\ saved.updated = now
  <2>1. nodes[n].synced \in Time /\ nodes[n].protocols \subseteq Protocol
    BY <1>2 DEF NodeRow
  <2>2. Later(x.synced, nodes[n].synced) \in Time
    BY <1>2, <2>1, LaterTime
  <2> QED  BY <1>2, <1>3, <2>1, <2>2 DEF NodeSynced, NodeRow
<1>5. /\ kernels' = [kernels EXCEPT ![n] = rows]
      /\ nodes' = [nodes EXCEPT ![n] = saved]
      /\ UNCHANGED <<now, remote>>
  BY <1>2 DEF RecordKernelSync, TypeOK
<1>6. rows \in [DOMAIN kernels[n] \cup {p} -> NodeKernel]
  BY <1>2, <1>3 DEF TypeOK
<1> HIDE DEF saved, row
<1>7. /\ DOMAIN kernels' = Node /\ kernels'[n] = rows
      /\ \A m \in Node \ {n} : kernels'[m] = kernels[m]
  BY <1>2, <1>5 DEF TypeOK
<1>8. /\ nodes' \in [Node -> NodeRow] /\ nodes'[n] = saved
      /\ \A m \in Node \ {n} : nodes'[m] = nodes[m]
  BY <1>2, <1>4, <1>5 DEF TypeOK
<1>9. /\ DOMAIN rows = DOMAIN kernels[n] \cup {p} /\ rows[p] = row
      /\ \A q \in DOMAIN kernels[n] \ {p} : rows[q] = kernels[n][q]
  OBVIOUS
<1> HIDE DEF rows
<1>10. row = [config |-> x.answer.config, synced |-> x.synced,
              updated |-> IF p \in DOMAIN kernels[n] THEN now ELSE x.updated]
  BY DEF row
<1> QED  BY <1>1, <1>2, <1>3, <1>4, <1>5, <1>6, <1>7, <1>8, <1>9, <1>10

(* The end of a sync leaves the others alone. *)
LEMMA SyncEnds ==
  ASSUME TypeOK, NEW w \in Worker, task' = [task EXCEPT ![w] = Idle], overlap' = overlap \ {w}
  PROVE  /\ task' \in [Worker -> Tasks] /\ overlap' \subseteq Worker /\ task'[w] = Idle
         /\ Idle.at = "idle"
         /\ \A v \in Worker \ {w} : task'[v] = task[v] /\ (v \in overlap' <=> v \in overlap)
BY DEF TypeOK, Tasks, Idle

LEMMA RecordStep ==
  ASSUME NodesIInv, NEW w \in Worker, RecordKernelSync(w)
  PROVE  NodesIInv'
<1> USE DEF NodesIInv
<1> DEFINE x == task[w]
           n == x.node
           p == x.answer.protocol
<1>1. /\ x # Idle /\ x.at = "locked" /\ n \in Node /\ p \in Protocol
      /\ x.answer \in NodeConfig /\ x.synced \in Time /\ x.updated \in Time
      /\ UNCHANGED <<now, remote>>
      /\ DOMAIN kernels' = Node
      /\ DOMAIN kernels'[n] = DOMAIN kernels[n] \cup {p}
      /\ kernels'[n][p] = [config |-> x.answer.config, synced |-> x.synced,
                           updated |-> IF p \in DOMAIN kernels[n] THEN now ELSE x.updated]
      /\ \A q \in DOMAIN kernels[n] \ {p} : kernels'[n][q] = kernels[n][q]
      /\ kernels'[n] \in [DOMAIN kernels'[n] -> NodeKernel]
      /\ nodes' \in [Node -> NodeRow]
      /\ nodes'[n].protocols = nodes[n].protocols \cup {p}
      /\ nodes'[n].synced = Later(x.synced, nodes[n].synced)
      /\ nodes'[n].updated = now
      /\ \A m \in Node \ {n} : kernels'[m] = kernels[m] /\ nodes'[m] = nodes[m]
  BY RecordWrites
<1>2. /\ task' \in [Worker -> Tasks] /\ overlap' \subseteq Worker /\ task'[w] = Idle
      /\ Idle.at = "idle"
      /\ \A v \in Worker \ {w} : task'[v] = task[v] /\ (v \in overlap' <=> v \in overlap)
  BY SyncEnds DEF RecordKernelSync
<1>3. /\ kernels'[n][p].config = x.answer.config /\ kernels'[n][p].synced = x.synced
      /\ kernels'[n][p].updated <= now
  <2>1. x.updated <= now /\ now <= now
    BY <1>1, MaxTimeAssumption DEF NothingAhead, TypeOK, Time
  <2> QED  BY <1>1, <2>1
<1>4. TypeOK'
  <2>1. \A m \in Node : /\ DOMAIN kernels'[m] \subseteq Protocol
                        /\ kernels'[m] \in [DOMAIN kernels'[m] -> NodeKernel]
    BY <1>1 DEF TypeOK
  <2> QED  BY <1>1, <1>2, <2>1 DEF TypeOK
<1>5. NodeCoversKernels'
  <2>1. ASSUME NEW q \in DOMAIN kernels'[n]
        PROVE  /\ kernels'[n][q].synced <= nodes'[n].synced
               /\ kernels'[n][q].updated <= nodes'[n].updated
    <3>1. nodes[n].synced \in Time /\ nodes[n].updated \in Time /\ now \in Time
      BY <1>1 DEF TypeOK, NodeRow
    <3>2. /\ nodes'[n].synced \in Time /\ x.synced <= nodes'[n].synced
          /\ nodes[n].synced <= nodes'[n].synced
          /\ nodes'[n].updated = now /\ nodes[n].updated <= now
      BY <1>1, <3>1, LaterTime DEF NothingAhead
    <3>3. CASE q = p
      BY <3>2, <3>3, <1>3
    <3>4. CASE q # p
      <4>1. q \in DOMAIN kernels[n] /\ kernels'[n][q] = kernels[n][q]
        BY <1>1, <3>4
      <4>2. /\ kernels[n][q].synced <= nodes[n].synced /\ kernels[n][q].updated <= nodes[n].updated
            /\ kernels[n][q].synced \in Time /\ kernels[n][q].updated \in Time
        BY <1>1, <4>1 DEF NodeCoversKernels, TypeOK, NodeKernel
      <4> QED  BY <3>1, <3>2, <4>1, <4>2, MaxTimeAssumption DEF Time
    <3> QED  BY <3>3, <3>4
  <2>2. nodes'[n].protocols = DOMAIN kernels'[n]
    BY <1>1 DEF NodeCoversKernels
  <2> QED  BY <2>1, <2>2, <1>1 DEF NodeCoversKernels
<1>6. LocksExclusive'
  BY <1>2 DEF LocksExclusive
<1>7. ReadsStand'
  <2> SUFFICES ASSUME NEW v \in Worker \ {w}, task[v].at = "locked"
               PROVE  task[v].row = nodes'[task[v].node]
    BY <1>2 DEF ReadsStand
  <2>1. task[v].node \in Node /\ task[v].node # n
    BY <1>1, Fields, InFlight DEF LocksExclusive
  <2> QED  BY <2>1, <1>1 DEF ReadsStand
<1>8. NothingAhead'
  <2>1. x.answer.config <= remote[n].config /\ x.synced <= now
    BY <1>1 DEF NothingAhead
  <2>2. \A m \in Node : \A q \in DOMAIN kernels'[m] :
          kernels'[m][q].config <= remote[m].config /\ kernels'[m][q].synced <= now
    BY <2>1, <1>1, <1>3 DEF NothingAhead
  <2>3. now <= now
    BY MaxTimeAssumption DEF TypeOK, Time
  <2>4. \A m \in Node : nodes'[m].updated <= now
    BY <2>3, <1>1 DEF NothingAhead
  <2>5. \A v \in Worker : task'[v] # Idle => v # w /\ task'[v] = task[v]
    BY <1>2
  <2> QED  BY <2>2, <2>4, <2>5, <1>1 DEF NothingAhead
<1>9. AloneIsNewest'
  <2> SUFFICES ASSUME NEW v \in Worker \ {w}, v \notin overlap, task[v] # Idle
               PROVE  /\ \A u \in Worker \ {v} : ~ Syncs(u, task[v].node)'
                      /\ \A q \in DOMAIN kernels'[task[v].node] :
                           LET k == kernels'[task[v].node][q]
                           IN  /\ k.config <= task[v].answer.config
                               /\ task[v].at # "fetched" => k.synced <= task[v].synced
    BY <1>2 DEF AloneIsNewest
  <2>1. task[v].node # n /\ task[v].node \in Node
    BY <1>1, Fields DEF AloneIsNewest, Syncs
  <2>2. kernels'[task[v].node] = kernels[task[v].node]
    BY <2>1, <1>1
  <2>3. \A u \in Worker \ {v} : ~ Syncs(u, task[v].node)'
    BY <1>2 DEF AloneIsNewest, Syncs
  <2> QED  BY <2>2, <2>3 DEF AloneIsNewest
<1> QED  BY <1>4, <1>5, <1>6, <1>7, <1>8, <1>9

LEMMA FailsStep ==
  ASSUME NodesIInv, NEW w \in Worker, Fails(w)
  PROVE  NodesIInv'
<1> USE DEF NodesIInv
<1>1. UNCHANGED <<now, remote, nodes, kernels>>
  BY DEF Fails
<1>2. /\ task' \in [Worker -> Tasks] /\ overlap' \subseteq Worker /\ task'[w] = Idle
      /\ Idle.at = "idle"
      /\ \A v \in Worker \ {w} : task'[v] = task[v] /\ (v \in overlap' <=> v \in overlap)
  BY SyncEnds DEF Fails
<1>3. TypeOK' /\ NodeCoversKernels'
  BY <1>1, <1>2 DEF TypeOK, NodeCoversKernels
<1>4. LocksExclusive' /\ ReadsStand'
  BY <1>1, <1>2 DEF LocksExclusive, ReadsStand
<1>5. NothingAhead'
  BY <1>1, <1>2 DEF NothingAhead
<1>6. AloneIsNewest'
  BY <1>1, <1>2 DEF AloneIsNewest, Syncs
<1> QED  BY <1>3, <1>4, <1>5, <1>6

LEMMA NodesStep ==
  ASSUME NodesIInv, [Next]_vars
  PROVE  NodesIInv'
<1>1. CASE Tick
  BY <1>1, TickStep
<1>2. CASE \E n \in Node : KernelChanges(n)
  BY <1>2, KernelChangesStep
<1>3. ASSUME NEW w \in Worker, Sync(w)
      PROVE  NodesIInv'
  <2>1. CASE \E n \in Node : Fetch(w, n)
    BY <2>1, FetchStep
  <2>2. CASE Retrieve(w) \/ RecordBegins(w) \/ LockNode(w)
    BY <2>2, OnwardSteps, OnwardStep
  <2>3. CASE RecordKernelSync(w)
    BY <2>3, RecordStep
  <2>4. CASE Fails(w)
    BY <2>4, FailsStep
  <2> QED  BY <1>3, <2>1, <2>2, <2>3, <2>4 DEF Sync
<1>4. CASE UNCHANGED vars
  BY <1>4 DEF vars, NodesIInv, TypeOK, NodeCoversKernels, LocksExclusive, ReadsStand,
              NothingAhead, AloneIsNewest, Syncs
<1> QED  BY <1>1, <1>2, <1>3, <1>4 DEF Next

(* What is seeded is well formed, and no newer than the first instant.     *)
LEMMA Seeded ==
  ASSUME NEW s \in SeededNodes
  PROVE  /\ s.row \in NodeRow /\ s.kernels \in [DOMAIN s.kernels -> NodeKernel]
         /\ s.row.protocols = DOMAIN s.kernels
         /\ \A p \in DOMAIN s.kernels :
              /\ s.kernels[p].config = 0 /\ s.kernels[p].synced <= 1
              /\ s.kernels[p].synced <= s.row.synced /\ s.kernels[p].updated <= s.row.updated
         /\ s.row.updated <= 1
<1>1. 0 \in Time /\ 1 \in Time /\ 0 <= 1 /\ 1 <= 1 /\ 0 <= 0
  BY MaxTimeAssumption DEF Time
<1>2. ASSUME NEW p \in Protocol, NEW q \in Protocol, s = Edge(p, q)
      PROVE  /\ s.row \in NodeRow /\ s.kernels \in [DOMAIN s.kernels -> NodeKernel]
             /\ s.row.protocols = DOMAIN s.kernels
             /\ \A i \in DOMAIN s.kernels :
                  /\ s.kernels[i].config = 0 /\ s.kernels[i].synced <= 1
                  /\ s.kernels[i].synced <= s.row.synced /\ s.kernels[i].updated <= s.row.updated
             /\ s.row.updated <= 1
  <2>1. s.row = [protocols |-> {p, q}, synced |-> 1, updated |-> 1, status |-> "online"]
    BY <1>2 DEF Edge
  <2>2. s.kernels = [i \in {p, q} |->
                       [config |-> 0, synced |-> IF i = p THEN 1 ELSE 0, updated |-> 1]]
    BY <1>2 DEF Edge
  <2> QED  BY <1>1, <2>1, <2>2 DEF NodeRow, NodeKernel
<1>3. ASSUME NEW p \in Protocol, s = Maintained(p)
      PROVE  /\ s.row \in NodeRow /\ s.kernels \in [DOMAIN s.kernels -> NodeKernel]
             /\ s.row.protocols = DOMAIN s.kernels
             /\ \A i \in DOMAIN s.kernels :
                  /\ s.kernels[i].config = 0 /\ s.kernels[i].synced <= 1
                  /\ s.kernels[i].synced <= s.row.synced /\ s.kernels[i].updated <= s.row.updated
             /\ s.row.updated <= 1
  <2>1. s.row = [protocols |-> {p}, synced |-> 0, updated |-> 1, status |-> "maintenance"]
    BY <1>3 DEF Maintained
  <2>2. s.kernels = [i \in {p} |-> [config |-> 0, synced |-> 0, updated |-> 1]]
    BY <1>3 DEF Maintained
  <2> QED  BY <1>1, <2>1, <2>2 DEF NodeRow, NodeKernel
<1>4. \/ \E p, q \in Protocol : s = Edge(p, q)
      \/ \E p \in Protocol : s = Maintained(p)
  BY DEF SeededNodes
<1> QED  BY <1>2, <1>3, <1>4

LEMMA NodesStart ==
  ASSUME Init
  PROVE  NodesIInv
<1>1. PICK seed \in [Node -> SeededNodes] : /\ nodes = [n \in Node |-> seed[n].row]
                                            /\ kernels = [n \in Node |-> seed[n].kernels]
  BY DEF Init
<1>2. \A n \in Node :
        /\ seed[n].row \in NodeRow
        /\ seed[n].kernels \in [DOMAIN seed[n].kernels -> NodeKernel]
        /\ seed[n].row.protocols = DOMAIN seed[n].kernels
        /\ \A p \in DOMAIN seed[n].kernels :
             /\ seed[n].kernels[p].config = 0 /\ seed[n].kernels[p].synced <= 1
             /\ seed[n].kernels[p].synced <= seed[n].row.synced
             /\ seed[n].kernels[p].updated <= seed[n].row.updated
        /\ seed[n].row.updated <= 1
  BY <1>1, Seeded
<1>3. /\ now = 1 /\ now \in Time /\ 0 \in Time
      /\ task = [w \in Worker |-> Idle] /\ overlap = {} /\ Idle.at = "idle"
  BY MaxTimeAssumption DEF Init, Idle, Time
<1>4. remote \in [Node -> NodeConfig] /\ \A n \in Node : remote[n].config = 0
  BY <1>3 DEF Init, NodeConfig
<1>5. /\ nodes \in [Node -> NodeRow] /\ DOMAIN kernels = Node
      /\ \A n \in Node : kernels[n] \in [DOMAIN kernels[n] -> NodeKernel]
  BY <1>1, <1>2
<1>6. \A n \in Node : DOMAIN kernels[n] = nodes[n].protocols /\ nodes[n].protocols \subseteq Protocol
  BY <1>1, <1>2 DEF NodeRow
<1>7. TypeOK
  BY <1>3, <1>4, <1>5, <1>6 DEF TypeOK, Tasks
<1>8. NodeCoversKernels
  BY <1>1, <1>2 DEF NodeCoversKernels
<1>9. LocksExclusive /\ ReadsStand /\ AloneIsNewest
  BY <1>3 DEF LocksExclusive, ReadsStand, AloneIsNewest
<1>10. NothingAhead
  BY <1>1, <1>2, <1>3, <1>4 DEF NothingAhead
<1> QED  BY <1>7, <1>8, <1>9, <1>10 DEF NodesIInv

(* The inductive invariant holds of everything reached, for any nodes,     *)
(* protocols and requests.                                                 *)
THEOREM NodesInvariant == Spec => []NodesIInv
<1>1. Init => NodesIInv
  BY NodesStart
<1>2. NodesIInv /\ [Next]_vars => NodesIInv'
  BY NodesStep
<1> QED  BY <1>1, <1>2, PTL DEF Spec

(* What a node's row says of its kernels' protocols and times is true      *)
(* always, whatever syncs of it overlap.                                   *)
THEOREM NodeAlwaysCovers == Spec => []NodeCoversKernels
<1>1. NodesIInv => NodeCoversKernels
  BY DEF NodesIInv
<1> QED  BY <1>1, NodesInvariant, PTL

LEMMA OnlyRecordingWrites ==
  ASSUME [Next]_vars
  PROVE  (\E w \in Worker : RecordKernelSync(w)) \/ UNCHANGED <<nodes, kernels>>
BY DEF Next, vars, Tick, KernelChanges, Sync, Fetch, SyncBegins, Retrieve, RecordBegins,
       LockNode, Fails

LEMMA ForwardStep ==
  ASSUME NodesIInv, [Next]_vars, NEW n \in Node
  PROVE  /\ nodes[n].synced <= nodes'[n].synced
         /\ nodes[n].updated <= nodes'[n].updated
         /\ DOMAIN kernels[n] \subseteq DOMAIN kernels'[n]
<1>1. nodes[n].synced \in Time /\ nodes[n].updated \in Time
  BY DEF NodesIInv, TypeOK, NodeRow
<1>2. nodes[n].synced <= nodes[n].synced /\ nodes[n].updated <= nodes[n].updated
  BY <1>1, MaxTimeAssumption DEF Time
<1>3. ASSUME NEW w \in Worker, RecordKernelSync(w)
      PROVE  /\ nodes[n].synced <= nodes'[n].synced
             /\ nodes[n].updated <= nodes'[n].updated
             /\ DOMAIN kernels[n] \subseteq DOMAIN kernels'[n]
  <2>1. CASE n = task[w].node
    <3>1. /\ task[w].synced \in Time
          /\ nodes'[n].synced = Later(task[w].synced, nodes[n].synced)
          /\ nodes'[n].updated = now
          /\ DOMAIN kernels'[n] = DOMAIN kernels[n] \cup {task[w].answer.protocol}
      <4> HIDE DEF NodesIInv
      <4> QED  BY <1>3, <2>1, RecordWrites
    <3>2. nodes[n].updated <= now
      BY DEF NodesIInv, NothingAhead
    <3> QED  BY <1>1, <3>1, <3>2, LaterTime
  <2>2. CASE n # task[w].node
    <3>1. kernels'[n] = kernels[n] /\ nodes'[n] = nodes[n]
      BY <1>3, <2>2, RecordWrites
    <3> QED  BY <1>2, <3>1
  <2> QED  BY <2>1, <2>2
<1> QED  BY <1>2, <1>3, OnlyRecordingWrites

(* The times of a node never go back and none of its kernels is lost,      *)
(* whatever syncs of it overlap.                                           *)
THEOREM NodesGoForward == Spec => NodesForward
<1>1. NodesIInv /\ [Next]_vars =>
        [\A n \in Node : /\ nodes[n].synced <= nodes'[n].synced
                         /\ nodes[n].updated <= nodes'[n].updated
                         /\ DOMAIN kernels[n] \subseteq DOMAIN kernels'[n]]_vars
  BY ForwardStep
<1> QED  BY <1>1, NodesInvariant, PTL DEF Spec, NodesForward

LEMMA KernelStep ==
  ASSUME NodesIInv, NEW w \in Worker \ overlap, RecordKernelSync(w),
         NEW n \in Node, NEW q \in DOMAIN kernels[n]
  PROVE  /\ kernels[n][q].config <= kernels'[n][q].config
         /\ kernels[n][q].synced <= kernels'[n][q].synced
<1>1. kernels[n][q].config \in Time /\ kernels[n][q].synced \in Time
  BY DEF NodesIInv, TypeOK, NodeKernel
<1>2. /\ kernels[n][q].config <= kernels[n][q].config
      /\ kernels[n][q].synced <= kernels[n][q].synced
  BY <1>1, MaxTimeAssumption DEF Time
<1>3. CASE n = task[w].node /\ q = task[w].answer.protocol
  <2>1. /\ task[w] # Idle /\ task[w].at = "locked"
        /\ kernels'[n][q] = [config |-> task[w].answer.config, synced |-> task[w].synced,
                             updated |-> IF q \in DOMAIN kernels[n] THEN now ELSE task[w].updated]
    BY <1>3, RecordWrites
  <2>2. /\ kernels[n][q].config <= task[w].answer.config
        /\ kernels[n][q].synced <= task[w].synced
    BY <1>3, <2>1 DEF NodesIInv, AloneIsNewest
  <2> QED  BY <2>1, <2>2
<1>4. CASE ~ (n = task[w].node /\ q = task[w].answer.protocol)
  <2>1. w \in Worker
    OBVIOUS
  <2>2. /\ \A i \in DOMAIN kernels[task[w].node] \ {task[w].answer.protocol} :
             kernels'[task[w].node][i] = kernels[task[w].node][i]
        /\ \A m \in Node \ {task[w].node} : kernels'[m] = kernels[m]
    BY <2>1, RecordWrites
  <2>3. kernels'[n][q] = kernels[n][q]
    BY <1>4, <2>2
  <2> QED  BY <1>2, <2>3
<1> QED  BY <1>3, <1>4

(* Unless two syncs of the node overlapped, a configuration is replaced    *)
(* only by one as new, retrieved as late.                                  *)
THEOREM KernelsGoForward == Spec => KernelsForward
<1>1. NodesIInv /\ [Next]_vars =>
        [\A w \in Worker \ overlap : RecordKernelSync(w) =>
           \A n \in Node : \A p \in DOMAIN kernels[n] :
             /\ kernels[n][p].config <= kernels'[n][p].config
             /\ kernels[n][p].synced <= kernels'[n][p].synced]_vars
  BY KernelStep
<1> QED  BY <1>1, NodesInvariant, PTL DEF Spec, KernelsForward
=============================================================================
