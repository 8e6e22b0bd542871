---------------------------- MODULE ServeProofs ----------------------------
(***************************************************************************)
(* Theorems about the life of a serve process: that it tells why it stops, *)
(* and that it keeps the promise RunServices makes, whatever the order in  *)
(* which its servers fail, report and stop.                                *)
(***************************************************************************)
EXTENDS Serve, TLAPS

ServeTypeOK ==
  /\ stage \in {"prepare", "acquire", "select", "wait", "closing", "returned", "dead"}
  /\ prepared \in BOOLEAN /\ cancelled \in BOOLEAN /\ asked \in BOOLEAN
  /\ held \in Seq({"database", "cache", "kernel"}) /\ Len(held) <= Len(Order)
  /\ enabled \subseteq Server /\ "http" \in enabled
  /\ pc \in [Server -> {"off", "begin", "serve", "stop", "report", "done"}]
  /\ loop \in [Server -> {"idle", "serving", "ended", "failed"}]
  /\ errCh \in Seq(Server)
  /\ runErr \in {"none", "prepare", "init"} \cup Server

\* Where the main goroutine is decides what is open and who may run.
Stages ==
  /\ stage = "prepare" => held = <<>>
  /\ stage \in {"prepare", "acquire"} =>
       /\ \A s \in Server : pc[s] = "off" /\ loop[s] = "idle"
       /\ errCh = <<>> /\ runErr = "none" /\ ~cancelled
  /\ stage \in {"prepare", "acquire", "select"} => (cancelled => asked)
  /\ stage \in {"select", "wait"} => Len(held) = Len(Order)
  /\ stage = "wait" => cancelled
  /\ stage \in {"closing", "returned"} => \A s \in Server : Ended(s)
  /\ stage = "returned" => held = <<>>
  /\ stage = "dead" => \A s \in Server : pc[s] = "off" /\ loop[s] = "idle"

\* A server waits to stop, ends or reports only in trouble; what it serves in
\* has begun before that, and the HTTP server goes as its loop goes.
Loops ==
  /\ \A s \in Server :
       /\ pc[s] \in {"off", "begin"} => loop[s] = "idle"
       /\ pc[s] = "stop" => cancelled
       /\ pc[s] = "report" => cancelled \/ loop[s] = "failed"
       /\ loop[s] = "ended" => cancelled
  /\ pc["http"] # "report" /\ loop["http"] # "failed"
  /\ pc["http"] = "done" => loop["http"] = "ended"
  /\ asked => cancelled

\* Unless the process was asked to stop, what a server has reported or is about
\* to report is a failure of its own, and the first of them is what is returned.
Reports ==
  asked \/ stage = "dead" \/
    IF cancelled
    THEN /\ stage \in {"wait", "closing", "returned"}
         /\ runErr \in Server /\ pc[runErr] = "done" /\ loop[runErr] = "failed"
    ELSE /\ \A i \in 1 .. Len(errCh) : pc[errCh[i]] = "done" /\ loop[errCh[i]] = "failed"
         /\ stage \in {"closing", "returned"} => runErr \in {"prepare", "init"}

ServeInv == ServeTypeOK /\ Stages /\ Loops /\ Reports

-----------------------------------------------------------------------------
LEMMA ServeStart == Init => ServeInv
<1> SUFFICES ASSUME Init  PROVE ServeInv
  OBVIOUS
<1>1. ServeTypeOK
  <2>1. enabled \subseteq Server /\ "http" \in enabled
    BY DEF Init, Server
  <2>2. <<>> \in Seq({"database", "cache", "kernel"}) /\ <<>> \in Seq(Server)
        /\ Len(<<>>) = 0 /\ Len(Order) = 3
    BY DEF Order
  <2>3. held = <<>> /\ errCh = <<>>
        /\ pc = [s \in Server |-> "off"] /\ loop = [s \in Server |-> "idle"]
    BY DEF Init
  <2>4. /\ pc \in [Server -> {"off", "begin", "serve", "stop", "report", "done"}]
        /\ loop \in [Server -> {"idle", "serving", "ended", "failed"}]
    BY <2>3
  <2>5. /\ held \in Seq({"database", "cache", "kernel"}) /\ Len(held) <= Len(Order)
        /\ errCh \in Seq(Server)
    BY <2>2, <2>3
  <2> QED  BY <2>1, <2>4, <2>5 DEF Init, ServeTypeOK
<1>2. Stages /\ Loops /\ Reports
  BY DEF Init, Stages, Loops, Reports, Server
<1> QED  BY <1>1, <1>2 DEF ServeInv

LEMMA FrontShorter ==
  ASSUME NEW S, NEW q \in Seq(S), q # <<>>
  PROVE  Front(q) \in Seq(S) /\ Len(Front(q)) = Len(q) - 1
<1>1. Len(q) \in Nat /\ Len(q) # 0 /\ \A i \in 1 .. Len(q) : q[i] \in S
  OBVIOUS
<1>2. Front(q) = [i \in 1 .. Len(q) - 1 |-> q[i]]
  BY <1>1 DEF Front
<1> QED  BY <1>1, <1>2

(* The steps of the main goroutine. *)
LEMMA MainKeeps == ASSUME ServeInv, Main  PROVE ServeInv'
<1> USE DEF ServeInv
<1>0. Len(Order) = 3 /\ \A n \in 1 .. 3 : Order[n] \in {"database", "cache", "kernel"}
  BY DEF Order
<1>1. CASE PrepareDatabase
  <2>1. ServeTypeOK'
    BY <1>1 DEF PrepareDatabase, ServeTypeOK, servers
  <2>2. Stages' /\ Loops' /\ Reports'
    BY <1>1 DEF PrepareDatabase, ServeTypeOK, Stages, Loops, Reports, servers, Ended
  <2> QED  BY <2>1, <2>2
<1>2. CASE Acquire
  <2>1. ASSUME NEW n \in 1 .. 3, Opens(n)
        PROVE  ServeInv'
    <3>1. held' \in Seq({"database", "cache", "kernel"}) /\ Len(held') <= 3
      <4>1. held \in Seq({"database", "cache", "kernel"}) /\ Len(held) <= 3
        BY <1>0 DEF ServeTypeOK
      <4>2. /\ Len(held) = n - 1
            /\ held' = Append(held, Order[n]) \/ held' = held
        BY <2>1 DEF Opens
      <4>3. PICK r \in {"database", "cache", "kernel"} : r = Order[n]
        BY <1>0
      <4>4. Append(held, r) \in Seq({"database", "cache", "kernel"})
            /\ Len(Append(held, r)) = Len(held) + 1
        BY <4>1
      <4> QED  BY <4>1, <4>2, <4>3, <4>4
    <3>2. ServeTypeOK'
      BY <1>0, <2>1, <3>1 DEF Opens, ServeTypeOK, servers
    <3>3. Stages' /\ Loops' /\ Reports'
      BY <2>1 DEF Opens, ServeTypeOK, Stages, Loops, Reports, servers, Ended
    <3> QED  BY <3>2, <3>3
  <2>2. CASE RepositoriesFail
    <3>1. ServeTypeOK'
      BY <2>2 DEF RepositoriesFail, ServeTypeOK, servers
    <3>2. Stages' /\ Loops' /\ Reports'
      BY <2>2 DEF RepositoriesFail, ServeTypeOK, Stages, Loops, Reports, servers, Ended
    <3> QED  BY <3>1, <3>2
  <2> QED  BY <1>2, <2>1, <2>2 DEF Acquire, OpenDatabase, OpenCache, OpenKernel
<1>3. CASE Launch
  <2>1. ServeTypeOK'
    <3>1. pc' \in [Server -> {"off", "begin", "serve", "stop", "report", "done"}]
      BY <1>3 DEF Launch
    <3> QED  BY <1>3, <3>1 DEF Launch, ServeTypeOK
  <2>2. Stages' /\ Loops' /\ Reports'
    BY <1>3 DEF Launch, ServeTypeOK, Stages, Loops, Reports, Server
  <2> QED  BY <2>1, <2>2
<1>4. CASE Select
  <2>1. ServeTypeOK'
    <3>1. errCh \in Seq(Server) /\ runErr \in {"none", "prepare", "init"} \cup Server
      BY DEF ServeTypeOK
    <3>2. errCh # <<>> => Head(errCh) \in Server /\ Tail(errCh) \in Seq(Server)
      BY <3>1
    <3>3. errCh' \in Seq(Server) /\ runErr' \in {"none", "prepare", "init"} \cup Server
      BY <1>4, <3>1, <3>2 DEF Select
    <3>4. cancelled' \in BOOLEAN
      BY <1>4 DEF Select, ServeTypeOK
    <3> QED  BY <1>4, <3>3, <3>4 DEF Select, ServeTypeOK, servers
  <2>2. Stages' /\ Loops'
    BY <1>4 DEF Select, ServeTypeOK, Stages, Loops, servers
  <2>3. Reports'
    <3>1. CASE cancelled
      BY <1>4, <3>1 DEF Select, Stages, Reports, servers
    <3>2. CASE ~cancelled /\ ~asked
      <4>1. errCh \in Seq(Server) /\ errCh # <<>> /\ runErr' = Head(errCh) /\ cancelled'
        BY <1>4, <3>2 DEF Select, ServeTypeOK
      <4>2. 1 \in 1 .. Len(errCh) /\ Head(errCh) = errCh[1] /\ errCh[1] \in Server
        BY <4>1
      <4>3. stage = "select"
        BY <1>4 DEF Select
      <4>4. pc[errCh[1]] = "done" /\ loop[errCh[1]] = "failed"
        BY <3>2, <4>2, <4>3 DEF Reports
      <4> QED  BY <1>4, <4>1, <4>2, <4>4 DEF Select, Reports, servers
    <3>3. CASE asked
      BY <1>4, <3>3 DEF Select, Reports
    <3> QED  BY <3>1, <3>2, <3>3
  <2> QED  BY <2>1, <2>2, <2>3
<1>5. CASE Wait
  <2>1. ServeTypeOK'
    BY <1>5 DEF Wait, ServeTypeOK, servers
  <2>2. Stages' /\ Loops' /\ Reports'
    BY <1>5 DEF Wait, ServeTypeOK, Stages, Loops, Reports, servers, Ended
  <2> QED  BY <2>1, <2>2
<1>6. CASE Close
  <2>1. held \in Seq({"database", "cache", "kernel"}) /\ Len(held) <= 3
    BY <1>0 DEF ServeTypeOK
  <2>2. held # <<>> => /\ Front(held) \in Seq({"database", "cache", "kernel"})
                       /\ Len(Front(held)) = Len(held) - 1
    BY <2>1, FrontShorter
  <2>3. ServeTypeOK'
    BY <1>0, <1>6, <2>1, <2>2 DEF Close, ServeTypeOK, servers
  <2>4. Stages' /\ Loops' /\ Reports'
    BY <1>6 DEF Close, ServeTypeOK, Stages, Loops, Reports, servers, Ended
  <2> QED  BY <2>3, <2>4
<1> QED  BY <1>1, <1>2, <1>3, <1>4, <1>5, <1>6 DEF Main

(* A step of one server and of what it serves in.                          *)
LEMMA GoesKeeps ==
  ASSUME ServeInv, NEW s \in Server,
         NEW p \in {"off", "begin", "serve", "stop", "report", "done"},
         NEW l \in {"idle", "serving", "ended", "failed"},
         Goes(s, p, l),
         ~Ended(s) \/ pc[s] = p,
         stage # "dead", pc[s] # "off",
         p # "off", p = "begin" => l = "idle",
         p = "stop" => cancelled,
         p = "report" => cancelled \/ l = "failed",
         l = "ended" => cancelled,
         s = "http" => p # "report" /\ l # "failed" /\ (p = "done" => l = "ended"),
         loop[s] = "failed" /\ pc[s] = "done" => l = "failed"
  PROVE  ServeInv'
<1> USE DEF ServeInv
<1>1. /\ pc \in [Server -> {"off", "begin", "serve", "stop", "report", "done"}]
      /\ loop \in [Server -> {"idle", "serving", "ended", "failed"}]
      /\ pc' = [pc EXCEPT ![s] = p] /\ loop' = [loop EXCEPT ![s] = l]
  BY DEF Goes, ServeTypeOK
<1>2. UNCHANGED <<stage, prepared, held, enabled, cancelled, asked, errCh, runErr>>
  BY DEF Goes, main
<1>3. ServeTypeOK'
  BY <1>1, <1>2 DEF ServeTypeOK
<1>4. Stages'
  BY <1>1, <1>2 DEF Stages, Ended
<1>5. Loops'
  BY <1>1, <1>2 DEF Loops
<1>6. Reports'
  <2>1. \A i \in 1 .. Len(errCh) : errCh[i] \in Server
    BY DEF ServeTypeOK
  <2>2. ASSUME NEW r \in Server, pc[r] = "done", loop[r] = "failed"
        PROVE  pc'[r] = "done" /\ loop'[r] = "failed"
    BY <1>1, <2>2 DEF Ended
  <2> QED  BY <1>2, <2>1, <2>2 DEF Reports
<1> QED  BY <1>3, <1>4, <1>5, <1>6

(* The steps of the servers, of the libraries and from outside.            *)
LEMMA ServersKeep ==
  ASSUME ServeInv, NEW s \in Server, Run(s) \/ LoopFails(s) \/ LoopEnds(s)
  PROVE  ServeInv'
<1>0. /\ pc[s] \in {"off", "begin", "serve", "stop", "report", "done"}
      /\ loop[s] \in {"idle", "serving", "ended", "failed"}
      /\ pc[s] # "off" => stage # "dead"
  BY DEF ServeInv, ServeTypeOK, Stages
<1>a. /\ pc[s] \in {"off", "begin"} => loop[s] = "idle"
      /\ pc[s] = "stop" => cancelled
      /\ pc[s] = "report" => cancelled \/ loop[s] = "failed"
      /\ loop[s] = "ended" => cancelled
      /\ s = "http" => /\ pc[s] # "report" /\ loop[s] # "failed"
                       /\ pc[s] = "done" => loop[s] = "ended"
      /\ asked => cancelled
  BY DEF ServeInv, Loops
<1>1. CASE Begin(s)
  BY <1>0, <1>1, GoesKeeps DEF Begin, Ended
<1>2. CASE Serve(s)
  <2>1. CASE cancelled /\ Goes(s, "stop", loop[s])
    BY <1>0, <1>2, <1>a, <2>1, GoesKeeps DEF Serve, Ended
  <2>2. CASE loop[s] = "ended" /\ Goes(s, "done", "ended")
    BY <1>0, <1>2, <1>a, <2>2, GoesKeeps DEF Serve, Ended
  <2>3. CASE loop[s] = "failed" /\ Goes(s, "report", "failed")
    BY <1>0, <1>2, <1>a, <2>3, GoesKeeps DEF Serve, Ended
  <2> QED  BY <1>2, <2>1, <2>2, <2>3 DEF Serve
<1>3. CASE s = "http" /\ StopHTTP
  BY <1>0, <1>3, <1>a, GoesKeeps DEF StopHTTP, Ended
<1>4. CASE s = "metrics" /\ StopMetrics
  BY <1>0, <1>4, <1>a, GoesKeeps DEF StopMetrics, Ended
<1>5. CASE s = "grpc" /\ StopGRPC
  BY <1>0, <1>5, <1>a, GoesKeeps DEF StopGRPC, GracefulStopGRPC, StopTimerGRPC, Ended
<1>6. CASE Report(s)
  <2> USE DEF ServeInv
  <2>1. /\ pc[s] = "report" /\ errCh' = Append(errCh, s)
        /\ pc' = [pc EXCEPT ![s] = "done"]
        /\ UNCHANGED <<stage, prepared, held, enabled, cancelled, asked, loop, runErr>>
    BY <1>6 DEF Report, main
  <2>2. /\ pc \in [Server -> {"off", "begin", "serve", "stop", "report", "done"}]
        /\ errCh \in Seq(Server)
    BY DEF ServeTypeOK
  <2>3. ServeTypeOK'
    BY <2>1, <2>2 DEF ServeTypeOK
  <2>4. Stages'
    BY <2>1, <2>2 DEF Stages, Ended
  <2>5. Loops'
    BY <2>1, <2>2 DEF Loops
  <2>6. ASSUME cancelled \/ asked  PROVE Reports'
    <3>1. cancelled
      BY <2>6 DEF Loops
    <3>2. \A r \in Server : pc[r] = "done" => pc'[r] = "done"
      BY <2>1, <2>2
    <3> QED  BY <2>1, <3>1, <3>2 DEF Reports
  <2>7. ASSUME ~cancelled, ~asked  PROVE Reports'
    <3>1. loop[s] = "failed" /\ stage \in {"select", "wait"}
      BY <2>1, <2>7 DEF Loops, Stages, Ended, ServeTypeOK
    <3>2. \A i \in 1 .. Len(errCh) : pc[errCh[i]] = "done" /\ loop[errCh[i]] = "failed"
      BY <2>7, <3>1 DEF Reports
    <3>3. ASSUME NEW i \in 1 .. Len(errCh')
          PROVE  pc'[errCh'[i]] = "done" /\ loop'[errCh'[i]] = "failed"
      <4>1. CASE i = Len(errCh) + 1
        BY <2>1, <2>2, <3>1, <4>1
      <4>2. CASE i # Len(errCh) + 1
        <5>1. i \in 1 .. Len(errCh) /\ errCh'[i] = errCh[i] /\ errCh[i] \in Server
          BY <2>1, <2>2, <4>2
        <5> QED  BY <2>1, <2>2, <3>2, <5>1
      <4> QED  BY <4>1, <4>2
    <3> QED  BY <2>1, <2>7, <3>1, <3>3 DEF Reports
  <2>8. Reports'
    BY <2>6, <2>7
  <2> QED  BY <2>3, <2>4, <2>5, <2>8
<1>7. CASE LoopFails(s)
  BY <1>0, <1>7, <1>a, GoesKeeps DEF LoopFails, Ended
<1>8. CASE LoopEnds(s)
  BY <1>0, <1>8, <1>a, GoesKeeps DEF LoopEnds, Ended
<1> QED  BY <1>1, <1>2, <1>3, <1>4, <1>5, <1>6, <1>7, <1>8 DEF Run

LEMMA ServeStep == ServeInv /\ [Next]_vars => ServeInv'
<1> SUFFICES ASSUME ServeInv, [Next]_vars  PROVE ServeInv'
  OBVIOUS
<1> USE DEF ServeInv
<1>1. CASE AskedToStop
  <2>1. ServeTypeOK'
    BY <1>1 DEF AskedToStop, ServeTypeOK, main, servers
  <2>2. Stages' /\ Loops' /\ Reports'
    BY <1>1 DEF AskedToStop, Stages, Loops, Reports, main, servers, Ended
  <2> QED  BY <2>1, <2>2
<1>2. CASE Dies
  <2>1. ServeTypeOK'
    BY <1>2 DEF Dies, ServeTypeOK, Order
  <2>2. Stages' /\ Loops' /\ Reports'
    BY <1>2 DEF Dies, Stages, Loops, Reports, Server
  <2> QED  BY <2>1, <2>2
<1>3. CASE UNCHANGED vars
  <2>1. UNCHANGED <<stage, prepared, held, enabled, cancelled, asked, pc, loop, errCh, runErr>>
    BY <1>3 DEF vars, main, servers
  <2> QED  BY <2>1 DEF ServeTypeOK, Stages, Loops, Reports, Ended
<1> QED  BY <1>1, <1>2, <1>3, MainKeeps, ServersKeep DEF Next

THEOREM ServeInvariant == Spec => []ServeInv
BY ServeStart, ServeStep, PTL DEF Spec

(* A process that began to stop although nobody had asked it to returns,   *)
(* if it does, the error of a server that did fail (RunServices).          *)
THEOREM FailureAlwaysTold == Spec => FailureTold
<1> DEFINE stopsAlone == stage = "wait" /\ ~asked
           keepsError ==
             \/ stage = "dead"
             \/ /\ stage \in {"wait", "closing", "returned"}
                /\ runErr \in Server /\ pc[runErr] = "done" /\ loop[runErr] = "failed"
           told == stage = "returned" => runErr \in Server /\ loop[runErr] = "failed"
<1>1. ServeInv /\ stopsAlone => keepsError
  BY DEF ServeInv, Stages, Reports
<1>2. ServeInv /\ keepsError /\ [Next]_vars => keepsError'
  <2> SUFFICES ASSUME ServeInv, keepsError, [Next]_vars  PROVE keepsError'
    OBVIOUS
  <2>1. CASE UNCHANGED vars
    BY <2>1 DEF vars, main, servers
  <2>2. CASE Main
    BY <2>2 DEF Main, PrepareDatabase, Acquire, OpenDatabase, OpenCache, OpenKernel, Opens,
                RepositoriesFail, Launch, Select, Wait, Close, servers
  <2>3. ASSUME NEW s \in Server, Run(s) \/ LoopFails(s) \/ LoopEnds(s)
        PROVE  keepsError'
    <3>1. /\ UNCHANGED <<stage, runErr>>
          /\ pc \in [Server -> {"off", "begin", "serve", "stop", "report", "done"}]
          /\ loop \in [Server -> {"idle", "serving", "ended", "failed"}]
      BY <2>3 DEF ServeInv, ServeTypeOK, Run, Begin, Serve, StopHTTP, StopMetrics, StopGRPC,
                  GracefulStopGRPC, StopTimerGRPC, Report, LoopFails, LoopEnds, Goes, main
    <3>2. \A r \in Server : pc[r] = "done" /\ loop[r] = "failed" =>
                            pc'[r] = "done" /\ loop'[r] = "failed"
      BY <2>3, <3>1 DEF Run, Begin, Serve, StopHTTP, StopMetrics, StopGRPC, GracefulStopGRPC,
                        StopTimerGRPC, Report, LoopFails, LoopEnds, Goes
    <3> QED  BY <3>1, <3>2
  <2>4. CASE AskedToStop
    BY <2>4 DEF AskedToStop, main, servers
  <2>5. CASE Dies
    BY <2>5 DEF Dies
  <2> QED  BY <2>1, <2>2, <2>3, <2>4, <2>5 DEF Next
<1>3. keepsError => told
  OBVIOUS
<1>4. Spec => [](stopsAlone => []told)
  <2> HIDE DEF stopsAlone, keepsError, told
  <2> QED  BY <1>1, <1>2, <1>3, ServeInvariant, PTL DEF Spec
<1> QED  BY <1>4 DEF FailureTold

-----------------------------------------------------------------------------
(* The promise of RunServices. *)

(* The abstract life sees nothing of a step that moves no server in or out *)
(* and opens and closes nothing, beyond the trouble that stops them.       *)
LEMMA QuietStep ==
  ASSUME ServeInv, UNCHANGED <<stage, held>>, Troubled => Troubled',
         \A s \in Server : Ended(s)' <=> Ended(s)
  PROVE  [Life!Next]_(Life!vars)
<1>1. {s \in Server : ~Ended(s)}' = {s \in Server : ~Ended(s)}
  OBVIOUS
<1>2. (Len(held) = Len(Order))' <=> Len(held) = Len(Order)
  BY DEF Order
<1>3. Phase' = Phase \/ (Phase = "serving" /\ Phase' = "stopping")
  BY DEF Phase
<1> QED  BY <1>1, <1>2, <1>3 DEF Life!Next, Life!Trouble, Life!vars

LEMMA MainImplements ==
  ASSUME ServeInv, ServeInv', Main
  PROVE  [Life!Next]_(Life!vars)
<1> DEFINE running == {s \in Server : ~Ended(s)}
           ready == Len(held) = Len(Order)
<1>0. Len(Order) = 3
  BY DEF Order
<1>1. ASSUME UNCHANGED <<servers, stage, held>>, cancelled => cancelled'
      PROVE  [Life!Next]_(Life!vars)
  BY <1>1, QuietStep DEF servers, Ended, Troubled
<1>2. ASSUME UNCHANGED servers  PROVE running' = running
  BY <1>2 DEF servers, Ended
<1>3. CASE PrepareDatabase
  <2>1. held = <<>> /\ held' = held /\ ready' = ready /\ running' = running
    BY <1>2, <1>3 DEF PrepareDatabase, ServeInv, Stages, Order
  <2>2. Phase = "starting" /\ Phase' \in {"starting", "closing"}
    BY <1>3 DEF PrepareDatabase, Phase
  <2> QED  BY <2>1, <2>2 DEF Life!Next, Life!GiveUp, Life!vars
<1>4. ASSUME NEW n \in 1 .. 3, Opens(n)  PROVE [Life!Next]_(Life!vars)
  <2>1. held \in Seq({"database", "cache", "kernel"}) /\ Len(held) = n - 1
    BY <1>4 DEF Opens, ServeInv, ServeTypeOK
  <2>2. ~ready /\ running' = running /\ Phase = "starting"
    BY <1>0, <1>2, <1>4, <2>1 DEF Opens, Phase
  <2>3. CASE stage' = stage
    BY <2>2, <2>3 DEF Life!Next, Life!Open, Life!vars, Phase, Opens
  <2>4. CASE stage' = "closing" /\ UNCHANGED held
    <3>1. ready' = ready /\ Phase' = "closing"
      BY <2>4 DEF Phase, Order
    <3> QED  BY <2>2, <3>1 DEF Life!Next, Life!GiveUp
  <2> QED  BY <1>4, <2>3, <2>4 DEF Opens
<1>5. CASE RepositoriesFail
  <2>1. ready' = ready /\ running' = running /\ Phase = "starting" /\ Phase' = "closing"
    BY <1>2, <1>5 DEF RepositoriesFail, Phase, Order
  <2> QED  BY <2>1 DEF Life!Next, Life!GiveUp
<1>6. CASE Launch
  <2>1. ready /\ ready' /\ Phase = "starting" /\ Phase' = "serving"
    BY <1>6 DEF Launch, Phase, Troubled, Order, ServeInv, Stages
  <2>2. "http" \in Server /\ "http" \in enabled
    BY DEF ServeInv, ServeTypeOK, Server
  <2>3. "http" \in running' /\ running' \subseteq Server
    BY <1>6, <2>2 DEF Launch, Ended
  <2> HIDE DEF running, ready
  <2>4. Life!Launch
    BY <2>1, <2>3 DEF Life!Launch, running, ready
  <2> QED  BY <2>4 DEF Life!Next
<1>7. CASE Select
  <2>1. ready' = ready /\ running' = running
    BY <1>2, <1>7 DEF Select, Order
  <2>2. Phase \in {"serving", "stopping"} /\ Phase' = "stopping"
    BY <1>7 DEF Select, Phase, Troubled
  <2> QED  BY <2>1, <2>2 DEF Life!Next, Life!Trouble, Life!vars
<1>8. CASE Wait
  <2>1. ready' = ready /\ running' = running /\ running = {}
    BY <1>2, <1>8 DEF Wait, Order
  <2>2. Phase = "stopping" /\ Phase' = "closing"
    BY <1>8 DEF Wait, Phase, Troubled, ServeInv, Stages
  <2> QED  BY <2>1, <2>2 DEF Life!Next, Life!Close
<1>9. CASE Close
  <2>1. held \in Seq({"database", "cache", "kernel"}) /\ Len(held) <= 3
    BY <1>0 DEF ServeInv, ServeTypeOK
  <2>2. running' = running /\ Phase = "closing"
    BY <1>2, <1>9 DEF Close, Phase
  <2>3. CASE held = <<>>
    <3>1. ~ready /\ ready' = ready /\ Phase' = "ended"
      BY <1>0, <1>9, <2>3 DEF Close, Phase
    <3> QED  BY <2>2, <3>1 DEF Life!Next, Life!End
  <2>4. CASE held # <<>>
    <3>1. ~ready' /\ Phase' = "closing"
      BY <1>0, <1>9, <2>1, <2>4, FrontShorter DEF Close, Phase
    <3> QED  BY <2>2, <3>1 DEF Life!Next, Life!Release, Life!vars
  <2> QED  BY <2>3, <2>4
<1> QED  BY <1>3, <1>4, <1>5, <1>6, <1>7, <1>8, <1>9
     DEF Main, Acquire, OpenDatabase, OpenCache, OpenKernel

(* A server leaves only when all are to stop.                              *)
LEMMA ServersImplement ==
  ASSUME ServeInv, ServeInv', NEW s \in Server, Run(s) \/ LoopFails(s) \/ LoopEnds(s)
  PROVE  [Life!Next]_(Life!vars)
<1> DEFINE running == {r \in Server : ~Ended(r)}
<1>1. /\ pc \in [Server -> {"off", "begin", "serve", "stop", "report", "done"}]
      /\ loop \in [Server -> {"idle", "serving", "ended", "failed"}]
  BY DEF ServeInv, ServeTypeOK
<1>2. /\ pc[s] = "begin" => loop[s] = "idle"
      /\ pc[s] = "stop" => cancelled
      /\ pc[s] = "report" => cancelled \/ loop[s] = "failed"
      /\ loop[s] = "ended" => cancelled
  BY DEF ServeInv, Loops
<1>3. UNCHANGED <<stage, held, cancelled>>
  BY DEF Run, Begin, Serve, StopHTTP, StopMetrics, StopGRPC, GracefulStopGRPC,
         StopTimerGRPC, Report, LoopFails, LoopEnds, Goes, main
<1>4. \A r \in Server : r # s => pc'[r] = pc[r] /\ loop'[r] = loop[r]
  BY <1>1 DEF Run, Begin, Serve, StopHTTP, StopMetrics, StopGRPC, GracefulStopGRPC,
              StopTimerGRPC, Report, LoopFails, LoopEnds, Goes
<1>5. cancelled \/ (loop[s] = "failed" => loop'[s] = "failed")
  BY <1>1, <1>2 DEF Run, Begin, Serve, StopHTTP, StopMetrics, StopGRPC, GracefulStopGRPC,
              StopTimerGRPC, Report, LoopFails, LoopEnds, Goes
<1>6. Troubled => Troubled'
  BY <1>3, <1>4, <1>5 DEF Troubled
<1>7. \/ Ended(s)' <=> Ended(s)
      \/ ~Ended(s) /\ Ended(s)' /\ Troubled
  BY <1>1, <1>2 DEF Run, Begin, Serve, StopHTTP, StopMetrics, StopGRPC, GracefulStopGRPC,
              StopTimerGRPC, Report, LoopFails, LoopEnds, Goes, Ended, Troubled
<1>8. CASE Ended(s)' <=> Ended(s)
  <2>1. \A r \in Server : Ended(r)' <=> Ended(r)
    BY <1>4, <1>8 DEF Ended
  <2> QED  BY <1>3, <1>6, <2>1, QuietStep
<1>9. CASE ~Ended(s) /\ Ended(s)' /\ Troubled
  <2>1. \A r \in Server : r # s => (Ended(r)' <=> Ended(r))
    BY <1>4 DEF Ended
  <2>2. s \in running /\ running' = running \ {s}
    BY <1>9, <2>1
  <2>3. stage \in {"select", "wait"}
    BY <1>9 DEF ServeInv, ServeTypeOK, Stages, Ended
  <2>4. Phase = "stopping" /\ Phase' = "stopping"
    BY <1>3, <1>6, <1>9, <2>3 DEF Phase
  <2>5. (Len(held) = Len(Order))' <=> Len(held) = Len(Order)
    BY <1>3 DEF Order
  <2>6. Life!Leave(s)
    BY <2>2, <2>4, <2>5 DEF Life!Leave
  <2> QED  BY <2>6 DEF Life!Next
<1> QED  BY <1>7, <1>8, <1>9

LEMMA OutsideImplements ==
  ASSUME ServeInv, ServeInv', AskedToStop \/ Dies \/ UNCHANGED vars
  PROVE  [Life!Next]_(Life!vars)
<1>1. CASE AskedToStop
  BY <1>1, QuietStep DEF AskedToStop, main, servers, Ended, Troubled
<1>2. CASE Dies
  <2>1. "http" \in Server /\ Len(Order) = 3
    BY DEF Server, Order
  <2>2. pc["http"] \notin {"off", "done"}
    BY <1>2, <2>1 DEF Dies, ServeInv, ServeTypeOK, Loops
  <2>3. stage \in {"select", "wait"}
    BY <2>1, <2>2 DEF ServeInv, ServeTypeOK, Stages, Ended
  <2>4. Phase \in {"serving", "stopping"} /\ Phase' = "ended"
    BY <1>2, <2>3 DEF Dies, Phase
  <2>5. {r \in Server : ~Ended(r)}' = {}
    BY <1>2 DEF Dies, Ended
  <2>6. ~(Len(held) = Len(Order))'
    BY <1>2, <2>1 DEF Dies
  <2> QED  BY <2>4, <2>5, <2>6 DEF Life!Next, Life!Die
<1>3. CASE UNCHANGED vars
  BY <1>3, QuietStep DEF vars, main, servers, Ended, Troubled
<1> QED  BY <1>1, <1>2, <1>3

(* RunServices keeps what the comment over it says: the servers run on     *)
(* resources that are all open, stop together, and the resources are given *)
(* back after the last of them has ended.                                  *)
THEOREM ImplementsLifecycle == Spec => LifecycleSpec
<1>1. Init => Life!Init
  BY DEF Init, Life!Init, Phase, Ended, Order
<1>2. ServeInv /\ ServeInv' /\ [Next]_vars => [Life!Next]_(Life!vars)
  BY MainImplements, ServersImplement, OutsideImplements DEF Next
<1> QED  BY <1>1, <1>2, ServeInvariant, PTL DEF Spec, LifecycleSpec, Life!Spec
=============================================================================
