------------------------------- MODULE Serve -------------------------------
(***************************************************************************)
(* The life of one `znp serve` process: the database is prepared on a      *)
(* connection of its own, NewServiceContext opens the resources one after  *)
(* the other, RunServices starts up to three servers in goroutines, waits  *)
(* for the first error or for the cancellation of their context, then for  *)
(* all of them, and Cleanup closes the resources.                          *)
(*                                                                         *)
(* Of the three servers (net/http, go-zero, gRPC) the model has when they  *)
(* stop serving: net/http and gRPC when they fail or are stopped, go-zero  *)
(* when the process gets a signal, and at no word of the code.             *)
(***************************************************************************)
EXTENDS Naturals, Sequences, SequencesExt

Server == {"http", "metrics", "grpc"}

\* The resources of a ServiceContext in the order it opens them.
Order == <<"database", "cache", "kernel">>

\* Room in errCh.
ErrCap == 3

VARIABLES
  stage,      \* the main goroutine
  prepared,   \* is the connection that prepares the database open?
  held,       \* the resources of the ServiceContext that are open
  enabled,    \* the servers of the configuration
  cancelled,  \* is runCtx done?
  asked,      \* has the process been asked to stop by a signal?
  pc,         \* runHTTPServer, runMetricsServer, runGRPCServer
  loop,       \* what each of them serves in: server.Start, ListenAndServe, Serve
  errCh,      \* the errors the servers have reported
  runErr      \* what RunServices returns

main == <<stage, prepared, held>>
servers == <<pc, loop>>
vars == <<stage, prepared, held, enabled, cancelled, asked, pc, loop, errCh, runErr>>

Init ==
  /\ stage = "prepare" /\ prepared = FALSE /\ held = <<>>
  /\ enabled \in {{"http"} \cup s : s \in SUBSET {"metrics", "grpc"}}
  /\ cancelled = FALSE /\ asked = FALSE
  /\ pc = [s \in Server |-> "off"]
  /\ loop = [s \in Server |-> "idle"]
  /\ errCh = <<>> /\ runErr = "none"

-----------------------------------------------------------------------------
(* The main goroutine. *)

\* Migrations and demo data, before anything of the service is open; the
\* flags may ask for neither, and each may fail.
PrepareDatabase ==
  /\ stage = "prepare"
  /\ \/ ~prepared /\ prepared' = TRUE /\ UNCHANGED <<stage, runErr>>
     \/ prepared' = FALSE /\ stage' = "acquire" /\ UNCHANGED runErr
     \/ prepared' = FALSE /\ stage' = "closing" /\ runErr' = "prepare"
  /\ UNCHANGED <<held, enabled, cancelled, asked, servers, errCh>>

\* The next resource is the nth; where it cannot be opened, those before it
\* are closed.
Opens(n) ==
  /\ stage = "acquire" /\ Len(held) = n - 1
  /\ \/ held' = Append(held, Order[n]) /\ UNCHANGED <<stage, runErr>>
     \/ stage' = "closing" /\ runErr' = "init" /\ UNCHANGED held
  /\ UNCHANGED <<prepared, enabled, cancelled, asked, servers, errCh>>

OpenDatabase == Opens(1)
OpenCache == Opens(2)
OpenKernel == Opens(3)

\* The repositories hold nothing of their own.
RepositoriesFail ==
  /\ stage = "acquire" /\ Len(held) = Len(Order)
  /\ stage' = "closing" /\ runErr' = "init"
  /\ UNCHANGED <<prepared, held, enabled, cancelled, asked, servers, errCh>>

Acquire == OpenDatabase \/ OpenCache \/ OpenKernel \/ RepositoriesFail

\* wg.Add comes before each go statement: the wait below counts a server
\* that has not begun to run.
Launch ==
  /\ stage = "acquire" /\ Len(held) = Len(Order)
  /\ stage' = "select"
  /\ pc' = [s \in Server |-> IF s \in enabled THEN "begin" ELSE "off"]
  /\ UNCHANGED <<prepared, held, enabled, cancelled, asked, loop, errCh, runErr>>

\* Mutant: the case of the error does not keep it.
SelectForgets ==
  /\ stage = "select" /\ stage' = "wait"
  /\ \/ cancelled /\ UNCHANGED <<cancelled, errCh>>
     \/ errCh # <<>> /\ errCh' = Tail(errCh) /\ cancelled' = TRUE
  /\ UNCHANGED <<prepared, held, enabled, asked, servers, runErr>>

\* Mutant: the case of the error does not call cancel.
SelectGoesOn ==
  /\ stage = "select" /\ stage' = "wait"
  /\ \/ cancelled /\ UNCHANGED <<errCh, runErr>>
     \/ errCh # <<>> /\ runErr' = Head(errCh) /\ errCh' = Tail(errCh)
  /\ UNCHANGED <<prepared, held, enabled, cancelled, asked, servers>>

\* Of a context that is done and an error that waits, select takes either.
Select ==
  /\ stage = "select" /\ stage' = "wait"
  /\ \/ cancelled /\ UNCHANGED <<cancelled, errCh, runErr>>
     \/ /\ errCh # <<>>
        /\ runErr' = Head(errCh) /\ errCh' = Tail(errCh)
        /\ cancelled' = TRUE
  /\ UNCHANGED <<prepared, held, enabled, asked, servers>>

Ended(s) == pc[s] \in {"off", "done"}

\* Mutant: each goroutine does its own wg.Add.
WaitForBegun ==
  /\ stage = "wait" /\ \A s \in Server : Ended(s) \/ pc[s] = "begin"
  /\ stage' = "closing"
  /\ UNCHANGED <<prepared, held, enabled, cancelled, asked, servers, errCh, runErr>>

Wait ==
  /\ stage = "wait" /\ \A s \in Server : Ended(s)
  /\ stage' = "closing"
  /\ UNCHANGED <<prepared, held, enabled, cancelled, asked, servers, errCh, runErr>>

\* Cleanup, and what NewServiceContext undoes when it fails: the last
\* resource opened is the first closed.
Close ==
  /\ stage = "closing"
  /\ IF held = <<>> THEN stage' = "returned" /\ UNCHANGED held
                    ELSE held' = Front(held) /\ UNCHANGED stage
  /\ UNCHANGED <<prepared, enabled, cancelled, asked, servers, errCh, runErr>>

Main == PrepareDatabase \/ Acquire \/ Launch \/ Select \/ Wait \/ Close

-----------------------------------------------------------------------------
(* The servers. *)

Goes(s, p, l) ==
  /\ pc' = [pc EXCEPT ![s] = p] /\ loop' = [loop EXCEPT ![s] = l]
  /\ UNCHANGED <<main, enabled, cancelled, asked, errCh, runErr>>

\* The gRPC server listens before it serves, and may fail there.
Begin(s) ==
  /\ pc[s] = "begin"
  /\ \/ Goes(s, "serve", "serving")
     \/ s = "grpc" /\ Goes(s, "report", "failed")

\* server.Start of the HTTP server has no error to report: where it returns,
\* runHTTPServer returns nil. The others report what their goroutine sent.
Serve(s) ==
  /\ pc[s] = "serve"
  /\ \/ cancelled /\ Goes(s, "stop", loop[s])
     \/ loop[s] = "ended" /\ Goes(s, "done", "ended")
     \/ loop[s] = "failed" /\ Goes(s, "report", "failed")

\* <-done.  The server.Stop before it only closes go-zero's logs: what the
\* server serves in goes on unless a signal ends it.
StopHTTP ==
  /\ pc["http"] = "stop" /\ loop["http"] = "ended"
  /\ Goes("http", "done", "ended")

\* Shutdown gives the requests it waits for five seconds; then what the
\* goroutine sent, if it had failed before, is the error of the server.
StopMetrics ==
  /\ pc["metrics"] = "stop"
  /\ \/ Goes("metrics", "report", loop["metrics"])
     \/ loop["metrics"] = "ended" /\ Goes("metrics", "done", "ended")
     \/ loop["metrics"] = "failed" /\ Goes("metrics", "report", "failed")

GracefulStopGRPC ==
  /\ pc["grpc"] = "stop" /\ loop["grpc"] \in {"ended", "failed"}
  /\ Goes("grpc", "done", loop["grpc"])

\* GracefulStop waits for every open stream; after five seconds Stop does not.
StopTimerGRPC ==
  /\ pc["grpc"] = "stop"
  /\ Goes("grpc", "done", "ended")

StopGRPC == GracefulStopGRPC \/ StopTimerGRPC

Report(s) ==
  /\ pc[s] = "report" /\ Len(errCh) < ErrCap
  /\ errCh' = Append(errCh, s)
  /\ pc' = [pc EXCEPT ![s] = "done"]
  /\ UNCHANGED <<main, enabled, cancelled, asked, loop, runErr>>

Run(s) ==
  \/ Begin(s) \/ Serve(s) \/ Report(s)
  \/ s = "http" /\ StopHTTP
  \/ s = "metrics" /\ StopMetrics
  \/ s = "grpc" /\ StopGRPC

-----------------------------------------------------------------------------
(* The libraries and the world outside. *)

LoopFails(s) ==
  /\ s # "http" /\ loop[s] = "serving"
  /\ Goes(s, pc[s], "failed")

\* Shutdown and GracefulStop make a server stop serving.  The HTTP server
\* stops by a listener of its own, at the signal and then only.
LoopEnds(s) ==
  /\ loop[s] = "serving"
  /\ \/ s = "http" /\ asked
     \/ s # "http" /\ pc[s] = "stop"
  /\ Goes(s, pc[s], "ended")

\* go-zero calls the shutdown listeners when a signal comes.  The parent
\* context is the background context in both commands: nobody cancels it.
AskedToStop ==
  /\ ~asked /\ stage \in {"select", "wait"}
  /\ asked' = TRUE /\ cancelled' = TRUE
  /\ UNCHANGED <<main, enabled, servers, errCh, runErr>>

\* rest.MustNewServer ends the process when the HTTP server cannot be set up,
\* and so does server.Start, which panics where it cannot listen or go on;
\* and so does go-zero, by the signal, where the server goes on too long.
Dies ==
  /\ pc["http"] = "begin" \/ loop["http"] = "serving"
  /\ stage' = "dead" /\ held' = <<>>
  /\ pc' = [s \in Server |-> "off"] /\ loop' = [s \in Server |-> "idle"]
  /\ UNCHANGED <<prepared, enabled, cancelled, asked, errCh, runErr>>

Next ==
  \/ Main
  \/ \E s \in Server : Run(s) \/ LoopFails(s) \/ LoopEnds(s)
  \/ AskedToStop \/ Dies

\* Goroutines go on. The metrics server ends once stopped, the HTTP server,
\* or the process with it, after a signal; nothing is assumed of the HTTP
\* server that was stopped without one, nor of GracefulStop, which only the
\* timer bounds.
Fairness ==
  /\ WF_vars(Main)
  /\ \A s \in Server : WF_vars(Run(s))
  /\ WF_vars(LoopEnds("metrics"))
  /\ WF_vars(asked /\ (LoopEnds("http") \/ Dies))

Spec == Init /\ [][Next]_vars /\ Fairness

-----------------------------------------------------------------------------
(* Properties. *)

\* A process that stops its servers although nobody asked it to tells why:
\* when it returns in the end, be it by a signal that came later, it returns
\* the error of a server that did fail, however the failures of the others,
\* the cancellation and the waiting fall together.
FailureTold ==
  [](stage = "wait" /\ ~asked =>
       [](stage = "returned" => runErr \in Server /\ loop[runErr] = "failed"))

Troubled == cancelled \/ \E s \in Server : loop[s] = "failed"

Phase ==
  CASE stage \in {"prepare", "acquire"} -> "starting"
    [] stage \in {"select", "wait"} -> IF Troubled THEN "stopping" ELSE "serving"
    [] stage = "closing" -> "closing"
    [] OTHER -> "ended"

Life == INSTANCE Lifecycle WITH
  Service <- Server,
  phase   <- Phase,
  running <- {s \in Server : ~Ended(s)},
  ready   <- Len(held) = Len(Order)

\* RunServices keeps its comment: nothing serves before every resource is
\* open or after one is closed, and a server leaves only when all are to.
LifecycleSpec == Life!Spec

\* A process that got a signal ends: no server is stuck reporting its error,
\* and no open stream of gRPC holds it up (the shutdown listener).
SignalEnds == asked ~> Phase = "ended"

\* The first failure stops the metrics and the gRPC server, whatever becomes of
\* the HTTP server: RunServices cancels, and none is stuck reporting.
OthersStop == Troubled ~> \A s \in Server \ {"http"} : Ended(s)

\* Once a server has failed or the process was asked to stop, it ends and gives
\* its resources back, as the comment over RunServices says.  It does not: no
\* one but a signal stops the HTTP server, and <-done waits for it.
Ends == Life!StopEnds
=============================================================================
