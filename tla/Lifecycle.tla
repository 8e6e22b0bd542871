----------------------------- MODULE Lifecycle -----------------------------
(***************************************************************************)
(* What RunServices promises of one process: its services run on resources *)
(* that are all open, when one of them fails or the process is asked to    *)
(* stop all of them stop, and the resources are given back after the last  *)
(* has stopped (the comment over RunServices, cmd/znp/cli/serve_api.go).   *)
(***************************************************************************)
CONSTANT Service

VARIABLES
  phase,    \* where the process is in its life
  running,  \* the services that have been launched and have not ended
  ready     \* are all the resources of the process open?

vars == <<phase, running, ready>>

Init == phase = "starting" /\ running = {} /\ ready = FALSE

Open == phase = "starting" /\ ~ready /\ ready' = TRUE /\ UNCHANGED <<phase, running>>

GiveUp == phase = "starting" /\ phase' = "closing" /\ UNCHANGED <<running, ready>>

\* The services start together, on resources that are open.
Launch ==
  /\ phase = "starting" /\ ready
  /\ phase' = "serving"
  /\ running' \in (SUBSET Service) \ {{}}
  /\ UNCHANGED ready

Trouble == phase = "serving" /\ phase' = "stopping" /\ UNCHANGED <<running, ready>>

Leave(s) ==
  /\ phase = "stopping" /\ s \in running
  /\ running' = running \ {s}
  /\ UNCHANGED <<phase, ready>>

Close == phase = "stopping" /\ running = {} /\ phase' = "closing" /\ UNCHANGED <<running, ready>>

Release == phase = "closing" /\ ready /\ ready' = FALSE /\ UNCHANGED <<phase, running>>

End == phase = "closing" /\ ~ready /\ phase' = "ended" /\ UNCHANGED <<running, ready>>

\* A service that cannot go on may end the process as it stands; the system
\* then takes everything back.
Die ==
  /\ phase \in {"serving", "stopping"}
  /\ phase' = "ended" /\ running' = {} /\ ready' = FALSE

Next ==
  \/ Open \/ GiveUp \/ Launch \/ Trouble
  \/ \E s \in Service : Leave(s)
  \/ Close \/ Release \/ End \/ Die

Spec == Init /\ [][Next]_vars

\* A process that has begun to stop comes to its end.
StopEnds == phase \in {"stopping", "closing"} ~> phase = "ended"
=============================================================================
