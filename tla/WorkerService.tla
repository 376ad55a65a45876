---------------------------- MODULE WorkerService ----------------------------
(***************************************************************************)
(* What a supervised group of workers promises to whoever runs it: it      *)
(* stops only when it was told to, it is down only after its last worker   *)
(* has ended, and no worker runs afterwards.                               *)
(***************************************************************************)
CONSTANT Workers

VARIABLES phase,  \* "up", "stopping" (told to stop) or "down" (Run returned)
          live    \* workers that run, or wait to be run again

vars == <<phase, live>>

\* A service that was ended before is down from the start.
Init == phase \in {"up", "stopping", "down"} /\ live = {}

Work ==
    /\ phase # "down"
    /\ live' \in SUBSET Workers
    /\ UNCHANGED phase

Stop ==
    /\ phase = "up"
    /\ phase' = "stopping"
    /\ UNCHANGED live

GoDown ==
    /\ phase = "stopping"
    /\ live = {}
    /\ phase' = "down"
    /\ UNCHANGED live

Next == Work \/ Stop \/ GoDown

Safety == Init /\ [][Next]_vars

Spec == Safety /\ (phase = "stopping" ~> phase = "down")
=============================================================================
