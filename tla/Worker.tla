------------------------------- MODULE Worker -------------------------------
(***************************************************************************)
(* What the supervisor may assume of a ServerWorker (src/src/server.rs):   *)
(* once spawned it opens its port or fails; it holds an open port until it *)
(* is told to stop, whatever its connections do; and once told, it gives   *)
(* the port back.                                                          *)
(***************************************************************************)
VARIABLES
  phase,  \* "starting", "listening" or "gone"
  told    \* the supervisor has dropped it from its map

Init == phase = "starting" /\ told = FALSE

Open == phase = "starting" /\ phase' = "listening" /\ UNCHANGED told
Fail == phase = "starting" /\ phase' = "gone" /\ UNCHANGED told
Tell == ~told /\ told' = TRUE /\ UNCHANGED phase
Shut == phase = "listening" /\ told /\ phase' = "gone" /\ UNCHANGED told

Next == Open \/ Fail \/ Tell \/ Shut

Safe == Init /\ [][Next]_<<phase, told>>

Spec == Safe /\ WF_<<phase, told>>(Open \/ Fail) /\ WF_<<phase, told>>(Shut)
=============================================================================
