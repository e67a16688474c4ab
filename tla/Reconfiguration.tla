-------------------------- MODULE Reconfiguration --------------------------
(***************************************************************************)
(* What an operator may rely on when a running cblt is given new           *)
(* configurations (src/src/main.rs): a register that may skip versions but *)
(* never goes back to an older one, never takes one that does not load,    *)
(* and, when the process was down, starts with what is on disk.            *)
(***************************************************************************)
EXTENDS Naturals

VARIABLES
  valid,    \* the versions that load
  written,  \* the version on disk
  pending,  \* the version that is applied next
  serving,  \* the version that was applied last
  up        \* the process is running

vars == <<valid, written, pending, serving, up>>

Init ==
  /\ 0 \in valid
  /\ written = 0 /\ pending = 0 /\ serving = 0
  /\ up = TRUE

Write ==
  /\ written' = written + 1
  /\ UNCHANGED <<valid, pending, serving, up>>

\* The next version is the pending one or a newer one; some are never seen.
Advance == \E v \in valid : /\ pending <= v /\ v <= written
                            /\ pending' = v

Notice ==
  /\ up
  /\ Advance
  /\ UNCHANGED <<valid, written, serving, up>>

Apply ==
  /\ up
  /\ serving' = pending
  /\ Advance
  /\ UNCHANGED <<valid, written, up>>

Stop ==
  /\ up
  /\ up' = FALSE
  /\ pending' = 0 /\ serving' = 0
  /\ UNCHANGED <<valid, written>>

Boot ==
  /\ ~up
  /\ written \in valid
  /\ up' = TRUE
  /\ pending' = written
  /\ UNCHANGED <<valid, written, serving>>

Next == Write \/ Notice \/ Apply \/ Stop \/ Boot

Spec == Init /\ [][Next]_vars
=============================================================================
