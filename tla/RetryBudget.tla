---------------------------- MODULE RetryBudget ----------------------------
(***************************************************************************)
(* LoadBalancer with a history variable: how often each backend has been   *)
(* brought back to life by a scan since a connection to it last succeeded. *)
(***************************************************************************)
EXTENDS LoadBalancer

VARIABLE revivals

RetryInit ==
  /\ Init
  /\ revivals = [b \in Backends |-> 0]

Count ==
  revivals' = [b \in Backends |->
                 IF \E r \in Requests : pc[r] = "opened" /\ pc'[r] = "exchange" /\ backend[r] = b
                 THEN 0
                 ELSE IF b \in dead \ dead' THEN revivals[b] + 1 ELSE revivals[b]]

RetryNext == Next /\ Count

RetrySpec == RetryInit /\ [][RetryNext]_<<vars, revivals>>

(***************************************************************************)
(* What the comments of AliveState::Dead ("retries remaining",             *)
(* reverse_proxy.rs:300) and of its last branch ("Keep backend dead", 402) *)
(* say: a backend that never answers is brought back to life at most       *)
(* lb_retries times.                                                       *)
(***************************************************************************)
RevivalsAreBounded ==
  \A b \in Backends : revivals[b] <= config.lb_retries
=============================================================================
