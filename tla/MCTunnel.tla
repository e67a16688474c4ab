------------------------------ MODULE MCTunnel ------------------------------
(***************************************************************************)
(* The instance of Tunnel for TLC: a head of two units, two more of the    *)
(* client and one of the backend.                                          *)
(***************************************************************************)
EXTENDS Tunnel

SomeUnits == [p \in Peers |-> IF p = "client" THEN 4 ELSE 3]
=============================================================================
