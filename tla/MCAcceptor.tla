----------------------------- MODULE MCAcceptor -----------------------------
(***************************************************************************)
(* The instance of Acceptor for TLC; Acceptor.cfg gives its constants.     *)
(* Clients are not interchangeable here: fairness is stated for each.      *)
(***************************************************************************)
EXTENDS Acceptor
=============================================================================
