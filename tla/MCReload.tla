------------------------------ MODULE MCReload ------------------------------
(***************************************************************************)
(* Instances of Reload for TLC: one port that every configuration serves   *)
(* and one that comes and goes.                                            *)
(***************************************************************************)
EXTENDS Reload, TLC

Says(load, one, two) == [load |-> load, port |-> (80 :> one @@ 443 :> two)]

Serves(two) == Says("ok", "good", two)
Broken      == Says("error", "absent", "absent")
Panics      == Says("panic", "absent", "absent")

AllContents   == {Serves("good"), Serves("absent"), Serves("bad_cert"), Broken, Panics}
\* For Ports = {80}.
OnePortContents == {[load |-> l, port |-> (80 :> "good")] : l \in {"ok", "error", "panic"}}
CertContents  == {Serves("good"), Serves("bad_cert")}
PortContents  == {Serves("good"), Serves("absent")}
=============================================================================
