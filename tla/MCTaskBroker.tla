---------------------------- MODULE MCTaskBroker ----------------------------
(* Instances of TaskBroker for TLC. *)
EXTENDS TaskBroker, TLC

CONSTANTS r1, r2, n1, n2

TwoRequests == {r1, r2}
TwoRunners == {n1, n2}
Launched == (n1 :> n2) @@ (n2 :> None)
TwoRunnersOffer == (n1 :> 2) @@ (n2 :> 1)
BothModes == {"internal", "external"}
=============================================================================
