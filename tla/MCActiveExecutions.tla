------------------------ MODULE MCActiveExecutions ------------------------
(* Instances of ActiveExecutions for TLC. *)
EXTENDS ActiveExecutions, TLC

CONSTANTS e1, e2, e3

One == {e1}
Two == {e1, e2}
Nobody == {}
=============================================================================
