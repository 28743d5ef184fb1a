---------------------------- MODULE MCEvalFanOut ----------------------------
(* Instances of EvalFanOut for TLC. *)
EXTENDS EvalFanOut, TLC

CONSTANTS t1, t2, t3

TwoRuns == {t1, t2}
ThreeRuns == {t1, t2, t3}
=============================================================================
