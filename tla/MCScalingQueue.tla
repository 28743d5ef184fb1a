--------------------------- MODULE MCScalingQueue ---------------------------
(* Instances of ScalingQueue for TLC. *)
EXTENDS ScalingQueue, TLC

CONSTANTS e1, e2, w1, w2

OneExecution == {e1}
TwoExecutions == {e1, e2}
OneWorker == {w1}
TwoWorkers == {w1, w2}
=============================================================================
