--------------------------- MODULE MCWaitTracking ---------------------------
(* Instances of WaitTracking for TLC. *)
EXTENDS WaitTracking

CONSTANTS h1, h2, e1, e2, p1, p2

OneHost == {h1}
TwoHosts == {h1, h2}
OneExecution == {e1}
TwoExecutions == {e1, e2}
OnePoll == {p1}
TwoPolls == {p1, p2}
Nothing == {}
=============================================================================
