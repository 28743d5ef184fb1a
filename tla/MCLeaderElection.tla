-------------------------- MODULE MCLeaderElection --------------------------
(* Instances of LeaderElection for TLC: the hosts are interchangeable for    *)
(* safety; the liveness run does without symmetry.                           *)
EXTENDS LeaderElection, TLC

CONSTANTS h1, h2, h3

MCHosts == {h1, h2, h3}
=============================================================================
