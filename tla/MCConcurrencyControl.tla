------------------------ MODULE MCConcurrencyControl ------------------------
(* Small instances of ConcurrencyControl: three production callers, two      *)
(* evaluation cases and one manual execution, which no queue limits.        *)
EXTENDS ConcurrencyControl, TLC

CONSTANTS p1, p2, p3, e1, e2, m1

MCCallers == {p1, p2, p3, e1, e2, m1}

MCModeOf ==
  (p1 :> "production") @@ (p2 :> "production") @@ (p3 :> "production")
    @@ (e1 :> "evaluation") @@ (e2 :> "evaluation") @@ (m1 :> "none")

(* The value of an evaluation limit that is left to the license tier. *)
Unset == -1
=============================================================================
