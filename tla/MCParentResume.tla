--------------------------- MODULE MCParentResume ---------------------------
(* Instances of ParentResume for TLC. *)
EXTENDS ParentResume
=============================================================================
