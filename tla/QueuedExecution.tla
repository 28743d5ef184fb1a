-------------------------- MODULE QueuedExecution --------------------------
(***************************************************************************)
(* What queue mode promises about an execution: it is run at most once,    *)
(* whoever enqueued it is answered at most once, and is told of a success  *)
(* only when the run is over.                                              *)
(***************************************************************************)
CONSTANT Executions

VARIABLES
  phase,   \* of each execution: "idle", "pending", "running", "over"
  answer   \* what its caller was told: "none", "open" while it waits, or a status

vars == <<phase, answer>>

Answers == {"success", "error", "canceled", "crashed", "rejected", "lost"}

Init ==
  /\ phase = [e \in Executions |-> "idle"]
  /\ answer = [e \in Executions |-> "none"]

Submit(e) ==
  /\ phase[e] = "idle"
  /\ phase' = [phase EXCEPT ![e] = "pending"]
  /\ answer' = [answer EXCEPT ![e] = "open"]

Start(e) ==
  /\ phase[e] = "pending"
  /\ phase' = [phase EXCEPT ![e] = "running"]
  /\ UNCHANGED answer

(* A run ends, or an execution that was pending is given up. *)
End(E) ==
  /\ \A e \in E : phase[e] \in {"pending", "running"}
  /\ phase' = [e \in Executions |-> IF e \in E THEN "over" ELSE phase[e]]
  /\ UNCHANGED answer

Answer(e, a) ==
  /\ answer[e] = "open"
  /\ a = "success" => phase[e] = "over"
  /\ answer' = [answer EXCEPT ![e] = a]
  /\ UNCHANGED phase

Next ==
  \/ \E e \in Executions : Submit(e) \/ Start(e) \/ \E a \in Answers : Answer(e, a)
  \/ \E E \in SUBSET Executions : End(E)

Spec == Init /\ [][Next]_vars
=============================================================================
