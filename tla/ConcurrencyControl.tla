------------------------- MODULE ConcurrencyControl -------------------------
(***************************************************************************)
(* ConcurrencyControlService                                               *)
(* (packages/cli/src/concurrency/concurrency-control.service.ts) with its  *)
(* two queues, driven by callers that reserve and release capacity the way *)
(* ConcurrencyCapacityReservation does: throttle, then, once let through,  *)
(* one release; or, while still waiting, one remove.                       *)
(***************************************************************************)
EXTENDS ConcurrencyQueue

CONSTANTS
  Callers,           \* executions and evaluation cases that ask for capacity
  ModeOf,            \* the queue getQueue selects for a caller, or "none"
  ProductionLimit,   \* executions.concurrency.productionLimit
  EvaluationLimit,   \* executions.concurrency.evaluationLimit
  LicenseLimit       \* what resolveEvaluationConcurrencyLimit gives at first use

Types == {"production", "evaluation"}

ASSUME CallersFinite == IsFiniteSet(Callers)
ASSUME ModeOfType == ModeOf \in [Callers -> Types \cup {"none"}]
ASSUME LimitsType ==
  /\ ProductionLimit \in Int \ {0}
  /\ EvaluationLimit \in Int \ {0}
  /\ LicenseLimit \in Int \ {0}

VARIABLES
  isEnabled,           \* the service flag
  evalQueueResolved,   \* the evaluation limit was settled
  created,             \* the keys of the `queues` map
  queues,              \* the queue objects (meaningful for created types)
  waiting,             \* callers whose throttle promise is pending
  passed,              \* callers that got through and have not released yet
  slots,               \* the callers in `passed` that were counted by a queue
  shuttingDown         \* disable() was called

vars == <<isEnabled, evalQueueResolved, created, queues, waiting, passed,
          slots, shuttingDown>>

normaliseLimit(limit) == IF limit < -1 THEN -1 ELSE limit

(* The limit a created queue was constructed with. *)
LimitOf(t) ==
  IF t = "production" THEN ProductionLimit
  ELSE IF normaliseLimit(EvaluationLimit) > 0 THEN EvaluationLimit
  ELSE LicenseLimit

Of(t, S) == {c \in S : ModeOf[c] = t}

EagerTypes ==
  {t \in Types : normaliseLimit(IF t = "production" THEN ProductionLimit
                                ELSE EvaluationLimit) > 0}

(***************************************************************************)
(* The constructor, in regular mode (in queue mode the service stays       *)
(* disabled and every operation returns at once).                          *)
(***************************************************************************)
Init ==
  /\ created = EagerTypes
  /\ queues = [t \in Types |-> NewQueue(LimitOf(t))]
  /\ evalQueueResolved = ("evaluation" \in EagerTypes)
  /\ isEnabled = (EagerTypes # {})
  /\ waiting = {}
  /\ passed = {}
  /\ slots = {}
  /\ shuttingDown = FALSE

(***************************************************************************)
(* ensureEvalQueueResolved: on the first use in evaluation mode, build the *)
(* evaluation queue from the license limit and enable the service.         *)
(***************************************************************************)
ResolvesEval(c) == ModeOf[c] = "evaluation" /\ ~evalQueueResolved

EnsuredTypes(c) ==
  IF ResolvesEval(c) /\ normaliseLimit(LicenseLimit) > 0
  THEN created \cup {"evaluation"} ELSE created

EnsuredEnabled(c) ==
  isEnabled \/ (ResolvesEval(c) /\ normaliseLimit(LicenseLimit) > 0)

EnsureEvalQueueResolved(c) ==
  /\ evalQueueResolved' = (evalQueueResolved \/ ModeOf[c] = "evaluation")
  /\ created' = EnsuredTypes(c)
  /\ isEnabled' = EnsuredEnabled(c)

(* `if (!this.isEnabled || this.isUnlimited(mode)) return`, negated. *)
Applies(c) == EnsuredEnabled(c) /\ ModeOf[c] \in EnsuredTypes(c)

(***************************************************************************)
(* throttle: pass at once when no limit applies, otherwise join the queue. *)
(***************************************************************************)
Throttle(c) ==
  /\ c \notin waiting \cup passed
  /\ EnsureEvalQueueResolved(c)
  /\ IF ~Applies(c)
     THEN /\ passed' = passed \cup {c}
          /\ UNCHANGED <<queues, waiting, slots>>
     ELSE LET q == queues[ModeOf[c]]
          IN  /\ queues' = [queues EXCEPT ![ModeOf[c]] = Enqueue(q, c)]
              /\ IF MustWait(q)
                 THEN /\ waiting' = waiting \cup {c}
                      /\ UNCHANGED <<passed, slots>>
                 ELSE /\ passed' = passed \cup {c}
                      /\ slots' = slots \cup {c}
                      /\ UNCHANGED waiting
  /\ UNCHANGED shuttingDown

(* The callers in R have their throttle promise resolved. *)
LetThrough(R) == waiting' = waiting \ R

(***************************************************************************)
(* release: dequeue by mode, whoever calls; a caller that was never        *)
(* counted by the queue increments the counter all the same.               *)
(***************************************************************************)
Release(c) ==
  /\ c \in passed
  /\ EnsureEvalQueueResolved(c)
  /\ IF ~Applies(c)
     THEN /\ passed' = passed \ {c}
          /\ slots' = slots \ {c}
          /\ UNCHANGED <<queues, waiting>>
     ELSE LET q == queues[ModeOf[c]]
          IN  /\ queues' = [queues EXCEPT ![ModeOf[c]] = Dequeue(q)]
              /\ LetThrough(Resolved(q))
              /\ passed' = (passed \ {c}) \cup Resolved(q)
              /\ slots' = (slots \ {c}) \cup Resolved(q)
  /\ UNCHANGED shuttingDown

(***************************************************************************)
(* remove: a waiting caller gives up (its promise never resolves).  While  *)
(* the service is disabled the caller stays in the list.                   *)
(***************************************************************************)
RemoveCaller(c) ==
  /\ c \in waiting
  /\ EnsureEvalQueueResolved(c)
  /\ Applies(c)
  /\ LET q == queues[ModeOf[c]]
         R == RemoveResolves(q, c)
     IN  /\ queues' = [queues EXCEPT ![ModeOf[c]] = Remove(q, c)]
         /\ waiting' = waiting \ ({c} \cup R)
         /\ passed' = passed \cup R
         /\ slots' = slots \cup R
  /\ UNCHANGED shuttingDown

(* disable, called first of all by ActiveExecutions.shutdown. *)
Disable ==
  /\ ~shuttingDown
  /\ shuttingDown' = TRUE
  /\ isEnabled' = FALSE
  /\ UNCHANGED <<evalQueueResolved, created, queues, waiting, passed, slots>>

Next ==
  \/ \E c \in Callers : Throttle(c) \/ Release(c) \/ RemoveCaller(c)
  \/ Disable

(***************************************************************************)
(* Every execution that got through ends some day (the engine's timeout),  *)
(* so its capacity is released; nobody has to give up or to shut down.     *)
(***************************************************************************)
Fairness == \A c \in Callers : WF_vars(Release(c))

Spec == Init /\ [][Next]_vars

FairSpec == Spec /\ Fairness

-----------------------------------------------------------------------------
(***************************************************************************)
(* Properties.                                                             *)
(***************************************************************************)

(* The type invariant of the service's fields and of the callers. *)
TypeOK ==
  /\ isEnabled \in BOOLEAN
  /\ evalQueueResolved \in BOOLEAN
  /\ shuttingDown \in BOOLEAN
  /\ created \subseteq Types
  /\ queues \in [Types -> [capacity : Int, queue : Seq(Callers)]]
  /\ waiting \subseteq Callers
  /\ passed \subseteq Callers
  /\ slots \subseteq passed

(* Until shutdown the counter of every queue is the limit minus the callers *)
(* it let through minus the callers it keeps waiting: no interleaving of    *)
(* enqueue, dequeue and remove leaks or invents capacity.                   *)
Accounting ==
  ~shuttingDown =>
    \A t \in created :
      queues[t].capacity =
        LimitOf(t) - Cardinality(Of(t, slots)) - Len(queues[t].queue)

(* Nobody waits in a queue while one of its slots is idle. *)
WorkConserving ==
  ~shuttingDown =>
    \A t \in created :
      queues[t].queue # <<>> => Cardinality(Of(t, slots)) >= LimitOf(t)

(* What the configuration promises: "Max production executions allowed to  *)
(* run concurrently" (executions.config.ts:19).  The code breaks it:       *)
(* removing a waiting execution lets the next one through although no      *)
(* running one has finished.                                               *)
LimitRespected ==
  ~shuttingDown => \A t \in created : Cardinality(Of(t, slots)) <= LimitOf(t)

(* A step raises the number of let-through callers beyond the limit. *)
OverAdmits(t) ==
  /\ ~shuttingDown'
  /\ Cardinality(Of(t, slots')) > LimitOf(t)
  /\ Cardinality(Of(t, slots')) > Cardinality(Of(t, slots))

(* The one way past the limit: a step that raises the number of let-through *)
(* callers of a queue beyond its limit is a remove of a waiting caller;     *)
(* enqueue and dequeue never do it.                                         *)
OverAdmissionOnlyByRemove ==
  [][\A t \in created :
       OverAdmits(t) =>
         \E c \in Of(t, waiting) : c \notin waiting' \cup passed']_vars

Before(s, x, y) == \E i, j \in DOMAIN s : i < j /\ s[i] = x /\ s[j] = y

(* First come, first served: a caller that joins a queue comes behind all  *)
(* who wait there already, and nobody is let through while a caller that   *)
(* came earlier keeps waiting.                                             *)
FirstComeFirstServed ==
  [][\A t \in Types : \A x \in Of(t, waiting) \cap waiting' :
       /\ \A y \in Of(t, waiting' \ waiting) : Before(queues'[t].queue, x, y)
       /\ \A y \in Of(t, waiting \cap passed') : Before(queues[t].queue, y, x)
    ]_vars

(* A waiting caller is let through, gives up, or the process shuts down. *)
NoStarvation ==
  \A c \in Callers : (c \in waiting) ~> (c \notin waiting \/ shuttingDown)
=============================================================================
