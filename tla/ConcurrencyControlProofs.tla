---------------------- MODULE ConcurrencyControlProofs ----------------------
(***************************************************************************)
(* Proofs about ConcurrencyControl, for any finite set of callers and any  *)
(* limits: the counters never leak or invent capacity before shutdown, no  *)
(* slot idles while somebody waits, and only `remove` exceeds a limit.     *)
(***************************************************************************)
EXTENDS ConcurrencyControl, ConcurrencyQueueLemmas, FiniteSetTheorems

(***************************************************************************)
(* The strengthening that makes Accounting inductive: the lists and the    *)
(* set `waiting` agree, a type without a queue has no traffic through it,  *)
(* and, until shutdown, whoever passed a queue was counted by it.          *)
(***************************************************************************)
ListsMatch ==
  /\ \A t \in Types : Distinct(queues[t])
  /\ \A t \in Types : Waiting(queues[t]) = Of(t, waiting)
  /\ waiting \cap passed = {}

Untouched ==
  /\ \A t \in Types \ created :
       queues[t] = NewQueue(LimitOf(t)) /\ Of(t, slots) = {}
  /\ ~evalQueueResolved =>
       "evaluation" \notin created /\ Of("evaluation", passed) = {}

Counted ==
  ~shuttingDown =>
    /\ \A t \in created : Of(t, passed) = Of(t, slots)
    /\ created # {} => isEnabled

IInv ==
  /\ TypeOK
  /\ ListsMatch
  /\ Untouched
  /\ Counted
  /\ Accounting
  /\ WorkConserving

(* Every limit is an integer, whether configured or from the license. *)
LEMMA LimitInt == \A t \in Types : LimitOf(t) \in Int
BY LimitsType DEF LimitOf, Types

(* A subset of the callers of one type is finite, so adding or removing a  *)
(* caller moves its cardinality by exactly one.                            *)
LEMMA CountCallers ==
  ASSUME NEW A, A \subseteq Callers
  PROVE  /\ Cardinality(A) \in Nat
         /\ \A c \in Callers \ A : Cardinality(A \cup {c}) = Cardinality(A) + 1
         /\ \A c \in A : Cardinality(A \ {c}) = Cardinality(A) - 1
<1>1. IsFiniteSet(A)
  BY CallersFinite, FS_Subset
<1> QED BY <1>1, FS_CardinalityType, FS_AddElement, FS_RemoveElement

(* The constructor establishes the invariant. *)
LEMMA InitInv == Init => IInv
<1> SUFFICES ASSUME Init PROVE IInv
  OBVIOUS
<1>0. /\ created = EagerTypes /\ created \subseteq Types
      /\ waiting = {} /\ passed = {} /\ slots = {} /\ ~shuttingDown
      /\ DOMAIN queues = Types /\ shuttingDown \in BOOLEAN
  BY DEF Init, EagerTypes
<1>1. ASSUME NEW t \in Types
      PROVE  /\ queues[t] = NewQueue(LimitOf(t))
             /\ queues[t].queue = <<>> /\ queues[t].capacity = LimitOf(t)
             /\ queues[t] \in [capacity : Int, queue : Seq(Callers)]
             /\ Of(t, slots) = {} /\ Of(t, passed) = {} /\ Of(t, waiting) = {}
             /\ Len(queues[t].queue) = 0
  <2>1. queues[t] = NewQueue(LimitOf(t))
    BY DEF Init
  <2>2. /\ queues[t].queue = <<>> /\ queues[t].capacity = LimitOf(t)
        /\ queues[t] \in [capacity : Int, queue : Seq(Callers)]
    BY <2>1, LimitInt, EmptySeq DEF NewQueue
  <2> QED BY <2>1, <2>2, <1>0 DEF Of
<1>2. TypeOK
  <2>1. queues \in [Types -> [capacity : Int, queue : Seq(Callers)]]
    <3>1. queues = [t \in Types |-> queues[t]]
      BY DEF Init
    <3> QED BY <1>1, <3>1
  <2>2. isEnabled \in BOOLEAN /\ evalQueueResolved \in BOOLEAN
    <3>1. CASE EagerTypes = {}
      BY <3>1 DEF Init
    <3>2. CASE "evaluation" \in EagerTypes
      BY <3>2 DEF Init
    <3>3. CASE EagerTypes # {} /\ "evaluation" \notin EagerTypes
      BY <3>3 DEF Init
    <3> QED BY <3>1, <3>2, <3>3
  <2> QED BY <2>1, <2>2, <1>0 DEF TypeOK
<1>3. ListsMatch
  BY <1>0, <1>1 DEF ListsMatch, Distinct, Waiting
<1>4. Untouched
  <2>1. ~evalQueueResolved => "evaluation" \notin created
    BY <1>0 DEF Init
  <2> QED BY <1>0, <1>1, <2>1 DEF Untouched, Types
<1>5. Counted
  BY <1>0, <1>1 DEF Counted, Init
<1>6. Accounting
  <2>1. ASSUME NEW t \in created
        PROVE  queues[t].capacity =
                 LimitOf(t) - Cardinality(Of(t, slots)) - Len(queues[t].queue)
    <3>1. Cardinality({}) = 0
      BY FS_EmptySet
    <3>2. LimitOf(t) \in Int
      BY <1>0, LimitInt
    <3>3. Cardinality(Of(t, slots)) = 0 /\ Len(queues[t].queue) = 0
      BY <1>0, <1>1, <3>1
    <3>4. queues[t].capacity = LimitOf(t)
      BY <1>0, <1>1
    <3> QED BY <3>2, <3>3, <3>4
  <2> QED BY <2>1 DEF Accounting
<1>7. WorkConserving
  BY <1>0, <1>1 DEF WorkConserving
<1> QED BY <1>2, <1>3, <1>4, <1>5, <1>6, <1>7 DEF IInv

(***************************************************************************)
(* What ensureEvalQueueResolved leaves behind for the rest of the          *)
(* operation: a queue created now is fresh and nobody has passed it.       *)
(***************************************************************************)
Balanced(t) ==
  /\ Of(t, passed) = Of(t, slots)
  /\ queues[t].capacity =
       LimitOf(t) - Cardinality(Of(t, slots)) - Len(queues[t].queue)
  /\ queues[t].queue # <<>> => Cardinality(Of(t, slots)) >= LimitOf(t)

(* What the first evaluation call leaves behind: at most the evaluation    *)
(* queue is new, and it is empty.                                          *)
LEMMA EnsureFacts ==
  ASSUME IInv, NEW c \in Callers, EnsureEvalQueueResolved(c)
  PROVE  /\ created' \subseteq Types /\ created \subseteq created'
         /\ isEnabled' \in BOOLEAN /\ evalQueueResolved' \in BOOLEAN
         /\ \A t \in Types \ created' :
              queues[t] = NewQueue(LimitOf(t)) /\ Of(t, slots) = {}
         /\ ~evalQueueResolved' =>
              /\ "evaluation" \notin created'
              /\ Of("evaluation", passed) = {}
              /\ ModeOf[c] # "evaluation"
         /\ ~shuttingDown =>
              /\ \A t \in created' : Balanced(t)
              /\ created' # {} => isEnabled'
         /\ Applies(c) <=> (isEnabled' /\ ModeOf[c] \in created')
<1>1. CASE ResolvesEval(c) /\ normaliseLimit(LicenseLimit) > 0
  <2>1. /\ created' = created \cup {"evaluation"} /\ isEnabled'
        /\ isEnabled' \in BOOLEAN /\ EnsuredEnabled(c)
        /\ evalQueueResolved' /\ evalQueueResolved' \in BOOLEAN
        /\ EnsuredTypes(c) = created'
    BY <1>1 DEF EnsureEvalQueueResolved, EnsuredTypes, EnsuredEnabled, ResolvesEval
  <2>2. /\ "evaluation" \in Types \ created
        /\ Of("evaluation", passed) = {} /\ Of("evaluation", slots) = {}
        /\ queues["evaluation"] = NewQueue(LimitOf("evaluation"))
    BY <1>1 DEF IInv, Untouched, ResolvesEval, Types, TypeOK
  <2>3. Balanced("evaluation")
    <3>1. /\ queues["evaluation"].queue = <<>>
          /\ queues["evaluation"].capacity = LimitOf("evaluation")
          /\ Len(<<>>) = 0
      BY <2>2 DEF NewQueue
    <3>2. Cardinality({}) = 0
      BY FS_EmptySet
    <3>3. LimitOf("evaluation") \in Int
      BY LimitInt, <2>2
    <3>4. /\ Cardinality(Of("evaluation", slots)) = 0
          /\ Len(queues["evaluation"].queue) = 0
      BY <2>2, <3>1, <3>2
    <3>5. queues["evaluation"].capacity =
            LimitOf("evaluation") - Cardinality(Of("evaluation", slots))
              - Len(queues["evaluation"].queue)
      BY <3>1, <3>3, <3>4
    <3>6. Of("evaluation", passed) = Of("evaluation", slots)
      BY <2>2
    <3> QED BY <3>1, <3>5, <3>6 DEF Balanced
  <2>4. ~shuttingDown => \A t \in created : Balanced(t)
    BY DEF IInv, Counted, Accounting, WorkConserving, Balanced
  <2> QED BY <2>1, <2>2, <2>3, <2>4 DEF IInv, TypeOK, Untouched, Applies
<1>2. CASE ~(ResolvesEval(c) /\ normaliseLimit(LicenseLimit) > 0)
  <2>1. created' = created /\ EnsuredTypes(c) = created
    BY <1>2 DEF EnsureEvalQueueResolved, EnsuredTypes
  <2>2. isEnabled' = isEnabled /\ (EnsuredEnabled(c) <=> isEnabled)
    <3>1. EnsuredEnabled(c) <=> isEnabled
      BY <1>2 DEF EnsuredEnabled
    <3>2. isEnabled' = EnsuredEnabled(c) /\ isEnabled \in BOOLEAN
      BY DEF EnsureEvalQueueResolved, IInv, TypeOK
    <3>3. EnsuredEnabled(c) \in BOOLEAN
      BY DEF EnsuredEnabled
    <3> QED BY <3>1, <3>2, <3>3
  <2>3. /\ evalQueueResolved' \in BOOLEAN
        /\ ~evalQueueResolved' => ~evalQueueResolved /\ ModeOf[c] # "evaluation"
    BY DEF EnsureEvalQueueResolved
  <2>4. ~shuttingDown => \A t \in created : Balanced(t)
    BY DEF IInv, Counted, Accounting, WorkConserving, Balanced
  <2> QED BY <2>1, <2>2, <2>3, <2>4
          DEF IInv, TypeOK, Untouched, Applies, Counted
<1> QED BY <1>1, <1>2

(***************************************************************************)
(* The invariant is re-established once the queue of one type m, and the   *)
(* callers of that type, are updated consistently.                         *)
(***************************************************************************)
LEMMA Reassemble ==
  ASSUME IInv, NEW c \in Callers, EnsureEvalQueueResolved(c),
         UNCHANGED shuttingDown,
         NEW m \in Types, m = ModeOf[c], m \in created',
         NEW r \in QueueOf(Callers), Distinct(r),
         queues' = [queues EXCEPT ![m] = r],
         waiting' \subseteq Callers, passed' \subseteq Callers,
         slots' \subseteq passed', waiting' \cap passed' = {},
         \A t \in Types \ {m} : /\ Of(t, waiting') = Of(t, waiting)
                               /\ Of(t, passed') = Of(t, passed)
                               /\ Of(t, slots') = Of(t, slots),
         Waiting(r) = Of(m, waiting'),
         ~shuttingDown =>
           /\ Of(m, passed') = Of(m, slots')
           /\ r.capacity = LimitOf(m) - Cardinality(Of(m, slots')) - Len(r.queue)
           /\ r.queue # <<>> => Cardinality(Of(m, slots')) >= LimitOf(m)
  PROVE  IInv'
<1>0. TypeOK /\ ListsMatch
  BY DEF IInv
<1>1. /\ queues'[m] = r
      /\ \A t \in Types \ {m} : queues'[t] = queues[t]
      /\ queues' \in [Types -> [capacity : Int, queue : Seq(Callers)]]
  BY <1>0 DEF TypeOK, QueueOf
<1>2. TypeOK'
  BY <1>0, <1>1, EnsureFacts DEF TypeOK
<1>3. ListsMatch'
  BY <1>0, <1>1 DEF ListsMatch
<1>4. Untouched'
  <2>1. \A t \in Types \ created' :
          queues'[t] = NewQueue(LimitOf(t)) /\ Of(t, slots') = {}
    BY <1>1, EnsureFacts
  <2>2. ~evalQueueResolved' =>
          "evaluation" \notin created' /\ Of("evaluation", passed') = {}
    BY <1>1, EnsureFacts DEF Types
  <2> QED BY <2>1, <2>2 DEF Untouched
<1>5. ASSUME ~shuttingDown
      PROVE  /\ \A t \in created' : Balanced(t)'
             /\ created' # {} => isEnabled'
  <2>1. \A t \in created' \ {m} : Balanced(t) /\ t \in Types
    BY <1>5, EnsureFacts
  <2>2. \A t \in created' \ {m} : Balanced(t)'
    BY <2>1, <1>1 DEF Balanced
  <2>3. Balanced(m)'
    BY <1>1, <1>5 DEF Balanced
  <2> QED BY <2>2, <2>3, <1>5, EnsureFacts
<1>6. Counted' /\ Accounting' /\ WorkConserving'
  BY <1>5 DEF Counted, Accounting, WorkConserving, Balanced
<1> QED BY <1>2, <1>3, <1>4, <1>6 DEF IInv

(* The state of the queue of m when an operation of one of its callers     *)
(* starts, as far as the operations need it.                               *)
LEMMA QueueFacts ==
  ASSUME IInv, NEW m \in Types
  PROVE  /\ queues[m] \in QueueOf(Callers)
         /\ queues[m].capacity \in Int
         /\ queues[m].queue \in Seq(Callers)
         /\ Len(queues[m].queue) \in Nat
         /\ (queues[m].queue = <<>>) <=> (Len(queues[m].queue) = 0)
         /\ Distinct(queues[m])
         /\ Waiting(queues[m]) = Of(m, waiting)
         /\ LimitOf(m) \in Int
         /\ Cardinality(Of(m, slots)) \in Nat
<1>1. queues[m] \in QueueOf(Callers)
  BY DEF IInv, TypeOK, QueueOf
<1>2. /\ queues[m].capacity \in Int
      /\ queues[m].queue \in Seq(Callers)
  BY <1>1 DEF QueueOf
<1>3. /\ Len(queues[m].queue) \in Nat
      /\ (queues[m].queue = <<>>) <=> (Len(queues[m].queue) = 0)
  BY <1>2, EmptyList
<1>4. Distinct(queues[m]) /\ Waiting(queues[m]) = Of(m, waiting)
  BY DEF IInv, ListsMatch
<1>5. Of(m, slots) \subseteq Callers
  BY DEF IInv, TypeOK, Of
<1> QED BY <1>1, <1>2, <1>3, <1>4, <1>5, LimitInt, CountCallers

(* An operation to which no limit applies only moves its caller. *)
LEMMA NoLimit ==
  ASSUME IInv, NEW c \in Callers, EnsureEvalQueueResolved(c),
         ~Applies(c), UNCHANGED <<shuttingDown, queues, waiting>>,
         \/ /\ passed' = passed \cup {c} /\ slots' = slots
            /\ c \notin waiting
         \/ passed' = passed \ {c} /\ slots' = slots \ {c}
  PROVE  IInv'
<1> DEFINE m == ModeOf[c]
<1>1. /\ TypeOK /\ ListsMatch
      /\ \A t : t # m => /\ Of(t, passed') = Of(t, passed)
                         /\ Of(t, slots') = Of(t, slots)
  BY DEF IInv, Of
<1>2. TypeOK'
  BY <1>1, EnsureFacts DEF TypeOK
<1>3. ListsMatch'
  BY <1>1 DEF ListsMatch, TypeOK
<1>4. Untouched'
  <2>1. \A t \in Types : Of(t, slots') \subseteq Of(t, slots)
    BY DEF Of
  <2>2. \A t \in Types \ created' :
          queues'[t] = NewQueue(LimitOf(t)) /\ Of(t, slots') = {}
    BY <2>1, EnsureFacts
  <2>3. ~evalQueueResolved' =>
          "evaluation" \notin created' /\ Of("evaluation", passed') = {}
    BY <1>1, EnsureFacts
  <2> QED BY <2>2, <2>3 DEF Untouched
<1>5. ASSUME ~shuttingDown
      PROVE  /\ \A t \in created' : Balanced(t)'
             /\ created' # {} => isEnabled'
  <2>1. /\ \A t \in created' : Balanced(t)
        /\ created' # {} => isEnabled'
        /\ m \notin created'
    BY <1>5, EnsureFacts
  <2>2. \A t \in created' : Balanced(t)'
    BY <2>1, <1>1 DEF Balanced
  <2> QED BY <2>1, <2>2
<1>6. Counted' /\ Accounting' /\ WorkConserving'
  BY <1>5 DEF Counted, Accounting, WorkConserving, Balanced
<1> QED BY <1>2, <1>3, <1>4, <1>6 DEF IInv

(* throttle preserves the invariant: the counter goes down by the caller   *)
(* that is let through or joins the list.                                  *)
LEMMA ThrottleInv ==
  ASSUME IInv, NEW c \in Callers, Throttle(c)
  PROVE  IInv'
<1>0. /\ EnsureEvalQueueResolved(c) /\ UNCHANGED shuttingDown
      /\ c \notin waiting /\ c \notin passed
  BY DEF Throttle
<1>1. CASE ~Applies(c)
  BY <1>0, <1>1, NoLimit DEF Throttle
<1>2. CASE Applies(c)
  <2> DEFINE m == ModeOf[c]
             q == queues[m]
             r == Enqueue(q, c)
  <2>1. m \in Types /\ m \in created'
    BY <1>0, <1>2, EnsureFacts
  <2>2. /\ q \in QueueOf(Callers) /\ q.capacity \in Int
        /\ Len(q.queue) \in Nat /\ (q.queue = <<>> <=> Len(q.queue) = 0)
        /\ Distinct(q) /\ Waiting(q) = Of(m, waiting)
        /\ LimitOf(m) \in Int /\ Cardinality(Of(m, slots)) \in Nat
    BY <2>1, QueueFacts
  <2>3. c \notin Waiting(q)
    BY <1>0, <2>2 DEF Of
  <2>4. /\ r \in QueueOf(Callers) /\ Distinct(r)
        /\ r.capacity = q.capacity - 1
        /\ MustWait(q) => /\ Len(r.queue) = Len(q.queue) + 1
                         /\ Waiting(r) = Waiting(q) \cup {c}
        /\ ~MustWait(q) => r.queue = q.queue
    BY <2>2, <2>3, EnqueueFacts
  <2>5. queues' = [queues EXCEPT ![m] = r]
    BY <1>2 DEF Throttle
  <2>6. ~shuttingDown =>
          /\ Of(m, passed) = Of(m, slots)
          /\ q.capacity = LimitOf(m) - Cardinality(Of(m, slots)) - Len(q.queue)
          /\ q.queue # <<>> => Cardinality(Of(m, slots)) >= LimitOf(m)
    BY <1>0, <2>1, EnsureFacts DEF Balanced
  <2>7. /\ waiting \subseteq Callers /\ passed \subseteq Callers
        /\ slots \subseteq passed /\ waiting \cap passed = {}
    BY DEF IInv, TypeOK, ListsMatch
  <2>m. m = ModeOf[c] /\ (MustWait(q) <=> q.capacity - 1 < 0)
    BY DEF MustWait
  <2> HIDE DEF m, q, r
  <2>8. CASE MustWait(q)
    <3>1. waiting' = waiting \cup {c} /\ passed' = passed /\ slots' = slots
      BY <1>2, <2>8 DEF Throttle, m, q
    <3>2. Of(m, waiting') = Of(m, waiting) \cup {c}
      BY <3>1, <2>m DEF Of
    <3>3. \A t \in Types \ {m} : Of(t, waiting') = Of(t, waiting)
      BY <3>1, <2>m DEF Of
    <3>4. ~shuttingDown =>
            /\ r.capacity = LimitOf(m) - Cardinality(Of(m, slots)) - Len(r.queue)
            /\ Cardinality(Of(m, slots)) >= LimitOf(m)
      BY <2>2, <2>4, <2>6, <2>8, <2>m
    <3> QED
      BY <1>0, <2>1, <2>2, <2>4, <2>5, <2>6, <2>7, <2>8, <2>m, <3>1, <3>2,
         <3>3, <3>4, Reassemble
  <2>9. CASE ~MustWait(q)
    <3>1. /\ waiting' = waiting /\ passed' = passed \cup {c}
          /\ slots' = slots \cup {c}
      BY <1>2, <2>9 DEF Throttle, m, q
    <3>2. /\ Of(m, passed') = Of(m, passed) \cup {c}
          /\ Of(m, slots') = Of(m, slots) \cup {c}
      BY <3>1, <2>m DEF Of
    <3>3. \A t \in Types \ {m} : /\ Of(t, passed') = Of(t, passed)
                                 /\ Of(t, slots') = Of(t, slots)
      BY <3>1, <2>m DEF Of
    <3>4. Cardinality(Of(m, slots')) = Cardinality(Of(m, slots)) + 1
      BY <1>0, <2>7, <3>2, <2>m, CountCallers DEF Of
    <3>5. Waiting(r) = Waiting(q)
      BY <2>4, <2>9 DEF Waiting
    <3>6. ~shuttingDown =>
            /\ r.capacity = LimitOf(m) - Cardinality(Of(m, slots')) - Len(r.queue)
            /\ r.queue # <<>> => Cardinality(Of(m, slots')) >= LimitOf(m)
      BY <2>2, <2>4, <2>6, <2>9, <3>4, <2>m
    <3> QED
      BY <1>0, <2>1, <2>2, <2>4, <2>5, <2>6, <2>7, <2>m, <3>1, <3>2, <3>3,
         <3>5, <3>6, Reassemble
  <2> QED BY <2>8, <2>9
<1> QED BY <1>1, <1>2

(* release preserves the invariant: the slot it returns goes to the head   *)
(* of the list, if there is one.                                           *)
LEMMA ReleaseInv ==
  ASSUME IInv, NEW c \in Callers, Release(c)
  PROVE  IInv'
<1>0. /\ EnsureEvalQueueResolved(c) /\ UNCHANGED shuttingDown
      /\ c \in passed
  BY DEF Release
<1>1. CASE ~Applies(c)
  BY <1>0, <1>1, NoLimit DEF Release
<1>2. CASE Applies(c)
  <2> DEFINE m == ModeOf[c]
             q == queues[m]
             r == Dequeue(q)
             R == Resolved(q)
  <2>1. m \in Types /\ m \in created'
    BY <1>0, <1>2, EnsureFacts
  <2>2. /\ q \in QueueOf(Callers) /\ q.capacity \in Int
        /\ Len(q.queue) \in Nat /\ (q.queue = <<>> <=> Len(q.queue) = 0)
        /\ Distinct(q) /\ Waiting(q) = Of(m, waiting)
        /\ LimitOf(m) \in Int /\ Cardinality(Of(m, slots)) \in Nat
    BY <2>1, QueueFacts
  <2>3. /\ r \in QueueOf(Callers) /\ Distinct(r)
        /\ r.capacity = q.capacity + 1
        /\ Waiting(r) = Waiting(q) \ R /\ R \subseteq Waiting(q)
        /\ q.queue = <<>> => R = {} /\ r.queue = <<>>
        /\ q.queue # <<>> => /\ \E h \in Callers : R = {h}
                             /\ Len(r.queue) = Len(q.queue) - 1
    BY <2>2, DequeueFacts
  <2>4. /\ queues' = [queues EXCEPT ![m] = r]
        /\ waiting' = waiting \ R
        /\ passed' = (passed \ {c}) \cup R
        /\ slots' = (slots \ {c}) \cup R
    BY <1>2 DEF Release, LetThrough
  <2>5. ~shuttingDown =>
          /\ Of(m, passed) = Of(m, slots)
          /\ q.capacity = LimitOf(m) - Cardinality(Of(m, slots)) - Len(q.queue)
          /\ q.queue # <<>> => Cardinality(Of(m, slots)) >= LimitOf(m)
    BY <1>0, <2>1, EnsureFacts DEF Balanced
  <2>6. /\ waiting \subseteq Callers /\ passed \subseteq Callers
        /\ slots \subseteq passed /\ waiting \cap passed = {}
    BY DEF IInv, TypeOK, ListsMatch
  <2>7. m = ModeOf[c] /\ R \subseteq waiting /\ \A x \in R : ModeOf[x] = m
    BY <2>2, <2>3 DEF Of
  <2> HIDE DEF m, q, r, R
  <2>8. /\ Of(m, waiting') = Waiting(r)
        /\ Of(m, passed') = (Of(m, passed) \ {c}) \cup R
        /\ Of(m, slots') = (Of(m, slots) \ {c}) \cup R
        /\ \A t \in Types \ {m} : /\ Of(t, waiting') = Of(t, waiting)
                                  /\ Of(t, passed') = Of(t, passed)
                                  /\ Of(t, slots') = Of(t, slots)
    BY <2>2, <2>3, <2>4, <2>7 DEF Of
  <2>9. ASSUME ~shuttingDown
        PROVE  /\ Of(m, passed') = Of(m, slots')
               /\ r.capacity = LimitOf(m) - Cardinality(Of(m, slots')) - Len(r.queue)
               /\ r.queue # <<>> => Cardinality(Of(m, slots')) >= LimitOf(m)
    <3> DEFINE A == Of(m, slots)
    <3>1. c \in A /\ A \subseteq Callers
      BY <1>0, <2>5, <2>6, <2>7, <2>9 DEF Of
    <3>2. Cardinality(A \ {c}) = Cardinality(A) - 1
      BY <3>1, CountCallers
    <3>3. CASE q.queue = <<>>
      <4>1. Of(m, slots') = A \ {c} /\ r.queue = <<>> /\ Len(r.queue) = 0
        BY <2>3, <2>8, <3>3
      <4> HIDE DEF A
      <4>2. /\ q.capacity = LimitOf(m) - Cardinality(A) - Len(q.queue)
            /\ Len(q.queue) = 0 /\ Cardinality(A) \in Nat
        BY <2>2, <2>5, <2>9, <3>3 DEF A
      <4>3. Cardinality(Of(m, slots')) = Cardinality(A) - 1
        BY <3>2, <4>1
      <4>4. Of(m, passed') = Of(m, slots')
        BY <2>5, <2>8, <2>9
      <4>5. r.capacity = q.capacity + 1 /\ LimitOf(m) \in Int
        BY <2>2, <2>3
      <4> QED BY <4>1, <4>2, <4>3, <4>4, <4>5
    <3>4. CASE q.queue # <<>>
      <4>1. PICK h \in Callers : R = {h}
        BY <2>3, <3>4
      <4>2. h \notin A \ {c} /\ Of(m, slots') = (A \ {c}) \cup {h}
        BY <4>1, <2>6, <2>7, <2>8 DEF Of
      <4>3. Cardinality(Of(m, slots')) = Cardinality(A)
        <5>1. Cardinality((A \ {c}) \cup {h}) = Cardinality(A \ {c}) + 1
          BY <3>1, <4>2, CountCallers
        <5> QED BY <5>1, <4>2, <3>2, <2>2
      <4> HIDE DEF A
      <4>4. Len(r.queue) = Len(q.queue) - 1
        BY <2>3, <3>4
      <4>5. q.capacity = LimitOf(m) - Cardinality(A) - Len(q.queue)
            /\ Cardinality(A) >= LimitOf(m) /\ Cardinality(A) \in Nat
        BY <2>2, <2>5, <2>9, <3>4 DEF A
      <4>6. Of(m, passed') = Of(m, slots')
        BY <2>5, <2>8, <2>9
      <4> QED BY <2>2, <2>3, <4>3, <4>4, <4>5, <4>6
    <3> QED BY <3>3, <3>4
  <2>10. /\ waiting' \subseteq Callers /\ passed' \subseteq Callers
         /\ slots' \subseteq passed' /\ waiting' \cap passed' = {}
    BY <2>4, <2>6, <2>7
  <2> QED
    BY <1>0, <2>1, <2>3, <2>4, <2>7, <2>8, <2>9, <2>10, Reassemble
<1> QED BY <1>1, <1>2

(* remove preserves the invariant: two callers leave the list, one of them *)
(* into a slot, and the counter goes up by one.                            *)
LEMMA RemoveInv ==
  ASSUME IInv, NEW c \in Callers, RemoveCaller(c)
  PROVE  IInv'
<1> DEFINE m == ModeOf[c]
           q == queues[m]
           r == Remove(q, c)
           R == RemoveResolves(q, c)
<1>0. /\ EnsureEvalQueueResolved(c) /\ UNCHANGED shuttingDown
      /\ c \in waiting /\ Applies(c)
  BY DEF RemoveCaller
<1>1. m \in Types /\ m \in created'
  BY <1>0, EnsureFacts
<1>2. /\ q \in QueueOf(Callers) /\ q.capacity \in Int
      /\ Len(q.queue) \in Nat /\ (q.queue = <<>> <=> Len(q.queue) = 0)
      /\ Distinct(q) /\ Waiting(q) = Of(m, waiting)
      /\ LimitOf(m) \in Int /\ Cardinality(Of(m, slots)) \in Nat
  BY <1>1, QueueFacts
<1>3. Has(q, c)
  BY <1>0, <1>2 DEF Has, Of
<1>4. /\ r \in QueueOf(Callers) /\ Distinct(r)
      /\ r.capacity = q.capacity + 1
      /\ Waiting(r) = Waiting(q) \ ({c} \cup R)
      /\ R \subseteq Waiting(q) \ {c}
      /\ \/ R = {} /\ Len(q.queue) = 1 /\ r.queue = <<>>
         \/ /\ \E h \in Callers : R = {h}
            /\ Len(q.queue) >= 2 /\ Len(r.queue) = Len(q.queue) - 2
  BY <1>2, <1>3, RemoveFacts
<1>5. /\ queues' = [queues EXCEPT ![m] = r]
      /\ waiting' = waiting \ ({c} \cup R)
      /\ passed' = passed \cup R
      /\ slots' = slots \cup R
  BY DEF RemoveCaller
<1>6. ~shuttingDown =>
        /\ Of(m, passed) = Of(m, slots)
        /\ q.capacity = LimitOf(m) - Cardinality(Of(m, slots)) - Len(q.queue)
        /\ q.queue # <<>> => Cardinality(Of(m, slots)) >= LimitOf(m)
  BY <1>0, <1>1, EnsureFacts DEF Balanced
<1>7. /\ waiting \subseteq Callers /\ passed \subseteq Callers
      /\ slots \subseteq passed /\ waiting \cap passed = {}
  BY DEF IInv, TypeOK, ListsMatch
<1>8. m = ModeOf[c] /\ R \subseteq waiting /\ \A x \in R : ModeOf[x] = m
  BY <1>2, <1>4 DEF Of
<1> HIDE DEF m, q, r, R
<1>9. /\ Of(m, waiting') = Waiting(r)
      /\ Of(m, passed') = Of(m, passed) \cup R
      /\ Of(m, slots') = Of(m, slots) \cup R
      /\ \A t \in Types \ {m} : /\ Of(t, waiting') = Of(t, waiting)
                                /\ Of(t, passed') = Of(t, passed)
                                /\ Of(t, slots') = Of(t, slots)
  BY <1>2, <1>4, <1>5, <1>8 DEF Of
<1>10. ASSUME ~shuttingDown
       PROVE  /\ Of(m, passed') = Of(m, slots')
              /\ r.capacity = LimitOf(m) - Cardinality(Of(m, slots')) - Len(r.queue)
              /\ r.queue # <<>> => Cardinality(Of(m, slots')) >= LimitOf(m)
  <2> DEFINE A == Of(m, slots)
  <2>1. A \subseteq Callers
    BY <1>7 DEF Of
  <2>2. q.queue # <<>>
    <3>1. Waiting(q) # {}
      BY <1>3 DEF Has
    <3> QED BY <3>1 DEF Waiting
  <2>3. /\ q.capacity = LimitOf(m) - Cardinality(A) - Len(q.queue)
        /\ Cardinality(A) >= LimitOf(m) /\ Cardinality(A) \in Nat
    BY <1>2, <1>6, <1>10, <2>2
  <2>4. /\ Of(m, passed') = Of(m, slots')
        /\ r.capacity = q.capacity + 1
        /\ LimitOf(m) \in Int /\ Len(q.queue) \in Nat
    BY <1>2, <1>4, <1>6, <1>9, <1>10
  <2>5. CASE R = {}
    <3>1. /\ Of(m, slots') = A /\ Len(q.queue) = 1
          /\ r.queue = <<>> /\ Len(r.queue) = 0
      BY <1>4, <1>9, <2>5
    <3>2. Cardinality(Of(m, slots')) = Cardinality(A)
      BY <3>1
    <3> HIDE DEF A
    <3> QED BY <2>3, <2>4, <3>1, <3>2
  <2>6. CASE R # {}
    <3>1. PICK h \in Callers : R = {h}
      BY <1>4, <2>6
    <3>2. h \notin A /\ Of(m, slots') = A \cup {h}
      BY <3>1, <1>7, <1>8, <1>9 DEF Of
    <3>3. Cardinality(Of(m, slots')) = Cardinality(A) + 1
      BY <2>1, <3>2, CountCallers
    <3>4. Len(r.queue) = Len(q.queue) - 2
      BY <1>4, <2>6
    <3> HIDE DEF A
    <3>5. r.capacity = LimitOf(m) - (Cardinality(A) + 1) - (Len(q.queue) - 2)
      BY <2>3, <2>4
    <3>6. Cardinality(A) + 1 >= LimitOf(m)
      BY <2>3, <2>4
    <3> QED BY <2>4, <3>3, <3>4, <3>5, <3>6
  <2> QED BY <2>5, <2>6
<1>11. /\ waiting' \subseteq Callers /\ passed' \subseteq Callers
       /\ slots' \subseteq passed' /\ waiting' \cap passed' = {}
  BY <1>5, <1>7, <1>8
<1>12. r \in QueueOf(Callers) /\ Distinct(r)
  BY <1>4
<1> QED
  BY <1>0, <1>1, <1>5, <1>8, <1>9, <1>10, <1>11, <1>12, Reassemble

(* Every step preserves the invariant. *)
LEMMA StepInv == IInv /\ [Next]_vars => IInv'
<1> SUFFICES ASSUME IInv, [Next]_vars PROVE IInv'
  OBVIOUS
<1>1. ASSUME NEW c \in Callers, Throttle(c) PROVE IInv'
  BY <1>1, ThrottleInv
<1>2. ASSUME NEW c \in Callers, Release(c) PROVE IInv'
  BY <1>2, ReleaseInv
<1>3. ASSUME NEW c \in Callers, RemoveCaller(c) PROVE IInv'
  BY <1>3, RemoveInv
<1>4. CASE Disable
  <2>1. UNCHANGED <<evalQueueResolved, created, queues, waiting, passed, slots>>
    BY <1>4 DEF Disable
  <2>2. shuttingDown' /\ shuttingDown' \in BOOLEAN /\ isEnabled' \in BOOLEAN
    BY <1>4 DEF Disable
  <2>3. TypeOK'
    BY <2>1, <2>2 DEF IInv, TypeOK
  <2>4. ListsMatch' /\ Untouched'
    BY <2>1 DEF IInv, ListsMatch, Untouched, Of, Waiting, Distinct
  <2>5. Counted' /\ Accounting' /\ WorkConserving'
    BY <2>2 DEF Counted, Accounting, WorkConserving
  <2> QED BY <2>3, <2>4, <2>5 DEF IInv
<1>5. CASE UNCHANGED vars
  BY <1>5 DEF vars, IInv, TypeOK, ListsMatch, Untouched, Counted, Accounting,
              WorkConserving, Of
<1> QED BY <1>1, <1>2, <1>3, <1>4, <1>5 DEF Next

(* The inductive invariant holds in every reachable state. *)
THEOREM Invariance == Spec => []IInv
BY InitInv, StepInv, PTL DEF Spec

(* The fields of the service and the callers keep their types. *)
THEOREM TypeCorrect == Spec => []TypeOK
<1>1. IInv => TypeOK
  BY DEF IInv
<1> QED BY <1>1, Invariance, PTL

(* Until shutdown no operation leaks or invents capacity: the counter of   *)
(* every queue equals the limit minus who passed it minus who waits in it. *)
THEOREM CapacityIsConserved == Spec => []Accounting
<1>1. IInv => Accounting
  BY DEF IInv
<1> QED BY <1>1, Invariance, PTL

(* Until shutdown nobody waits for a queue that has an idle slot. *)
THEOREM NoIdleSlot == Spec => []WorkConserving
<1>1. IInv => WorkConserving
  BY DEF IInv
<1> QED BY <1>1, Invariance, PTL

(* Before shutdown, the number of callers a queue let through follows from *)
(* its counter and its list.                                               *)
SlotsCounted ==
  IInv /\ ~shuttingDown =>
    \A t \in created :
      /\ t \in Types /\ LimitOf(t) \in Int
      /\ queues[t].capacity \in Int /\ Len(queues[t].queue) \in Nat
      /\ Cardinality(Of(t, slots)) \in Nat
      /\ Cardinality(Of(t, slots)) =
           LimitOf(t) - queues[t].capacity - Len(queues[t].queue)

(* The counter tells the number of callers let through, in a state ... *)
LEMMA SlotsFromCounter == SlotsCounted
<1> SUFFICES ASSUME IInv, ~shuttingDown, NEW t \in created
             PROVE  /\ t \in Types /\ LimitOf(t) \in Int
                    /\ queues[t].capacity \in Int
                    /\ Len(queues[t].queue) \in Nat
                    /\ Cardinality(Of(t, slots)) \in Nat
                    /\ Cardinality(Of(t, slots)) =
                         LimitOf(t) - queues[t].capacity - Len(queues[t].queue)
  BY DEF SlotsCounted
<1>1. t \in Types
  BY DEF IInv, TypeOK
<1>2. /\ LimitOf(t) \in Int /\ queues[t].capacity \in Int
      /\ Len(queues[t].queue) \in Nat /\ Cardinality(Of(t, slots)) \in Nat
  BY <1>1, QueueFacts
<1>3. queues[t].capacity =
        LimitOf(t) - Cardinality(Of(t, slots)) - Len(queues[t].queue)
  BY DEF IInv, Accounting
<1> QED BY <1>1, <1>2, <1>3

(* ... and in the next one. *)
LEMMA SlotsFromCounterNext == SlotsCounted'
BY SlotsFromCounter, PTL

(* A throttle step never over-admits: it lets its caller through only      *)
(* when the counter was positive.                                          *)
LEMMA ThrottleAdmits ==
  ASSUME IInv, NEW c \in Callers, Throttle(c), NEW t \in created
  PROVE  ~OverAdmits(t)
<1> SUFFICES ASSUME OverAdmits(t) PROVE FALSE
  OBVIOUS
<1>0. IInv' /\ ~shuttingDown' /\ ~shuttingDown
  BY ThrottleInv DEF OverAdmits, Throttle
<1>a. /\ t \in Types /\ LimitOf(t) \in Int /\ queues[t].capacity \in Int
      /\ Cardinality(Of(t, slots)) \in Nat
  BY <1>0, SlotsFromCounter DEF SlotsCounted
<1>1. t = ModeOf[c] /\ Applies(c) /\ ~MustWait(queues[t])
  <2>1. Of(t, slots') # Of(t, slots)
    BY <1>a DEF OverAdmits
  <2>2. /\ slots' = slots \cup {c} /\ Applies(c)
        /\ ~MustWait(queues[ModeOf[c]])
    <3>1. slots' # slots
      BY <2>1
    <3> QED BY <3>1 DEF Throttle
  <2>3. ModeOf[c] = t
    BY <2>1, <2>2 DEF Of
  <2> QED BY <2>2, <2>3
<1>2. EnsureEvalQueueResolved(c)
  BY DEF Throttle
<1>3. t \in created'
  BY <1>2, EnsureFacts
<1>4. queues' = [queues EXCEPT ![t] = Enqueue(queues[t], c)]
  BY <1>1 DEF Throttle
<1>5. queues'[t] = Enqueue(queues[t], c)
  BY <1>a, <1>4 DEF IInv, TypeOK
<1>6. queues'[t].capacity = queues[t].capacity - 1
  BY <1>5 DEF Enqueue
<1>7. /\ queues'[t].capacity \in Int /\ Len(queues'[t].queue) \in Nat
      /\ Cardinality(Of(t, slots')) =
           LimitOf(t) - queues'[t].capacity - Len(queues'[t].queue)
  BY <1>0, <1>3, SlotsFromCounterNext DEF SlotsCounted
<1>8. ~(queues[t].capacity - 1 < 0)
  BY <1>1 DEF MustWait
<1>9. Cardinality(Of(t, slots')) > LimitOf(t)
  BY DEF OverAdmits
<1> DEFINE L == LimitOf(t)
           p == queues[t].capacity
           pp == queues'[t].capacity
           nn == Len(queues'[t].queue)
           kk == Cardinality(Of(t, slots'))
<1>10. /\ L \in Int /\ p \in Int /\ pp \in Int /\ nn \in Nat
       /\ pp = p - 1 /\ kk = L - pp - nn /\ ~(p - 1 < 0) /\ kk > L
  BY <1>a, <1>6, <1>7, <1>8, <1>9
<1> HIDE DEF L, p, pp, nn, kk
<1> QED BY <1>10

(* Neither does a release: the head of the list takes over a slot that was *)
(* just given back.                                                        *)
LEMMA ReleaseAdmits ==
  ASSUME IInv, NEW c \in Callers, Release(c), NEW t \in created
  PROVE  ~OverAdmits(t)
<1> SUFFICES ASSUME OverAdmits(t) PROVE FALSE
  OBVIOUS
<1>0. IInv' /\ ~shuttingDown' /\ ~shuttingDown
  BY ReleaseInv DEF OverAdmits, Release
<1>a. /\ t \in Types /\ LimitOf(t) \in Int /\ queues[t].capacity \in Int
      /\ Cardinality(Of(t, slots)) \in Nat /\ Len(queues[t].queue) \in Nat
      /\ Cardinality(Of(t, slots)) =
           LimitOf(t) - queues[t].capacity - Len(queues[t].queue)
  BY <1>0, SlotsFromCounter DEF SlotsCounted
<1>b. t \in created'
  BY EnsureFacts DEF Release
<1>c. /\ queues'[t].capacity \in Int /\ Len(queues'[t].queue) \in Nat
      /\ Cardinality(Of(t, slots')) =
           LimitOf(t) - queues'[t].capacity - Len(queues'[t].queue)
  BY <1>0, <1>b, SlotsFromCounterNext DEF SlotsCounted
<1>d. Cardinality(Of(t, slots')) > Cardinality(Of(t, slots))
  BY DEF OverAdmits
<1>1. CASE queues'[t] = queues[t]
  BY <1>1, <1>a, <1>c, <1>d
<1>2. CASE queues'[t] # queues[t]
  <2>1. queues' = [queues EXCEPT ![ModeOf[c]] = Dequeue(queues[ModeOf[c]])]
    BY <1>2 DEF Release
  <2>2. queues'[t] = Dequeue(queues[t])
    BY <1>2, <1>a, <2>1 DEF IInv, TypeOK
  <2>3. /\ queues[t] \in QueueOf(Callers) /\ Distinct(queues[t])
        /\ (queues[t].queue = <<>>) <=> (Len(queues[t].queue) = 0)
    BY <1>a, QueueFacts
  <2>4. /\ queues'[t].capacity = queues[t].capacity + 1
        /\ queues[t].queue # <<>> =>
             Len(queues'[t].queue) = Len(queues[t].queue) - 1
    BY <2>2, <2>3, DequeueFacts
  <2>5. Len(queues'[t].queue) >= Len(queues[t].queue) - 1
    BY <2>3, <2>4, <1>a, <1>c
  <2> DEFINE L == LimitOf(t)
             p == queues[t].capacity
             n == Len(queues[t].queue)
             k == Cardinality(Of(t, slots))
             pp == queues'[t].capacity
             nn == Len(queues'[t].queue)
             kk == Cardinality(Of(t, slots'))
  <2>6. /\ L \in Int /\ p \in Int /\ n \in Nat /\ k = L - p - n
        /\ pp \in Int /\ nn \in Nat /\ kk = L - pp - nn
    BY <1>a, <1>c
  <2>7. pp = p + 1 /\ nn >= n - 1 /\ kk > k
    BY <2>4, <2>5, <1>d
  <2> HIDE DEF L, p, n, k, pp, nn, kk
  <2> QED BY <2>6, <2>7
<1> QED BY <1>1, <1>2

(* Only remove lets more callers through than the limit of a queue, for    *)
(* any limits and any interleaving of the operations before shutdown.      *)
THEOREM OnlyRemoveOverAdmits == Spec => OverAdmissionOnlyByRemove
<1> DEFINE Gave(t) == \E c \in Of(t, waiting) : c \notin waiting' \cup passed'
<1>1. ASSUME IInv, [Next]_vars
      PROVE  [\A t \in created : OverAdmits(t) => Gave(t)]_vars
  <2> SUFFICES ASSUME Next, NEW t \in created, OverAdmits(t) PROVE Gave(t)
    BY <1>1
  <2>1. ASSUME NEW c \in Callers, Throttle(c) PROVE Gave(t)
    BY <1>1, <2>1, ThrottleAdmits
  <2>2. ASSUME NEW c \in Callers, Release(c) PROVE Gave(t)
    BY <1>1, <2>2, ReleaseAdmits
  <2>3. ASSUME NEW c \in Callers, RemoveCaller(c) PROVE Gave(t)
    <3> DEFINE R == RemoveResolves(queues[ModeOf[c]], c)
    <3>0. ~shuttingDown
      BY <2>3 DEF OverAdmits, RemoveCaller
    <3>1. /\ c \in waiting /\ EnsureEvalQueueResolved(c) /\ Applies(c)
          /\ waiting' = waiting \ ({c} \cup R)
          /\ passed' = passed \cup R /\ slots' = slots \cup R
      BY <2>3 DEF RemoveCaller
    <3>2. ModeOf[c] \in Types
      BY <1>1, <3>1, EnsureFacts
    <3>3. /\ queues[ModeOf[c]] \in QueueOf(Callers)
          /\ Distinct(queues[ModeOf[c]])
          /\ Waiting(queues[ModeOf[c]]) = Of(ModeOf[c], waiting)
      BY <1>1, <3>2, QueueFacts
    <3>4. R \subseteq Of(ModeOf[c], waiting) \ {c}
      <4>1. Has(queues[ModeOf[c]], c)
        BY <3>1, <3>3 DEF Has, Of
      <4> QED BY <3>3, <4>1, RemoveFacts
    <3>5. waiting \cap passed = {}
      BY <1>1 DEF IInv, ListsMatch
    <3> HIDE DEF R
    <3>6. c \notin waiting' \cup passed'
      BY <3>1, <3>4, <3>5
    <3>7. ModeOf[c] = t
      <4>1. Cardinality(Of(t, slots)) \in Nat
        BY <1>1, <3>0, SlotsFromCounter DEF SlotsCounted
      <4>2. Of(t, slots') # Of(t, slots)
        BY <4>1 DEF OverAdmits
      <4> QED BY <4>2, <3>1, <3>4 DEF Of
    <3> QED BY <3>1, <3>6, <3>7 DEF Of
  <2>4. CASE Disable
    BY <2>4 DEF Disable, OverAdmits
  <2> QED BY <2>1, <2>2, <2>3, <2>4 DEF Next
<1> QED BY <1>1, Invariance, PTL DEF Spec, OverAdmissionOnlyByRemove

(* Nobody is overtaken by a throttle: whoever joins a list joins it at its *)
(* end, and nobody who waited is let through.                              *)
LEMMA ThrottleInOrder ==
  ASSUME IInv, NEW c \in Callers, Throttle(c), NEW t \in Types,
         NEW x \in Of(t, waiting)
  PROVE  /\ \A y \in Of(t, waiting' \ waiting) : Before(queues'[t].queue, x, y)
         /\ Of(t, waiting \cap passed') = {}
<1>1. waiting \cap passed = {} /\ c \notin waiting
  BY DEF IInv, ListsMatch, Throttle
<1>2. passed' \subseteq passed \cup {c}
  BY DEF Throttle
<1>3. ASSUME NEW y \in Of(t, waiting' \ waiting)
      PROVE  Before(queues'[t].queue, x, y)
  <2>1. /\ y = c /\ ModeOf[c] = t /\ MustWait(queues[t])
        /\ queues' = [queues EXCEPT ![t] = Enqueue(queues[t], c)]
    BY DEF Throttle, Of
  <2>2. queues[t] \in QueueOf(Callers) /\ x \in Waiting(queues[t])
    BY QueueFacts
  <2>3. queues'[t] = Enqueue(queues[t], c)
    BY <2>1 DEF IInv, TypeOK
  <2> QED BY <2>1, <2>2, <2>3, EnqueueOrder DEF Before
<1> QED BY <1>1, <1>2, <1>3 DEF Of

(* A release lets the head of the list through. *)
LEMMA ReleaseInOrder ==
  ASSUME IInv, NEW c \in Callers, Release(c), NEW t \in Types,
         NEW x \in Of(t, waiting), x \in waiting'
  PROVE  /\ Of(t, waiting' \ waiting) = {}
         /\ \A y \in Of(t, waiting \cap passed') : Before(queues[t].queue, y, x)
<1>0. waiting \cap passed = {} /\ waiting \subseteq Callers
  BY DEF IInv, ListsMatch, TypeOK
<1>1. waiting' \subseteq waiting
  BY DEF Release, LetThrough
<1>2. ASSUME NEW y \in Of(t, waiting \cap passed')
      PROVE  Before(queues[t].queue, y, x)
  <2>1. y \in waiting /\ ModeOf[y] = t /\ y \in passed' /\ y \notin passed
    BY <1>0 DEF Of
  <2>2. /\ y \in Resolved(queues[ModeOf[c]]) /\ waiting' = waiting \ Resolved(queues[ModeOf[c]])
        /\ Applies(c)
    BY <2>1 DEF Release, LetThrough
  <2>3. ModeOf[c] \in Types
    BY <2>2, EnsureFacts DEF Release
  <2>4. /\ queues[ModeOf[c]] \in QueueOf(Callers) /\ Distinct(queues[ModeOf[c]])
        /\ Waiting(queues[ModeOf[c]]) = Of(ModeOf[c], waiting)
    BY <2>3, QueueFacts
  <2>5. y \in Waiting(queues[ModeOf[c]])
    BY <2>2, <2>4, DequeueFacts
  <2>6. ModeOf[c] = t
    BY <2>1, <2>4, <2>5 DEF Of
  <2>7. x # y /\ x \in Waiting(queues[t])
    BY <2>2, <2>4, <2>6
  <2> QED BY <2>2, <2>4, <2>6, <2>7, DequeueOrder DEF Before
<1> QED BY <1>1, <1>2 DEF Of

(* A remove lets the first of those who stay through. *)
LEMMA RemoveInOrder ==
  ASSUME IInv, NEW c \in Callers, RemoveCaller(c), NEW t \in Types,
         NEW x \in Of(t, waiting), x \in waiting'
  PROVE  /\ Of(t, waiting' \ waiting) = {}
         /\ \A y \in Of(t, waiting \cap passed') : Before(queues[t].queue, y, x)
<1> DEFINE m == ModeOf[c]
           R == RemoveResolves(queues[m], c)
<1>0. waiting \cap passed = {}
  BY DEF IInv, ListsMatch
<1>1. /\ c \in waiting /\ EnsureEvalQueueResolved(c) /\ Applies(c)
      /\ waiting' = waiting \ ({c} \cup R) /\ passed' = passed \cup R
  BY DEF RemoveCaller
<1>2. m \in Types
  BY <1>1, EnsureFacts
<1>3. /\ queues[m] \in QueueOf(Callers) /\ Distinct(queues[m])
      /\ Waiting(queues[m]) = Of(m, waiting)
  BY <1>2, QueueFacts
<1>4. Has(queues[m], c)
  BY <1>1, <1>3 DEF Has, Of
<1>5. R \subseteq Waiting(queues[m]) \ {c}
  BY <1>3, <1>4, RemoveFacts
<1>6. ASSUME NEW y \in Of(t, waiting \cap passed')
      PROVE  Before(queues[t].queue, y, x)
  <2>1. y \in R
    BY <1>0, <1>1, <1>6 DEF Of
  <2>2. m = t
    BY <1>3, <1>5, <2>1, <1>6 DEF Of
  <2>3. x # y /\ x # c /\ x \in Waiting(queues[m])
    BY <1>1, <1>3, <2>1, <2>2
  <2> QED BY <1>3, <1>4, <2>1, <2>2, <2>3, RemoveOrder DEF Before
<1> QED BY <1>1, <1>6 DEF Of

(* First come, first served, for any callers and limits: the lists keep    *)
(* the order of arrival through every enqueue, dequeue and remove.         *)
THEOREM ServedInOrder == Spec => FirstComeFirstServed
<1> DEFINE InOrder(t, x) ==
             /\ \A y \in Of(t, waiting' \ waiting) : Before(queues'[t].queue, x, y)
             /\ \A y \in Of(t, waiting \cap passed') : Before(queues[t].queue, y, x)
<1>1. ASSUME IInv, [Next]_vars
      PROVE  [\A t \in Types : \A x \in Of(t, waiting) \cap waiting' : InOrder(t, x)]_vars
  <2> SUFFICES ASSUME Next, NEW t \in Types, NEW x \in Of(t, waiting), x \in waiting'
               PROVE  InOrder(t, x)
    BY <1>1
  <2>1. ASSUME NEW c \in Callers, Throttle(c) PROVE InOrder(t, x)
    BY <1>1, <2>1, ThrottleInOrder
  <2>2. ASSUME NEW c \in Callers, Release(c) PROVE InOrder(t, x)
    BY <1>1, <2>2, ReleaseInOrder
  <2>3. ASSUME NEW c \in Callers, RemoveCaller(c) PROVE InOrder(t, x)
    BY <1>1, <2>3, RemoveInOrder
  <2>4. CASE Disable
    BY <1>1, <2>4 DEF Disable, Of, IInv, ListsMatch
  <2> QED BY <2>1, <2>2, <2>3, <2>4 DEF Next
<1> QED BY <1>1, Invariance, PTL DEF Spec, FirstComeFirstServed
=============================================================================
