-------------------------- MODULE EvalFanOutProofs --------------------------
(***************************************************************************)
(* Proofs about EvalFanOut, for any test runs, cases and limits.           *)
(*                                                                         *)
(* What happens to rows and slots is followed case by case (IInv, for any  *)
(* number of cases of a run at a time and of runs cancelled at once).      *)
(***************************************************************************)
EXTENDS EvalFanOut, ConcurrencyQueueLemmas, FiniteSetTheorems

-----------------------------------------------------------------------------
(***************************************************************************)
(* The inductive invariant                                                 *)
(***************************************************************************)

Elements(s) == {s[i] : i \in DOMAIN s}

(* What the row of a case says while its callback is under way and after.  *)
RowSound(c) ==
  /\ at[c] \in {"pending", "claiming"} => row[c] \in {"new", "cancelled"}
  /\ at[c] \in {"claimed", "throttled", "executing"} => row[c] = "running"
  /\ at[c] = "closing" => row[c] \in {"success", "error"}
  /\ at[c] = "ended" /\ RunOf(c) \notin aborted => row[c] \in Over
  /\ RunOf(c) \in finished => at[c] = "ended" /\ row[c] \in Over

RowsSound == \A c \in Cases : RowSound(c)

(* Who waits in the queue waits there once, has not been let through and   *)
(* is still in its race.                                                   *)
QueueSound ==
  /\ Distinct(queue)
  /\ \A c \in Waiting(queue) : at[c] = "throttled"
  /\ \A m \in Elements(micro) :
       /\ m[2] = "acquired" => m[1] \notin Waiting(queue)
       /\ m[2] = "aborted" => RunOf(m[1]) \in aborted

(* No slot is returned twice, and none is lost while nobody cancels a run. *)
SlotsSound ==
  /\ Slots <= EvaluationLimit
  /\ aborted = {} => Slots = EvaluationLimit

(* A listener of a run is a listener of one of its cases. *)
ListenersSound == \A t \in TestRuns : listeners[t] \in Seq(CasesOf(t))

IInv == TypeOK /\ RowsSound /\ ListenersSound /\ QueueSound /\ SlotsSound

-----------------------------------------------------------------------------
(***************************************************************************)
(* Sequences and sets                                                      *)
(***************************************************************************)

Entries == Cases \X {"acquired", "aborted"}

(* The members of a concatenation and of a tail. *)
LEMMA ConcatElements ==
  ASSUME NEW S, NEW s \in Seq(S), NEW t \in Seq(S)
  PROVE  s \o t \in Seq(S) /\ Elements(s \o t) = Elements(s) \cup Elements(t)
<1>1. /\ s \o t \in Seq(S) /\ Len(s \o t) = Len(s) + Len(t)
      /\ DOMAIN (s \o t) = 1..(Len(s) + Len(t))
      /\ DOMAIN s = 1..Len(s) /\ DOMAIN t = 1..Len(t) /\ Len(s) \in Nat /\ Len(t) \in Nat
  OBVIOUS
<1>2. \A i \in 1..Len(s) : (s \o t)[i] = s[i] /\ i \in 1..(Len(s) + Len(t))
  BY <1>1
<1>3. \A i \in 1..Len(t) : (s \o t)[Len(s) + i] = t[i] /\ Len(s) + i \in 1..(Len(s) + Len(t))
  BY <1>1
<1>4. ASSUME NEW i \in 1..(Len(s) + Len(t)), i \notin 1..Len(s)
      PROVE  i - Len(s) \in 1..Len(t) /\ (s \o t)[i] = t[i - Len(s)]
  BY <1>1, <1>4
<1> QED BY <1>1, <1>2, <1>3, <1>4 DEF Elements

(* Head and tail of a list that is not empty. *)
LEMMA TailElements ==
  ASSUME NEW S, NEW s \in Seq(S), s # <<>>
  PROVE  /\ Tail(s) \in Seq(S) /\ Elements(Tail(s)) \subseteq Elements(s)
         /\ Head(s) \in S /\ Head(s) \in Elements(s) /\ Len(Tail(s)) = Len(s) - 1
<1>1. /\ Len(s) \in Nat \ {0} /\ DOMAIN s = 1..Len(s) /\ Head(s) = s[1] /\ Tail(s) \in Seq(S)
      /\ Len(Tail(s)) = Len(s) - 1 /\ DOMAIN Tail(s) = 1..(Len(s) - 1)
  BY EmptyList
<1>2. \A i \in 1..(Len(s) - 1) : Tail(s)[i] = s[i + 1] /\ i + 1 \in 1..Len(s)
  BY <1>1
<1> QED BY <1>1, <1>2 DEF Elements

(* The callbacks of those who are let through, one at most. *)
LEMMA AcquiringFacts ==
  ASSUME NEW R \in SUBSET Cases, R = {} \/ \E d \in Cases : R = {d}
  PROVE  /\ Acquiring(R) \in Seq(Entries)
         /\ Elements(Acquiring(R)) = {<<d, "acquired">> : d \in R}
         /\ Len(Acquiring(R)) <= 1
         /\ R = {} => Acquiring(R) = <<>>
         /\ \A d \in R : Acquiring(R) = <<<<d, "acquired">>>>
<1>1. CASE R = {}
  BY <1>1 DEF Acquiring, Elements
<1>2. ASSUME NEW d \in Cases, R = {d}
      PROVE  /\ Acquiring(R) \in Seq(Entries)
             /\ Elements(Acquiring(R)) = {<<d, "acquired">>}
             /\ Len(Acquiring(R)) <= 1
             /\ Acquiring(R) = <<<<d, "acquired">>>>
  <2>1. \A e \in Entries : <<e>> \in Seq(Entries) /\ Len(<<e>>) = 1 /\ Elements(<<e>>) = {e}
    BY DEF Elements
  <2>2. Acquiring(R) = <<<<d, "acquired">>>> /\ <<d, "acquired">> \in Entries
    BY <1>2 DEF Acquiring, Entries
  <2> QED BY <2>1, <2>2
<1>3. ASSUME NEW d \in Cases, R = {d}
      PROVE  {<<e, "acquired">> : e \in R} = {<<d, "acquired">>} /\ R # {} /\ \A e \in R : e = d
  BY <1>3
<1> QED BY <1>1, <1>2, <1>3

(* There are finitely many cases. *)
LEMMA CasesFinite == IsFiniteSet(Cases)
<1>1. IsFiniteSet(TestRuns) /\ CasesPerRun \in Int
  BY FanOutConstants
<1>2. IsFiniteSet(1..CasesPerRun)
  BY <1>1, FS_Interval
<1>3. IsFiniteSet(TestRuns \X (1..CasesPerRun))
  BY <1>1, <1>2, FS_Product
<1> QED BY <1>3 DEF Cases

(* The cases of a run. *)
LEMMA CaseFacts ==
  /\ \A c \in Cases : RunOf(c) \in TestRuns
  /\ \A t \in TestRuns : \A c : c \in CasesOf(t) <=> c \in Cases /\ RunOf(c) = t
  BY DEF Cases, RunOf, CasesOf

InQueue == {"throttled", "executing", "closing"}

(* How the move of one case changes the number of cases at the queue. *)
LEMMA UsingMoves ==
  ASSUME TypeOK, NEW c \in Cases, NEW l, Goto(c, l)
  PROVE  /\ Cardinality(Using) \in Nat /\ Cardinality(Using') \in Nat
         /\ (UsesQueue(c) <=> l \in InQueue) => Using' = Using
         /\ ~UsesQueue(c) /\ l \in InQueue => Cardinality(Using') = Cardinality(Using) + 1
         /\ UsesQueue(c) /\ l \notin InQueue => Cardinality(Using') = Cardinality(Using) - 1
<1>1. \A d \in Cases : at'[d] = IF d = c THEN l ELSE at[d]
  BY DEF Goto, TypeOK
<1>2. /\ (UsesQueue(c) <=> l \in InQueue) => Using' = Using
      /\ ~UsesQueue(c) /\ l \in InQueue => Using' = Using \cup {c} /\ c \notin Using
      /\ UsesQueue(c) /\ l \notin InQueue => Using' = Using \ {c} /\ c \in Using
  BY <1>1 DEF Using, UsesQueue, InQueue
<1>3. IsFiniteSet(Using) /\ IsFiniteSet(Using')
  BY CasesFinite, FS_Subset DEF Using
<1> QED BY <1>2, <1>3, FS_AddElement, FS_RemoveElement, FS_CardinalityType

-----------------------------------------------------------------------------
(***************************************************************************)
(* Steps                                                                   *)
(***************************************************************************)

(* The callback at the head of the microtask queue loses its race, is the  *)
(* first to find a slot, or is the first to find an abort.                 *)
LEMMA MicrotaskCases ==
  ASSUME IInv, Microtask
  PROVE  /\ UNCHANGED <<row, cancelling, aborted, finished>>
         /\ micro # <<>> /\ Tail(micro) \in Seq(Entries)
         /\ Elements(Tail(micro)) \subseteq Elements(micro)
         /\ \E c \in Cases :
              /\ c = Head(micro)[1]
              /\ \/ at[c] # "throttled" /\ micro' = Tail(micro) /\ UNCHANGED <<at, queue, listeners>>
                 \/ /\ at[c] = "throttled" /\ c \notin Waiting(queue)
                    /\ Head(micro) = <<c, "acquired">> /\ Acquired(c)
                 \/ /\ at[c] = "throttled" /\ RunOf(c) \in aborted
                    /\ Head(micro) = <<c, "aborted">> /\ Evicted(c)
<1>1. micro # <<>> /\ micro \in Seq(Entries)
  BY DEF Microtask, IInv, TypeOK, Entries
<1>2. /\ Tail(micro) \in Seq(Entries) /\ Elements(Tail(micro)) \subseteq Elements(micro)
      /\ Head(micro) \in Entries /\ Head(micro) \in Elements(micro)
  BY <1>1, TailElements
<1>3. PICK c \in Cases, w \in {"acquired", "aborted"} : Head(micro) = <<c, w>>
  BY <1>2 DEF Entries
<1>4. Head(micro)[1] = c /\ Head(micro)[2] = w
  BY <1>3
<1>5. /\ w = "acquired" => c \notin Waiting(queue)
      /\ w = "aborted" => RunOf(c) \in aborted
  BY <1>2, <1>4 DEF IInv, QueueSound
<1>6. /\ UNCHANGED <<row, cancelling, aborted, finished>>
      /\ IF at[c] # "throttled"
         THEN micro' = Tail(micro) /\ UNCHANGED <<at, queue, listeners>>
         ELSE IF w = "acquired" THEN Acquired(c) ELSE Evicted(c)
  BY <1>4 DEF Microtask
<1> QED BY <1>1, <1>2, <1>3, <1>4, <1>5, <1>6

(* The rows: a case is claimed while its row is new, and then nobody but   *)
(* its callback writes the row until the run is over.                      *)
LEMMA RowsStep ==
  ASSUME IInv, [Next]_vars
  PROVE  RowsSound'
<1> SUFFICES ASSUME NEW x \in Cases PROVE RowSound(x)'
  BY DEF RowsSound
<1> USE DEF RowSound
<1>0. RowSound(x) /\ at \in [Cases -> Labels] /\ row \in [Cases -> {"new", "running"} \cup Over]
  BY DEF IInv, RowsSound, TypeOK
<1>1. ASSUME NEW c \in Cases, Begin(c) PROVE RowSound(x)'
  BY <1>0, <1>1 DEF Begin, Goto
<1>2. ASSUME NEW c \in Cases, Claim(c) PROVE RowSound(x)'
  <2>1. CASE Claimable(c)
    BY <1>0, <1>2, <2>1 DEF Claim, Claimable, Goto
  <2>2. CASE ~Claimable(c)
    BY <1>0, <1>2, <2>2 DEF Claim, Claimable, Goto, Over
  <2> QED BY <2>1, <2>2
<1>3. ASSUME NEW c \in Cases, Throttle(c) PROVE RowSound(x)'
  BY <1>0, <1>3 DEF Throttle, Goto
<1>4. ASSUME NEW c \in Cases, EndCase(c) PROVE RowSound(x)'
  BY <1>0, <1>4 DEF EndCase, Goto, Over
<1>5. ASSUME NEW c \in Cases, Finally(c) PROVE RowSound(x)'
  BY <1>0, <1>5 DEF Finally, Goto, Over
<1>6. ASSUME NEW c \in Cases, CancelIfNew(c) PROVE RowSound(x)'
  BY <1>0, <1>6 DEF CancelIfNew, Over
<1>7. ASSUME NEW t \in TestRuns, AbortNext(t) PROVE RowSound(x)'
  BY <1>0, <1>7 DEF AbortNext
<1>8. ASSUME NEW t \in TestRuns, FinishRun(t) PROVE RowSound(x)'
  <2>1. /\ RunOf(x) = t => at[x] = "ended"
        /\ row'[x] = IF x \in Swept(t) THEN "cancelled" ELSE row[x]
        /\ finished' = finished \cup {t} /\ UNCHANGED <<at, aborted>>
    BY <1>8, CaseFacts DEF FinishRun
  <2>2. x \in Swept(t) <=> RunOf(x) = t /\ t \in aborted /\ row[x] \notin Over
    BY <1>8, CaseFacts DEF Swept, Over
  <2>3. RunOf(x) # t => x \notin Swept(t)
    BY <2>2
  <2>4. CASE RunOf(x) = t
    BY <1>0, <2>1, <2>2, <2>4 DEF Over
  <2>5. CASE RunOf(x) # t
    BY <1>0, <2>1, <2>3, <2>5
  <2> QED BY <2>4, <2>5
<1>9. CASE Microtask
  <2>1. PICK c \in Cases :
          \/ at[c] # "throttled" /\ UNCHANGED at
          \/ at[c] = "throttled" /\ Acquired(c)
          \/ at[c] = "throttled" /\ RunOf(c) \in aborted /\ Evicted(c)
    BY <1>9, MicrotaskCases
  <2>2. UNCHANGED <<row, cancelling, aborted, finished>>
    BY <1>9, MicrotaskCases
  <2>3. CASE UNCHANGED at
    BY <1>0, <2>2, <2>3
  <2>4. CASE at[c] = "throttled" /\ Acquired(c)
    BY <1>0, <2>2, <2>4 DEF Acquired, Goto
  <2>5. CASE at[c] = "throttled" /\ RunOf(c) \in aborted /\ Evicted(c)
    BY <1>0, <2>2, <2>5 DEF Evicted, Goto
  <2> QED BY <2>1, <2>3, <2>4, <2>5
<1>10. ASSUME NEW T \in SUBSET TestRuns, Cancel(T) PROVE RowSound(x)'
  BY <1>0, <1>10 DEF Cancel
<1>11. CASE UNCHANGED vars
  BY <1>0, <1>11 DEF vars
<1> QED
  BY <1>1, <1>2, <1>3, <1>4, <1>5, <1>6, <1>7, <1>8, <1>9, <1>10, <1>11 DEF Next, CaseStep

(* The queue keeps its list, and no callback is added. *)
LEMMA QueueStays ==
  ASSUME IInv, queue' = queue, Elements(micro') \subseteq Elements(micro), aborted' = aborted,
         \A c \in Waiting(queue) : at'[c] = at[c]
  PROVE  QueueSound'
BY DEF IInv, QueueSound

(* A case leaves the queue or its slot, and those in R, one at most, are   *)
(* let through.                                                            *)
GivesBack(c, R, rest) ==
  /\ queue' \in QueueOf(Cases) /\ Distinct(queue')
  /\ queue'.capacity = queue.capacity + 1
  /\ Waiting(queue') = Waiting(queue) \ (R \cup {c})
  /\ R \subseteq Waiting(queue) \ {c}
  /\ R = {} \/ \E d \in Cases : R = {d}
  /\ micro' = rest \o Acquiring(R)
  /\ Goto(c, "ended")
  /\ UNCHANGED <<row, cancelling, aborted, finished>>

(* The queue as the lemmas on its operations see it. *)
LEMMA QueueType ==
  ASSUME IInv
  PROVE  /\ queue \in QueueOf(Cases) /\ Distinct(queue) /\ Waiting(queue) \subseteq Cases
         /\ queue.capacity \in Int
BY DEF IInv, TypeOK, QueueSound, QueueOf, Waiting

(* release: dequeue for a case that does not wait. *)
LEMMA ReleaseGivesBack ==
  ASSUME IInv, NEW c \in Cases, c \notin Waiting(queue), queue' = Dequeue(queue),
         NEW rest, micro' = rest \o Acquiring(Resolved(queue)),
         Goto(c, "ended"), UNCHANGED <<row, cancelling, aborted, finished>>
  PROVE  GivesBack(c, Resolved(queue), rest)
<1>1. queue \in QueueOf(Cases) /\ Distinct(queue)
  BY QueueType
<1> QED BY <1>1, DequeueFacts DEF GivesBack

(* remove of a case that waits. *)
LEMMA EvictionGivesBack ==
  ASSUME IInv, NEW c \in Cases, Has(queue, c), Evicted(c), UNCHANGED <<row, cancelling, aborted, finished>>
  PROVE  GivesBack(c, RemoveResolves(queue, c), Tail(micro))
<1>1. queue \in QueueOf(Cases) /\ Distinct(queue)
  BY QueueType
<1>2. /\ Remove(queue, c) \in QueueOf(Cases) /\ Distinct(Remove(queue, c))
      /\ Remove(queue, c).capacity = queue.capacity + 1
      /\ Waiting(Remove(queue, c)) = Waiting(queue) \ ({c} \cup RemoveResolves(queue, c))
      /\ RemoveResolves(queue, c) \subseteq Waiting(queue) \ {c}
      /\ RemoveResolves(queue, c) = {} \/ \E d \in Cases : RemoveResolves(queue, c) = {d}
  BY <1>1, RemoveFacts
<1> QED BY <1>2 DEF GivesBack, Evicted

(* Giving back keeps what is said about queue and slots. *)
LEMMA GiveBackStep ==
  ASSUME IInv, NEW c \in Cases, UsesQueue(c), NEW R, NEW rest \in Seq(Entries),
         Elements(rest) \subseteq Elements(micro),
         GivesBack(c, R, rest)
  PROVE  /\ QueueSound' /\ SlotsSound'
         /\ queue' \in QueueOf(Cases) /\ micro' \in Seq(Entries)
         /\ Slots' = Slots
<1>1. /\ queue \in QueueOf(Cases) /\ Distinct(queue) /\ Waiting(queue) \subseteq Cases
      /\ queue.capacity \in Int
  BY QueueType
<1>2. R \in SUBSET Cases /\ (R = {} \/ \E d \in Cases : R = {d})
  BY <1>1 DEF GivesBack
<1>3. /\ Acquiring(R) \in Seq(Entries)
      /\ Elements(Acquiring(R)) = {<<d, "acquired">> : d \in R}
  BY <1>2, AcquiringFacts
<1>4. micro' \in Seq(Entries) /\ Elements(micro') = Elements(rest) \cup {<<d, "acquired">> : d \in R}
  BY <1>3, ConcatElements DEF GivesBack
<1>5. \A d \in Cases : d # c => at'[d] = at[d]
  BY DEF GivesBack, Goto, IInv, TypeOK
<1>6. QueueSound'
  <2>1. Distinct(queue') /\ \A d \in Waiting(queue') : at'[d] = "throttled"
    BY <1>1, <1>5 DEF GivesBack, IInv, QueueSound
  <2>2. ASSUME NEW m \in Elements(micro')
        PROVE  /\ m[2] = "acquired" => m[1] \notin Waiting(queue')
               /\ m[2] = "aborted" => RunOf(m[1]) \in aborted'
    <3>1. CASE m \in Elements(micro)
      BY <3>1 DEF GivesBack, IInv, QueueSound
    <3>2. ASSUME NEW d \in R, m = <<d, "acquired">>
          PROVE  m[1] = d /\ m[2] = "acquired" /\ d \notin Waiting(queue')
      BY <3>2 DEF GivesBack
    <3> QED BY <1>4, <3>1, <3>2
  <2> QED BY <2>1, <2>2 DEF QueueSound
<1>7. Cardinality(Using) \in Nat /\ Cardinality(Using') = Cardinality(Using) - 1
  BY UsingMoves DEF GivesBack, IInv, InQueue
<1>8. Slots' = Slots
  BY <1>1, <1>7 DEF GivesBack, Slots
<1>9. SlotsSound'
  BY <1>8 DEF SlotsSound, IInv, GivesBack
<1> QED BY <1>4, <1>6, <1>8, <1>9 DEF GivesBack

(* throttle: the case waits in the queue or is let through. *)
LEMMA ThrottleStep ==
  ASSUME IInv, NEW c \in Cases, Throttle(c)
  PROVE  /\ QueueSound' /\ SlotsSound'
         /\ queue' \in QueueOf(Cases) /\ micro' \in Seq(Entries)
         /\ Slots' = Slots
         /\ MustWait(queue) => Waiting(queue') = Waiting(queue) \cup {c} /\ micro' = <<>>
         /\ ~MustWait(queue) => queue'.queue = queue.queue /\ micro' = <<<<c, "acquired">>>>
<1>1. /\ queue \in QueueOf(Cases) /\ Distinct(queue) /\ Waiting(queue) \subseteq Cases
      /\ queue.capacity \in Int
  BY QueueType
<1>2. at[c] = "claimed" /\ c \notin Waiting(queue) /\ micro = <<>>
  BY DEF Throttle, Idle, IInv, QueueSound
<1>3. /\ queue' \in QueueOf(Cases) /\ Distinct(queue')
      /\ queue'.capacity = queue.capacity - 1
      /\ MustWait(queue) => Waiting(queue') = Waiting(queue) \cup {c}
      /\ ~MustWait(queue) => queue'.queue = queue.queue
  BY <1>1, <1>2, EnqueueFacts DEF Throttle
<1>4. /\ MustWait(queue) => micro' = <<>>
      /\ ~MustWait(queue) => micro' = <<<<c, "acquired">>>>
  BY <1>2 DEF Throttle
<1>5. /\ micro' \in Seq(Entries)
      /\ Elements(micro') = IF MustWait(queue) THEN {} ELSE {<<c, "acquired">>}
  <2>1. <<c, "acquired">> \in Entries
    BY DEF Entries
  <2> HIDE DEF Entries
  <2>2. <<<<c, "acquired">>>> \in Seq(Entries) /\ Elements(<<<<c, "acquired">>>>) = {<<c, "acquired">>}
    BY <2>1 DEF Elements
  <2>3. <<>> \in Seq(Entries) /\ Elements(<<>>) = {}
    BY DEF Elements
  <2> QED BY <1>4, <2>2, <2>3
<1>6. /\ at'[c] = "throttled" /\ (\A d \in Cases : d # c => at'[d] = at[d])
      /\ aborted' = aborted
  BY DEF Throttle, Goto, IInv, TypeOK
<1>7. QueueSound'
  <2>1. ~MustWait(queue) => Waiting(queue') = Waiting(queue)
    BY <1>3 DEF Waiting
  <2>2. \A d \in Waiting(queue') : at'[d] = "throttled"
    BY <1>1, <1>3, <1>6, <2>1 DEF IInv, QueueSound
  <2>3. \A m \in Elements(micro') : m = <<c, "acquired">> /\ c \notin Waiting(queue')
    BY <1>2, <1>5, <2>1
  <2>4. \A m \in Elements(micro') : m[1] = c /\ m[2] = "acquired" /\ c \notin Waiting(queue')
    BY <2>3
  <2> QED BY <1>3, <2>2, <2>4 DEF QueueSound
<1>8. Cardinality(Using) \in Nat /\ Cardinality(Using') = Cardinality(Using) + 1
  BY <1>2, UsingMoves DEF Throttle, IInv, InQueue, UsesQueue
<1>9. Slots' = Slots
  BY <1>1, <1>3, <1>8 DEF Slots
<1>10. SlotsSound'
  BY <1>6, <1>9 DEF SlotsSound, IInv
<1> QED BY <1>3, <1>4, <1>5, <1>7, <1>9, <1>10

(* removeEventListener keeps a list of listeners a list of listeners. *)
LEMMA WithoutType ==
  ASSUME NEW S, NEW s \in Seq(S), NEW c
  PROVE  Without(s, c) \in Seq(S)
<1>1. CASE \E i \in DOMAIN s : s[i] = c
  <2> DEFINE k == CHOOSE i \in DOMAIN s : s[i] = c
  <2>1. k \in DOMAIN s /\ DOMAIN s = 1..Len(s) /\ Len(s) \in Nat
    BY <1>1
  <2>2. Without(s, c) = SubSeq(s, 1, k - 1) \o SubSeq(s, k + 1, Len(s))
    BY <1>1 DEF Without
  <2> HIDE DEF k
  <2>3. SubSeq(s, 1, k - 1) \in Seq(S) /\ SubSeq(s, k + 1, Len(s)) \in Seq(S)
    BY <2>1
  <2> QED BY <2>2, <2>3
<1>2. CASE ~\E i \in DOMAIN s : s[i] = c
  BY <1>2 DEF Without
<1> QED BY <1>1, <1>2

(* The listeners a step leaves to a run are listeners of its cases. *)
LEMMA ListenersStep ==
  ASSUME IInv, [Next]_vars
  PROVE  ListenersSound' /\ listeners' \in [TestRuns -> Seq(Cases)]
<1>1. listeners \in [TestRuns -> Seq(Cases)] /\ \A t \in TestRuns : listeners[t] \in Seq(CasesOf(t))
  BY DEF IInv, TypeOK, ListenersSound
<1>2. ASSUME NEW t \in TestRuns, NEW l \in Seq(CasesOf(t)), listeners' = [listeners EXCEPT ![t] = l]
      PROVE  ListenersSound' /\ listeners' \in [TestRuns -> Seq(Cases)]
  <2>1. l \in Seq(Cases)
    <3>1. CasesOf(t) \subseteq Cases
      BY CaseFacts
    <3>2. l \in [1..Len(l) -> CasesOf(t)] /\ Len(l) \in Nat
      OBVIOUS
    <3>3. l \in [1..Len(l) -> Cases]
      BY <3>1, <3>2
    <3> QED BY <3>2, <3>3
  <2>2. \A u \in TestRuns : listeners'[u] = IF u = t THEN l ELSE listeners[u]
    BY <1>1, <1>2
  <2> QED BY <1>1, <1>2, <2>1, <2>2 DEF ListenersSound
<1>3. CASE UNCHANGED listeners
  BY <1>1, <1>3 DEF ListenersSound
<1>4. ASSUME NEW c \in Cases, Throttle(c) PROVE ListenersSound' /\ listeners' \in [TestRuns -> Seq(Cases)]
  <2>1. CASE RunOf(c) \in aborted
    BY <1>3, <1>4, <2>1 DEF Throttle
  <2>2. CASE RunOf(c) \notin aborted
    <3>1. RunOf(c) \in TestRuns /\ c \in CasesOf(RunOf(c))
      BY CaseFacts
    <3>2. listeners' = [listeners EXCEPT ![RunOf(c)] = Append(listeners[RunOf(c)], c)]
      BY <1>4, <2>2 DEF Throttle
    <3>3. Append(listeners[RunOf(c)], c) \in Seq(CasesOf(RunOf(c)))
      BY <1>1, <3>1
    <3> QED BY <1>2, <3>1, <3>2, <3>3
  <2> QED BY <2>1, <2>2
<1>5. ASSUME NEW c \in Cases, listeners' = Unlisten(c)
      PROVE  ListenersSound' /\ listeners' \in [TestRuns -> Seq(Cases)]
  <2>1. RunOf(c) \in TestRuns
    BY CaseFacts
  <2>2. Without(listeners[RunOf(c)], c) \in Seq(CasesOf(RunOf(c)))
    BY <1>1, <2>1, WithoutType
  <2>3. listeners' = [listeners EXCEPT ![RunOf(c)] = Without(listeners[RunOf(c)], c)]
    BY <1>5 DEF Unlisten
  <2> QED BY <1>2, <2>1, <2>2, <2>3
<1>6. ASSUME NEW t \in TestRuns, AbortNext(t) PROVE ListenersSound' /\ listeners' \in [TestRuns -> Seq(Cases)]
  <2>1. <<>> \in Seq(CasesOf(t)) /\ listeners' = [listeners EXCEPT ![t] = <<>>]
    BY <1>6 DEF AbortNext
  <2> QED BY <1>2, <2>1
<1>7. CASE Microtask
  <2>1. PICK c \in Cases : \/ UNCHANGED listeners \/ Acquired(c) \/ Evicted(c)
    BY <1>7, MicrotaskCases
  <2>2. UNCHANGED listeners \/ listeners' = Unlisten(c)
    BY <2>1 DEF Acquired, Evicted
  <2> QED BY <1>3, <1>5, <2>2
<1>8. ASSUME NEW c \in Cases, Begin(c) \/ Claim(c) \/ EndCase(c) \/ Finally(c) \/ CancelIfNew(c)
      PROVE  UNCHANGED listeners
  BY <1>8 DEF Begin, Claim, EndCase, Finally, CancelIfNew
<1>9. ASSUME NEW t \in TestRuns, FinishRun(t) PROVE UNCHANGED listeners
  BY <1>9 DEF FinishRun
<1>10. ASSUME NEW T \in SUBSET TestRuns, Cancel(T) PROVE UNCHANGED listeners
  BY <1>10 DEF Cancel
<1>11. CASE UNCHANGED vars
  BY <1>3, <1>11 DEF vars
<1> QED BY <1>3, <1>4, <1>6, <1>7, <1>8, <1>9, <1>10, <1>11 DEF Next, CaseStep

(* A step that leaves the queue alone keeps what is said about it, when    *)
(* the case it moves does not come to the queue or leave it.               *)
LEMMA MoveStep ==
  ASSUME IInv, NEW c \in Cases, NEW l, Goto(c, l), at[c] # "throttled" \/ c \notin Waiting(queue),
         UsesQueue(c) <=> l \in InQueue,
         queue' = queue, aborted' = aborted,
         micro' \in Seq(Entries), Elements(micro') \subseteq Elements(micro)
  PROVE  /\ queue' \in QueueOf(Cases) /\ micro' \in Seq(Entries) /\ QueueSound' /\ SlotsSound'
         /\ Slots' = Slots
<1>1. queue \in QueueOf(Cases) /\ Waiting(queue) \subseteq Cases
  BY QueueType
<1>2. c \notin Waiting(queue)
  BY DEF IInv, QueueSound
<1>3. \A d \in Waiting(queue) : at'[d] = at[d]
  BY <1>1, <1>2 DEF Goto, IInv, TypeOK
<1>4. QueueSound'
  BY <1>3, QueueStays
<1>5. Using' = Using
  BY UsingMoves DEF IInv
<1> QED BY <1>1, <1>4, <1>5 DEF SlotsSound, IInv, Slots

(* The abort of a run appends a callback for every listener of its signal. *)
LEMMA AbortStep ==
  ASSUME IInv, NEW t \in TestRuns, AbortNext(t)
  PROVE  micro' \in Seq(Entries) /\ QueueSound' /\ SlotsSound'
<1>1. listeners[t] \in Seq(CasesOf(t)) /\ micro \in Seq(Entries)
  BY DEF IInv, ListenersSound, TypeOK, Entries
<1> DEFINE l == listeners[t]
           f == [i \in 1..Len(l) |-> <<l[i], "aborted">>]
<1>2. Len(l) \in Nat /\ \A i \in 1..Len(l) : l[i] \in Cases /\ RunOf(l[i]) = t
  BY <1>1, CaseFacts
<1>3. micro' = micro \o f
  BY DEF AbortNext
<1> HIDE DEF l
<1>4. \A i \in 1..Len(l) : <<l[i], "aborted">> \in Entries
  BY <1>2 DEF Entries
<1>5. f \in Seq(Entries) /\ DOMAIN f = 1..Len(l)
  <2>1. f \in [1..Len(l) -> Entries]
    BY <1>4
  <2> HIDE DEF f
  <2> QED BY <1>2, <2>1
<1>6. \A m \in Elements(f) : m[2] = "aborted" /\ RunOf(m[1]) = t
  <2>1. \A m \in Elements(f) : \E i \in 1..Len(l) : m = <<l[i], "aborted">>
    BY <1>5 DEF Elements
  <2> QED BY <1>2, <2>1
<1> HIDE DEF f
<1>7. micro' \in Seq(Entries) /\ Elements(micro') = Elements(micro) \cup Elements(f)
  BY <1>1, <1>3, <1>5, ConcatElements
<1>8. aborted' = aborted \cup {t} /\ UNCHANGED <<at, queue>>
  BY DEF AbortNext
<1>9. QueueSound'
  <2>1. Distinct(queue') /\ \A c \in Waiting(queue') : at'[c] = "throttled"
    BY <1>8 DEF IInv, QueueSound
  <2>2. \A m \in Elements(micro) : /\ m[2] = "acquired" => m[1] \notin Waiting(queue)
                                   /\ m[2] = "aborted" => RunOf(m[1]) \in aborted
    BY DEF IInv, QueueSound
  <2> QED BY <1>6, <1>7, <1>8, <2>1, <2>2 DEF QueueSound
<1>10. SlotsSound'
  <2>1. Slots' = Slots
    BY <1>8 DEF Slots, Using, UsesQueue
  <2> QED BY <1>8, <2>1 DEF IInv, SlotsSound
<1> QED BY <1>7, <1>9, <1>10

(* A case whose race the abort wins although it was let through: its slot  *)
(* is not given back, which only happens once a run was cancelled.         *)
LEMMA LateEviction ==
  ASSUME IInv, NEW c \in Cases, at[c] = "throttled", RunOf(c) \in aborted, ~Has(queue, c),
         Evicted(c), aborted' = aborted, Tail(micro) \in Seq(Entries),
         Elements(Tail(micro)) \subseteq Elements(micro)
  PROVE  queue' \in QueueOf(Cases) /\ micro' \in Seq(Entries) /\ QueueSound' /\ SlotsSound'
<1>1. queue \in QueueOf(Cases) /\ Waiting(queue) \subseteq Cases /\ queue.capacity \in Int
  BY QueueType
<1>2. queue' = queue /\ Goto(c, "ended") /\ micro' = Tail(micro) \o <<>>
  BY DEF Evicted, Remove, RemoveResolves, Acquiring
<1>3. micro' = Tail(micro)
  BY <1>2
<1>4. \A d \in Waiting(queue) : at'[d] = at[d]
  BY <1>1, <1>2 DEF Goto, IInv, TypeOK, Has
<1>5. QueueSound'
  BY <1>2, <1>3, <1>4, QueueStays
<1>6. Cardinality(Using) \in Nat /\ Cardinality(Using') = Cardinality(Using) - 1
  BY <1>2, UsingMoves DEF IInv, InQueue, UsesQueue
<1>7. SlotsSound'
  BY <1>1, <1>2, <1>6, FanOutConstants DEF IInv, SlotsSound, Slots
<1> QED BY <1>1, <1>2, <1>3, <1>5, <1>7

(* Every step keeps the queue, its callbacks and the slots sound, and only *)
(* an eviction that comes too late loses a slot.                           *)
LEMMA QueueStep ==
  ASSUME IInv, [Next]_vars
  PROVE  /\ queue' \in QueueOf(Cases) /\ micro' \in Seq(Entries) /\ QueueSound' /\ SlotsSound'
         /\ Slots' = Slots \/ LateAbort
<1> DEFINE Good == /\ queue' \in QueueOf(Cases) /\ micro' \in Seq(Entries)
                   /\ QueueSound' /\ SlotsSound' /\ (Slots' = Slots \/ LateAbort)
<1>0. /\ queue \in QueueOf(Cases) /\ micro \in Seq(Entries) /\ at \in [Cases -> Labels]
      /\ Waiting(queue) \subseteq Cases
  BY QueueType DEF IInv, TypeOK, Entries
<1>1. CASE UNCHANGED <<at, queue, micro, aborted>>
  BY <1>0, <1>1 DEF IInv, QueueSound, SlotsSound, Using, UsesQueue, Slots
<1>2. ASSUME NEW c \in Cases, NEW l, Goto(c, l), UNCHANGED <<queue, micro, aborted>>,
             at[c] # "throttled" \/ c \notin Waiting(queue), UsesQueue(c) <=> l \in InQueue
      PROVE  Good
  BY <1>0, <1>2, MoveStep
<1>3. ASSUME NEW c \in Cases, Begin(c) PROVE Good
  <2>1. ~UsesQueue(c) /\ "ended" \notin InQueue /\ "claiming" \notin InQueue /\ at[c] # "throttled"
    BY <1>3 DEF Begin, UsesQueue, InQueue
  <2> QED BY <1>2, <1>3, <2>1 DEF Begin
<1>4. ASSUME NEW c \in Cases, Claim(c) PROVE Good
  <2>1. ~UsesQueue(c) /\ "ended" \notin InQueue /\ "claimed" \notin InQueue /\ at[c] # "throttled"
    BY <1>4 DEF Claim, UsesQueue, InQueue
  <2> QED BY <1>2, <1>4, <2>1 DEF Claim
<1>5. ASSUME NEW c \in Cases, EndCase(c) PROVE Good
  <2>1. UsesQueue(c) /\ "closing" \in InQueue /\ at[c] # "throttled"
    BY <1>5 DEF EndCase, UsesQueue, InQueue
  <2> QED BY <1>2, <1>5, <2>1 DEF EndCase
<1>6. ASSUME NEW c \in Cases, Throttle(c) PROVE Good
  BY <1>6, ThrottleStep
<1>7. ASSUME NEW c \in Cases, Finally(c) PROVE Good
  <2>1. UsesQueue(c) /\ c \notin Waiting(queue)
    BY <1>7 DEF Finally, UsesQueue, IInv, QueueSound
  <2>2. Resolved(queue) = {} \/ \E d \in Cases : Resolved(queue) = {d}
    BY <1>0, DequeueFacts DEF IInv, QueueSound
  <2>3. Resolved(queue) \in SUBSET Cases
    BY <1>0, <2>2
  <2>4. Acquiring(Resolved(queue)) \in Seq(Entries)
    BY <2>2, <2>3, AcquiringFacts
  <2>5. micro' = <<>> \o Acquiring(Resolved(queue))
    BY <1>7, <2>4 DEF Finally
  <2>6. GivesBack(c, Resolved(queue), <<>>)
    BY <1>7, <2>1, <2>5, ReleaseGivesBack DEF Finally
  <2>7. <<>> \in Seq(Entries) /\ Elements(<<>>) = {}
    BY DEF Elements
  <2> QED BY <2>1, <2>6, <2>7, GiveBackStep
<1>8. ASSUME NEW t \in TestRuns, AbortNext(t) PROVE Good
  <2>1. UNCHANGED <<at, queue>>
    BY <1>8 DEF AbortNext
  <2>2. Slots' = Slots
    BY <2>1 DEF Using, UsesQueue, Slots
  <2> QED BY <1>0, <1>8, <2>1, <2>2, AbortStep
<1>9. CASE Microtask
  <2>1. /\ UNCHANGED <<row, cancelling, aborted, finished>> /\ micro # <<>> /\ Tail(micro) \in Seq(Entries)
        /\ Elements(Tail(micro)) \subseteq Elements(micro)
    BY <1>9, MicrotaskCases
  <2>2. PICK c \in Cases :
          \/ micro' = Tail(micro) /\ UNCHANGED <<at, queue>>
          \/ at[c] = "throttled" /\ c \notin Waiting(queue) /\ Acquired(c)
          \/ /\ at[c] = "throttled" /\ RunOf(c) \in aborted
             /\ Head(micro) = <<c, "aborted">> /\ Evicted(c)
    BY <1>9, MicrotaskCases
  <2>3. CASE micro' = Tail(micro) /\ UNCHANGED <<at, queue>>
    <3>1. QueueSound'
      BY <2>1, <2>3, QueueStays
    <3>2. SlotsSound' /\ Slots' = Slots
      BY <2>1, <2>3 DEF IInv, SlotsSound, Using, UsesQueue, Slots
    <3> QED BY <1>0, <2>1, <2>3, <3>1, <3>2
  <2>4. CASE at[c] = "throttled" /\ c \notin Waiting(queue) /\ Acquired(c)
    <3>1. UsesQueue(c)
      BY <2>4 DEF UsesQueue
    <3>2. CASE RunOf(c) \in aborted
      <4>1. GivesBack(c, Resolved(queue), Tail(micro))
        BY <2>1, <2>4, <3>2, ReleaseGivesBack DEF Acquired
      <4> QED BY <2>1, <3>1, <4>1, GiveBackStep
    <3>3. CASE RunOf(c) \notin aborted
      <4>1. /\ Goto(c, "executing") /\ micro' = Tail(micro) /\ queue' = queue
            /\ "executing" \in InQueue
        BY <2>4, <3>3 DEF Acquired, InQueue
      <4> QED BY <2>1, <2>4, <3>1, <4>1, MoveStep
    <3> QED BY <3>2, <3>3
  <2>5. CASE /\ at[c] = "throttled" /\ RunOf(c) \in aborted
             /\ Head(micro) = <<c, "aborted">> /\ Evicted(c)
    <3>1. UsesQueue(c)
      BY <2>5 DEF UsesQueue
    <3>2. CASE Has(queue, c)
      <4>1. GivesBack(c, RemoveResolves(queue, c), Tail(micro))
        BY <2>1, <2>5, <3>2, EvictionGivesBack
      <4> QED BY <2>1, <3>1, <4>1, GiveBackStep
    <3>3. CASE ~Has(queue, c)
      BY <2>1, <2>5, <3>3, LateEviction DEF LateAbort
    <3> QED BY <3>2, <3>3
  <2> QED BY <2>2, <2>3, <2>4, <2>5
<1>10. ASSUME NEW c \in Cases, CancelIfNew(c) PROVE Good
  BY <1>1, <1>10 DEF CancelIfNew
<1>11. ASSUME NEW t \in TestRuns, FinishRun(t) PROVE Good
  BY <1>1, <1>11 DEF FinishRun
<1>12. ASSUME NEW T \in SUBSET TestRuns, Cancel(T) PROVE Good
  BY <1>1, <1>12 DEF Cancel
<1>13. CASE UNCHANGED vars
  BY <1>1, <1>13 DEF vars
<1> QED
  BY <1>3, <1>4, <1>5, <1>6, <1>7, <1>8, <1>9, <1>10, <1>11, <1>12, <1>13 DEF Next, CaseStep

(* The other variables keep their types. *)
LEMMA TypeStep ==
  ASSUME IInv, [Next]_vars
  PROVE  /\ row' \in [Cases -> {"new", "running"} \cup Over]
         /\ at' \in [Cases -> Labels]
         /\ cancelling' \subseteq TestRuns /\ aborted' \subseteq TestRuns /\ finished' \subseteq TestRuns
<1> DEFINE Good == /\ row' \in [Cases -> {"new", "running"} \cup Over]
                   /\ at' \in [Cases -> Labels]
                   /\ cancelling' \subseteq TestRuns /\ aborted' \subseteq TestRuns /\ finished' \subseteq TestRuns
<1>0. /\ row \in [Cases -> {"new", "running"} \cup Over] /\ at \in [Cases -> Labels]
      /\ cancelling \subseteq TestRuns /\ aborted \subseteq TestRuns /\ finished \subseteq TestRuns
  BY DEF IInv, TypeOK
<1> USE <1>0 DEF Goto, Labels, Over
<1>1. ASSUME NEW c \in Cases, CaseStep(c) PROVE Good
  BY <1>1 DEF CaseStep, Begin, Claim, Throttle, EndCase, Finally
<1>2. ASSUME NEW c \in Cases, CancelIfNew(c) PROVE Good
  BY <1>2 DEF CancelIfNew
<1>3. ASSUME NEW t \in TestRuns, AbortNext(t) PROVE Good
  BY <1>3 DEF AbortNext
<1>4. ASSUME NEW t \in TestRuns, FinishRun(t) PROVE Good
  BY <1>4 DEF FinishRun
<1>5. CASE Microtask
  <2>1. PICK c \in Cases : UNCHANGED at \/ Acquired(c) \/ Evicted(c)
    BY <1>5, MicrotaskCases
  <2>2. UNCHANGED <<row, cancelling, aborted, finished>>
    BY <1>5, MicrotaskCases
  <2> QED BY <2>1, <2>2 DEF Acquired, Evicted
<1>6. ASSUME NEW T \in SUBSET TestRuns, Cancel(T) PROVE Good
  BY <1>6 DEF Cancel
<1>7. CASE UNCHANGED vars
  BY <1>7 DEF vars
<1> QED BY <1>1, <1>2, <1>3, <1>4, <1>5, <1>6, <1>7 DEF Next

(* No case has begun: every row is new and the queue has its capacity. *)
LEMMA InitIInv == Init => IInv
<1> SUFFICES ASSUME Init PROVE IInv
  OBVIOUS
<1>1. EvaluationLimit \in Int /\ queue = [capacity |-> EvaluationLimit, queue |-> <<>>]
  BY FanOutConstants DEF Init, NewQueue
<1>2. TypeOK
  BY <1>1 DEF TypeOK, Init, Labels, Over
<1>3. RowsSound
  BY DEF RowsSound, RowSound, Init
<1>4. ListenersSound
  BY DEF ListenersSound, Init
<1>5. QueueSound
  BY <1>1 DEF QueueSound, Distinct, Waiting, Elements, Init
<1>6. Using = {} /\ Cardinality(Using) = 0
  BY FS_EmptySet DEF Using, UsesQueue, Init
<1>7. SlotsSound
  BY <1>1, <1>6 DEF SlotsSound, Slots
<1> QED BY <1>2, <1>3, <1>4, <1>5, <1>7 DEF IInv

(* IInv is inductive. *)
LEMMA NextIInv == IInv /\ [Next]_vars => IInv'
<1> SUFFICES ASSUME IInv, [Next]_vars PROVE IInv'
  OBVIOUS
<1>1. queue' \in QueueOf(Cases) /\ micro' \in Seq(Entries) /\ QueueSound' /\ SlotsSound'
  BY QueueStep
<1>2. ListenersSound' /\ listeners' \in [TestRuns -> Seq(Cases)]
  BY ListenersStep
<1>3. RowsSound'
  BY RowsStep
<1>4. TypeOK'
  BY <1>1, <1>2, TypeStep DEF TypeOK, QueueOf, Entries
<1> QED BY <1>1, <1>2, <1>3, <1>4 DEF IInv

-----------------------------------------------------------------------------
(***************************************************************************)
(* Theorems                                                                *)
(***************************************************************************)

(* The invariant holds for any number of cases of a run at a time. *)
THEOREM Invariance == Spec => []IInv
<1>1. Init => IInv
  BY InitIInv
<1>2. IInv /\ [Next]_vars => IInv'
  BY NextIInv
<1> QED BY <1>1, <1>2, PTL DEF Spec

(* Type correctness of the fan-out. *)
THEOREM TypeCorrect == Spec => []TypeOK
<1>1. IInv => TypeOK
  BY DEF IInv
<1> QED BY <1>1, Invariance, PTL

(* A run that is over (Promise.all through, the rows of a cancelled run    *)
(* swept) has settled the row of each of its cases.                        *)
THEOREM RowsAreSettled == Spec => []RowsSettled
<1>1. IInv => RowsSettled
  BY CaseFacts DEF IInv, TypeOK, RowsSound, RowSound, RowsSettled
<1> QED BY <1>1, Invariance, PTL

(* A case that cancelIfNew cancelled, or the sweep of a cancelled run, is  *)
(* not executed and keeps its row, however its run goes on.                *)
THEOREM CancelledNeverRuns == Spec => CancelledCaseNeverRuns
<1>1. ASSUME IInv, [Next]_vars, NEW c \in Cases, row[c] = "cancelled"
      PROVE  row'[c] = "cancelled" /\ at'[c] # "executing"
  <2>0. /\ row \in [Cases -> {"new", "running"} \cup Over] /\ at \in [Cases -> Labels]
        /\ at[c] \in {"pending", "claiming", "ended"}
    BY <1>1 DEF IInv, TypeOK, RowsSound, RowSound, Labels
  <2>1. ASSUME NEW d \in Cases, Begin(d) PROVE row'[c] = "cancelled" /\ at'[c] # "executing"
    BY <1>1, <2>0, <2>1 DEF Begin, Goto
  <2>2. ASSUME NEW d \in Cases, Claim(d) PROVE row'[c] = "cancelled" /\ at'[c] # "executing"
    BY <1>1, <2>0, <2>2 DEF Claim, Claimable, Goto
  <2>3. ASSUME NEW d \in Cases, Throttle(d) PROVE row'[c] = "cancelled" /\ at'[c] # "executing"
    BY <1>1, <2>0, <2>3 DEF Throttle, Goto
  <2>4. ASSUME NEW d \in Cases, EndCase(d) PROVE row'[c] = "cancelled" /\ at'[c] # "executing"
    BY <1>1, <2>0, <2>4 DEF EndCase, Goto
  <2>5. ASSUME NEW d \in Cases, Finally(d) PROVE row'[c] = "cancelled" /\ at'[c] # "executing"
    BY <1>1, <2>0, <2>5 DEF Finally, Goto
  <2>6. ASSUME NEW d \in Cases, CancelIfNew(d) PROVE row'[c] = "cancelled" /\ at'[c] # "executing"
    BY <1>1, <2>0, <2>6 DEF CancelIfNew
  <2>7. ASSUME NEW t \in TestRuns, AbortNext(t) PROVE row'[c] = "cancelled" /\ at'[c] # "executing"
    BY <1>1, <2>0, <2>7 DEF AbortNext
  <2>8. ASSUME NEW t \in TestRuns, FinishRun(t) PROVE row'[c] = "cancelled" /\ at'[c] # "executing"
    BY <1>1, <2>0, <2>8 DEF FinishRun
  <2>9. CASE Microtask
    <3>1. /\ UNCHANGED row
          /\ \E d \in Cases : UNCHANGED at \/ (at[d] = "throttled" /\ (Acquired(d) \/ Evicted(d)))
      BY <1>1, <2>9, MicrotaskCases
    <3>2. PICK d \in Cases : UNCHANGED at \/ (at[d] = "throttled" /\ \E l : Goto(d, l))
      BY <3>1 DEF Acquired, Evicted
    <3> QED BY <1>1, <2>0, <3>1, <3>2 DEF Goto
  <2>10. ASSUME NEW T \in SUBSET TestRuns, Cancel(T) PROVE row'[c] = "cancelled" /\ at'[c] # "executing"
    BY <1>1, <2>0, <2>10 DEF Cancel
  <2>11. CASE UNCHANGED vars
    BY <1>1, <2>0, <2>11 DEF vars
  <2> QED
    BY <1>1, <2>1, <2>2, <2>3, <2>4, <2>5, <2>6, <2>7, <2>8, <2>9, <2>10, <2>11 DEF Next, CaseStep
<1>2. IInv /\ [Next]_vars =>
        [\A c \in Cases : row[c] = "cancelled" => row'[c] = "cancelled" /\ at'[c] # "executing"]_vars
  BY <1>1
<1> QED BY <1>2, Invariance, PTL DEF Spec, CancelledCaseNeverRuns

(* For any number of cases of a run at a time: the cases that wait or run  *)
(* and the counter never add up to more than the limit (no slot is given   *)
(* back twice), and to exactly the limit as long as no run was cancelled.  *)
THEOREM SlotsAreNotInvented == Spec => []SlotsSound
<1>1. IInv => SlotsSound
  BY DEF IInv
<1> QED BY <1>1, Invariance, PTL

(* For any number of cases of a run at a time, and of runs cancelled in    *)
(* one request: a slot leaves circulation only when the abort wins the     *)
(* race of a case that the queue has let through already.                  *)
THEOREM SlotsStay == Spec => OnlyLateAbortLosesSlot
<1>1. IInv /\ [Next]_vars => [Slots' # Slots => LateAbort]_vars
  BY QueueStep
<1> QED BY <1>1, Invariance, PTL DEF Spec, OnlyLateAbortLosesSlot
=============================================================================
