----------------------- MODULE ConcurrencyQueueLemmas -----------------------
(* What the operations of ConcurrencyQueue do to the list and the counter.  *)
EXTENDS ConcurrencyQueue, SequenceTheorems, TLAPS

QueueOf(S) == [capacity : Int, queue : Seq(S)]

(* No id waits twice. *)
Distinct(q) == \A i, j \in DOMAIN q.queue : q.queue[i] = q.queue[j] => i = j

(* A list is empty iff its length is zero. *)
LEMMA EmptyList ==
  ASSUME NEW S, NEW s \in Seq(S)
  PROVE  Len(s) \in Nat /\ (s = <<>> <=> Len(s) = 0)
<1>1. s # <<>> => Len(s) \in Nat \ {0}
  BY EmptySeq
<1> QED BY <1>1

(* enqueue: exactly a caller that must wait is added, at the end. *)
LEMMA EnqueueFacts ==
  ASSUME NEW S, NEW q \in QueueOf(S), NEW id \in S, Distinct(q),
         id \notin Waiting(q)
  PROVE  /\ Enqueue(q, id) \in QueueOf(S)
         /\ Distinct(Enqueue(q, id))
         /\ Enqueue(q, id).capacity = q.capacity - 1
         /\ MustWait(q) =>
              /\ Len(Enqueue(q, id).queue) = Len(q.queue) + 1
              /\ Waiting(Enqueue(q, id)) = Waiting(q) \cup {id}
         /\ ~MustWait(q) => Enqueue(q, id).queue = q.queue
<1>1. CASE MustWait(q)
  <2> DEFINE r == Append(q.queue, id)
  <2>1. Enqueue(q, id) = [capacity |-> q.capacity - 1, queue |-> r]
    BY <1>1 DEF Enqueue
  <2>2. /\ r \in Seq(S) /\ Len(r) = Len(q.queue) + 1
        /\ DOMAIN r = 1..(Len(q.queue) + 1)
        /\ DOMAIN q.queue = 1..Len(q.queue)
        /\ \A i \in 1..Len(q.queue) : r[i] = q.queue[i]
        /\ r[Len(q.queue) + 1] = id
    BY DEF QueueOf
  <2> HIDE DEF r
  <2>3. Distinct(Enqueue(q, id))
    BY <2>1, <2>2 DEF Distinct, Waiting, QueueOf
  <2>4. Waiting(Enqueue(q, id)) = Waiting(q) \cup {id}
    BY <2>1, <2>2 DEF Waiting, QueueOf
  <2> QED BY <1>1, <2>1, <2>2, <2>3, <2>4 DEF QueueOf
<1>2. CASE ~MustWait(q)
  BY <1>2 DEF Enqueue, QueueOf, Distinct
<1> QED BY <1>1, <1>2

(* resolveNext: exactly the head, if there is one, leaves the list. *)
LEMMA ResolveNextFacts ==
  ASSUME NEW S, NEW q \in QueueOf(S), Distinct(q)
  PROVE  /\ ResolveNext(q) \in QueueOf(S)
         /\ Distinct(ResolveNext(q))
         /\ ResolveNext(q).capacity = q.capacity
         /\ Waiting(ResolveNext(q)) = Waiting(q) \ Resolved(q)
         /\ Resolved(q) \subseteq Waiting(q)
         /\ q.queue = <<>> =>
              Resolved(q) = {} /\ ResolveNext(q).queue = <<>>
         /\ q.queue # <<>> =>
              /\ \E h \in S : Resolved(q) = {h}
              /\ Len(ResolveNext(q).queue) = Len(q.queue) - 1
<1>1. CASE q.queue = <<>>
  BY <1>1 DEF ResolveNext, Resolved, QueueOf, Distinct, Waiting
<1>2. CASE q.queue # <<>>
  <2> DEFINE r == Tail(q.queue)
             h == Head(q.queue)
  <2>1. /\ ResolveNext(q) = [capacity |-> q.capacity, queue |-> r]
        /\ Resolved(q) = {h}
    BY <1>2 DEF ResolveNext, Resolved
  <2>2. /\ r \in Seq(S) /\ Len(r) = Len(q.queue) - 1
        /\ Len(q.queue) \in Nat /\ Len(q.queue) > 0
        /\ DOMAIN r = 1..(Len(q.queue) - 1)
        /\ DOMAIN q.queue = 1..Len(q.queue)
        /\ \A i \in 1..(Len(q.queue) - 1) : r[i] = q.queue[i + 1]
        /\ h = q.queue[1] /\ h \in S
    BY <1>2 DEF QueueOf
  <2> HIDE DEF r, h
  <2>a. \A i, j \in 1..Len(q.queue) : q.queue[i] = q.queue[j] => i = j
    BY <2>2 DEF Distinct
  <2>b. /\ Waiting(q) = {q.queue[i] : i \in 1..Len(q.queue)}
        /\ Waiting(ResolveNext(q)) = {r[i] : i \in 1..(Len(q.queue) - 1)}
    <3>1. ResolveNext(q).queue = r
      BY <2>1
    <3>2. Waiting(ResolveNext(q)) = {r[i] : i \in DOMAIN r}
      BY <3>1 DEF Waiting
    <3>3. Waiting(q) = {q.queue[i] : i \in DOMAIN q.queue}
      BY DEF Waiting
    <3> QED BY <3>2, <3>3, <2>2
  <2>3. Distinct(ResolveNext(q))
    <3>1. \A i, j \in 1..(Len(q.queue) - 1) : r[i] = r[j] => i = j
      BY <2>2, <2>a
    <3> QED BY <3>1, <2>1, <2>2 DEF Distinct
  <2>4. Waiting(ResolveNext(q)) = Waiting(q) \ {h}
    <3>1. ASSUME NEW i \in 1..(Len(q.queue) - 1)
          PROVE  r[i] \in {q.queue[j] : j \in 1..Len(q.queue)} /\ r[i] # h
      BY <2>2, <2>a
    <3>2. ASSUME NEW i \in 1..Len(q.queue), q.queue[i] # h
          PROVE  q.queue[i] \in {r[j] : j \in 1..(Len(q.queue) - 1)}
      <4>1. i - 1 \in 1..(Len(q.queue) - 1) /\ r[i - 1] = q.queue[i]
        BY <3>2, <2>2
      <4> QED BY <4>1
    <3> QED BY <3>1, <3>2, <2>b
  <2>5. h \in Waiting(q)
    BY <2>2 DEF Waiting
  <2> QED BY <1>2, <2>1, <2>2, <2>3, <2>4, <2>5 DEF QueueOf
<1> QED BY <1>1, <1>2

(* findIndex: a waiting id is found, at its one position. *)
LEMMA FindIndexFacts ==
  ASSUME NEW S, NEW q \in QueueOf(S), Distinct(q), NEW id, Has(q, id)
  PROVE  FindIndex(q, id) \in 1..Len(q.queue) /\ q.queue[FindIndex(q, id)] = id
<1>1. q.queue \in Seq(S) /\ Len(q.queue) \in Nat /\ DOMAIN q.queue = 1..Len(q.queue)
  BY DEF QueueOf
<1>2. PICK i \in 1..Len(q.queue) : q.queue[i] = id
  BY <1>1 DEF Has, Waiting
<1>3. \A j \in 1..(i - 1) : q.queue[j] # id
  BY <1>1, <1>2 DEF Distinct
<1> QED BY <1>1, <1>2, <1>3 DEF FindIndex

(* splice: the elements behind the given one move up by one place. *)
LEMMA SpliceList ==
  ASSUME NEW S, NEW q \in QueueOf(S), Distinct(q),
         NEW id \in S, Has(q, id)
  PROVE  LET n == Len(q.queue)
             k == FindIndex(q, id)
             r == Splice(q, id).queue
         IN  /\ n \in Nat /\ DOMAIN q.queue = 1..n /\ q.queue \in Seq(S)
             /\ k \in 1..n /\ q.queue[k] = id
             /\ Splice(q, id) = [capacity |-> q.capacity, queue |-> r]
             /\ r \in Seq(S) /\ Len(r) = n - 1 /\ DOMAIN r = 1..(n - 1)
             /\ \A i \in 1..(n - 1) :
                  r[i] = IF i < k THEN q.queue[i] ELSE q.queue[i + 1]
<1> DEFINE s == q.queue
           n == Len(q.queue)
           k == FindIndex(q, id)
           r == SubSeq(s, 1, k - 1) \o SubSeq(s, k + 1, n)
<1>1. /\ s \in Seq(S) /\ n \in Nat /\ DOMAIN s = 1..n
      /\ \A i \in 1..n : s[i] \in S
  BY DEF QueueOf
<1>2. k \in 1..n /\ s[k] = id
  BY FindIndexFacts
<1> HIDE DEF k
<1>3. Splice(q, id) = [capacity |-> q.capacity, queue |-> r]
  BY DEF Splice, k
<1>4. /\ r \in Seq(S) /\ Len(r) = n - 1 /\ DOMAIN r = 1..(n - 1)
      /\ \A i \in 1..(n - 1) : r[i] = IF i < k THEN s[i] ELSE s[i + 1]
  <2> DEFINE a == SubSeq(s, 1, k - 1)
             b == SubSeq(s, k + 1, n)
  <2>1. /\ a \in Seq(S) /\ Len(a) = k - 1
        /\ \A i \in 1..(k - 1) : a[i] = s[i]
    BY <1>1, <1>2
  <2>2. /\ b \in Seq(S) /\ Len(b) = n - k
        /\ \A i \in 1..(n - k) : b[i] = s[i + k]
    BY <1>1, <1>2
  <2> HIDE DEF a, b, s, n
  <2>3. /\ r \in Seq(S) /\ Len(r) = Len(a) + Len(b)
        /\ \A i \in 1..(Len(a) + Len(b)) :
             r[i] = IF i <= Len(a) THEN a[i] ELSE b[i - Len(a)]
    BY <2>1, <2>2 DEF a, b
  <2> HIDE DEF r
  <2> QED BY <1>1, <1>2, <2>1, <2>2, <2>3
<1> HIDE DEF s, n, r
<1>5. r = Splice(q, id).queue
  BY <1>3
<1> QED BY <1>1, <1>2, <1>3, <1>4, <1>5 DEF k, s, n

(* splice: exactly the given waiting id leaves the list. *)
LEMMA SpliceFacts ==
  ASSUME NEW S, NEW q \in QueueOf(S), Distinct(q),
         NEW id \in S, Has(q, id)
  PROVE  /\ Splice(q, id) \in QueueOf(S)
         /\ Distinct(Splice(q, id))
         /\ Splice(q, id).capacity = q.capacity
         /\ Waiting(Splice(q, id)) = Waiting(q) \ {id}
         /\ Len(Splice(q, id).queue) = Len(q.queue) - 1
<1> DEFINE s == q.queue
           n == Len(q.queue)
           k == FindIndex(q, id)
           r == Splice(q, id).queue
<1>0. /\ s \in Seq(S) /\ n \in Nat /\ DOMAIN s = 1..n
      /\ k \in 1..n /\ s[k] = id
      /\ Splice(q, id) = [capacity |-> q.capacity, queue |-> r]
      /\ r \in Seq(S) /\ Len(r) = n - 1 /\ DOMAIN r = 1..(n - 1)
      /\ \A i \in 1..(n - 1) : r[i] = IF i < k THEN s[i] ELSE s[i + 1]
  BY SpliceList
<1> HIDE DEF k
<1>1. /\ s \in Seq(S) /\ n \in Nat /\ DOMAIN s = 1..n
      /\ \A i \in 1..n : s[i] \in S
  BY <1>0
<1>2. k \in 1..n /\ s[k] = id
  BY <1>0
<1>3. Splice(q, id) = [capacity |-> q.capacity, queue |-> r]
  BY <1>0
<1>4. /\ r \in Seq(S) /\ Len(r) = n - 1 /\ DOMAIN r = 1..(n - 1)
      /\ \A i \in 1..(n - 1) : r[i] = IF i < k THEN s[i] ELSE s[i + 1]
  BY <1>0
<1> HIDE DEF s, n, r
<1>5. Distinct(Splice(q, id))
  <2>1. \A i, j \in 1..n : s[i] = s[j] => i = j
    BY <1>1 DEF Distinct, s
  <2>2. \A i, j \in 1..(n - 1) : r[i] = r[j] => i = j
    BY <1>1, <1>2, <1>4, <2>1
  <2> QED BY <1>3, <1>4, <2>2 DEF Distinct
<1>6. Waiting(Splice(q, id)) = Waiting(q) \ {id}
  <2>0. /\ Waiting(q) = {s[i] : i \in 1..n}
        /\ Waiting(Splice(q, id)) = {r[i] : i \in 1..(n - 1)}
    BY <1>1, <1>3, <1>4 DEF Waiting, s
  <2>1. \A i, j \in 1..n : s[i] = s[j] => i = j
    BY <1>1 DEF Distinct, s
  <2>2. ASSUME NEW i \in 1..(n - 1)
        PROVE  r[i] \in {s[j] : j \in 1..n} /\ r[i] # id
    BY <1>1, <1>2, <1>4, <2>1
  <2>3. ASSUME NEW i \in 1..n, s[i] # id
        PROVE  s[i] \in {r[j] : j \in 1..(n - 1)}
    <3>1. CASE i < k
      BY <3>1, <1>1, <1>2, <1>4
    <3>2. CASE i > k
      <4>1. i - 1 \in 1..(n - 1) /\ r[i - 1] = s[i]
        BY <3>2, <1>1, <1>2, <1>4
      <4> QED BY <4>1
    <3> QED BY <3>1, <3>2, <2>3, <1>2, <1>1
  <2> QED BY <2>0, <2>2, <2>3
<1> QED BY <1>1, <1>3, <1>4, <1>5, <1>6 DEF QueueOf, n, s

(* dequeue: the counter goes up and the head is let through. *)
LEMMA DequeueFacts ==
  ASSUME NEW S, NEW q \in QueueOf(S), Distinct(q)
  PROVE  /\ Dequeue(q) \in QueueOf(S)
         /\ Distinct(Dequeue(q))
         /\ Dequeue(q).capacity = q.capacity + 1
         /\ Waiting(Dequeue(q)) = Waiting(q) \ Resolved(q)
         /\ Resolved(q) \subseteq Waiting(q)
         /\ q.queue = <<>> =>
              Resolved(q) = {} /\ Dequeue(q).queue = <<>>
         /\ q.queue # <<>> =>
              /\ \E h \in S : Resolved(q) = {h}
              /\ Len(Dequeue(q).queue) = Len(q.queue) - 1
<1> DEFINE g == GiveBack(q)
<1>1. /\ g \in QueueOf(S) /\ g.queue = q.queue
      /\ g.capacity = q.capacity + 1 /\ Dequeue(q) = ResolveNext(g)
  BY DEF GiveBack, QueueOf, Dequeue
<1>2. Distinct(g) /\ Waiting(g) = Waiting(q) /\ Resolved(g) = Resolved(q)
  BY <1>1 DEF Distinct, Waiting, Resolved
<1> HIDE DEF g
<1> QED BY <1>1, <1>2, ResolveNextFacts

(* remove of a waiting id: the id leaves without being let through, the    *)
(* counter goes up once, and the next element, if any, is let through.     *)
LEMMA RemoveFacts ==
  ASSUME NEW S, NEW q \in QueueOf(S), Distinct(q),
         NEW id \in S, Has(q, id)
  PROVE  /\ Remove(q, id) \in QueueOf(S)
         /\ Distinct(Remove(q, id))
         /\ Remove(q, id).capacity = q.capacity + 1
         /\ Waiting(Remove(q, id)) =
              Waiting(q) \ ({id} \cup RemoveResolves(q, id))
         /\ RemoveResolves(q, id) \subseteq Waiting(q) \ {id}
         /\ \/ /\ RemoveResolves(q, id) = {}
               /\ Len(q.queue) = 1
               /\ Remove(q, id).queue = <<>>
            \/ /\ \E h \in S : RemoveResolves(q, id) = {h}
               /\ Len(q.queue) >= 2
               /\ Len(Remove(q, id).queue) = Len(q.queue) - 2
<1> DEFINE p == Splice(q, id)
<1>1. /\ p \in QueueOf(S) /\ Distinct(p) /\ p.capacity = q.capacity
      /\ Waiting(p) = Waiting(q) \ {id}
      /\ Len(p.queue) = Len(q.queue) - 1
  BY SpliceFacts
<1>2. Remove(q, id) = Dequeue(p) /\ RemoveResolves(q, id) = Resolved(p)
  BY DEF Remove, RemoveResolves, Dequeue
<1> HIDE DEF p
<1>3. /\ Dequeue(p) \in QueueOf(S) /\ Distinct(Dequeue(p))
      /\ Dequeue(p).capacity = p.capacity + 1
      /\ Waiting(Dequeue(p)) = Waiting(p) \ Resolved(p)
      /\ Resolved(p) \subseteq Waiting(p)
      /\ p.queue = <<>> => Resolved(p) = {} /\ Dequeue(p).queue = <<>>
      /\ p.queue # <<>> =>
           /\ \E h \in S : Resolved(p) = {h}
           /\ Len(Dequeue(p).queue) = Len(p.queue) - 1
  BY <1>1, DequeueFacts
<1>4. /\ Len(q.queue) \in Nat /\ Len(p.queue) \in Nat
      /\ (p.queue = <<>>) <=> (Len(p.queue) = 0)
  <2>1. q.queue \in Seq(S) /\ p.queue \in Seq(S)
    BY <1>1 DEF QueueOf
  <2> QED BY <2>1, EmptyList
<1>5. CASE p.queue = <<>>
  BY <1>1, <1>2, <1>3, <1>4, <1>5
<1>6. CASE p.queue # <<>>
  BY <1>1, <1>2, <1>3, <1>4, <1>6
<1> QED BY <1>5, <1>6

(***************************************************************************)
(* The order of the list.                                                  *)
(***************************************************************************)

(* enqueue: whoever must wait comes behind everybody who waits already. *)
LEMMA EnqueueOrder ==
  ASSUME NEW S, NEW q \in QueueOf(S), NEW id \in S, MustWait(q),
         NEW x \in Waiting(q)
  PROVE  LET s == Enqueue(q, id).queue
         IN  \E i, j \in DOMAIN s : i < j /\ s[i] = x /\ s[j] = id
<1> DEFINE s == Append(q.queue, id)
           n == Len(q.queue)
<1>1. Enqueue(q, id).queue = s
  BY DEF Enqueue
<1>2. /\ n \in Nat /\ DOMAIN q.queue = 1..n /\ DOMAIN s = 1..(n + 1)
      /\ \A i \in 1..n : s[i] = q.queue[i]
      /\ s[n + 1] = id
  BY DEF QueueOf
<1>3. PICK i \in 1..n : q.queue[i] = x
  BY <1>2 DEF Waiting
<1> HIDE DEF s, n
<1>4. i \in DOMAIN s /\ n + 1 \in DOMAIN s /\ i < n + 1 /\ s[i] = x
  BY <1>2, <1>3
<1> QED BY <1>1, <1>2, <1>4

(* dequeue: whoever is let through waited in front of everybody else. *)
LEMMA DequeueOrder ==
  ASSUME NEW S, NEW q \in QueueOf(S), NEW h \in Resolved(q),
         NEW x \in Waiting(q), x # h
  PROVE  \E i, j \in DOMAIN q.queue : i < j /\ q.queue[i] = h /\ q.queue[j] = x
<1>1. q.queue # <<>> /\ h = Head(q.queue)
  BY DEF Resolved
<1>2. /\ Len(q.queue) \in Nat /\ Len(q.queue) > 0 /\ h = q.queue[1]
      /\ DOMAIN q.queue = 1..Len(q.queue)
  BY <1>1 DEF QueueOf
<1>3. PICK j \in 1..Len(q.queue) : q.queue[j] = x
  BY <1>2 DEF Waiting
<1>4. 1 \in DOMAIN q.queue /\ j \in DOMAIN q.queue /\ 1 < j
  BY <1>2, <1>3
<1> QED BY <1>2, <1>3, <1>4

(* remove: whoever is let through in place of the removed id waited in     *)
(* front of everybody else who stays.                                      *)
LEMMA RemoveOrder ==
  ASSUME NEW S, NEW q \in QueueOf(S), Distinct(q), NEW id \in S, Has(q, id),
         NEW h \in RemoveResolves(q, id), NEW x \in Waiting(q), x # h, x # id
  PROVE  \E i, j \in DOMAIN q.queue : i < j /\ q.queue[i] = h /\ q.queue[j] = x
<1> DEFINE p == Splice(q, id)
           n == Len(q.queue)
           k == FindIndex(q, id)
<1>1. /\ p \in QueueOf(S) /\ Waiting(p) = Waiting(q) \ {id}
  BY SpliceFacts
<1>2. /\ n \in Nat /\ DOMAIN q.queue = 1..n /\ k \in 1..n
      /\ p = [capacity |-> q.capacity, queue |-> p.queue]
      /\ DOMAIN p.queue = 1..(n - 1)
      /\ \A i \in 1..(n - 1) :
           p.queue[i] = IF i < k THEN q.queue[i] ELSE q.queue[i + 1]
  BY SpliceList
<1>3. h \in Resolved(p)
  BY DEF RemoveResolves
<1> HIDE DEF p, n, k
<1>4. PICK i, j \in DOMAIN p.queue : i < j /\ p.queue[i] = h /\ p.queue[j] = x
  BY <1>1, <1>3, DequeueOrder
<1> DEFINE ii == IF i < k THEN i ELSE i + 1
           jj == IF j < k THEN j ELSE j + 1
<1>5. /\ ii \in 1..n /\ jj \in 1..n /\ ii < jj
      /\ q.queue[ii] = h /\ q.queue[jj] = x
  BY <1>2, <1>4
<1> HIDE DEF ii, jj
<1> QED BY <1>2, <1>5
=============================================================================
