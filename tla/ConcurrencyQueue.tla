-------------------------- MODULE ConcurrencyQueue --------------------------
(***************************************************************************)
(* The operations of class ConcurrencyQueue                                *)
(* (packages/cli/src/concurrency/concurrency-queue.ts) on its two fields,  *)
(* the counter `capacity` and the FIFO list `queue`.  The deferred promise *)
(* kept with every list element is left out: resolving it is reported by   *)
(* `Resolved`, and what the awaiting caller does next belongs to the       *)
(* modules that use the queue.                                             *)
(***************************************************************************)
EXTENDS Integers, Sequences, FiniteSets

(***************************************************************************)
(* A queue object.  `capacity` is decremented by every arrival and         *)
(* incremented by every departure, so it is negative exactly by the number *)
(* of waiting elements as long as nothing was let through early.           *)
(***************************************************************************)
NewQueue(limit) == [capacity |-> limit, queue |-> <<>>]

Waiting(q) == {q.queue[i] : i \in DOMAIN q.queue}

Has(q, id) == id \in Waiting(q)

(* Mutants: the counter is compared before the decrement, or with <=. *)
MustWaitBeforeDecrement(q) == q.capacity < 0

MustWaitAtZero(q) == q.capacity - 1 <= 0

(* An arrival waits iff it drives the counter below zero. *)
MustWait(q) == q.capacity - 1 < 0

(* Mutant: unshift instead of push. *)
EnqueueAtFront(q, id) ==
  [capacity |-> q.capacity - 1,
   queue    |-> IF MustWait(q) THEN <<id>> \o q.queue ELSE q.queue]

Enqueue(q, id) ==
  [capacity |-> q.capacity - 1,
   queue    |-> IF MustWait(q) THEN Append(q.queue, id) ELSE q.queue]

(* Mutant: the head is shifted but its resolve() is not called. *)
ResolvedNever(q) == {}

(* resolveNext: the head, if there is one, leaves the list and its promise *)
(* is resolved.                                                            *)
Resolved(q) == IF q.queue = <<>> THEN {} ELSE {Head(q.queue)}

ResolveNext(q) ==
  [capacity |-> q.capacity,
   queue    |-> IF q.queue = <<>> THEN <<>> ELSE Tail(q.queue)]

(* The counter alone, before resolveNext runs. *)
GiveBack(q) == [capacity |-> q.capacity + 1, queue |-> q.queue]

Dequeue(q) == ResolveNext(GiveBack(q))

(* findIndex: the first position of an id that is waiting. *)
FindIndex(q, id) ==
  CHOOSE i \in DOMAIN q.queue :
    q.queue[i] = id /\ \A j \in 1..(i - 1) : q.queue[j] # id

(* splice: that one element disappears, the order of the others stays. *)
Splice(q, id) ==
  LET i == FindIndex(q, id)
  IN  [capacity |-> q.capacity,
       queue    |-> SubSeq(q.queue, 1, i - 1)
                      \o SubSeq(q.queue, i + 1, Len(q.queue))]

(* Mutant: remove forgets to increment the counter. *)
RemoveKeepsCapacity(q, id) ==
  IF Has(q, id) THEN ResolveNext(Splice(q, id)) ELSE q

(* remove(id): nothing for an id that is not waiting; otherwise the id is  *)
(* spliced out, the counter is incremented and the next element resolved.  *)
Remove(q, id) ==
  IF Has(q, id) THEN ResolveNext(GiveBack(Splice(q, id))) ELSE q

RemoveResolves(q, id) ==
  IF Has(q, id) THEN Resolved(Splice(q, id)) ELSE {}
=============================================================================
