-------------------------- MODULE TaskBrokerProofs --------------------------
(***************************************************************************)
(* Proofs about TaskBroker.                                                *)
(*                                                                         *)
(* The argument follows an offer through its life: a runner numbers its    *)
(* offers, so an offer is made once, is pending, being confirmed or a task *)
(* of the broker but never two of these, and is answered and given its     *)
(* settings at most once.  IInv says this about the lists of the broker,   *)
(* the state of the runners and the messages between them.                 *)
(***************************************************************************)
EXTENDS TaskBroker, FiniteSetTheorems, TLAPS

-----------------------------------------------------------------------------
(***************************************************************************)
(* The inductive invariant                                                 *)
(***************************************************************************)

Distinct(s) == \A i, j \in DOMAIN s : s[i] = s[j] => i = j

(* No message of this type is in s twice. *)
Once(s, type) == \A i, j \in DOMAIN s : s[i].type = type /\ s[i] = s[j] => i = j

(* A runner and the broker exchange messages about this runner's offers. *)
Routed ==
  \A n \in Runners :
    /\ \A m \in Elements(toBroker[n]) :
         /\ m.type \in {"offer", "accepted", "rejected", "deferred", "result"}
         /\ m.task \in Offers /\ RunnerOf(m.task) = n
    /\ \A m \in Elements(toRunner[n]) :
         m.type \in {"accept", "settings", "cancel"} => m.task \in Offers /\ RunnerOf(m.task) = n

(* An offer that is anywhere in the system. *)
Used(o) ==
  \/ o \in Elements(offers) \cup accepting \cup tasks \cup open
  \/ status[o] # "none"
  \/ \E m \in Elements(toBroker[RunnerOf(o)]) \cup Elements(toRunner[RunnerOf(o)]) : m.task = o

(* The offers in the system are those the runner has numbered, so the next *)
(* number is free.  A runner that is gone offers nothing any more.         *)
Numbered ==
  /\ \A n \in Runners : sent[n] <= MaxOffers[n]
  /\ \A o \in Offers : Used(o) =>
       /\ conn[RunnerOf(o)] # "new"
       /\ conn[RunnerOf(o)] = "open" => o[2] <= sent[RunnerOf(o)]

(* pendingTaskRequests holds the requests whose callers wait for a task. *)
RequestsSound ==
  /\ Distinct(requests)
  /\ \A r \in Requests : r \in Elements(requests) <=> state[r] = "waiting"

(* A caller that waits for a result waits for a task that is tracked, and  *)
(* nobody else refers to a task.                                           *)
CallersSound ==
  /\ timed \subseteq tasks
  /\ AwaitedTaskIsTracked
  /\ \A r \in Requests : state[r] # "awaiting" => awaits[r] = None

(* An acceptance in progress is for a request that is marked so or that    *)
(* has expired, and no request has two of them.                            *)
AcceptingSound ==
  /\ \A o \in accepting :
       /\ reqOf[o] \in Requests
       /\ state[reqOf[o]] = "expired" \/ (state[reqOf[o]] = "waiting" /\ reqOf[o] \in inProgress)
  /\ \A o, p \in accepting : reqOf[o] = reqOf[p] => o = p

(* A task has a request, which awaits it or has expired. *)
TasksSound == (\A o \in tasks : reqOf[o] \in Requests) /\ OrphansOnlyAfterExpiry

(* An offer is on its way, pending, being confirmed or a task. *)
OneUse ==
  /\ Distinct(offers)
  /\ Elements(offers) \cap accepting = {} /\ (Elements(offers) \cup accepting) \cap tasks = {}
  /\ \A n \in Runners : Once(toBroker[n], "offer")
  /\ \A n \in Runners : \A m \in Elements(toBroker[n]) :
       m.type = "offer" => m.task \notin Elements(offers) \cup accepting \cup tasks

(* An offer is open, then its acceptance is on its way, then its settings, *)
(* and until they arrive its task does not run.                            *)
OneStart ==
  \A o \in Offers :
    LET n == RunnerOf(o)
    IN  /\ o \in open \/ Msg("accepted", o) \in Elements(toBroker[n])
             => Msg("settings", o) \notin Elements(toRunner[n])
        /\ o \in open => status[o] = "none" /\ Msg("accepted", o) \notin Elements(toBroker[n])
        /\ Msg("accepted", o) \in Elements(toBroker[n]) \/ Msg("settings", o) \in Elements(toRunner[n])
             => status[o] \in {"none", "waitingForSettings"}

(* Acceptances and settings are never sent twice. *)
OneAnswer == \A n \in Runners : Once(toBroker[n], "accepted") /\ Once(toRunner[n], "settings")

IInv ==
  /\ TypeOK
  /\ Routed
  /\ Numbered
  /\ RequestsSound
  /\ CallersSound
  /\ AcceptingSound
  /\ TasksSound
  /\ OneUse
  /\ OneStart
  /\ OneAnswer
  /\ WithinConcurrency

-----------------------------------------------------------------------------
(***************************************************************************)
(* Sequences                                                               *)
(***************************************************************************)

(* The members at some places: nothing else, nothing twice. *)
LEMMA AtFacts ==
  ASSUME NEW T, NEW s \in Seq(T), NEW K \in SUBSET DOMAIN s
  PROVE  /\ At(s, K) \in Seq(T)
         /\ Elements(At(s, K)) = {s[i] : i \in K}
         /\ Distinct(s) => Distinct(At(s, K))
<1> DEFINE Below(i) == {j \in K : j <= i}
           c == Cardinality(K)
           rank == [i \in K |-> Cardinality(Below(i))]
           place == [k \in 1..c |-> CHOOSE i \in K : Cardinality(Below(i)) = k]
<1>1. DOMAIN s = 1..Len(s) /\ Len(s) \in Nat /\ K \subseteq Nat /\ IsFiniteSet(K) /\ c \in Nat
  <2>1. DOMAIN s = 1..Len(s) /\ Len(s) \in Nat /\ K \subseteq Nat /\ K \in SUBSET (1..Len(s))
    OBVIOUS
  <2>2. IsFiniteSet(1..Len(s))
    BY <2>1, FS_Interval
  <2>3. IsFiniteSet(K)
    BY <2>1, <2>2, FS_Subset
  <2> QED BY <2>1, <2>3, FS_CardinalityType
<1>2. ASSUME NEW i \in K
      PROVE  IsFiniteSet(Below(i)) /\ Cardinality(Below(i)) \in 1..c
  <2>1. Below(i) \in SUBSET K /\ i \in Below(i)
    BY <1>1
  <2> HIDE DEF Below, c
  <2>2. IsFiniteSet(Below(i)) /\ Cardinality(Below(i)) <= c /\ Cardinality(Below(i)) \in Nat
    BY <1>1, <2>1, FS_Subset, FS_CardinalityType DEF c
  <2>3. Cardinality(Below(i)) # 0
    BY <2>1, <2>2, FS_EmptySet
  <2> QED BY <1>1, <2>2, <2>3
<1>3. ASSUME NEW i \in K, NEW j \in K, i < j
      PROVE  rank[i] # rank[j]
  <2>1. Below(i) \in SUBSET Below(j) /\ j \in Below(j) /\ j \notin Below(i) /\ i \in Nat /\ j \in Nat
    BY <1>1, <1>3
  <2>2. IsFiniteSet(Below(j))
    BY <1>2
  <2> HIDE DEF Below
  <2>3. Cardinality(Below(i)) # Cardinality(Below(j))
    BY <2>1, <2>2, FS_Subset
  <2> QED BY <2>3
<1>4. rank \in [K -> 1..c] /\ \A i, j \in K : rank[i] = rank[j] => i = j
  <2>1. rank \in [K -> 1..c]
    BY <1>2
  <2>2. ASSUME NEW i \in K, NEW j \in K, rank[i] = rank[j] PROVE i = j
    <3> HIDE DEF rank
    <3>1. ~(i < j) /\ ~(j < i)
      BY <1>3, <2>2
    <3> QED BY <1>1, <3>1
  <2> HIDE DEF rank
  <2> QED BY <2>1, <2>2
<1>5. \A k \in 1..c : \E i \in K : rank[i] = k
  <2> HIDE DEF rank, c
  <2>1. rank \in Injection(K, 1..c)
    BY <1>4, Zenon DEF Injection, IsInjective
  <2>2. IsFiniteSet(1..c) /\ Cardinality(1..c) = c
    BY <1>1, FS_Interval
  <2>3. rank \in Surjection(K, 1..c)
    BY <2>1, <2>2, FS_Injection DEF c
  <2> QED BY <2>3 DEF Surjection
<1>6. \A k \in 1..c : place[k] \in K /\ rank[place[k]] = k
  <2> TAKE k \in 1..c
  <2>1. PICK i \in K : Cardinality(Below(i)) = k
    BY <1>5
  <2> HIDE DEF Below
  <2>2. (CHOOSE j \in K : Cardinality(Below(j)) = k) \in K
        /\ Cardinality(Below(CHOOSE j \in K : Cardinality(Below(j)) = k)) = k
    BY <2>1, Zenon
  <2> QED BY <2>2
<1>7. At(s, K) = [k \in 1..c |-> s[place[k]]]
  BY DEF At
<1> HIDE DEF rank, place, c
<1>8. \A i \in K : rank[i] \in 1..c /\ place[rank[i]] = i
  BY <1>4, <1>6
<1>9. At(s, K) \in Seq(T) /\ DOMAIN At(s, K) = 1..c
  BY <1>1, <1>6, <1>7
<1>10. Elements(At(s, K)) = {s[i] : i \in K}
  <2>1. \A k \in 1..c : At(s, K)[k] = s[place[k]]
    BY <1>7
  <2>2. Elements(At(s, K)) \subseteq {s[i] : i \in K}
    BY <1>6, <1>9, <2>1 DEF Elements
  <2>3. \A i \in K : s[i] = At(s, K)[rank[i]]
    BY <1>8, <2>1
  <2>4. {s[i] : i \in K} \subseteq Elements(At(s, K))
    BY <1>8, <1>9, <2>3 DEF Elements
  <2> QED BY <2>2, <2>4
<1>11. ASSUME Distinct(s) PROVE Distinct(At(s, K))
  <2> SUFFICES ASSUME NEW k \in 1..c, NEW l \in 1..c, s[place[k]] = s[place[l]] PROVE k = l
    BY <1>7, <1>9 DEF Distinct
  <2>1. place[k] = place[l]
    BY <1>6, <1>11 DEF Distinct
  <2> QED BY <1>6, <2>1
<1> QED BY <1>9, <1>10, <1>11

(* What Without keeps. *)
LEMMA WithoutFacts ==
  ASSUME NEW T, NEW s \in Seq(T), NEW S
  PROVE  /\ Without(s, S) \in Seq(T)
         /\ Elements(Without(s, S)) = Elements(s) \ S
         /\ Distinct(s) => Distinct(Without(s, S))
<1> DEFINE K == {i \in DOMAIN s : s[i] \notin S}
<1>1. K \in SUBSET DOMAIN s
  OBVIOUS
<1>2. {s[i] : i \in K} = Elements(s) \ S
  BY DEF Elements
<1>3. Without(s, S) = At(s, K)
  BY DEF Without
<1> HIDE DEF K
<1> QED BY <1>1, <1>2, <1>3, AtFacts

(* The empty list. *)
LEMMA EmptyFacts ==
  /\ Elements(<<>>) = {} /\ Distinct(<<>>)
  /\ \A type : Once(<<>>, type)
BY DEF Elements, Distinct, Once

(* Appending to a list. *)
LEMMA AppendFacts ==
  ASSUME NEW T, NEW s \in Seq(T), NEW x \in T
  PROVE  /\ Append(s, x) \in Seq(T)
         /\ Elements(Append(s, x)) = Elements(s) \cup {x}
         /\ Distinct(s) /\ x \notin Elements(s) => Distinct(Append(s, x))
<1>1. /\ Append(s, x) \in Seq(T) /\ DOMAIN Append(s, x) = 1..(Len(s) + 1)
      /\ DOMAIN s = 1..Len(s) /\ Len(s) \in Nat
      /\ \A i \in 1..(Len(s) + 1) : Append(s, x)[i] = IF i <= Len(s) THEN s[i] ELSE x
  OBVIOUS
<1>2. Elements(Append(s, x)) \subseteq Elements(s) \cup {x}
  BY <1>1 DEF Elements
<1>3. \A i \in DOMAIN s : i \in DOMAIN Append(s, x) /\ Append(s, x)[i] = s[i]
  BY <1>1
<1>4. Len(s) + 1 \in DOMAIN Append(s, x) /\ Append(s, x)[Len(s) + 1] = x
  BY <1>1
<1>5. Elements(s) \cup {x} \subseteq Elements(Append(s, x))
  BY <1>3, <1>4 DEF Elements
<1>6. ASSUME Distinct(s), x \notin Elements(s), NEW i \in 1..(Len(s) + 1), NEW j \in 1..(Len(s) + 1),
             Append(s, x)[i] = Append(s, x)[j]
      PROVE  i = j
  BY <1>1, <1>6 DEF Distinct, Elements
<1> QED BY <1>1, <1>2, <1>5, <1>6 DEF Distinct

(* One list after another. *)
LEMMA ConcatFacts ==
  ASSUME NEW T, NEW s \in Seq(T), NEW t \in Seq(T)
  PROVE  /\ s \o t \in Seq(T)
         /\ Elements(s \o t) = Elements(s) \cup Elements(t)
         /\ \A type : /\ Once(s, type) /\ Once(t, type)
                      /\ \A m \in Elements(s) : m.type = type => m \notin Elements(t)
                      => Once(s \o t, type)
<1>1. /\ s \o t \in Seq(T) /\ DOMAIN (s \o t) = 1..(Len(s) + Len(t))
      /\ DOMAIN s = 1..Len(s) /\ DOMAIN t = 1..Len(t) /\ Len(s) \in Nat /\ Len(t) \in Nat
      /\ \A i \in 1..(Len(s) + Len(t)) : (s \o t)[i] = IF i <= Len(s) THEN s[i] ELSE t[i - Len(s)]
  OBVIOUS
<1>2. \A i \in DOMAIN (s \o t) :
        \/ i \in DOMAIN s /\ (s \o t)[i] = s[i]
        \/ i - Len(s) \in DOMAIN t /\ (s \o t)[i] = t[i - Len(s)] /\ i > Len(s)
  BY <1>1
<1>3. \A i \in DOMAIN s : i \in DOMAIN (s \o t) /\ (s \o t)[i] = s[i]
  BY <1>1
<1>4. \A i \in DOMAIN t : i + Len(s) \in DOMAIN (s \o t) /\ (s \o t)[i + Len(s)] = t[i]
  BY <1>1
<1>5. Elements(s \o t) = Elements(s) \cup Elements(t)
  <2>1. Elements(s \o t) \subseteq Elements(s) \cup Elements(t)
    BY <1>2 DEF Elements
  <2>2. Elements(s) \subseteq Elements(s \o t)
    BY <1>3 DEF Elements
  <2>3. Elements(t) \subseteq Elements(s \o t)
    BY <1>4 DEF Elements
  <2> QED BY <2>1, <2>2, <2>3
<1>6. ASSUME NEW type, Once(s, type), Once(t, type),
             \A m \in Elements(s) : m.type = type => m \notin Elements(t)
      PROVE  Once(s \o t, type)
  <2> SUFFICES ASSUME NEW i \in DOMAIN (s \o t), NEW j \in DOMAIN (s \o t),
                      (s \o t)[i].type = type, (s \o t)[i] = (s \o t)[j]
               PROVE  i = j
    BY DEF Once
  <2>0. i \in Int /\ j \in Int /\ Len(s) \in Int
    BY <1>1
  <2> DEFINE u == (s \o t)[i]
  <2>1. u = (s \o t)[i] /\ u = (s \o t)[j] /\ u.type = type
    OBVIOUS
  <2> HIDE DEF u
  <2>2. CASE i \in DOMAIN s /\ u = s[i] /\ j \in DOMAIN s /\ u = s[j]
    BY <1>6, <2>1, <2>2, Zenon DEF Once
  <2>3. CASE i - Len(s) \in DOMAIN t /\ u = t[i - Len(s)] /\ j - Len(s) \in DOMAIN t /\ u = t[j - Len(s)]
    <3>1. i - Len(s) = j - Len(s)
      BY <1>6, <2>1, <2>3, Zenon DEF Once
    <3> QED BY <2>0, <3>1
  <2>4. ~(u \in Elements(s) /\ u \in Elements(t))
    BY <1>6, <2>1
  <2>5. \A k \in DOMAIN s : s[k] \in Elements(s)
    BY DEF Elements
  <2>6. \A k \in DOMAIN t : t[k] \in Elements(t)
    BY DEF Elements
  <2> QED BY <1>2, <2>1, <2>2, <2>3, <2>4, <2>5, <2>6
<1> QED BY <1>1, <1>5, <1>6

(* Taking a message from a channel. *)
LEMMA TailFacts ==
  ASSUME NEW T, NEW s \in Seq(T), s # <<>>
  PROVE  /\ Head(s) \in T /\ Tail(s) \in Seq(T)
         /\ Elements(s) = Elements(Tail(s)) \cup {Head(s)}
         /\ \A type : Once(s, type) =>
              Once(Tail(s), type) /\ (Head(s).type = type => Head(s) \notin Elements(Tail(s)))
<1>1. /\ Tail(s) \in Seq(T) /\ DOMAIN Tail(s) = 1..(Len(s) - 1) /\ Head(s) = s[1]
      /\ DOMAIN s = 1..Len(s) /\ Len(s) \in Nat /\ Len(s) > 0
      /\ \A i \in 1..(Len(s) - 1) : Tail(s)[i] = s[i + 1]
  OBVIOUS
<1>2. \A i \in DOMAIN Tail(s) : i + 1 \in DOMAIN s /\ Tail(s)[i] = s[i + 1] /\ i + 1 # 1 /\ i \in Int
  BY <1>1
<1>3. \A i \in DOMAIN s : i = 1 \/ (i - 1 \in DOMAIN Tail(s) /\ Tail(s)[i - 1] = s[i])
  BY <1>1
<1>4. 1 \in DOMAIN s /\ s[1] = Head(s)
  BY <1>1
<1>5. Elements(s) = Elements(Tail(s)) \cup {Head(s)}
  <2>1. Elements(s) \subseteq Elements(Tail(s)) \cup {Head(s)}
    BY <1>3, <1>4 DEF Elements
  <2>2. Elements(Tail(s)) \subseteq Elements(s)
    BY <1>2 DEF Elements
  <2>3. Head(s) \in Elements(s)
    BY <1>4 DEF Elements
  <2> QED BY <2>1, <2>2, <2>3
<1>6. ASSUME NEW type, Once(s, type) PROVE Once(Tail(s), type)
  BY <1>2, <1>6 DEF Once
<1>7. ASSUME NEW type, Once(s, type), Head(s).type = type PROVE Head(s) \notin Elements(Tail(s))
  BY <1>2, <1>4, <1>7 DEF Once, Elements
<1> QED BY <1>1, <1>4, <1>5, <1>6, <1>7

-----------------------------------------------------------------------------
(***************************************************************************)
(* Offers and messages                                                     *)
(***************************************************************************)

(* An offer is a runner and a number. *)
LEMMA OfferFacts ==
  /\ \A o \in Offers : RunnerOf(o) \in Runners /\ o[2] \in Nat /\ o = <<RunnerOf(o), o[2]>>
  /\ \A n \in Runners, i \in Nat :
       /\ <<n, i>>[2] = i /\ RunnerOf(<<n, i>>) = n
       /\ i \in 1..MaxOffers[n] => <<n, i>> \in Offers
<1>1. \A n \in Runners : MaxOffers[n] \in Nat
  BY BrokerConstants
<1>2. ASSUME NEW o \in Offers
      PROVE  RunnerOf(o) \in Runners /\ o[2] \in Nat /\ o = <<RunnerOf(o), o[2]>>
  <2>1. PICK n \in Runners : o \in {n} \X (1..MaxOffers[n])
    BY DEF Offers
  <2> QED BY <1>1, <2>1 DEF RunnerOf
<1>3. ASSUME NEW n \in Runners, NEW i \in Nat
      PROVE  /\ <<n, i>>[2] = i /\ RunnerOf(<<n, i>>) = n
             /\ i \in 1..MaxOffers[n] => <<n, i>> \in Offers
  BY DEF RunnerOf, Offers
<1> QED BY <1>2, <1>3

(* A runner has finitely many offers. *)
LEMMA OffersOfFinite ==
  ASSUME NEW n \in Runners, NEW S \in SUBSET {o \in Offers : RunnerOf(o) = n}
  PROVE  IsFiniteSet(S) /\ Cardinality(S) \in Nat
<1> DEFINE f == [i \in 1..MaxOffers[n] |-> <<n, i>>]
           O == {o \in Offers : RunnerOf(o) = n}
<1>1. MaxOffers[n] \in Nat /\ IsFiniteSet(1..MaxOffers[n])
  BY BrokerConstants, FS_Interval
<1>2. \A i \in 1..MaxOffers[n] : i \in Nat /\ f[i] \in O
  BY <1>1, OfferFacts
<1>3. ASSUME NEW o \in O PROVE \E i \in 1..MaxOffers[n] : f[i] = o
  <2>1. PICK m \in Runners : o \in {m} \X (1..MaxOffers[m])
    BY DEF Offers
  <2>2. m = n
    BY <2>1 DEF RunnerOf
  <2> QED BY <2>1, <2>2
<1>4. f \in Surjection(1..MaxOffers[n], O)
  <2> HIDE DEF O
  <2>1. f \in [1..MaxOffers[n] -> O]
    BY <1>2
  <2> HIDE DEF f
  <2> QED BY <1>3, <2>1 DEF Surjection
<1>5. IsFiniteSet(O)
  <2> HIDE DEF O, f
  <2> QED BY <1>1, <1>4, FS_Surjection
<1> QED BY <1>5, FS_Subset, FS_CardinalityType

MessageTypes == {"registered", "drain", "accept", "settings", "cancel", "offer",
                 "accepted", "rejected", "deferred", "result"}

(* A message is its type and its task. *)
LEMMA MessageFacts ==
  /\ \A type \in MessageTypes, o \in Offers \cup {None} :
       Msg(type, o) \in Message /\ Msg(type, o).type = type /\ Msg(type, o).task = o
  /\ \A m \in Message : /\ m.type \in MessageTypes /\ m.task \in Offers \cup {None}
                        /\ m = Msg(m.type, m.task)
BY DEF Msg, Message, MessageTypes

Tracked == {"offer", "accepted", "settings"}

(* Channels d hold no other messages than c, and no more of them. *)
Fewer(c, d) ==
  \A n \in Runners :
    /\ Elements(d[n]) \subseteq Elements(c[n])
    /\ \A type \in Tracked : Once(c[n], type) => Once(d[n], type)

(* A message is taken from the channel of a runner. *)
Taken(c, n) == [c EXCEPT ![n] = Tail(@)]

LEMMA TakenFacts ==
  ASSUME NEW c \in [Runners -> Seq(Message)], NEW n \in Runners, c[n] # <<>>
  PROVE  /\ Taken(c, n) \in [Runners -> Seq(Message)] /\ Fewer(c, Taken(c, n))
         /\ Head(c[n]) \in Message /\ Head(c[n]) \in Elements(c[n])
         /\ \A type \in Tracked :
              Once(c[n], type) /\ Head(c[n]).type = type => Head(c[n]) \notin Elements(Taken(c, n)[n])
<1> DEFINE d == Taken(c, n)
<1>1. c[n] \in Seq(Message)
  OBVIOUS
<1>2. /\ Head(c[n]) \in Message /\ Tail(c[n]) \in Seq(Message)
      /\ Elements(c[n]) = Elements(Tail(c[n])) \cup {Head(c[n])}
      /\ \A type : Once(c[n], type) =>
           Once(Tail(c[n]), type) /\ (Head(c[n]).type = type => Head(c[n]) \notin Elements(Tail(c[n])))
  BY <1>1, TailFacts
<1>3. d[n] = Tail(c[n]) /\ \A k \in Runners : k # n => d[k] = c[k]
  BY DEF Taken
<1>4. d \in [Runners -> Seq(Message)]
  BY <1>2 DEF Taken
<1> HIDE DEF d
<1>5. Fewer(c, d)
  <2> SUFFICES ASSUME NEW k \in Runners
               PROVE  /\ Elements(d[k]) \subseteq Elements(c[k])
                      /\ \A type \in Tracked : Once(c[k], type) => Once(d[k], type)
    BY DEF Fewer
  <2> QED BY <1>2, <1>3
<1> QED BY <1>2, <1>3, <1>4, <1>5 DEF d

(* The channels of some runners are emptied. *)
Cleared(c, R) == [n \in Runners |-> IF n \in R THEN <<>> ELSE c[n]]

LEMMA ClearedFacts ==
  ASSUME NEW c \in [Runners -> Seq(Message)], NEW R
  PROVE  Cleared(c, R) \in [Runners -> Seq(Message)] /\ Fewer(c, Cleared(c, R))
<1> DEFINE d == Cleared(c, R)
<1>1. d \in [Runners -> Seq(Message)] /\ \A n \in Runners : d[n] = <<>> \/ d[n] = c[n]
  BY DEF Cleared
<1> HIDE DEF d
<1>2. ASSUME NEW k \in Runners
      PROVE  /\ Elements(d[k]) \subseteq Elements(c[k])
             /\ \A type \in Tracked : Once(c[k], type) => Once(d[k], type)
  BY <1>1, EmptyFacts
<1>3. Fewer(c, d)
  BY <1>2 DEF Fewer
<1> QED BY <1>1, <1>3 DEF d

LEMMA ClearedOne ==
  ASSUME NEW c \in [Runners -> Seq(Message)], NEW n \in Runners
  PROVE  [c EXCEPT ![n] = <<>>] = Cleared(c, {n})
BY DEF Cleared

(* Nothing happens to a channel. *)
LEMMA SameFacts ==
  ASSUME NEW c, NEW d, d = c
  PROVE  Fewer(c, d)
BY DEF Fewer

(* No message of this type is in both. *)
Apart(s, t, type) == \A m \in Elements(t) : m.type = type => m \notin Elements(s)

(* Messages are added to a channel. *)
LEMMA MoreFacts ==
  ASSUME NEW s \in Seq(Message), NEW t \in Seq(Message), Distinct(t)
  PROVE  /\ s \o t \in Seq(Message)
         /\ Elements(s \o t) = Elements(s) \cup Elements(t)
         /\ \A type \in Tracked :
              Once(s, type) /\ Apart(s, t, type)
              => Once(s \o t, type)
<1>1. \A type : Once(t, type)
  BY DEF Once, Distinct
<1>2. ASSUME NEW type \in Tracked, Once(s, type), Apart(s, t, type)
      PROVE  Once(s \o t, type)
  <2>1. \A m \in Elements(s) : m.type = type => m \notin Elements(t)
    BY <1>2 DEF Apart
  <2> QED BY <1>1, <1>2, <2>1, ConcatFacts
<1> QED BY <1>2, ConcatFacts

(* Messages msgs are sent to their runners, as far as these are in R. *)
Sent(R, c, msgs) ==
  [n \in Runners |->
     IF n \in R THEN c[n] \o At(msgs, {i \in DOMAIN msgs : RunnerOf(msgs[i].task) = n}) ELSE c[n]]

LEMMA SentFacts ==
  ASSUME NEW R, NEW c \in [Runners -> Seq(Message)], NEW msgs \in Seq(Message), Distinct(msgs)
  PROVE  /\ Sent(R, c, msgs) \in [Runners -> Seq(Message)]
         /\ \A n \in Runners : \A m \in Elements(Sent(R, c, msgs)[n]) :
              m \in Elements(c[n]) \/ (m \in Elements(msgs) /\ RunnerOf(m.task) = n /\ n \in R)
         /\ \A n \in Runners : \A type \in Tracked :
              Once(c[n], type) /\ Apart(c[n], msgs, type)
              => Once(Sent(R, c, msgs)[n], type)
<1> DEFINE d == Sent(R, c, msgs)
           K(n) == {i \in DOMAIN msgs : RunnerOf(msgs[i].task) = n}
<1>1. ASSUME NEW n \in Runners
      PROVE  /\ At(msgs, K(n)) \in Seq(Message) /\ Distinct(At(msgs, K(n)))
             /\ \A m \in Elements(At(msgs, K(n))) : m \in Elements(msgs) /\ RunnerOf(m.task) = n
  <2>1. K(n) \in SUBSET DOMAIN msgs
    OBVIOUS
  <2>2. \A m \in {msgs[i] : i \in K(n)} : m \in Elements(msgs) /\ RunnerOf(m.task) = n
    BY DEF Elements
  <2> HIDE DEF K
  <2>3. /\ At(msgs, K(n)) \in Seq(Message) /\ Distinct(At(msgs, K(n)))
        /\ Elements(At(msgs, K(n))) = {msgs[i] : i \in K(n)}
    BY <2>1, AtFacts
  <2> QED BY <2>2, <2>3
<1>2. d = [n \in Runners |-> IF n \in R THEN c[n] \o At(msgs, K(n)) ELSE c[n]]
  BY DEF Sent
<1> HIDE DEF K, d
<1>3. ASSUME NEW n \in Runners
      PROVE  /\ d[n] \in Seq(Message)
             /\ \A m \in Elements(d[n]) :
                  m \in Elements(c[n]) \/ (m \in Elements(msgs) /\ RunnerOf(m.task) = n /\ n \in R)
             /\ \A type \in Tracked :
                  Once(c[n], type) /\ Apart(c[n], msgs, type)
                  => Once(d[n], type)
  <2>1. c[n] \in Seq(Message)
    OBVIOUS
  <2>2. CASE n \in R
    <3>1. d[n] = c[n] \o At(msgs, K(n))
      BY <1>2, <2>2
    <3>2. /\ c[n] \o At(msgs, K(n)) \in Seq(Message)
          /\ Elements(c[n] \o At(msgs, K(n))) = Elements(c[n]) \cup Elements(At(msgs, K(n)))
          /\ \A type \in Tracked :
               Once(c[n], type) /\ Apart(c[n], At(msgs, K(n)), type)
               => Once(c[n] \o At(msgs, K(n)), type)
      BY <1>1, <2>1, MoreFacts
    <3>3. \A type : Apart(c[n], msgs, type) => Apart(c[n], At(msgs, K(n)), type)
      BY <1>1 DEF Apart
    <3> QED BY <1>1, <2>2, <3>1, <3>2, <3>3
  <2>3. CASE n \notin R
    BY <1>2, <2>1, <2>3
  <2> QED BY <2>2, <2>3
<1>4. d = [n \in Runners |-> d[n]]
  BY <1>2
<1>5. d \in [Runners -> Seq(Message)]
  BY <1>3, <1>4
<1> QED BY <1>3, <1>5 DEF d

(* One message is sent. *)
LEMMA SentOneFacts ==
  ASSUME NEW R, NEW c \in [Runners -> Seq(Message)], NEW type \in MessageTypes, NEW o \in Offers
  PROVE  /\ Sent(R, c, <<Msg(type, o)>>) \in [Runners -> Seq(Message)]
         /\ \A n \in Runners : \A m \in Elements(Sent(R, c, <<Msg(type, o)>>)[n]) :
              m \in Elements(c[n]) \/ (m = Msg(type, o) /\ RunnerOf(o) = n /\ n \in R)
         /\ \A n \in Runners : \A u \in Tracked :
              Once(c[n], u) /\ (u = type => Msg(type, o) \notin Elements(c[n]))
              => Once(Sent(R, c, <<Msg(type, o)>>)[n], u)
<1> DEFINE msgs == <<Msg(type, o)>>
<1>1. Msg(type, o) \in Message /\ Msg(type, o).type = type /\ Msg(type, o).task = o
  BY MessageFacts
<1>2. msgs \in Seq(Message) /\ Distinct(msgs) /\ Elements(msgs) = {Msg(type, o)}
  <2>1. DOMAIN msgs = {1} /\ msgs[1] = Msg(type, o)
    OBVIOUS
  <2>2. msgs \in Seq(Message)
    BY <1>1
  <2> HIDE DEF msgs
  <2> QED BY <2>1, <2>2 DEF Distinct, Elements
<1> HIDE DEF msgs
<1>3. /\ Sent(R, c, msgs) \in [Runners -> Seq(Message)]
      /\ \A n \in Runners : \A m \in Elements(Sent(R, c, msgs)[n]) :
           m \in Elements(c[n]) \/ (m \in Elements(msgs) /\ RunnerOf(m.task) = n /\ n \in R)
      /\ \A n \in Runners : \A u \in Tracked :
           Once(c[n], u) /\ Apart(c[n], msgs, u)
           => Once(Sent(R, c, msgs)[n], u)
  BY <1>2, SentFacts
<1>4. Sent(R, c, msgs) = Sent(R, c, <<Msg(type, o)>>)
  BY DEF msgs
<1>5. \A n \in Runners : \A u \in Tracked : (u = type => Msg(type, o) \notin Elements(c[n])) => Apart(c[n], msgs, u)
  BY <1>1, <1>2 DEF Apart
<1> QED BY <1>1, <1>2, <1>3, <1>4, <1>5

Reachable == {n \in known : conn[n] = "open"}

(* messageRunner reaches the runner of a message if it is connected. *)
LEMMA SendAllIsSent ==
  ASSUME NEW c, NEW msgs
  PROVE  SendAll(c, msgs) = Sent(Reachable, c, msgs)
BY DEF SendAll, Sent, Reachable

-----------------------------------------------------------------------------
(***************************************************************************)
(* Matching                                                                *)
(***************************************************************************)

(* settleTasks: every offer that is taken gets a request of its own, which *)
(* was free and is now in progress; offers neither come nor are used       *)
(* twice; the runners are asked to confirm.                                *)
LEMMA SettleFacts ==
  ASSUME TypeOK,
         NEW reqs \in Seq(Requests), Distinct(reqs), NEW offs \in Seq(Offers), Distinct(offs),
         Settle(reqs, offs)
  PROVE  \E N \in SUBSET Elements(offs) :
           /\ requests' = reqs
           /\ offers' \in Seq(Offers) /\ Distinct(offers')
           /\ Elements(offers') \subseteq Elements(offs) \ N
           /\ accepting' = accepting \cup N
           /\ inProgress \subseteq inProgress' /\ inProgress' \subseteq Requests
           /\ reqOf' \in [Offers -> Requests \cup {None}]
           /\ \A o \in Offers \ N : reqOf'[o] = reqOf[o]
           /\ \A o \in N : reqOf'[o] \in (Elements(reqs) \ inProgress) \cap inProgress'
           /\ \A o, p \in N : reqOf'[o] = reqOf'[p] => o = p
           /\ toRunner' \in [Runners -> Seq(Message)]
           /\ \A n \in Runners : \A m \in Elements(toRunner'[n]) :
                m \in Elements(toRunner[n])
                \/ (\E o \in N : m = Msg("accept", o) /\ RunnerOf(o) = n /\ conn[n] = "open")
           /\ \A n \in Runners : Once(toRunner[n], "settings") => Once(toRunner'[n], "settings")
<1>1. PICK lapsed \in SUBSET {o \in Elements(offs) : RunnerOf(o) \notin Launchers} :
        LET valid == Without(offs, lapsed)
            free == Free(reqs)
            n == IF Len(free) < Len(valid) THEN Len(free) ELSE Len(valid)
            taken == SubSeq(valid, 1, n)
        IN  /\ requests' = reqs
            /\ offers' = SubSeq(valid, n + 1, Len(valid))
            /\ inProgress' = inProgress \cup {free[i] : i \in 1..n}
            /\ reqOf' = [o \in Offers |->
                           IF \E i \in 1..n : taken[i] = o
                           THEN free[CHOOSE i \in 1..n : taken[i] = o]
                           ELSE reqOf[o]]
            /\ accepting' = accepting \cup Elements(taken)
            /\ toRunner' = SendAll(toRunner, [i \in 1..n |-> Msg("accept", taken[i])])
  BY DEF Settle
<1> DEFINE valid == Without(offs, lapsed)
           free == Free(reqs)
           n == IF Len(free) < Len(valid) THEN Len(free) ELSE Len(valid)
           taken == SubSeq(valid, 1, n)
           msgs == [i \in 1..n |-> Msg("accept", taken[i])]
           N == Elements(taken)
           at(o) == CHOOSE i \in 1..n : taken[i] = o
<1>2. /\ requests' = reqs
      /\ offers' = SubSeq(valid, n + 1, Len(valid))
      /\ inProgress' = inProgress \cup {free[i] : i \in 1..n}
      /\ reqOf' = [o \in Offers |-> IF \E i \in 1..n : taken[i] = o THEN free[at(o)] ELSE reqOf[o]]
      /\ accepting' = accepting \cup N
      /\ toRunner' = SendAll(toRunner, msgs)
  BY <1>1
<1>3. /\ valid \in Seq(Offers) /\ Elements(valid) \subseteq Elements(offs) /\ Distinct(valid)
      /\ free \in Seq(Requests) /\ Elements(free) = Elements(reqs) \ inProgress /\ Distinct(free)
  BY WithoutFacts DEF Free
<1> HIDE DEF valid, free
<1>4. /\ n \in Nat /\ Len(free) \in Nat /\ Len(valid) \in Nat
      /\ n <= Len(free) /\ n <= Len(valid)
      /\ DOMAIN free = 1..Len(free) /\ DOMAIN valid = 1..Len(valid)
  BY <1>3
<1> HIDE DEF n
<1>5. /\ taken \in Seq(Offers) /\ DOMAIN taken = 1..n
      /\ \A i \in 1..n : taken[i] = valid[i] /\ i \in DOMAIN valid /\ valid[i] \in Offers
  BY <1>3, <1>4
<1> HIDE DEF taken
<1>6. /\ offers' \in Seq(Offers) /\ DOMAIN offers' = 1..(Len(valid) - n)
      /\ \A i \in 1..(Len(valid) - n) : offers'[i] = valid[i + n] /\ i + n \in DOMAIN valid
  BY <1>2, <1>3, <1>4
<1>7. /\ \A i \in 1..n : free[i] \in Elements(free) /\ free[i] \in Requests
      /\ \A i, j \in 1..n : free[i] = free[j] => i = j
      /\ \A i, j \in 1..n : taken[i] = taken[j] => i = j
  <2>1. \A i \in 1..n : i \in DOMAIN free /\ free[i] \in Requests
    BY <1>3, <1>4
  <2>2. \A i \in 1..n : free[i] \in Elements(free)
    BY <2>1 DEF Elements
  <2>3. \A i, j \in 1..n : free[i] = free[j] => i = j
    BY <1>3, <2>1 DEF Distinct
  <2>4. \A i, j \in 1..n : taken[i] = taken[j] => i = j
    BY <1>3, <1>5 DEF Distinct
  <2> QED BY <2>1, <2>2, <2>3, <2>4
<1>8. N \in SUBSET Elements(offs) /\ N = {taken[i] : i \in 1..n} /\ N \subseteq Offers
  <2>1. N = {taken[i] : i \in 1..n}
    BY <1>5 DEF Elements
  <2>2. N \subseteq Elements(valid)
    BY <1>5, <2>1 DEF Elements
  <2>3. N \subseteq Offers
    BY <1>5, <2>1
  <2> QED BY <1>3, <2>1, <2>2, <2>3
<1>9. Distinct(offers') /\ Elements(offers') \subseteq Elements(offs) \ N
  <2>1. Distinct(offers')
    <3> SUFFICES ASSUME NEW i \in 1..(Len(valid) - n), NEW j \in 1..(Len(valid) - n),
                        valid[i + n] = valid[j + n]
                 PROVE  i = j
      BY <1>6 DEF Distinct
    <3>1. i + n = j + n
      BY <1>3, <1>6 DEF Distinct
    <3> QED BY <1>4, <3>1
  <2>2. ASSUME NEW i \in 1..(Len(valid) - n), NEW j \in 1..n PROVE valid[i + n] # taken[j]
    <3>1. i + n # j /\ i + n \in DOMAIN valid /\ j \in DOMAIN valid /\ taken[j] = valid[j]
      BY <1>4, <1>5, <1>6
    <3> QED BY <1>3, <3>1 DEF Distinct
  <2>3. \A o \in Elements(offers') : o \notin N
    <3>1. \A i \in 1..(Len(valid) - n) : offers'[i] \notin {taken[j] : j \in 1..n}
      BY <1>6, <2>2
    <3> HIDE DEF N
    <3> QED BY <1>6, <1>8, <3>1 DEF Elements
  <2>4. Elements(offers') \subseteq Elements(valid)
    BY <1>6 DEF Elements
  <2> QED BY <1>3, <2>1, <2>3, <2>4
<1>10. \A o \in N : at(o) \in 1..n /\ taken[at(o)] = o
  BY <1>8
<1> HIDE DEF at
<1>11. /\ \A o \in Offers \ N : reqOf'[o] = reqOf[o]
       /\ \A o \in N : reqOf'[o] = free[at(o)]
  BY <1>2, <1>8
<1>12. reqOf' \in [Offers -> Requests \cup {None}]
  <2>1. \A o \in Offers : reqOf'[o] \in Requests \cup {None}
    BY <1>7, <1>10, <1>11 DEF TypeOK
  <2>2. reqOf' = [o \in Offers |-> reqOf'[o]]
    BY <1>2
  <2> QED BY <2>1, <2>2
<1>13. \A o \in N : reqOf'[o] \in (Elements(reqs) \ inProgress) \cap inProgress'
  <2>1. \A i \in 1..n : free[i] \in inProgress'
    BY <1>2
  <2>2. \A i \in 1..n : free[i] \in Elements(reqs) \ inProgress
    BY <1>3, <1>7
  <2> HIDE DEF N
  <2> QED BY <2>1, <2>2, <1>10, <1>11
<1>14. \A o, p \in N : reqOf'[o] = reqOf'[p] => o = p
  BY <1>7, <1>10, <1>11
<1>15. inProgress \subseteq inProgress' /\ inProgress' \subseteq Requests
  BY <1>2, <1>7 DEF TypeOK
<1>16. /\ msgs \in Seq(Message) /\ Distinct(msgs)
       /\ \A m \in Elements(msgs) : \E o \in N : m = Msg("accept", o) /\ m.task = o /\ m.type = "accept"
  <2>1. \A i \in 1..n : /\ Msg("accept", taken[i]) \in Message /\ Msg("accept", taken[i]).task = taken[i]
                        /\ Msg("accept", taken[i]).type = "accept" /\ taken[i] \in N
    BY <1>8, MessageFacts DEF MessageTypes
  <2>2. msgs \in Seq(Message) /\ DOMAIN msgs = 1..n /\ \A i \in 1..n : msgs[i] = Msg("accept", taken[i])
    BY <1>4, <2>1
  <2> HIDE DEF msgs
  <2>3. Distinct(msgs)
    BY <1>7, <2>1, <2>2 DEF Distinct
  <2>4. \A m \in Elements(msgs) : \E o \in N : m = Msg("accept", o) /\ m.task = o /\ m.type = "accept"
    BY <2>1, <2>2 DEF Elements
  <2> QED BY <2>2, <2>3, <2>4
<1> HIDE DEF msgs, N
<1>17. /\ toRunner' \in [Runners -> Seq(Message)]
       /\ \A k \in Runners : \A m \in Elements(toRunner'[k]) :
            m \in Elements(toRunner[k]) \/ (m \in Elements(msgs) /\ RunnerOf(m.task) = k /\ k \in Reachable)
       /\ \A k \in Runners : \A type \in Tracked :
            Once(toRunner[k], type) /\ Apart(toRunner[k], msgs, type)
            => Once(toRunner'[k], type)
  <2>1. toRunner \in [Runners -> Seq(Message)] /\ toRunner' = Sent(Reachable, toRunner, msgs)
    BY <1>2, SendAllIsSent DEF TypeOK
  <2>2. msgs \in Seq(Message) /\ Distinct(msgs)
    BY <1>16
  <2> QED BY <2>1, <2>2, SentFacts
<1>18. \A k \in Runners : \A m \in Elements(toRunner'[k]) :
         m \in Elements(toRunner[k])
         \/ (\E o \in N : m = Msg("accept", o) /\ RunnerOf(o) = k /\ conn[k] = "open")
  BY <1>16, <1>17 DEF Reachable
<1>19. \A k \in Runners : Once(toRunner[k], "settings") => Once(toRunner'[k], "settings")
  <2>1. \A k \in Runners : Apart(toRunner[k], msgs, "settings")
    BY <1>16 DEF Apart
  <2> QED BY <1>17, <2>1 DEF Tracked
<1> QED
  <2>1. requests' = reqs /\ accepting' = accepting \cup N
    BY <1>2
  <2> QED BY <2>1, <1>6, <1>8, <1>9, <1>11, <1>12, <1>13, <1>14, <1>15, <1>17, <1>18, <1>19

-----------------------------------------------------------------------------
(***************************************************************************)
(* Steps in which runners offer and accept nothing                         *)
(***************************************************************************)

Pools == Elements(offers) \cup accepting \cup tasks

(* The broker sends requests to confirm and cancellations of offers that   *)
(* exist, and settings when it takes an acceptance from the channel.       *)
Notifies ==
  \A n \in Runners :
    /\ \A m \in Elements(toRunner'[n]) :
         \/ m \in Elements(toRunner[n])
         \/ m.type \in {"registered", "drain"} /\ m.task = None
         \/ /\ m.task \in Offers /\ RunnerOf(m.task) = n /\ Used(m.task)
            /\ \/ m.type \in {"accept", "cancel"}
               \/ /\ m.type = "settings"
                  /\ Msg("accepted", m.task) \in Elements(toBroker[n])
                  /\ Msg("accepted", m.task) \notin Elements(toBroker'[n])
    /\ Once(toRunner[n], "settings") => Once(toRunner'[n], "settings")

(* A task stays as it is, is aborted or ends. *)
TasksEndAtMost ==
  \A o \in Offers :
    \/ status'[o] = status[o]
    \/ status'[o] = "none"
    \/ status[o] \notin {"none", "waitingForSettings"}

(* No runner starts anew with offers, none goes back in its numbering. *)
RunnersGoOn ==
  \A n \in Runners :
    /\ sent'[n] <= MaxOffers[n]
    /\ conn[n] # "new" => conn'[n] # "new"
    /\ conn[n] # "new" /\ conn'[n] = "open" => conn[n] = "open" /\ sent[n] <= sent'[n]

(* Offers that leave open or tasks that end make room. *)
LEMMA RoomGrows ==
  ASSUME TypeOK, TypeOK', WithinConcurrency, open' \subseteq open,
         \A o \in Offers : status'[o] # "none" => status[o] # "none"
  PROVE  WithinConcurrency'
<1> SUFFICES ASSUME NEW n \in Runners
             PROVE  Cardinality(OpenOf(n)') + Cardinality(RunningOf(n, status)') <= MaxConcurrency
  BY DEF WithinConcurrency
<1> DEFINE A == OpenOf(n)
           B == RunningOf(n, status)
           A1 == OpenOf(n)'
           B1 == RunningOf(n, status)'
<1>1. A \in SUBSET {o \in Offers : RunnerOf(o) = n} /\ B \in SUBSET {o \in Offers : RunnerOf(o) = n}
  BY DEF OpenOf, RunningOf, TypeOK
<1>2. A1 \in SUBSET A
  BY DEF OpenOf
<1>3. B1 \in SUBSET B
  BY DEF RunningOf
<1>4. Cardinality(A) + Cardinality(B) <= MaxConcurrency /\ MaxConcurrency \in Nat
  BY BrokerConstants DEF WithinConcurrency
<1> HIDE DEF A, B, A1, B1
<1>5. /\ IsFiniteSet(A) /\ Cardinality(A) \in Nat
      /\ IsFiniteSet(B) /\ Cardinality(B) \in Nat
  BY <1>1, OffersOfFinite
<1>6. /\ Cardinality(A1) <= Cardinality(A) /\ Cardinality(A1) \in Nat
      /\ Cardinality(B1) <= Cardinality(B) /\ Cardinality(B1) \in Nat
  BY <1>2, <1>3, <1>5, FS_Subset, FS_CardinalityType
<1>7. Cardinality(A1) + Cardinality(B1) <= MaxConcurrency
  BY <1>4, <1>5, <1>6
<1> QED BY <1>7 DEF A1, B1

(* The invariant of the channels and the runners after such a step. *)
LEMMA QuietStep ==
  ASSUME IInv, TypeOK',
         \A o \in Pools' : Used(o),
         open' \subseteq open, TasksEndAtMost,
         Fewer(toBroker, toBroker'), Notifies, RunnersGoOn
  PROVE  Routed' /\ Numbered' /\ OneStart' /\ OneAnswer' /\ WithinConcurrency'
<1>1. \A n \in Runners : Elements(toBroker'[n]) \subseteq Elements(toBroker[n])
  BY DEF Fewer
<1>2. Routed'
  <2> SUFFICES ASSUME NEW n \in Runners
               PROVE  /\ \A m \in Elements(toBroker'[n]) :
                           /\ m.type \in {"offer", "accepted", "rejected", "deferred", "result"}
                           /\ m.task \in Offers /\ RunnerOf(m.task) = n
                      /\ \A m \in Elements(toRunner'[n]) :
                           m.type \in {"accept", "settings", "cancel"} => m.task \in Offers /\ RunnerOf(m.task) = n
    BY DEF Routed
  <2>1. \A m \in Elements(toBroker'[n]) :
          /\ m.type \in {"offer", "accepted", "rejected", "deferred", "result"}
          /\ m.task \in Offers /\ RunnerOf(m.task) = n
    BY <1>1 DEF IInv, Routed
  <2>2. \A m \in Elements(toRunner'[n]) :
          m.type \in {"accept", "settings", "cancel"} => m.task \in Offers /\ RunnerOf(m.task) = n
    BY DEF IInv, Routed, Notifies
  <2> QED BY <2>1, <2>2
<1>3. ASSUME NEW o \in Offers, Used(o)' PROVE Used(o)
  <2>0. RunnerOf(o) \in Runners
    BY OfferFacts
  <2>1. CASE o \in Pools'
    BY <2>1
  <2>2. CASE o \in open'
    BY <2>2 DEF Used
  <2>3. CASE status'[o] # "none"
    BY <2>3 DEF Used, TasksEndAtMost
  <2>4. ASSUME NEW m \in Elements(toBroker'[RunnerOf(o)]), m.task = o PROVE Used(o)
    BY <1>1, <2>0, <2>4 DEF Used
  <2>5. ASSUME NEW m \in Elements(toRunner'[RunnerOf(o)]), m.task = o PROVE Used(o)
    <3>1. o # None
      BY BrokerConstants
    <3>2. m \in Elements(toRunner[RunnerOf(o)]) \/ Used(o)
      BY <2>0, <2>5, <3>1 DEF Notifies
    <3> QED BY <2>5, <3>2 DEF Used
  <2> QED BY <1>3, <2>1, <2>2, <2>3, <2>4, <2>5 DEF Used, Pools
<1>4. Numbered'
  <2> SUFFICES ASSUME NEW o \in Offers, Used(o)'
               PROVE  /\ conn'[RunnerOf(o)] # "new"
                      /\ conn'[RunnerOf(o)] = "open" => o[2] <= sent'[RunnerOf(o)]
    BY DEF Numbered, RunnersGoOn
  <2>1. RunnerOf(o) \in Runners /\ o[2] \in Nat
    BY OfferFacts
  <2>2. /\ conn[RunnerOf(o)] # "new"
        /\ conn[RunnerOf(o)] = "open" => o[2] <= sent[RunnerOf(o)]
    BY <1>3 DEF IInv, Numbered
  <2>3. sent[RunnerOf(o)] \in Nat /\ sent'[RunnerOf(o)] \in Nat
    BY <2>1 DEF IInv, TypeOK
  <2> QED BY <2>1, <2>2, <2>3 DEF RunnersGoOn
<1>5. ASSUME NEW o \in Offers
      PROVE  /\ Msg("accepted", o) \in Elements(toBroker'[RunnerOf(o)]) =>
                  Msg("accepted", o) \in Elements(toBroker[RunnerOf(o)])
             /\ Msg("settings", o) \in Elements(toRunner'[RunnerOf(o)]) =>
                  \/ Msg("settings", o) \in Elements(toRunner[RunnerOf(o)])
                  \/ /\ Msg("accepted", o) \in Elements(toBroker[RunnerOf(o)])
                     /\ Msg("accepted", o) \notin Elements(toBroker'[RunnerOf(o)])
  <2>1. RunnerOf(o) \in Runners /\ Msg("settings", o).type = "settings" /\ Msg("settings", o).task = o
    BY OfferFacts, MessageFacts DEF MessageTypes
  <2> QED BY <1>1, <2>1 DEF Notifies
<1>6. OneStart'
  <2> SUFFICES ASSUME NEW o \in Offers
               PROVE  LET n == RunnerOf(o)
                      IN  /\ o \in open' \/ Msg("accepted", o) \in Elements(toBroker'[n])
                               => Msg("settings", o) \notin Elements(toRunner'[n])
                          /\ o \in open' => status'[o] = "none" /\ Msg("accepted", o) \notin Elements(toBroker'[n])
                          /\ Msg("accepted", o) \in Elements(toBroker'[n]) \/ Msg("settings", o) \in Elements(toRunner'[n])
                               => status'[o] \in {"none", "waitingForSettings"}
    BY DEF OneStart, Msg
  <2> QED BY <1>5 DEF IInv, OneStart, TasksEndAtMost
<1>7. OneAnswer'
  BY DEF IInv, OneAnswer, Fewer, Notifies, Tracked
<1>8. WithinConcurrency'
  <2>1. \A o \in Offers : status'[o] # "none" => status[o] # "none"
    BY DEF TasksEndAtMost
  <2> QED BY <2>1, RoomGrows DEF IInv
<1> QED BY <1>2, <1>4, <1>6, <1>7, <1>8

(* Pending offers, acceptances and tasks become fewer, or an acceptance    *)
(* becomes a task.                                                         *)
LEMMA PoolsShrink ==
  ASSUME IInv, Distinct(offers'), Elements(offers') \subseteq Elements(offers),
         accepting' \subseteq accepting, tasks' \subseteq tasks \cup (accepting \ accepting'),
         Fewer(toBroker, toBroker')
  PROVE  OneUse' /\ \A o \in Pools' : o \in Pools
<1>1. Pools' \subseteq Pools
  BY DEF Pools
<1>2. Elements(offers') \cap accepting' = {} /\ (Elements(offers') \cup accepting') \cap tasks' = {}
  BY DEF IInv, OneUse
<1>3. \A n \in Runners : Once(toBroker'[n], "offer")
  BY DEF IInv, OneUse, Fewer, Tracked
<1>4. \A n \in Runners : \A m \in Elements(toBroker'[n]) : m.type = "offer" => m.task \notin Pools'
  BY <1>1 DEF IInv, OneUse, Fewer, Pools
<1> QED BY <1>1, <1>2, <1>3, <1>4 DEF OneUse, Pools

(* The broker and its callers do nothing. *)
LEMMA BrokerFrame ==
  ASSUME IInv, UNCHANGED <<brokerVars, requesterVars>>
  PROVE  /\ RequestsSound' /\ CallersSound' /\ AcceptingSound' /\ TasksSound'
         /\ \A o \in Pools' : Used(o)
         /\ Fewer(toBroker, toBroker') => OneUse'
<1>1. UNCHANGED <<known, requests, inProgress, offers, reqOf, accepting, tasks, timed, state, awaits>>
  BY DEF brokerVars, matchVars, pendingVars, taskVars, requesterVars
<1>2. RequestsSound' /\ CallersSound' /\ AcceptingSound' /\ TasksSound'
  BY <1>1 DEF IInv, RequestsSound, CallersSound, AcceptingSound, TasksSound, AwaitedTaskIsTracked,
              OrphansOnlyAfterExpiry
<1>3. \A o \in Pools' : Used(o)
  BY <1>1 DEF Pools, Used
<1>4. Fewer(toBroker, toBroker') => OneUse'
  BY <1>1, PoolsShrink DEF IInv, OneUse
<1> QED BY <1>2, <1>3, <1>4

(* Tasks end in the broker, with their callers.  The runner of a task that *)
(* stays is still known.                                                   *)
LEMMA EndTasksFacts ==
  ASSUME IInv, NEW T, T \subseteq tasks, EndTasks(T), UNCHANGED <<requests, inProgress, accepting>>,
         \A o \in tasks \ T : RunnerOf(o) \in known => RunnerOf(o) \in known'
  PROVE  /\ tasks' \subseteq tasks /\ tasks' \subseteq Offers /\ timed' \subseteq Offers
         /\ state' \in [Requests -> {"idle", "waiting", "awaiting", "ended", "expired"}]
         /\ awaits' \in [Requests -> Offers \cup {None}]
         /\ reqOf' \in [Offers -> Requests \cup {None}]
         /\ RequestsSound' /\ CallersSound' /\ AcceptingSound' /\ TasksSound'
<1>1. /\ tasks' = tasks \ T /\ timed' = timed \ T
      /\ state' = [r \in Requests |-> IF awaits[r] \in T THEN "ended" ELSE state[r]]
      /\ awaits' = [r \in Requests |-> IF awaits[r] \in T THEN None ELSE awaits[r]]
      /\ reqOf' = [o \in Offers |-> IF o \in T THEN None ELSE reqOf[o]]
  BY DEF EndTasks
<1>2. \A r \in Requests : awaits[r] \in T => state[r] = "awaiting"
  BY BrokerConstants DEF IInv, TypeOK, CallersSound
<1>3. /\ tasks' \subseteq tasks /\ tasks' \subseteq Offers /\ timed' \subseteq Offers
      /\ state' \in [Requests -> {"idle", "waiting", "awaiting", "ended", "expired"}]
      /\ awaits' \in [Requests -> Offers \cup {None}]
      /\ reqOf' \in [Offers -> Requests \cup {None}]
  BY <1>1 DEF IInv, TypeOK
<1>4. /\ \A r \in Requests : state[r] # "awaiting" => state'[r] = state[r] /\ awaits'[r] = awaits[r]
      /\ \A r \in Requests : state'[r] = "awaiting" => state[r] = "awaiting" /\ awaits[r] \notin T /\ awaits'[r] = awaits[r]
      /\ \A r \in Requests : state[r] = "awaiting" =>
           \/ awaits[r] \in T /\ state'[r] = "ended" /\ awaits'[r] = None
           \/ awaits[r] \notin T /\ state'[r] = "awaiting" /\ awaits'[r] = awaits[r]
  BY <1>1, <1>2
<1>5. \A o \in Offers \ T : reqOf'[o] = reqOf[o]
  BY <1>1
<1>6. RequestsSound'
  BY <1>4 DEF IInv, RequestsSound
<1>7. CallersSound'
  BY <1>1, <1>4 DEF IInv, CallersSound, AwaitedTaskIsTracked
<1>8. accepting \cap T = {} /\ accepting \subseteq Offers
  BY DEF IInv, TypeOK, OneUse
<1>9. AcceptingSound'
  BY <1>4, <1>5, <1>8 DEF IInv, AcceptingSound
<1>10. TasksSound'
  <2> SUFFICES ASSUME NEW o \in tasks'
               PROVE  /\ reqOf'[o] \in Requests
                      /\ state'[reqOf'[o]] = "expired" \/ (state'[reqOf'[o]] = "awaiting" /\ awaits'[reqOf'[o]] = o)
    BY DEF TasksSound, OrphansOnlyAfterExpiry
  <2>1. o \in tasks /\ o \notin T /\ o \in Offers
    BY <1>1, <1>3
  <2>2. reqOf'[o] = reqOf[o] /\ reqOf[o] \in Requests
    BY <1>5, <2>1 DEF IInv, TasksSound
  <2>3. state[reqOf[o]] = "expired" \/ (state[reqOf[o]] = "awaiting" /\ awaits[reqOf[o]] = o)
    BY <2>1 DEF IInv, TasksSound, OrphansOnlyAfterExpiry
  <2> QED BY <1>4, <2>1, <2>2, <2>3
<1> QED BY <1>3, <1>6, <1>7, <1>9, <1>10

-----------------------------------------------------------------------------
(***************************************************************************)
(* The broker's steps                                                      *)
(***************************************************************************)

(* The runners do nothing. *)
LEMMA RunnersFrame ==
  ASSUME IInv, UNCHANGED <<conn, runnerVars>>
  PROVE  /\ UNCHANGED <<canSend, leaving, sent, open, status>>
         /\ open' \subseteq open /\ TasksEndAtMost /\ RunnersGoOn
<1>1. UNCHANGED <<conn, canSend, leaving, sent, open, status>>
  BY DEF runnerVars
<1>2. \A n \in Runners : sent[n] \in Nat /\ sent[n] <= MaxOffers[n]
  BY DEF IInv, TypeOK, Numbered
<1> QED BY <1>1, <1>2 DEF TasksEndAtMost, RunnersGoOn

(* Nothing is sent, or a cancellation. *)
LEMMA NotifiesFacts ==
  ASSUME IInv
  PROVE  /\ Fewer(toRunner, toRunner') => Notifies
         /\ \A o \in tasks : toRunner' = SendAll(toRunner, <<Msg("cancel", o)>>)
              => Notifies /\ toRunner' \in [Runners -> Seq(Message)]
<1>1. Fewer(toRunner, toRunner') => Notifies
  BY DEF Fewer, Notifies, Tracked
<1>2. ASSUME NEW o \in tasks, toRunner' = SendAll(toRunner, <<Msg("cancel", o)>>)
      PROVE  Notifies /\ toRunner' \in [Runners -> Seq(Message)]
  <2>1. o \in Offers /\ Used(o) /\ toRunner \in [Runners -> Seq(Message)]
    BY DEF IInv, TypeOK, Used
  <2>2. Msg("cancel", o).type = "cancel" /\ Msg("cancel", o).task = o
    BY <2>1, MessageFacts DEF MessageTypes
  <2>3. toRunner' = Sent(Reachable, toRunner, <<Msg("cancel", o)>>)
    BY <1>2, SendAllIsSent
  <2>4. "cancel" \in MessageTypes /\ "settings" # "cancel" /\ "settings" \in Tracked
    BY DEF MessageTypes, Tracked
  <2>5. /\ toRunner' \in [Runners -> Seq(Message)]
        /\ \A n \in Runners : \A m \in Elements(toRunner'[n]) :
             m \in Elements(toRunner[n]) \/ (m = Msg("cancel", o) /\ RunnerOf(o) = n /\ n \in Reachable)
        /\ \A n \in Runners : \A u \in Tracked :
             Once(toRunner[n], u) /\ (u = "cancel" => Msg("cancel", o) \notin Elements(toRunner[n]))
             => Once(toRunner'[n], u)
    BY <2>1, <2>3, <2>4, SentOneFacts
  <2> QED BY <2>1, <2>2, <2>4, <2>5 DEF Notifies
<1> QED BY <1>1, <1>2

(* The acceptance of an offer fails. *)
LEMMA AcceptFailsStep ==
  ASSUME IInv, NEW o \in accepting, AcceptFails(o), reqTimer' \subseteq Requests,
         UNCHANGED <<conn, runnerVars>>,
         toBroker' \in [Runners -> Seq(Message)], Fewer(toBroker, toBroker')
  PROVE  IInv'
<1> USE DEF IInv
<1>1. /\ accepting' = accepting \ {o} /\ inProgress' = inProgress \ {reqOf[o]}
      /\ reqOf' = [reqOf EXCEPT ![o] = None]
      /\ UNCHANGED <<mode, phase, known, requests, offers, tasks, timed, state, awaits, toRunner>>
  BY DEF AcceptFails, taskVars, requesterVars
<1>2. /\ UNCHANGED <<canSend, leaving, sent, open, status>>
      /\ open' \subseteq open /\ TasksEndAtMost /\ RunnersGoOn
  BY RunnersFrame
<1>3. TypeOK'
  BY <1>1, <1>2 DEF TypeOK
<1>4. o \in Offers /\ o \notin tasks /\ \A p \in Offers : p # o => reqOf'[p] = reqOf[p]
  BY <1>1 DEF TypeOK, OneUse
<1>5. OneUse' /\ \A p \in Pools' : p \in Pools
  BY <1>1, PoolsShrink DEF OneUse
<1>6. \A p \in Pools' : Used(p)
  BY <1>5 DEF Pools, Used
<1>7. Notifies
  BY <1>1, SameFacts, NotifiesFacts
<1>8. Routed' /\ Numbered' /\ OneStart' /\ OneAnswer' /\ WithinConcurrency'
  BY <1>2, <1>3, <1>6, <1>7, QuietStep
<1>9. RequestsSound' /\ CallersSound'
  BY <1>1 DEF RequestsSound, CallersSound, AwaitedTaskIsTracked
<1>10. AcceptingSound'
  BY <1>1, <1>4 DEF AcceptingSound, TypeOK
<1>11. TasksSound'
  BY <1>1, <1>4 DEF TasksSound, OrphansOnlyAfterExpiry, TypeOK
<1> QED BY <1>3, <1>5, <1>8, <1>9, <1>10, <1>11

(* A runner confirms: the task exists, and its caller awaits it unless the *)
(* request has expired.                                                    *)
LEMMA ConfirmStep ==
  ASSUME IInv, NEW n \in Runners, n \in known, NEW o \in accepting, RunnerOf(o) = n,
         Confirm(o), UNCHANGED <<conn, runnerVars>>,
         toBroker' \in [Runners -> Seq(Message)], Fewer(toBroker, toBroker'),
         Msg("accepted", o) \in Elements(toBroker[n]), Msg("accepted", o) \notin Elements(toBroker'[n])
  PROVE  IInv'
<1> DEFINE r == reqOf[o]
<1>1. /\ accepting' = accepting \ {o} /\ reqTimer' = reqTimer \ {r}
      /\ tasks' = tasks \cup {o} /\ requests' = Without(requests, {r})
      /\ IF r \in Elements(requests)
         THEN /\ inProgress' = inProgress \ {r}
              /\ state' = [state EXCEPT ![r] = "awaiting"]
              /\ awaits' = [awaits EXCEPT ![r] = o]
              /\ timed' = timed \cup {o}
              /\ toRunner' = SendAll(toRunner, <<Msg("settings", o)>>)
         ELSE UNCHANGED <<inProgress, state, awaits, timed, toRunner>>
      /\ UNCHANGED <<mode, phase, known, offers, reqOf>>
  BY DEF Confirm, requesterVars
<1>2. /\ UNCHANGED <<canSend, leaving, sent, open, status>>
      /\ open' \subseteq open /\ TasksEndAtMost /\ RunnersGoOn
  BY RunnersFrame
<1>3. /\ o \in Offers /\ o \notin tasks /\ r \in Requests /\ Used(o)
      /\ state[r] = "expired" \/ (state[r] = "waiting" /\ r \in inProgress)
  BY DEF IInv, TypeOK, OneUse, AcceptingSound, Used
<1>4. /\ requests' \in Seq(Requests) /\ Elements(requests') = Elements(requests) \ {r} /\ Distinct(requests')
  BY <1>1, WithoutFacts DEF IInv, TypeOK, RequestsSound
<1>5. r \in Elements(requests) <=> state[r] = "waiting"
  BY <1>3 DEF IInv, RequestsSound
<1>6. toRunner' \in [Runners -> Seq(Message)] /\ Notifies
  <2>1. toRunner \in [Runners -> Seq(Message)]
    BY DEF IInv, TypeOK
  <2>2. CASE r \in Elements(requests)
    <3>1. toRunner' = Sent(Reachable, toRunner, <<Msg("settings", o)>>)
      BY <1>1, <2>2, SendAllIsSent
    <3>2. /\ Msg("settings", o).type = "settings" /\ Msg("settings", o).task = o
          /\ "settings" \in MessageTypes /\ "settings" \in Tracked
      BY <1>3, MessageFacts DEF MessageTypes, Tracked
    <3>3. /\ toRunner' \in [Runners -> Seq(Message)]
          /\ \A k \in Runners : \A m \in Elements(toRunner'[k]) :
               m \in Elements(toRunner[k]) \/ (m = Msg("settings", o) /\ RunnerOf(o) = k /\ k \in Reachable)
          /\ \A k \in Runners : \A u \in Tracked :
               Once(toRunner[k], u) /\ (u = "settings" => Msg("settings", o) \notin Elements(toRunner[k]))
               => Once(toRunner'[k], u)
      BY <1>3, <2>1, <3>1, <3>2, SentOneFacts
    <3>4. \A k \in Runners : Msg("settings", o) \notin Elements(toRunner[k])
      <4>1. Msg("settings", o) \notin Elements(toRunner[n])
        BY <1>3 DEF IInv, OneStart
      <4> QED BY <3>2, <4>1 DEF IInv, Routed
    <3> QED BY <1>3, <3>2, <3>3, <3>4 DEF Notifies
  <2>3. CASE r \notin Elements(requests)
    BY <1>1, <2>1, <2>3, SameFacts, NotifiesFacts
  <2> QED BY <2>2, <2>3
<1>7. /\ state' \in [Requests -> {"idle", "waiting", "awaiting", "ended", "expired"}]
      /\ awaits' \in [Requests -> Offers \cup {None}]
      /\ \A q \in Requests : q # r => state'[q] = state[q] /\ awaits'[q] = awaits[q]
      /\ \/ state[r] = "waiting" /\ state'[r] = "awaiting" /\ awaits'[r] = o /\ o \in timed' /\ timed' = timed \cup {o}
         \/ state[r] = "expired" /\ state'[r] = "expired" /\ awaits'[r] = awaits[r] /\ timed' = timed
      /\ inProgress' \subseteq inProgress /\ \A q \in inProgress : q # r => q \in inProgress'
  BY <1>1, <1>3, <1>5 DEF IInv, TypeOK
<1>8. TypeOK'
  <2>1. /\ mode' \in Modes /\ phase' \in {"up", "draining", "stopped"} /\ known' \subseteq Runners
        /\ inProgress' \subseteq Requests /\ reqTimer' \subseteq Requests
        /\ offers' \in Seq(Offers) /\ reqOf' \in [Offers -> Requests \cup {None}]
        /\ accepting' \subseteq Offers /\ tasks' \subseteq Offers /\ timed' \subseteq Offers
    BY <1>1, <1>3, <1>7 DEF IInv, TypeOK
  <2> QED BY <2>1, <1>2, <1>4, <1>6, <1>7 DEF IInv, TypeOK
<1>9. OneUse' /\ \A p \in Pools' : p \in Pools
  BY <1>1, <1>3, PoolsShrink DEF IInv, OneUse
<1>10. \A p \in Pools' : Used(p)
  BY <1>9 DEF Pools, Used
<1>11. Routed' /\ Numbered' /\ OneStart' /\ OneAnswer' /\ WithinConcurrency'
  BY <1>2, <1>6, <1>8, <1>10, QuietStep
<1>12. RequestsSound'
  BY <1>4, <1>7 DEF IInv, RequestsSound
<1>13. CallersSound'
  <2>1. timed' \subseteq tasks'
    BY <1>1, <1>7 DEF IInv, CallersSound
  <2>2. AwaitedTaskIsTracked'
    BY <1>1, <1>3, <1>7 DEF IInv, CallersSound, AwaitedTaskIsTracked
  <2>3. \A q \in Requests : state'[q] # "awaiting" => awaits'[q] = None
    BY <1>7 DEF IInv, CallersSound
  <2> QED BY <2>1, <2>2, <2>3 DEF CallersSound
<1>14. AcceptingSound'
  <2>1. \A p \in accepting' : p \in accepting /\ reqOf[p] # r /\ reqOf'[p] = reqOf[p]
    BY <1>1 DEF IInv, AcceptingSound
  <2> HIDE DEF r
  <2>2. ASSUME NEW p \in accepting'
        PROVE  /\ reqOf'[p] \in Requests
               /\ state'[reqOf'[p]] = "expired" \/ (state'[reqOf'[p]] = "waiting" /\ reqOf'[p] \in inProgress')
    <3>1. /\ reqOf[p] \in Requests
          /\ state[reqOf[p]] = "expired" \/ (state[reqOf[p]] = "waiting" /\ reqOf[p] \in inProgress)
      BY <2>1 DEF IInv, AcceptingSound
    <3> QED BY <1>7, <2>1, <3>1
  <2>3. \A p, q \in accepting' : reqOf'[p] = reqOf'[q] => p = q
    BY <2>1 DEF IInv, AcceptingSound
  <2> QED BY <2>2, <2>3 DEF AcceptingSound
<1>15. TasksSound'
  <2>1. \A p \in tasks : reqOf[p] = r => state[r] = "expired"
    BY <1>3 DEF IInv, TasksSound, OrphansOnlyAfterExpiry
  <2>2. reqOf' = reqOf /\ tasks' = tasks \cup {o} /\ r = reqOf[o]
    BY <1>1
  <2> HIDE DEF r
  <2>3. \A p \in tasks' : reqOf'[p] \in Requests
    BY <1>3, <2>2 DEF IInv, TasksSound
  <2>4. ASSUME NEW p \in tasks', NEW q \in Requests, q = reqOf[p]
        PROVE  state'[q] = "expired" \/ (state'[q] = "awaiting" /\ awaits'[q] = p)
    <3>1. CASE p = o
      BY <1>7, <2>2, <2>4, <3>1
    <3>2. CASE p # o
      <4>1. p \in tasks /\ (state[q] = "expired" \/ (state[q] = "awaiting" /\ awaits[q] = p))
        BY <2>2, <2>4, <3>2 DEF IInv, TasksSound, OrphansOnlyAfterExpiry
      <4> QED BY <1>7, <2>1, <2>4, <4>1
    <3> QED BY <3>1, <3>2
  <2> QED BY <2>2, <2>3, <2>4 DEF TasksSound, OrphansOnlyAfterExpiry
<1> QED BY <1>8, <1>9, <1>11, <1>12, <1>13, <1>14, <1>15 DEF IInv

(* settleTasks with a new request or a new offer: whoever calls it, the    *)
(* offers that are taken are in progress for requests that were free.      *)
LEMMA SettleStep ==
  ASSUME IInv,
         NEW reqs \in Seq(Requests), Distinct(reqs), NEW offs \in Seq(Offers), Distinct(offs),
         Settle(reqs, offs),
         \A r \in Requests : r \in Elements(reqs) <=> state'[r] = "waiting",
         \A r \in Requests : state[r] # "idle" => state'[r] = state[r],
         \A r \in Requests : state[r] = "idle" => state'[r] \in {"idle", "waiting"},
         state' \in [Requests -> {"idle", "waiting", "awaiting", "ended", "expired"}],
         \A o \in Elements(offs) : Used(o) /\ o \notin accepting \cup tasks,
         reqTimer' \subseteq Requests,
         UNCHANGED <<mode, phase, known, tasks, timed, awaits, conn, runnerVars>>,
         toBroker' \in [Runners -> Seq(Message)], Fewer(toBroker, toBroker'),
         \A n \in Runners : \A m \in Elements(toBroker'[n]) :
           m.type = "offer" => m.task \notin Elements(offs)
  PROVE  IInv'
<1>1. TypeOK
  BY DEF IInv
<1>2. PICK N \in SUBSET Elements(offs) :
           /\ requests' = reqs
           /\ offers' \in Seq(Offers) /\ Distinct(offers')
           /\ Elements(offers') \subseteq Elements(offs) \ N
           /\ accepting' = accepting \cup N
           /\ inProgress \subseteq inProgress' /\ inProgress' \subseteq Requests
           /\ reqOf' \in [Offers -> Requests \cup {None}]
           /\ \A o \in Offers \ N : reqOf'[o] = reqOf[o]
           /\ \A o \in N : reqOf'[o] \in (Elements(reqs) \ inProgress) \cap inProgress'
           /\ \A o, p \in N : reqOf'[o] = reqOf'[p] => o = p
           /\ toRunner' \in [Runners -> Seq(Message)]
           /\ \A n \in Runners : \A m \in Elements(toRunner'[n]) :
                m \in Elements(toRunner[n])
                \/ (\E o \in N : m = Msg("accept", o) /\ RunnerOf(o) = n /\ conn[n] = "open")
           /\ \A n \in Runners : Once(toRunner[n], "settings") => Once(toRunner'[n], "settings")
  BY <1>1, SettleFacts
<1>3. /\ UNCHANGED <<canSend, leaving, sent, open, status>>
      /\ open' \subseteq open /\ TasksEndAtMost /\ RunnersGoOn
  BY RunnersFrame
<1>4. Elements(offs) \subseteq Offers /\ accepting \subseteq Offers /\ tasks \subseteq Offers
  BY <1>1 DEF TypeOK, Elements
<1>5. TypeOK'
  BY <1>1, <1>2, <1>3, <1>4 DEF TypeOK
<1>6. \A o \in Pools' : Used(o)
  BY <1>2 DEF Pools, Used
<1>7. Notifies
  <2>1. \A o \in N : Msg("accept", o).type = "accept" /\ Msg("accept", o).task = o /\ o \in Offers /\ Used(o)
    BY <1>4, MessageFacts DEF MessageTypes
  <2> QED BY <1>2, <2>1 DEF Notifies
<1>8. Routed' /\ Numbered' /\ OneStart' /\ OneAnswer' /\ WithinConcurrency'
  BY <1>3, <1>5, <1>6, <1>7, QuietStep
<1>9. OneUse'
  <2>1. Elements(offers') \cap accepting' = {} /\ (Elements(offers') \cup accepting') \cap tasks' = {}
    BY <1>2 DEF IInv, OneUse
  <2>2. \A n \in Runners : Once(toBroker'[n], "offer")
    BY DEF IInv, OneUse, Fewer, Tracked
  <2>3. ASSUME NEW n \in Runners, NEW m \in Elements(toBroker'[n]), m.type = "offer"
        PROVE  m.task \notin Elements(offers') \cup accepting' \cup tasks'
    <3>1. m \in Elements(toBroker[n])
      BY DEF Fewer
    <3>2. m.task \notin accepting \cup tasks /\ m.task \notin Elements(offs)
      BY <2>3, <3>1 DEF IInv, OneUse
    <3> QED BY <1>2, <3>2
  <2> QED BY <1>2, <2>1, <2>2, <2>3 DEF OneUse
<1>10. RequestsSound'
  BY <1>2 DEF RequestsSound
<1>11. CallersSound'
  BY DEF IInv, CallersSound, AwaitedTaskIsTracked, TypeOK
<1>12. \A o \in accepting : /\ o \notin N /\ o \in Offers /\ reqOf'[o] = reqOf[o]
                            /\ reqOf[o] \in Requests /\ state'[reqOf[o]] = state[reqOf[o]]
                            /\ state[reqOf[o]] = "expired" \/ (state[reqOf[o]] = "waiting" /\ reqOf[o] \in inProgress)
  BY <1>2, <1>4 DEF IInv, AcceptingSound
<1>13. \A o \in N : /\ o \in Offers /\ reqOf'[o] \in Requests /\ state'[reqOf'[o]] = "waiting"
                    /\ reqOf'[o] \notin inProgress /\ reqOf'[o] \in inProgress'
  BY <1>2, <1>4
<1>14. AcceptingSound'
  <2>1. \A o \in accepting' :
          /\ reqOf'[o] \in Requests
          /\ state'[reqOf'[o]] = "expired" \/ (state'[reqOf'[o]] = "waiting" /\ reqOf'[o] \in inProgress')
    BY <1>2, <1>12, <1>13
  <2>2. \A o, p \in accepting' : reqOf'[o] = reqOf'[p] => o = p
    <3>1. \A o \in accepting, p \in N : reqOf'[o] # reqOf'[p]
      BY <1>12, <1>13
    <3>2. \A o, p \in accepting : reqOf'[o] = reqOf'[p] => o = p
      BY <1>12 DEF IInv, AcceptingSound
    <3> QED BY <1>2, <3>1, <3>2
  <2> QED BY <2>1, <2>2 DEF AcceptingSound
<1>15. TasksSound'
  <2>1. \A o \in tasks : /\ reqOf'[o] = reqOf[o] /\ reqOf[o] \in Requests
                         /\ state[reqOf[o]] = "expired" \/ (state[reqOf[o]] = "awaiting" /\ awaits[reqOf[o]] = o)
    BY <1>2, <1>4 DEF IInv, TasksSound, OrphansOnlyAfterExpiry
  <2>2. \A o \in tasks : state'[reqOf[o]] = state[reqOf[o]]
    BY <2>1
  <2>3. tasks' = tasks /\ awaits' = awaits
    OBVIOUS
  <2> QED BY <2>1, <2>2, <2>3 DEF TasksSound, OrphansOnlyAfterExpiry
<1> QED BY <1>5, <1>8, <1>9, <1>10, <1>11, <1>14, <1>15 DEF IInv

(* onRunnerMessage *)
LEMMA BrokerReceiveStep ==
  ASSUME IInv, NEW n \in Runners, BrokerReceive(n)
  PROVE  IInv'
<1> DEFINE m == Head(toBroker[n])
           o == m.task
<1>1. /\ n \in known /\ toBroker[n] # <<>> /\ toBroker' = [toBroker EXCEPT ![n] = Tail(@)]
      /\ UNCHANGED <<conn, runnerVars>>
      /\ \/ m.type = "offer" /\ TaskOffered(o)
         \/ m.type = "accepted" /\ o \in accepting /\ Confirm(o)
         \/ m.type = "rejected" /\ o \in accepting /\ AcceptFails(o) /\ UNCHANGED reqTimer
         \/ m.type = "deferred" /\ o \in accepting /\ AcceptFails(o) /\ reqTimer' = Rearm(reqOf[o])
         \/ /\ m.type = "result"
            /\ EndTasks({o} \cap tasks)
            /\ UNCHANGED <<mode, phase, known, pendingVars, toRunner>>
         \/ /\ m.type \in {"accepted", "rejected", "deferred"} /\ o \notin accepting
            /\ UNCHANGED <<brokerVars, requesterVars, toRunner>>
  BY DEF BrokerReceive
<1>2. toBroker \in [Runners -> Seq(Message)] /\ toRunner \in [Runners -> Seq(Message)] /\ reqTimer \subseteq Requests
  BY DEF IInv, TypeOK
<1>3. /\ toBroker' \in [Runners -> Seq(Message)] /\ Fewer(toBroker, toBroker')
      /\ m \in Message /\ m \in Elements(toBroker[n])
      /\ \A type \in Tracked : Once(toBroker[n], type) /\ m.type = type => m \notin Elements(toBroker'[n])
  <2>1. toBroker[n] # <<>> /\ toBroker' = Taken(toBroker, n)
    BY <1>1 DEF Taken
  <2> QED BY <1>2, <2>1, TakenFacts
<1> HIDE DEF m
<1>4. o \in Offers /\ RunnerOf(o) = n /\ m = Msg(m.type, o)
  BY <1>3, MessageFacts DEF IInv, Routed
<1>5. /\ UNCHANGED <<canSend, leaving, sent, open, status>>
      /\ open' \subseteq open /\ TasksEndAtMost /\ RunnersGoOn
  BY <1>1, RunnersFrame
<1> HIDE DEF o
<1>6. CASE m.type = "offer" /\ TaskOffered(o)
  <2> DEFINE offs == Append(offers, o)
  <2>1. /\ Settle(requests, offs)
        /\ UNCHANGED <<mode, phase, known, reqTimer, tasks, timed, state, awaits>>
    BY <1>6 DEF TaskOffered, taskVars, requesterVars
  <2>2. o \notin Elements(offers) \cup accepting \cup tasks /\ Used(o)
    BY <1>3, <1>4, <1>6 DEF IInv, OneUse, Used, o
  <2>3. offs \in Seq(Offers) /\ Distinct(offs) /\ Elements(offs) = Elements(offers) \cup {o}
    BY <1>4, <2>2, AppendFacts DEF IInv, TypeOK, OneUse
  <2> HIDE DEF offs
  <2>4. \A p \in Elements(offs) : Used(p) /\ p \notin accepting \cup tasks
    BY <2>2, <2>3 DEF Used, IInv, OneUse
  <2>5. ASSUME NEW k \in Runners, NEW u \in Elements(toBroker'[k]), u.type = "offer"
        PROVE  u.task \notin Elements(offs)
    <3>1. u \in Elements(toBroker[k])
      BY <1>3 DEF Fewer
    <3>2. u.task \notin Elements(offers) /\ RunnerOf(u.task) = k
      BY <2>5, <3>1 DEF IInv, OneUse, Routed
    <3>3. ASSUME u.task = o PROVE FALSE
      <4>1. k = n
        BY <1>4, <3>2, <3>3
      <4>2. u \in Message
        BY <1>2, <3>1 DEF Elements
      <4>3. u = Msg("offer", o) /\ m = Msg("offer", o)
        BY <1>4, <1>6, <2>5, <3>3, <4>2, MessageFacts
      <4>4. Once(toBroker[n], "offer") /\ "offer" \in Tracked
        BY DEF IInv, OneUse, Tracked
      <4> QED BY <1>3, <1>6, <4>1, <4>3, <4>4
    <3> QED BY <2>3, <3>2, <3>3
  <2>6. /\ requests \in Seq(Requests) /\ Distinct(requests)
        /\ \A r \in Requests : r \in Elements(requests) <=> state[r] = "waiting"
        /\ state \in [Requests -> {"idle", "waiting", "awaiting", "ended", "expired"}]
    BY DEF IInv, TypeOK, RequestsSound
  <2> QED BY <1>1, <1>2, <1>3, <2>1, <2>3, <2>4, <2>5, <2>6, SettleStep
<1>7. CASE m.type = "accepted" /\ o \in accepting /\ Confirm(o)
  <2>1. Once(toBroker[n], "accepted") /\ "accepted" \in Tracked
    BY DEF IInv, OneAnswer, Tracked
  <2>2. Msg("accepted", o) \in Elements(toBroker[n]) /\ Msg("accepted", o) \notin Elements(toBroker'[n])
    BY <1>3, <1>4, <1>7, <2>1
  <2> QED BY <1>1, <1>3, <1>4, <1>7, <2>2, ConfirmStep
<1>8. CASE o \in accepting /\ AcceptFails(o) /\ (UNCHANGED reqTimer \/ reqTimer' = Rearm(reqOf[o]))
  <2>1. reqOf[o] \in Requests
    BY <1>8 DEF IInv, AcceptingSound
  <2>2. reqTimer' \subseteq Requests
    BY <1>2, <1>8, <2>1 DEF Rearm
  <2> QED BY <1>1, <1>3, <1>8, <2>2, AcceptFailsStep
<1>9. CASE EndTasks({o} \cap tasks) /\ UNCHANGED <<mode, phase, known, pendingVars, toRunner>>
  <2> DEFINE T == {o} \cap tasks
  <2>1. /\ T \subseteq tasks /\ EndTasks(T)
        /\ UNCHANGED <<mode, phase, known, requests, inProgress, reqTimer, offers, accepting, toRunner>>
    BY <1>9 DEF pendingVars
  <2> HIDE DEF T
  <2>2. /\ tasks' \subseteq tasks /\ tasks' \subseteq Offers /\ timed' \subseteq Offers
        /\ state' \in [Requests -> {"idle", "waiting", "awaiting", "ended", "expired"}]
        /\ awaits' \in [Requests -> Offers \cup {None}]
        /\ reqOf' \in [Offers -> Requests \cup {None}]
        /\ RequestsSound' /\ CallersSound' /\ AcceptingSound' /\ TasksSound'
    BY <2>1, EndTasksFacts
  <2>3. TypeOK'
    BY <1>1, <1>3, <1>5, <2>1, <2>2 DEF IInv, TypeOK
  <2>4. OneUse' /\ \A p \in Pools' : p \in Pools
    BY <1>3, <2>1, <2>2, PoolsShrink DEF IInv, OneUse
  <2>5. (\A p \in Pools' : Used(p)) /\ Notifies
    BY <2>1, <2>4, SameFacts, NotifiesFacts DEF Pools, Used
  <2>6. Routed' /\ Numbered' /\ OneStart' /\ OneAnswer' /\ WithinConcurrency'
    BY <1>3, <1>5, <2>3, <2>5, QuietStep
  <2> QED BY <2>2, <2>3, <2>4, <2>6 DEF IInv
<1>10. CASE UNCHANGED <<brokerVars, requesterVars, toRunner>>
  <2>1. /\ RequestsSound' /\ CallersSound' /\ AcceptingSound' /\ TasksSound'
        /\ (\A p \in Pools' : Used(p)) /\ OneUse'
    BY <1>3, <1>10, BrokerFrame
  <2>2. TypeOK'
    BY <1>1, <1>3, <1>5, <1>10 DEF IInv, TypeOK, brokerVars, matchVars, pendingVars, taskVars, requesterVars
  <2>3. Notifies
    BY <1>10, SameFacts, NotifiesFacts
  <2>4. Routed' /\ Numbered' /\ OneStart' /\ OneAnswer' /\ WithinConcurrency'
    BY <1>3, <1>5, <2>1, <2>2, <2>3, QuietStep
  <2> QED BY <2>1, <2>2, <2>4 DEF IInv
<1> QED BY <1>1, <1>6, <1>7, <1>8, <1>9, <1>10 DEF o

(* The state of some runners is gone, and so are they. *)
LEMMA ForgetFacts ==
  ASSUME IInv, NEW R, Forget(R),
         \A n \in Runners : \/ n \in R /\ conn'[n] \notin {"new", "open"}
                            \/ n \notin R /\ conn'[n] = conn[n]
  PROVE  /\ canSend' \subseteq Runners /\ leaving' \subseteq Runners /\ sent' \in [Runners -> Nat]
         /\ open' \subseteq Offers
         /\ status' \in [Offers -> {"none", "waitingForSettings", "running",
                                    "aborting:cancelled", "aborting:timeout"}]
         /\ open' \subseteq open /\ TasksEndAtMost /\ RunnersGoOn
<1>1. /\ canSend' = canSend \ R /\ leaving' = leaving \ R
      /\ open' = {o \in open : RunnerOf(o) \notin R}
      /\ status' = [o \in Offers |-> IF RunnerOf(o) \in R THEN "none" ELSE status[o]]
      /\ sent' = [n \in Runners |-> IF n \in R THEN 0 ELSE sent[n]]
  BY DEF Forget
<1>2. /\ canSend' \subseteq Runners /\ leaving' \subseteq Runners /\ sent' \in [Runners -> Nat]
      /\ open' \subseteq open /\ open' \subseteq Offers
  BY <1>1 DEF IInv, TypeOK
<1>3. /\ status' \in [Offers -> {"none", "waitingForSettings", "running",
                                 "aborting:cancelled", "aborting:timeout"}]
      /\ TasksEndAtMost
  BY <1>1 DEF IInv, TypeOK, TasksEndAtMost
<1>4. RunnersGoOn
  <2>1. \A n \in Runners : sent[n] \in Nat /\ (n \notin R => sent'[n] = sent[n]) /\ sent'[n] <= MaxOffers[n]
    BY <1>1, BrokerConstants DEF IInv, TypeOK, Numbered
  <2> QED BY <2>1 DEF RunnersGoOn
<1> QED BY <1>2, <1>3, <1>4

(* The two seconds of acceptOffer pass. *)
LEMMA AcceptTimeoutStep ==
  ASSUME IInv, NEW o \in Offers, AcceptTimeout(o)
  PROVE  IInv'
<1>1. o \in accepting /\ AcceptFails(o) /\ UNCHANGED <<reqTimer, conn, runnerVars, toBroker>>
  BY DEF AcceptTimeout
<1>2. /\ toBroker' \in [Runners -> Seq(Message)] /\ reqTimer' \subseteq Requests
      /\ Fewer(toBroker, toBroker')
  BY <1>1, SameFacts DEF IInv, TypeOK
<1> QED BY <1>1, <1>2, AcceptFailsStep

(* handleRequestTimeout *)
LEMMA RequestTimeoutStep ==
  ASSUME IInv, NEW r \in Requests, RequestTimeout(r)
  PROVE  IInv'
<1>1. /\ r \in reqTimer /\ reqTimer' = reqTimer \ {r}
      /\ requests' = Without(requests, {r}) /\ inProgress' = inProgress \ {r}
      /\ state' = IF r \in Elements(requests) THEN [state EXCEPT ![r] = "expired"] ELSE state
      /\ UNCHANGED <<mode, phase, known, offers, reqOf, accepting, tasks, timed, awaits, conn, runnerVars,
                     toRunner, toBroker>>
  BY DEF RequestTimeout, taskVars, channels
<1>2. /\ UNCHANGED <<canSend, leaving, sent, open, status>>
      /\ open' \subseteq open /\ TasksEndAtMost /\ RunnersGoOn
  BY <1>1, RunnersFrame
<1>3. requests' \in Seq(Requests) /\ Elements(requests') = Elements(requests) \ {r} /\ Distinct(requests')
  BY <1>1, WithoutFacts DEF IInv, TypeOK, RequestsSound
<1>4. r \in Elements(requests) <=> state[r] = "waiting"
  BY DEF IInv, RequestsSound
<1>5. /\ state' \in [Requests -> {"idle", "waiting", "awaiting", "ended", "expired"}]
      /\ \A q \in Requests : q # r => state'[q] = state[q]
      /\ state'[r] = IF state[r] = "waiting" THEN "expired" ELSE state[r]
  BY <1>1, <1>4 DEF IInv, TypeOK
<1>6. TypeOK'
  BY <1>1, <1>2, <1>3, <1>5 DEF IInv, TypeOK
<1>7. Fewer(toBroker, toBroker') /\ Notifies
  BY <1>1, SameFacts, NotifiesFacts
<1>8. OneUse' /\ \A p \in Pools' : p \in Pools
  BY <1>1, <1>7, PoolsShrink DEF IInv, OneUse
<1>9. \A p \in Pools' : Used(p)
  BY <1>8 DEF Pools, Used
<1>10. Routed' /\ Numbered' /\ OneStart' /\ OneAnswer' /\ WithinConcurrency'
  BY <1>2, <1>6, <1>7, <1>9, QuietStep
<1>11. RequestsSound'
  BY <1>3, <1>5 DEF IInv, RequestsSound
<1>12. CallersSound'
  BY <1>1, <1>5 DEF IInv, CallersSound, AwaitedTaskIsTracked
<1>13. AcceptingSound'
  <2>1. \A o \in accepting : reqOf'[o] = reqOf[o] /\ reqOf[o] \in Requests
          /\ (state[reqOf[o]] = "expired" \/ (state[reqOf[o]] = "waiting" /\ reqOf[o] \in inProgress))
    BY <1>1 DEF IInv, AcceptingSound
  <2>2. \A o \in accepting :
          state'[reqOf[o]] = "expired" \/ (state'[reqOf[o]] = "waiting" /\ reqOf[o] \in inProgress')
    BY <1>1, <1>5, <2>1
  <2> QED BY <1>1, <2>1, <2>2 DEF IInv, AcceptingSound
<1>14. TasksSound'
  <2>1. \A o \in tasks : reqOf'[o] = reqOf[o] /\ reqOf[o] \in Requests
          /\ (state[reqOf[o]] = "expired" \/ (state[reqOf[o]] = "awaiting" /\ awaits[reqOf[o]] = o))
    BY <1>1 DEF IInv, TasksSound, OrphansOnlyAfterExpiry
  <2>2. \A o \in tasks : state'[reqOf[o]] = state[reqOf[o]]
    BY <1>5, <2>1
  <2> QED BY <1>1, <2>1, <2>2 DEF TasksSound, OrphansOnlyAfterExpiry
<1> QED BY <1>6, <1>8, <1>10, <1>11, <1>12, <1>13, <1>14 DEF IInv

(* Tasks end and nothing new is said to the runners but that: what the     *)
(* timeout, the cancellation and the loss of a task have in common.        *)
LEMMA TasksEndStep ==
  ASSUME IInv, NEW T, T \subseteq tasks, EndTasks(T),
         mode' \in Modes, phase' \in {"up", "draining", "stopped"}, known' \subseteq known,
         UNCHANGED <<requests, inProgress, reqTimer, accepting>>,
         offers' \in Seq(Offers), Distinct(offers'), Elements(offers') \subseteq Elements(offers),
         \A o \in tasks \ T : RunnerOf(o) \in known => RunnerOf(o) \in known',
         conn' \in [Runners -> {"new", "open", "closed", "lost", "gone"}],
         canSend' \subseteq Runners, leaving' \subseteq Runners, sent' \in [Runners -> Nat],
         open' \subseteq Offers,
         status' \in [Offers -> {"none", "waitingForSettings", "running",
                                 "aborting:cancelled", "aborting:timeout"}],
         open' \subseteq open, TasksEndAtMost, RunnersGoOn,
         toRunner' \in [Runners -> Seq(Message)], Notifies,
         toBroker' \in [Runners -> Seq(Message)], Fewer(toBroker, toBroker')
  PROVE  IInv'
<1>1. /\ tasks' \subseteq tasks /\ tasks' \subseteq Offers /\ timed' \subseteq Offers
      /\ state' \in [Requests -> {"idle", "waiting", "awaiting", "ended", "expired"}]
      /\ awaits' \in [Requests -> Offers \cup {None}]
      /\ reqOf' \in [Offers -> Requests \cup {None}]
      /\ RequestsSound' /\ CallersSound' /\ AcceptingSound' /\ TasksSound'
  BY EndTasksFacts
<1>2. TypeOK'
  BY <1>1 DEF IInv, TypeOK
<1>3. OneUse' /\ \A p \in Pools' : p \in Pools
  BY <1>1, PoolsShrink DEF IInv
<1>4. \A p \in Pools' : Used(p)
  BY <1>3 DEF Pools, Used
<1>5. Routed' /\ Numbered' /\ OneStart' /\ OneAnswer' /\ WithinConcurrency'
  BY <1>2, <1>4, QuietStep
<1> QED BY <1>1, <1>2, <1>3, <1>5 DEF IInv

(* What every step finds. *)
LEMMA TypeFacts ==
  ASSUME IInv
  PROVE  /\ mode \in Modes /\ phase \in {"up", "draining", "stopped"} /\ known \subseteq Runners
         /\ offers \in Seq(Offers) /\ Distinct(offers) /\ tasks \subseteq Offers /\ timed \subseteq tasks
         /\ conn \in [Runners -> {"new", "open", "closed", "lost", "gone"}]
         /\ canSend \subseteq Runners /\ leaving \subseteq Runners /\ sent \in [Runners -> Nat]
         /\ open \subseteq Offers
         /\ status \in [Offers -> {"none", "waitingForSettings", "running",
                                   "aborting:cancelled", "aborting:timeout"}]
         /\ toRunner \in [Runners -> Seq(Message)] /\ toBroker \in [Runners -> Seq(Message)]
BY DEF IInv, TypeOK, OneUse, CallersSound

(* handleTaskTimeout *)
LEMMA TaskTimeoutStep ==
  ASSUME IInv, NEW o \in Offers, TaskTimeout(o)
  PROVE  IInv'
<1> DEFINE n == RunnerOf(o)
           T == {o}
<1>1. /\ o \in timed /\ EndTasks(T)
      /\ UNCHANGED <<mode, phase, known, requests, inProgress, reqTimer, offers, accepting, toBroker>>
      /\ IF mode = "internal" /\ conn[n] = "open"
         THEN /\ conn' = [conn EXCEPT ![n] = "lost"]
              /\ toRunner' = [toRunner EXCEPT ![n] = <<>>]
              /\ Forget({n})
         ELSE /\ toRunner' = SendAll(toRunner, <<Msg("cancel", o)>>)
              /\ UNCHANGED <<conn, runnerVars>>
  BY DEF TaskTimeout, pendingVars
<1>2. o \in tasks /\ n \in Runners /\ T \subseteq tasks /\ Fewer(toBroker, toBroker')
  BY <1>1, TypeFacts, OfferFacts, SameFacts
<1> HIDE DEF T, n
<1>3. /\ conn' \in [Runners -> {"new", "open", "closed", "lost", "gone"}]
      /\ canSend' \subseteq Runners /\ leaving' \subseteq Runners /\ sent' \in [Runners -> Nat]
      /\ open' \subseteq Offers
      /\ status' \in [Offers -> {"none", "waitingForSettings", "running",
                                 "aborting:cancelled", "aborting:timeout"}]
      /\ open' \subseteq open /\ TasksEndAtMost /\ RunnersGoOn
      /\ toRunner' \in [Runners -> Seq(Message)] /\ Notifies
  <2>1. CASE mode = "internal" /\ conn[n] = "open"
    <3>1. conn' = [conn EXCEPT ![n] = "lost"] /\ Forget({n}) /\ toRunner' = Cleared(toRunner, {n})
      BY <1>1, <1>2, <2>1, ClearedOne, TypeFacts
    <3>2. /\ conn' \in [Runners -> {"new", "open", "closed", "lost", "gone"}]
          /\ \A k \in Runners : \/ k \in {n} /\ conn'[k] \notin {"new", "open"}
                                \/ k \notin {n} /\ conn'[k] = conn[k]
      BY <1>2, <3>1, TypeFacts
    <3>3. toRunner' \in [Runners -> Seq(Message)] /\ Notifies
      BY <3>1, TypeFacts, ClearedFacts, NotifiesFacts
    <3> QED BY <3>1, <3>2, <3>3, ForgetFacts
  <2>2. CASE ~(mode = "internal" /\ conn[n] = "open")
    <3>1. toRunner' = SendAll(toRunner, <<Msg("cancel", o)>>) /\ UNCHANGED <<conn, runnerVars>>
      BY <1>1, <2>2
    <3>2. toRunner' \in [Runners -> Seq(Message)] /\ Notifies
      BY <1>2, <3>1, NotifiesFacts
    <3>3. /\ UNCHANGED <<canSend, leaving, sent, open, status>>
          /\ open' \subseteq open /\ TasksEndAtMost /\ RunnersGoOn
      BY <3>1, RunnersFrame
    <3> QED BY <3>1, <3>2, <3>3, TypeFacts
  <2> QED BY <2>1, <2>2
<1>4. /\ mode' \in Modes /\ phase' \in {"up", "draining", "stopped"} /\ known' \subseteq known
      /\ offers' \in Seq(Offers) /\ Distinct(offers') /\ Elements(offers') \subseteq Elements(offers)
      /\ \A p \in tasks \ T : RunnerOf(p) \in known => RunnerOf(p) \in known'
      /\ toBroker' \in [Runners -> Seq(Message)]
  BY <1>1, TypeFacts
<1> QED BY <1>1, <1>2, <1>3, <1>4, TasksEndStep

(* cancelTasks *)
LEMMA CancelTasksStep ==
  ASSUME IInv, NEW r \in Requests, CancelTasks(r)
  PROVE  IInv'
<1> DEFINE o == awaits[r]
           T == {o}
<1>1. /\ state[r] = "awaiting" /\ EndTasks(T) /\ toRunner' = SendAll(toRunner, <<Msg("cancel", o)>>)
      /\ UNCHANGED <<mode, phase, known, requests, inProgress, reqTimer, offers, accepting, conn, runnerVars, toBroker>>
  BY DEF CancelTasks, pendingVars
<1>2. o \in tasks /\ T \subseteq tasks /\ Fewer(toBroker, toBroker')
  BY <1>1, SameFacts DEF IInv, CallersSound, AwaitedTaskIsTracked
<1> HIDE DEF T, o
<1>3. toRunner' \in [Runners -> Seq(Message)] /\ Notifies
  BY <1>1, <1>2, NotifiesFacts
<1>4. /\ UNCHANGED <<canSend, leaving, sent, open, status>>
      /\ open' \subseteq open /\ TasksEndAtMost /\ RunnersGoOn
  BY <1>1, RunnersFrame
<1>5. /\ mode' \in Modes /\ phase' \in {"up", "draining", "stopped"} /\ known' \subseteq known
      /\ offers' \in Seq(Offers) /\ Distinct(offers') /\ Elements(offers') \subseteq Elements(offers)
      /\ \A p \in tasks \ T : RunnerOf(p) \in known => RunnerOf(p) \in known'
      /\ toBroker' \in [Runners -> Seq(Message)]
  BY <1>1, TypeFacts
<1>6. /\ conn' \in [Runners -> {"new", "open", "closed", "lost", "gone"}]
      /\ canSend' \subseteq Runners /\ leaving' \subseteq Runners /\ sent' \in [Runners -> Nat]
      /\ open' \subseteq Offers
      /\ status' \in [Offers -> {"none", "waitingForSettings", "running",
                                 "aborting:cancelled", "aborting:timeout"}]
  BY <1>1, <1>4, TypeFacts
<1> QED BY <1>1, <1>2, <1>3, <1>4, <1>5, <1>6, TasksEndStep

(* deregisterRunner: what is left is no offer and no task of the runners.  *)
LEMMA DeregisterFacts ==
  ASSUME IInv, NEW R, DeregisterRunners(R)
  PROVE  /\ TasksOf(R) \subseteq tasks /\ EndTasks(TasksOf(R))
         /\ mode' \in Modes /\ known' \subseteq known
         /\ UNCHANGED <<requests, inProgress, reqTimer, accepting>>
         /\ offers' \in Seq(Offers) /\ Distinct(offers') /\ Elements(offers') \subseteq Elements(offers)
         /\ \A o \in tasks \ TasksOf(R) : RunnerOf(o) \in known => RunnerOf(o) \in known'
         /\ toBroker' \in [Runners -> Seq(Message)] /\ Fewer(toBroker, toBroker')
<1>1. /\ known' = known \ R /\ offers' = Without(offers, {o \in Offers : RunnerOf(o) \in R})
      /\ EndTasks(TasksOf(R)) /\ toBroker' = Cleared(toBroker, R)
      /\ UNCHANGED <<mode, requests, inProgress, reqTimer, accepting>>
  BY DEF DeregisterRunners, Cleared
<1>2. offers' \in Seq(Offers) /\ Distinct(offers') /\ Elements(offers') \subseteq Elements(offers)
  BY <1>1, TypeFacts, WithoutFacts
<1>3. TasksOf(R) \subseteq tasks /\ \A o \in tasks \ TasksOf(R) : RunnerOf(o) \in known => RunnerOf(o) \in known'
  BY <1>1 DEF TasksOf
<1>4. toBroker' \in [Runners -> Seq(Message)] /\ Fewer(toBroker, toBroker')
  BY <1>1, TypeFacts, ClearedFacts
<1> QED BY <1>1, <1>2, <1>3, <1>4, TypeFacts

LEMMA DeregisterStep ==
  ASSUME IInv, NEW n \in Runners, Deregister(n)
  PROVE  IInv'
<1>1. /\ conn[n] \in {"lost", "closed"} /\ DeregisterRunners({n}) /\ conn' = [conn EXCEPT ![n] = "gone"]
      /\ UNCHANGED <<phase, runnerVars, toRunner>>
  BY DEF Deregister
<1>2. /\ TasksOf({n}) \subseteq tasks /\ EndTasks(TasksOf({n}))
      /\ mode' \in Modes /\ known' \subseteq known
      /\ UNCHANGED <<requests, inProgress, reqTimer, accepting>>
      /\ offers' \in Seq(Offers) /\ Distinct(offers') /\ Elements(offers') \subseteq Elements(offers)
      /\ \A o \in tasks \ TasksOf({n}) : RunnerOf(o) \in known => RunnerOf(o) \in known'
      /\ toBroker' \in [Runners -> Seq(Message)] /\ Fewer(toBroker, toBroker')
  BY <1>1, DeregisterFacts
<1>3. /\ conn' \in [Runners -> {"new", "open", "closed", "lost", "gone"}]
      /\ UNCHANGED <<canSend, leaving, sent, open, status>>
      /\ open' \subseteq open /\ TasksEndAtMost /\ RunnersGoOn
  <2>1. /\ conn' \in [Runners -> {"new", "open", "closed", "lost", "gone"}]
        /\ \A k \in Runners : conn'[k] = conn[k] \/ conn'[k] = "gone"
        /\ \A k \in Runners : sent[k] \in Nat /\ sent[k] <= MaxOffers[k]
    BY <1>1, TypeFacts DEF IInv, Numbered
  <2>2. UNCHANGED <<canSend, leaving, sent, open, status>>
    BY <1>1 DEF runnerVars
  <2> QED BY <2>1, <2>2 DEF TasksEndAtMost, RunnersGoOn
<1>4. toRunner' \in [Runners -> Seq(Message)] /\ Notifies /\ phase' \in {"up", "draining", "stopped"}
  BY <1>1, TypeFacts, SameFacts, NotifiesFacts
<1>5. /\ canSend' \subseteq Runners /\ leaving' \subseteq Runners /\ sent' \in [Runners -> Nat]
      /\ open' \subseteq Offers
      /\ status' \in [Offers -> {"none", "waitingForSettings", "running",
                                 "aborting:cancelled", "aborting:timeout"}]
  BY <1>3, TypeFacts
<1> QED BY <1>2, <1>3, <1>4, <1>5, TasksEndStep

(* stopConnectedRunners *)
LEMMA StopRunnersStep ==
  ASSUME IInv, StopRunners
  PROVE  IInv'
<1>1. /\ phase' = "stopped" /\ DeregisterRunners(known) /\ conn' = [n \in Runners |-> "gone"]
      /\ toRunner' = [n \in Runners |-> <<>>] /\ Forget(Runners)
  BY DEF StopRunners
<1>2. /\ TasksOf(known) \subseteq tasks /\ EndTasks(TasksOf(known))
      /\ mode' \in Modes /\ known' \subseteq known
      /\ UNCHANGED <<requests, inProgress, reqTimer, accepting>>
      /\ offers' \in Seq(Offers) /\ Distinct(offers') /\ Elements(offers') \subseteq Elements(offers)
      /\ \A o \in tasks \ TasksOf(known) : RunnerOf(o) \in known => RunnerOf(o) \in known'
      /\ toBroker' \in [Runners -> Seq(Message)] /\ Fewer(toBroker, toBroker')
  BY <1>1, DeregisterFacts
<1>3. /\ conn' \in [Runners -> {"new", "open", "closed", "lost", "gone"}]
      /\ \A n \in Runners : n \in Runners /\ conn'[n] \notin {"new", "open"}
  BY <1>1
<1>4. /\ canSend' \subseteq Runners /\ leaving' \subseteq Runners /\ sent' \in [Runners -> Nat]
      /\ open' \subseteq Offers
      /\ status' \in [Offers -> {"none", "waitingForSettings", "running",
                                 "aborting:cancelled", "aborting:timeout"}]
      /\ open' \subseteq open /\ TasksEndAtMost /\ RunnersGoOn
  BY <1>1, <1>3, ForgetFacts
<1>5. toRunner' = Cleared(toRunner, Runners)
  BY <1>1 DEF Cleared
<1>6. toRunner' \in [Runners -> Seq(Message)] /\ Notifies
  BY <1>5, TypeFacts, ClearedFacts, NotifiesFacts
<1> QED BY <1>1, <1>2, <1>3, <1>4, <1>6, TasksEndStep

(* registerRunner: a new runner, of which nothing is used, is told so.     *)
LEMMA RegisterStep ==
  ASSUME IInv, NEW n \in Runners, Register(n)
  PROVE  IInv'
<1>1. /\ conn[n] = "new" /\ conn' = [conn EXCEPT ![n] = "open"] /\ known' = known \cup {n}
      /\ toRunner' = [toRunner EXCEPT ![n] = <<Msg("registered", None)>>]
      /\ UNCHANGED <<mode, phase, requests, inProgress, reqTimer, offers, accepting, reqOf, tasks, timed,
                     state, awaits, canSend, leaving, sent, open, status, toBroker>>
  BY DEF Register, matchVars, pendingVars, taskVars, requesterVars, runnerVars
<1>2. /\ Msg("registered", None) \in Message /\ Msg("registered", None).type = "registered"
      /\ Msg("registered", None).task = None
  BY MessageFacts DEF MessageTypes
<1>3. /\ toRunner' \in [Runners -> Seq(Message)]
      /\ \A k \in Runners : k # n => toRunner'[k] = toRunner[k]
      /\ toRunner'[n] = <<Msg("registered", None)>>
  BY <1>1, <1>2, TypeFacts
<1>4. Elements(toRunner'[n]) = {Msg("registered", None)} /\ Once(toRunner'[n], "settings")
  <2>1. DOMAIN toRunner'[n] = {1} /\ toRunner'[n][1] = Msg("registered", None)
    BY <1>3
  <2> QED BY <2>1 DEF Elements, Once
<1>5. TypeOK'
  BY <1>1, <1>3 DEF IInv, TypeOK
<1>6. Notifies
  BY <1>2, <1>3, <1>4 DEF Notifies
<1>7. open' \subseteq open /\ TasksEndAtMost /\ Fewer(toBroker, toBroker')
  BY <1>1, SameFacts DEF TasksEndAtMost
<1>8. RunnersGoOn
  BY <1>1, TypeFacts DEF RunnersGoOn, IInv, Numbered
<1>9. OneUse' /\ \A o \in Pools' : o \in Pools
  BY <1>1, <1>7, PoolsShrink DEF IInv, OneUse
<1>10. \A o \in Pools' : Used(o)
  BY <1>9 DEF Pools, Used
<1>11. Routed' /\ Numbered' /\ OneStart' /\ OneAnswer' /\ WithinConcurrency'
  BY <1>5, <1>6, <1>7, <1>8, <1>10, QuietStep
<1>12. RequestsSound' /\ CallersSound' /\ AcceptingSound' /\ TasksSound'
  BY <1>1 DEF IInv, RequestsSound, CallersSound, AcceptingSound, TasksSound, AwaitedTaskIsTracked,
              OrphansOnlyAfterExpiry
<1> QED BY <1>5, <1>9, <1>11, <1>12 DEF IInv

(* drainActiveTasks, before its loop *)
LEMMA StartDrainingStep ==
  ASSUME IInv, StartDraining
  PROVE  IInv'
<1>1. /\ phase' = "draining"
      /\ toRunner' = [n \in Runners |->
                        IF n \in known /\ conn[n] = "open"
                        THEN Append(toRunner[n], Msg("drain", None)) ELSE toRunner[n]]
      /\ UNCHANGED <<conn, runnerVars>>
      /\ UNCHANGED <<mode, known, requests, inProgress, reqTimer, offers, accepting, reqOf, tasks, timed,
                     state, awaits, toBroker>>
  BY DEF StartDraining, matchVars, pendingVars, taskVars, requesterVars
<1>2. /\ Msg("drain", None) \in Message /\ Msg("drain", None).type = "drain"
      /\ Msg("drain", None).task = None
  BY MessageFacts DEF MessageTypes
<1>3. ASSUME NEW n \in Runners
      PROVE  /\ toRunner'[n] \in Seq(Message)
             /\ \A m \in Elements(toRunner'[n]) : m \in Elements(toRunner[n]) \/ m = Msg("drain", None)
             /\ Once(toRunner[n], "settings") => Once(toRunner'[n], "settings")
  <2>1. toRunner[n] \in Seq(Message)
    BY TypeFacts
  <2>2. CASE toRunner'[n] = Append(toRunner[n], Msg("drain", None))
    <3>1. Append(toRunner[n], Msg("drain", None)) = toRunner[n] \o <<Msg("drain", None)>>
      BY <1>2, <2>1
    <3> DEFINE t == <<Msg("drain", None)>>
    <3>2. DOMAIN t = {1} /\ t[1] = Msg("drain", None) /\ t \in Seq(Message)
      BY <1>2
    <3> HIDE DEF t
    <3>3. Distinct(t) /\ Elements(t) = {Msg("drain", None)} /\ Apart(toRunner[n], t, "settings")
      BY <1>2, <3>2 DEF Distinct, Elements, Apart
    <3>4. /\ toRunner[n] \o t \in Seq(Message)
          /\ Elements(toRunner[n] \o t) = Elements(toRunner[n]) \cup Elements(t)
          /\ \A type \in Tracked : Once(toRunner[n], type) /\ Apart(toRunner[n], t, type) => Once(toRunner[n] \o t, type)
      BY <2>1, <3>2, <3>3, MoreFacts
    <3>5. toRunner'[n] = toRunner[n] \o t
      BY <2>2, <3>1 DEF t
    <3> QED BY <3>3, <3>4, <3>5 DEF Tracked
  <2>3. CASE toRunner'[n] = toRunner[n]
    BY <2>1, <2>3
  <2> QED BY <1>1, <2>2, <2>3
<1>4. toRunner' \in [Runners -> Seq(Message)]
  <2>1. toRunner' = [n \in Runners |-> toRunner'[n]]
    BY <1>1
  <2> QED BY <1>3, <2>1
<1>5. Notifies
  BY <1>2, <1>3 DEF Notifies
<1>6. /\ UNCHANGED <<canSend, leaving, sent, open, status>>
      /\ open' \subseteq open /\ TasksEndAtMost /\ RunnersGoOn /\ Fewer(toBroker, toBroker')
  BY <1>1, RunnersFrame, SameFacts
<1>7. TypeOK'
  BY <1>1, <1>4, <1>6 DEF IInv, TypeOK
<1>8. OneUse' /\ \A o \in Pools' : o \in Pools
  BY <1>1, <1>6, PoolsShrink DEF IInv, OneUse
<1>9. \A o \in Pools' : Used(o)
  BY <1>8 DEF Pools, Used
<1>10. Routed' /\ Numbered' /\ OneStart' /\ OneAnswer' /\ WithinConcurrency'
  BY <1>5, <1>6, <1>7, <1>9, QuietStep
<1>11. RequestsSound' /\ CallersSound' /\ AcceptingSound' /\ TasksSound'
  BY <1>1 DEF IInv, RequestsSound, CallersSound, AcceptingSound, TasksSound, AwaitedTaskIsTracked,
              OrphansOnlyAfterExpiry
<1> QED BY <1>7, <1>8, <1>10, <1>11 DEF IInv

(* startTask and taskRequested *)
LEMMA StartTaskStep ==
  ASSUME IInv, NEW r \in Requests, StartTask(r)
  PROVE  IInv'
<1>1. /\ state[r] = "idle"
      /\ UNCHANGED <<mode, phase, known, tasks, timed, awaits, conn, runnerVars, toBroker>>
      /\ IF phase = "up"
         THEN /\ state' = [state EXCEPT ![r] = "waiting"]
              /\ reqTimer' = reqTimer \cup {r}
              /\ Settle(Append(requests, r), offers)
         ELSE /\ state' = [state EXCEPT ![r] = "expired"]
              /\ UNCHANGED <<requests, inProgress, reqTimer, offers, accepting, reqOf, toRunner>>
  BY DEF StartTask, taskVars, matchVars, pendingVars
<1>2. /\ requests \in Seq(Requests) /\ Distinct(requests) /\ reqTimer \subseteq Requests
      /\ \A q \in Requests : q \in Elements(requests) <=> state[q] = "waiting"
      /\ state \in [Requests -> {"idle", "waiting", "awaiting", "ended", "expired"}]
  BY DEF IInv, TypeOK, RequestsSound
<1>3. toBroker' \in [Runners -> Seq(Message)] /\ Fewer(toBroker, toBroker') /\ toBroker' = toBroker
  BY <1>1, TypeFacts, SameFacts
<1>4. CASE phase = "up"
  <2> DEFINE reqs == Append(requests, r)
  <2>1. r \notin Elements(requests)
    BY <1>1, <1>2
  <2>2. reqs \in Seq(Requests) /\ Distinct(reqs) /\ Elements(reqs) = Elements(requests) \cup {r}
    BY <1>2, <2>1, AppendFacts
  <2>3. Settle(reqs, offers) /\ reqTimer' \subseteq Requests /\ state' = [state EXCEPT ![r] = "waiting"]
    BY <1>1, <1>2, <1>4
  <2> HIDE DEF reqs
  <2>4. /\ \A q \in Requests : q \in Elements(reqs) <=> state'[q] = "waiting"
        /\ \A q \in Requests : state[q] # "idle" => state'[q] = state[q]
        /\ \A q \in Requests : state[q] = "idle" => state'[q] \in {"idle", "waiting"}
        /\ state' \in [Requests -> {"idle", "waiting", "awaiting", "ended", "expired"}]
    BY <1>1, <1>2, <2>2, <2>3
  <2>5. \A o \in Elements(offers) : Used(o) /\ o \notin accepting \cup tasks
    BY DEF Used, IInv, OneUse
  <2>6. \A n \in Runners : \A m \in Elements(toBroker'[n]) : m.type = "offer" => m.task \notin Elements(offers)
    BY <1>3 DEF IInv, OneUse
  <2> QED BY <1>1, <1>3, <2>2, <2>3, <2>4, <2>5, <2>6, TypeFacts, SettleStep
<1>5. CASE phase # "up"
  <2>1. /\ state' = [state EXCEPT ![r] = "expired"]
        /\ UNCHANGED <<requests, inProgress, reqTimer, offers, accepting, reqOf, toRunner>>
    BY <1>1, <1>5
  <2>2. /\ state' \in [Requests -> {"idle", "waiting", "awaiting", "ended", "expired"}]
        /\ state'[r] = "expired" /\ \A q \in Requests : q # r => state'[q] = state[q]
    BY <1>2, <2>1
  <2>3. /\ UNCHANGED <<canSend, leaving, sent, open, status>>
        /\ open' \subseteq open /\ TasksEndAtMost /\ RunnersGoOn /\ Notifies
    BY <1>1, <2>1, RunnersFrame, SameFacts, NotifiesFacts
  <2>4. TypeOK'
    BY <1>1, <2>1, <2>2, <2>3 DEF IInv, TypeOK
  <2>5. OneUse' /\ \A o \in Pools' : o \in Pools
    BY <1>1, <1>3, <2>1, PoolsShrink DEF IInv, OneUse
  <2>6. \A o \in Pools' : Used(o)
    BY <2>5 DEF Pools, Used
  <2>7. Routed' /\ Numbered' /\ OneStart' /\ OneAnswer' /\ WithinConcurrency'
    BY <1>3, <2>3, <2>4, <2>6, QuietStep
  <2>8. RequestsSound'
    BY <1>1, <1>2, <2>1, <2>2 DEF RequestsSound
  <2>9. CallersSound'
    BY <1>1, <2>2 DEF IInv, CallersSound, AwaitedTaskIsTracked
  <2>10. AcceptingSound'
    BY <1>1, <2>1, <2>2 DEF IInv, AcceptingSound
  <2>11. TasksSound'
    BY <1>1, <2>1, <2>2 DEF IInv, TasksSound, OrphansOnlyAfterExpiry
  <2> QED BY <2>4, <2>5, <2>7, <2>8, <2>9, <2>10, <2>11 DEF IInv
<1> QED BY <1>4, <1>5

-----------------------------------------------------------------------------
(***************************************************************************)
(* The runners' steps                                                      *)
(***************************************************************************)

(* A step of a runner that offers and accepts nothing. *)
LEMMA RunnerQuietStep ==
  ASSUME IInv, UNCHANGED <<brokerVars, requesterVars>>,
         conn' \in [Runners -> {"new", "open", "closed", "lost", "gone"}],
         canSend' \subseteq Runners, leaving' \subseteq Runners, sent' \in [Runners -> Nat],
         open' \subseteq open,
         status' \in [Offers -> {"none", "waitingForSettings", "running",
                                 "aborting:cancelled", "aborting:timeout"}],
         TasksEndAtMost, RunnersGoOn,
         toRunner' \in [Runners -> Seq(Message)], Fewer(toRunner, toRunner'), toBroker' = toBroker
  PROVE  IInv'
<1>1. Fewer(toBroker, toBroker') /\ Notifies
  BY SameFacts, NotifiesFacts
<1>2. /\ RequestsSound' /\ CallersSound' /\ AcceptingSound' /\ TasksSound'
      /\ (\A o \in Pools' : Used(o)) /\ OneUse'
  BY <1>1, BrokerFrame
<1>3. TypeOK'
  BY DEF IInv, TypeOK, brokerVars, matchVars, pendingVars, taskVars, requesterVars
<1>4. Routed' /\ Numbered' /\ OneStart' /\ OneAnswer' /\ WithinConcurrency'
  BY <1>1, <1>2, <1>3, QuietStep
<1> QED BY <1>2, <1>3, <1>4 DEF IInv

LEMMA LeaveStep ==
  ASSUME IInv, NEW n \in Runners, Leave(n)
  PROVE  IInv'
<1>1. /\ leaving' = leaving \cup {n} /\ canSend' = canSend \ {n} /\ open' = open \ OpenOf(n)
      /\ UNCHANGED <<brokerVars, requesterVars, conn, sent, status, toRunner, toBroker>>
  BY DEF Leave, channels
<1>2. TasksEndAtMost /\ RunnersGoOn /\ Fewer(toRunner, toRunner')
  BY <1>1, TypeFacts, SameFacts DEF TasksEndAtMost, RunnersGoOn, IInv, Numbered
<1> QED BY <1>1, <1>2, TypeFacts, RunnerQuietStep

(* A runner is gone. *)
LEMMA RunnerEndsStep ==
  ASSUME IInv, NEW n \in Runners, NEW end \in {"closed", "lost"},
         conn' = [conn EXCEPT ![n] = end], toRunner' = [toRunner EXCEPT ![n] = <<>>], Forget({n}),
         UNCHANGED <<brokerVars, requesterVars, toBroker>>
  PROVE  IInv'
<1>1. /\ conn' \in [Runners -> {"new", "open", "closed", "lost", "gone"}]
      /\ \A k \in Runners : \/ k \in {n} /\ conn'[k] \notin {"new", "open"}
                            \/ k \notin {n} /\ conn'[k] = conn[k]
  BY TypeFacts
<1>2. /\ canSend' \subseteq Runners /\ leaving' \subseteq Runners /\ sent' \in [Runners -> Nat]
      /\ status' \in [Offers -> {"none", "waitingForSettings", "running",
                                 "aborting:cancelled", "aborting:timeout"}]
      /\ open' \subseteq open /\ TasksEndAtMost /\ RunnersGoOn
  BY <1>1, ForgetFacts
<1>3. toRunner' \in [Runners -> Seq(Message)] /\ Fewer(toRunner, toRunner')
  <2>1. toRunner \in [Runners -> Seq(Message)]
    BY TypeFacts
  <2>2. toRunner' = Cleared(toRunner, {n})
    BY <2>1, ClearedOne
  <2> QED BY <2>1, <2>2, ClearedFacts
<1> QED BY <1>1, <1>2, <1>3, RunnerQuietStep

LEMMA CloseConnectionStep ==
  ASSUME IInv, NEW n \in Runners, CloseConnection(n)
  PROVE  IInv'
BY RunnerEndsStep DEF CloseConnection

LEMMA CrashStep ==
  ASSUME IInv, NEW n \in Runners, Crash(n)
  PROVE  IInv'
BY RunnerEndsStep DEF Crash

(* A runner answers a request to confirm: if it accepts, the offer was     *)
(* open and takes a slot instead of being open.                            *)
LEMMA OfferAcceptedStep ==
  ASSUME IInv, NEW n \in Runners, NEW o \in Offers, RunnerOf(o) = n, conn[n] = "open",
         Msg("accept", o) \in Elements(toRunner[n]), OfferAccepted(n, o),
         UNCHANGED <<brokerVars, requesterVars, conn, canSend, leaving>>,
         toRunner' \in [Runners -> Seq(Message)], Fewer(toRunner, toRunner')
  PROVE  IInv'
<1> DEFINE answer == Answer(n, o)
           x == Msg(answer, o)
<1>1. /\ open' = open \ {o}
      /\ status' = IF answer = "accepted" THEN [status EXCEPT ![o] = "waitingForSettings"] ELSE status
      /\ toBroker' = [toBroker EXCEPT ![n] = Append(@, x)]
      /\ UNCHANGED sent
  BY DEF OfferAccepted
<1>2. answer \in {"accepted", "rejected", "deferred"} /\ (answer = "accepted" => o \in open)
  BY DEF Answer
<1> HIDE DEF answer
<1>3. /\ x \in Message /\ x.type = answer /\ x.task = o /\ Used(o) /\ Msg("accept", o).task = o
      /\ x = Msg(answer, o)
  <2>1. x \in Message /\ x.type = answer /\ x.task = o /\ Msg("accept", o).task = o
    BY <1>2, MessageFacts DEF MessageTypes
  <2> QED BY <2>1 DEF Used
<1>4. answer = "accepted" =>
        /\ status[o] = "none" /\ Msg("accepted", o) \notin Elements(toBroker[n])
        /\ Msg("settings", o) \notin Elements(toRunner[n])
  BY <1>2 DEF IInv, OneStart
<1> HIDE DEF x
<1>5. /\ toBroker' \in [Runners -> Seq(Message)]
      /\ \A k \in Runners : k # n => toBroker'[k] = toBroker[k]
      /\ Elements(toBroker'[n]) = Elements(toBroker[n]) \cup {x}
      /\ Once(toBroker'[n], "offer") /\ Once(toBroker'[n], "accepted")
  <2> DEFINE t == <<x>>
  <2>1. toBroker[n] \in Seq(Message) /\ toBroker'[n] = Append(toBroker[n], x)
        /\ \A k \in Runners : k # n => toBroker'[k] = toBroker[k]
    BY <1>1, TypeFacts
  <2>2. toBroker'[n] = toBroker[n] \o t
    BY <1>3, <2>1
  <2>3. DOMAIN t = {1} /\ t[1] = x /\ t \in Seq(Message)
    BY <1>3
  <2> HIDE DEF t
  <2>4. /\ Distinct(t) /\ Elements(t) = {x}
        /\ Apart(toBroker[n], t, "offer") /\ Apart(toBroker[n], t, "accepted")
    BY <1>2, <1>3, <1>4, <2>3 DEF Distinct, Elements, Apart
  <2>5. /\ toBroker[n] \o t \in Seq(Message)
        /\ Elements(toBroker[n] \o t) = Elements(toBroker[n]) \cup Elements(t)
        /\ \A type \in Tracked : Once(toBroker[n], type) /\ Apart(toBroker[n], t, type) => Once(toBroker[n] \o t, type)
    BY <2>1, <2>3, <2>4, MoreFacts
  <2>6. Once(toBroker[n], "offer") /\ Once(toBroker[n], "accepted")
    BY DEF IInv, OneUse, OneAnswer
  <2>7. toBroker' \in [Runners -> Seq(Message)]
    BY <1>1, <2>2, <2>5, TypeFacts
  <2> QED BY <2>1, <2>2, <2>4, <2>5, <2>6, <2>7 DEF Tracked
<1>6. /\ status' \in [Offers -> {"none", "waitingForSettings", "running",
                                 "aborting:cancelled", "aborting:timeout"}]
      /\ \A p \in Offers : p # o => status'[p] = status[p]
      /\ answer = "accepted" => status'[o] = "waitingForSettings"
      /\ answer # "accepted" => status'[o] = status[o]
  BY <1>1, TypeFacts
<1>7. TypeOK'
  BY <1>1, <1>5, <1>6 DEF IInv, TypeOK, brokerVars, matchVars, pendingVars, taskVars, requesterVars
<1>8. /\ RequestsSound' /\ CallersSound' /\ AcceptingSound' /\ TasksSound'
      /\ \A p \in Pools' : Used(p)
  BY BrokerFrame
<1>9. \A k \in Runners : Elements(toRunner'[k]) \subseteq Elements(toRunner[k])
  BY DEF Fewer
<1>10. Routed'
  BY <1>2, <1>3, <1>5, <1>9 DEF IInv, Routed
<1>11. Numbered'
  <2>1. ASSUME NEW p \in Offers, Used(p)' PROVE Used(p)
    <3>0. RunnerOf(p) \in Runners
      BY OfferFacts
    <3>1. CASE p = o
      BY <1>3, <3>1
    <3>2. CASE p # o
      <4>1. \A m \in Elements(toBroker'[RunnerOf(p)]) : m.task = p => m \in Elements(toBroker[RunnerOf(p)])
        BY <1>3, <1>5, <3>0, <3>2
      <4> QED BY <1>1, <1>6, <1>8, <1>9, <2>1, <3>0, <3>2, <4>1 DEF Used, Pools
    <3> QED BY <3>1, <3>2
  <2> QED BY <1>1, <2>1 DEF IInv, Numbered
<1>12. OneUse'
  <2>1. UNCHANGED <<offers, accepting, tasks>>
    BY DEF brokerVars, matchVars, pendingVars, taskVars
  <2>2. \A k \in Runners : Once(toBroker'[k], "offer")
    BY <1>5 DEF IInv, OneUse
  <2>3. \A k \in Runners : \A m \in Elements(toBroker'[k]) : m.type = "offer" => m \in Elements(toBroker[k])
    BY <1>2, <1>3, <1>5
  <2> QED BY <2>1, <2>2, <2>3 DEF IInv, OneUse
<1>13. OneAnswer'
  BY <1>5 DEF IInv, OneAnswer, Fewer, Tracked
<1>14. OneStart'
  <2> SUFFICES ASSUME NEW p \in Offers
               PROVE  LET k == RunnerOf(p)
                      IN  /\ p \in open' \/ Msg("accepted", p) \in Elements(toBroker'[k])
                               => Msg("settings", p) \notin Elements(toRunner'[k])
                          /\ p \in open' => status'[p] = "none" /\ Msg("accepted", p) \notin Elements(toBroker'[k])
                          /\ Msg("accepted", p) \in Elements(toBroker'[k]) \/ Msg("settings", p) \in Elements(toRunner'[k])
                               => status'[p] \in {"none", "waitingForSettings"}
    BY DEF OneStart, Msg
  <2>1. RunnerOf(p) \in Runners /\ Msg("accepted", p).type = "accepted" /\ Msg("accepted", p).task = p
    BY OfferFacts, MessageFacts DEF MessageTypes
  <2>2. Msg("accepted", p) \in Elements(toBroker'[RunnerOf(p)]) =>
          \/ Msg("accepted", p) \in Elements(toBroker[RunnerOf(p)])
          \/ p = o /\ answer = "accepted"
    BY <1>3, <1>5, <2>1
  <2>3. Msg("settings", p) \in Elements(toRunner'[RunnerOf(p)]) => Msg("settings", p) \in Elements(toRunner[RunnerOf(p)])
    BY <1>9, <2>1
  <2>4. CASE p = o
    BY <1>1, <1>4, <1>6, <2>2, <2>3, <2>4 DEF IInv, OneStart
  <2>5. CASE p # o
    BY <1>1, <1>6, <2>2, <2>3, <2>5 DEF IInv, OneStart
  <2> QED BY <2>4, <2>5
<1>15. WithinConcurrency'
  <2>1. CASE answer # "accepted"
    <3>1. open' \subseteq open /\ \A p \in Offers : status'[p] # "none" => status[p] # "none"
      BY <1>1, <1>6, <2>1
    <3> QED BY <1>7, <3>1, RoomGrows DEF IInv
  <2>2. CASE answer = "accepted"
    <3> SUFFICES ASSUME NEW k \in Runners
                 PROVE  Cardinality(OpenOf(k)') + Cardinality(RunningOf(k, status)') <= MaxConcurrency
      BY DEF WithinConcurrency
    <3> DEFINE A == OpenOf(k)
               B == RunningOf(k, status)
               A1 == OpenOf(k)'
               B1 == RunningOf(k, status)'
    <3>1. A \in SUBSET {p \in Offers : RunnerOf(p) = k} /\ B \in SUBSET {p \in Offers : RunnerOf(p) = k}
      BY TypeFacts DEF OpenOf, RunningOf
    <3>2. Cardinality(A) + Cardinality(B) <= MaxConcurrency
      BY DEF IInv, WithinConcurrency
    <3>3. IF k = n THEN A1 = A \ {o} /\ o \in A /\ B1 = B \cup {o} /\ o \notin B ELSE A1 = A /\ B1 = B
      BY <1>1, <1>2, <1>4, <1>6, <2>2 DEF OpenOf, RunningOf
    <3> HIDE DEF A, B, A1, B1
    <3>4. /\ IsFiniteSet(A) /\ Cardinality(A) \in Nat /\ IsFiniteSet(B) /\ Cardinality(B) \in Nat
      BY <3>1, OffersOfFinite
    <3>5. Cardinality(A1) + Cardinality(B1) = Cardinality(A) + Cardinality(B)
      <4>1. CASE k = n
        <5>1. A1 = A \ {o} /\ o \in A /\ B1 = B \cup {o} /\ o \notin B
          BY <3>3, <4>1
        <5>2. Cardinality(A1) = Cardinality(A) - 1
          BY <3>4, <5>1, FS_RemoveElement
        <5>3. Cardinality(B1) = Cardinality(B) + 1
          BY <3>4, <5>1, FS_AddElement
        <5> QED BY <3>4, <5>2, <5>3
      <4>2. CASE k # n
        BY <3>3, <4>2
      <4> QED BY <4>1, <4>2
    <3> QED BY <3>2, <3>5 DEF A1, B1
  <2> QED BY <2>1, <2>2
<1> QED BY <1>7, <1>8, <1>10, <1>11, <1>12, <1>13, <1>14, <1>15 DEF IInv

(* The settings of a task arrive, for the first time. *)
LEMMA ReceivedSettingsStep ==
  ASSUME IInv, NEW n \in Runners, NEW o \in Offers, RunnerOf(o) = n,
         Msg("settings", o) \in Elements(toRunner[n]), Msg("settings", o) \notin Elements(toRunner'[n]),
         ReceivedSettings(o),
         UNCHANGED <<brokerVars, requesterVars, conn, canSend, leaving>>,
         toRunner' \in [Runners -> Seq(Message)], Fewer(toRunner, toRunner')
  PROVE  IInv'
<1>1. /\ status' = IF status[o] = "waitingForSettings" THEN [status EXCEPT ![o] = "running"] ELSE status
      /\ UNCHANGED <<sent, open, toBroker>>
  BY DEF ReceivedSettings
<1>2. /\ status' \in [Offers -> {"none", "waitingForSettings", "running",
                                 "aborting:cancelled", "aborting:timeout"}]
      /\ \A p \in Offers : p # o => status'[p] = status[p]
      /\ status'[o] # "none" => status[o] # "none"
  BY <1>1, TypeFacts
<1>3. TypeOK'
  BY <1>1, <1>2 DEF IInv, TypeOK, brokerVars, matchVars, pendingVars, taskVars, requesterVars
<1>4. Fewer(toBroker, toBroker')
  BY <1>1, SameFacts
<1>5. /\ RequestsSound' /\ CallersSound' /\ AcceptingSound' /\ TasksSound'
      /\ (\A p \in Pools' : Used(p)) /\ OneUse'
  BY <1>4, BrokerFrame
<1>6. \A k \in Runners : Elements(toRunner'[k]) \subseteq Elements(toRunner[k])
  BY DEF Fewer
<1>7. Routed'
  BY <1>1, <1>6 DEF IInv, Routed
<1>8. Numbered'
  <2>1. ASSUME NEW p \in Offers, Used(p)' PROVE Used(p)
    <3>1. RunnerOf(p) \in Runners
      BY OfferFacts
    <3>2. status'[p] # "none" => status[p] # "none"
      BY <1>2
    <3> QED BY <1>1, <1>5, <1>6, <2>1, <3>1, <3>2 DEF Used, Pools
  <2> QED BY <1>1, <2>1 DEF IInv, Numbered
<1>9. OneAnswer'
  BY <1>1 DEF IInv, OneAnswer, Fewer, Tracked
<1>10. o \notin open /\ Msg("accepted", o) \notin Elements(toBroker[n])
  BY DEF IInv, OneStart
<1>11. OneStart'
  <2> SUFFICES ASSUME NEW p \in Offers
               PROVE  LET k == RunnerOf(p)
                      IN  /\ p \in open' \/ Msg("accepted", p) \in Elements(toBroker'[k])
                               => Msg("settings", p) \notin Elements(toRunner'[k])
                          /\ p \in open' => status'[p] = "none" /\ Msg("accepted", p) \notin Elements(toBroker'[k])
                          /\ Msg("accepted", p) \in Elements(toBroker'[k]) \/ Msg("settings", p) \in Elements(toRunner'[k])
                               => status'[p] \in {"none", "waitingForSettings"}
    BY DEF OneStart, Msg
  <2>1. RunnerOf(p) \in Runners
    BY OfferFacts
  <2>2. CASE p = o
    BY <1>1, <1>10, <2>2
  <2>3. CASE p # o
    BY <1>1, <1>2, <1>6, <2>1, <2>3 DEF IInv, OneStart
  <2> QED BY <2>2, <2>3
<1>12. WithinConcurrency'
  <2>1. open' \subseteq open /\ \A p \in Offers : status'[p] # "none" => status[p] # "none"
    BY <1>1, <1>2
  <2> QED BY <1>3, <2>1, RoomGrows DEF IInv
<1> QED BY <1>3, <1>5, <1>7, <1>8, <1>9, <1>11, <1>12 DEF IInv

(* onMessage *)
LEMMA RunnerReceiveStep ==
  ASSUME IInv, NEW n \in Runners, RunnerReceive(n)
  PROVE  IInv'
<1> DEFINE m == Head(toRunner[n])
           o == m.task
<1>1. /\ conn[n] = "open" /\ toRunner[n] # <<>> /\ toRunner' = Taken(toRunner, n)
      /\ UNCHANGED <<brokerVars, requesterVars, conn, leaving>>
      /\ \/ /\ m.type \in {"registered", "drain"}
            /\ canSend' = IF m.type = "registered" THEN canSend \cup {n} ELSE canSend \ {n}
            /\ UNCHANGED <<sent, open, status, toBroker>>
         \/ m.type = "accept" /\ OfferAccepted(n, o) /\ UNCHANGED canSend
         \/ m.type = "settings" /\ ReceivedSettings(o) /\ UNCHANGED canSend
         \/ m.type = "cancel" /\ TaskCancelled(o) /\ UNCHANGED canSend
  BY DEF RunnerReceive, Taken
<1>2. /\ toRunner' \in [Runners -> Seq(Message)] /\ Fewer(toRunner, toRunner')
      /\ m \in Message /\ m \in Elements(toRunner[n])
      /\ \A type \in Tracked : Once(toRunner[n], type) /\ m.type = type => m \notin Elements(toRunner'[n])
  BY <1>1, TypeFacts, TakenFacts
<1> HIDE DEF m
<1>3. m = Msg(m.type, o) /\ (m.type \in {"accept", "settings", "cancel"} => o \in Offers /\ RunnerOf(o) = n)
  BY <1>2, MessageFacts DEF IInv, Routed
<1> HIDE DEF o
<1>4. \A k \in Runners : sent[k] \in Nat /\ sent[k] <= MaxOffers[k]
  BY TypeFacts DEF IInv, Numbered
<1>5. CASE /\ canSend' \in {canSend \cup {n}, canSend \ {n}}
           /\ UNCHANGED <<sent, open, status, toBroker>>
  <2>1. TasksEndAtMost /\ RunnersGoOn
    BY <1>1, <1>4, <1>5 DEF TasksEndAtMost, RunnersGoOn
  <2> QED BY <1>1, <1>2, <1>5, <2>1, TypeFacts, RunnerQuietStep
<1>6. CASE m.type = "accept" /\ OfferAccepted(n, o) /\ UNCHANGED canSend
  <2>1. Msg("accept", o) \in Elements(toRunner[n]) /\ o \in Offers /\ RunnerOf(o) = n
    BY <1>2, <1>3, <1>6
  <2> QED BY <1>1, <1>2, <1>6, <2>1, OfferAcceptedStep
<1>7. CASE m.type = "settings" /\ ReceivedSettings(o) /\ UNCHANGED canSend
  <2>1. Once(toRunner[n], "settings") /\ "settings" \in Tracked
    BY DEF IInv, OneAnswer, Tracked
  <2>2. /\ Msg("settings", o) \in Elements(toRunner[n]) /\ Msg("settings", o) \notin Elements(toRunner'[n])
        /\ o \in Offers /\ RunnerOf(o) = n
    BY <1>2, <1>3, <1>7, <2>1
  <2> QED BY <1>1, <1>2, <1>7, <2>2, ReceivedSettingsStep
<1>8. CASE m.type = "cancel" /\ TaskCancelled(o) /\ UNCHANGED canSend
  <2>1. /\ status' = IF status[o] = "running" THEN [status EXCEPT ![o] = "aborting:cancelled"] ELSE status
        /\ UNCHANGED <<sent, open, toBroker>>
    BY <1>8 DEF TaskCancelled
  <2>2. /\ status' \in [Offers -> {"none", "waitingForSettings", "running",
                                   "aborting:cancelled", "aborting:timeout"}]
        /\ TasksEndAtMost
    BY <2>1, TypeFacts DEF TasksEndAtMost
  <2>3. RunnersGoOn
    BY <1>1, <1>4, <2>1 DEF RunnersGoOn
  <2> QED BY <1>1, <1>2, <1>8, <2>1, <2>2, <2>3, TypeFacts, RunnerQuietStep
<1> QED BY <1>1, <1>5, <1>6, <1>7, <1>8

(* sendOffers: the new offers are new, and fill the slots that are free.   *)
LEMMA SendOffersStep ==
  ASSUME IInv, NEW n \in Runners, conn[n] = "open", NEW st, NEW msgs,
         st \in [Offers -> {"none", "waitingForSettings", "running",
                            "aborting:cancelled", "aborting:timeout"}],
         \A o \in Offers : st[o] = status[o] \/ st[o] = "none",
         msgs \in Seq(Message), Distinct(msgs),
         \A m \in Elements(msgs) : /\ m.type = "result" /\ m.task \in Offers
                                   /\ RunnerOf(m.task) = n /\ Used(m.task),
         SendOffers(n, st, msgs),
         UNCHANGED <<brokerVars, requesterVars, conn, canSend, leaving, toRunner>>
  PROVE  IInv'
<1>1. PICK stale \in (IF n \in Launchers THEN {{}} ELSE SUBSET OpenOf(n)) :
        LET free == FreeSlots(OpenOf(n) \ stale, RunningOf(n, st))
            left == MaxOffers[n] - sent[n]
            k == IF n \notin canSend \/ free < 0 THEN 0 ELSE IF free < left THEN free ELSE left
            new == [i \in 1..k |-> <<n, sent[n] + i>>]
        IN  /\ open' = (open \ stale) \cup Elements(new)
            /\ sent' = [sent EXCEPT ![n] = @ + k]
            /\ toBroker' = [toBroker EXCEPT ![n] = @ \o msgs \o [i \in 1..k |-> Msg("offer", new[i])]]
            /\ status' = st
  BY DEF SendOffers
<1> DEFINE kept == OpenOf(n) \ stale
           running == RunningOf(n, st)
           free == FreeSlots(kept, running)
           left == MaxOffers[n] - sent[n]
           k == IF n \notin canSend \/ free < 0 THEN 0 ELSE IF free < left THEN free ELSE left
           new == [i \in 1..k |-> <<n, sent[n] + i>>]
           N == Elements(new)
           oms == [i \in 1..k |-> Msg("offer", new[i])]
<1>2. /\ open' = (open \ stale) \cup N
      /\ sent' = [sent EXCEPT ![n] = @ + k]
      /\ toBroker' = [toBroker EXCEPT ![n] = @ \o msgs \o oms]
      /\ status' = st
      /\ stale \subseteq OpenOf(n)
  BY <1>1
<1>3. /\ kept \in SUBSET {o \in Offers : RunnerOf(o) = n} /\ running \in SUBSET {o \in Offers : RunnerOf(o) = n}
      /\ kept \subseteq OpenOf(n) /\ running \subseteq RunningOf(n, status)
      /\ OpenOf(n) \in SUBSET {o \in Offers : RunnerOf(o) = n}
      /\ RunningOf(n, status) \in SUBSET {o \in Offers : RunnerOf(o) = n}
  BY TypeFacts DEF OpenOf, RunningOf
<1> HIDE DEF kept, running
<1>4. /\ IsFiniteSet(kept) /\ Cardinality(kept) \in Nat /\ IsFiniteSet(running) /\ Cardinality(running) \in Nat
      /\ IsFiniteSet(OpenOf(n)) /\ Cardinality(OpenOf(n)) \in Nat
      /\ IsFiniteSet(RunningOf(n, status)) /\ Cardinality(RunningOf(n, status)) \in Nat
  BY <1>3, OffersOfFinite
<1>5. free = MaxConcurrency - (Cardinality(kept) + Cardinality(running)) /\ free \in Int
  BY <1>4, BrokerConstants DEF FreeSlots
<1>6. /\ sent[n] \in Nat /\ MaxOffers[n] \in Nat /\ sent[n] <= MaxOffers[n]
  BY BrokerConstants, TypeFacts DEF IInv, Numbered
<1> HIDE DEF free
<1>7. /\ k \in Nat /\ sent[n] + k <= MaxOffers[n]
      /\ k = 0 \/ k + Cardinality(kept) + Cardinality(running) <= MaxConcurrency
  <2>1. left \in Nat /\ sent[n] + left = MaxOffers[n]
    BY <1>6
  <2> HIDE DEF left
  <2>2. k \in Nat /\ k <= left /\ (k = 0 \/ k <= free)
    BY <1>5, <2>1
  <2> HIDE DEF k
  <2>3. sent[n] + k <= MaxOffers[n]
    BY <1>6, <2>1, <2>2
  <2>4. MaxConcurrency \in Nat
    BY BrokerConstants
  <2>5. k = 0 \/ k + Cardinality(kept) + Cardinality(running) <= MaxConcurrency
    BY <1>4, <1>5, <2>2, <2>4
  <2> QED BY <2>2, <2>3, <2>5
<1> HIDE DEF k
<1>8. /\ DOMAIN new = 1..k
      /\ \A i \in 1..k : /\ new[i] = <<n, sent[n] + i>> /\ new[i] \in Offers /\ RunnerOf(new[i]) = n
                         /\ new[i][2] = sent[n] + i /\ i \in Nat
  <2>1. \A i \in 1..k : sent[n] + i \in Nat /\ sent[n] + i \in 1..MaxOffers[n] /\ i \in Nat
    BY <1>6, <1>7
  <2> QED BY <2>1, OfferFacts
<1> HIDE DEF new
<1>9. \A i, j \in 1..k : new[i] = new[j] => i = j
  BY <1>6, <1>8
<1>10. N = {new[i] : i \in 1..k}
  BY <1>8 DEF Elements
<1>11. \A o \in N : /\ o \in Offers /\ RunnerOf(o) = n /\ o[2] > sent[n] /\ o[2] <= sent[n] + k /\ ~Used(o)
  <2>1. \A i \in 1..k : new[i][2] > sent[n] /\ new[i][2] <= sent[n] + k
    BY <1>6, <1>7, <1>8
  <2>2. \A i \in 1..k : ~Used(new[i])
    <3> TAKE i \in 1..k
    <3>1. new[i] \in Offers /\ RunnerOf(new[i]) = n /\ ~(new[i][2] <= sent[n])
      BY <1>6, <1>8, <2>1
    <3> QED BY <3>1 DEF IInv, Numbered
  <2> QED BY <1>8, <1>10, <2>1, <2>2
<1>12. /\ oms \in Seq(Message) /\ Distinct(oms)
       /\ \A m \in Elements(oms) : m.type = "offer" /\ m.task \in N
  <2>1. \A i \in 1..k : /\ Msg("offer", new[i]) \in Message /\ Msg("offer", new[i]).type = "offer"
                        /\ Msg("offer", new[i]).task = new[i] /\ new[i] \in N
    BY <1>8, <1>10, MessageFacts DEF MessageTypes
  <2>2. oms \in Seq(Message) /\ DOMAIN oms = 1..k /\ \A i \in 1..k : oms[i] = Msg("offer", new[i])
    BY <1>7, <2>1
  <2> HIDE DEF oms, N
  <2>3. Distinct(oms)
    BY <1>9, <2>1, <2>2 DEF Distinct
  <2> QED BY <2>1, <2>2, <2>3 DEF Elements
<1>13. Cardinality(N) <= k /\ IsFiniteSet(N) /\ Cardinality(N) \in Nat
  <2>1. new \in [1..k -> N]
    <3>1. new = [i \in 1..k |-> new[i]]
      BY DEF new
    <3> QED BY <1>10, <3>1
  <2>2. new \in Surjection(1..k, N)
    BY <1>10, <2>1 DEF Surjection
  <2>3. IsFiniteSet(1..k) /\ Cardinality(1..k) = k
    BY <1>7, FS_Interval
  <2> HIDE DEF N
  <2> QED BY <2>2, <2>3, FS_Surjection, FS_CardinalityType
<1> HIDE DEF N, oms
<1>14. \A o \in N : \A m \in Elements(toBroker[n]) \cup Elements(toRunner[n]) : m.task # o
  BY <1>11 DEF Used
<1>15. /\ toBroker' \in [Runners -> Seq(Message)]
       /\ \A j \in Runners : j # n => toBroker'[j] = toBroker[j]
       /\ Elements(toBroker'[n]) = Elements(toBroker[n]) \cup Elements(msgs) \cup Elements(oms)
       /\ Once(toBroker'[n], "offer") /\ Once(toBroker'[n], "accepted")
  <2> DEFINE s1 == toBroker[n] \o msgs
  <2>1. toBroker[n] \in Seq(Message) /\ Once(toBroker[n], "offer") /\ Once(toBroker[n], "accepted")
    BY TypeFacts DEF IInv, OneUse, OneAnswer
  <2>2. Apart(toBroker[n], msgs, "offer") /\ Apart(toBroker[n], msgs, "accepted")
    BY DEF Apart
  <2>3. /\ s1 \in Seq(Message) /\ Elements(s1) = Elements(toBroker[n]) \cup Elements(msgs)
        /\ Once(s1, "offer") /\ Once(s1, "accepted")
    <3>1. "offer" \in Tracked /\ "accepted" \in Tracked
      BY DEF Tracked
    <3> QED BY <2>1, <2>2, <3>1, MoreFacts
  <2> HIDE DEF s1
  <2>4. Apart(s1, oms, "offer") /\ Apart(s1, oms, "accepted")
    <3>1. \A m \in Elements(oms) : m \notin Elements(toBroker[n]) /\ m \notin Elements(msgs) /\ m.type = "offer"
      BY <1>12, <1>14
    <3> QED BY <2>3, <3>1 DEF Apart
  <2>5. /\ s1 \o oms \in Seq(Message) /\ Elements(s1 \o oms) = Elements(s1) \cup Elements(oms)
        /\ Once(s1 \o oms, "offer") /\ Once(s1 \o oms, "accepted")
    <3>1. "offer" \in Tracked /\ "accepted" \in Tracked
      BY DEF Tracked
    <3> QED BY <1>12, <2>3, <2>4, <3>1, MoreFacts
  <2>6. toBroker' = [toBroker EXCEPT ![n] = s1 \o oms]
    BY <1>2 DEF s1
  <2>7. toBroker' \in [Runners -> Seq(Message)] /\ toBroker'[n] = s1 \o oms
        /\ \A j \in Runners : j # n => toBroker'[j] = toBroker[j]
    BY <2>5, <2>6, TypeFacts
  <2> QED BY <2>3, <2>5, <2>7
<1>16. /\ sent' \in [Runners -> Nat] /\ sent'[n] = sent[n] + k
       /\ \A j \in Runners : j # n => sent'[j] = sent[j]
  BY <1>2, <1>6, <1>7, TypeFacts
<1>17. TypeOK'
  <2>1. open' \subseteq Offers
    BY <1>2, <1>11, TypeFacts
  <2> QED BY <1>2, <1>15, <1>16, <2>1
          DEF IInv, TypeOK, brokerVars, matchVars, pendingVars, taskVars, requesterVars
<1>18. /\ RequestsSound' /\ CallersSound' /\ AcceptingSound' /\ TasksSound'
       /\ \A o \in Pools' : Used(o)
  BY BrokerFrame
<1>19. Routed'
  BY <1>11, <1>12, <1>15 DEF IInv, Routed
<1>20. Numbered'
  <2>1. ASSUME NEW o \in Offers, Used(o)' PROVE Used(o) \/ o \in N
    <3>0. RunnerOf(o) \in Runners
      BY OfferFacts
    <3>1. status'[o] # "none" => status[o] # "none"
      BY <1>2
    <3>2. ASSUME NEW m \in Elements(toBroker'[RunnerOf(o)]), m.task = o PROVE Used(o) \/ o \in N
      <4>1. m \in Elements(toBroker[RunnerOf(o)]) \/ m \in Elements(msgs) \/ m \in Elements(oms)
        BY <1>15, <3>0
      <4> QED BY <1>12, <3>2, <4>1 DEF Used
    <3> QED BY <1>2, <1>18, <2>1, <3>1, <3>2 DEF Used, Pools
  <2>2. \A j \in Runners : sent'[j] <= MaxOffers[j] /\ sent[j] <= sent'[j] /\ sent[j] \in Nat /\ sent'[j] \in Nat
    <3>1. \A j \in Runners : sent[j] \in Nat /\ sent'[j] \in Nat /\ sent[j] <= MaxOffers[j]
      BY <1>16, TypeFacts DEF IInv, Numbered
    <3>2. sent[n] <= sent'[n] /\ sent'[n] <= MaxOffers[n]
      BY <1>6, <1>7, <1>16
    <3> QED BY <1>16, <3>1, <3>2
  <2>3. ASSUME NEW o \in Offers, Used(o)'
        PROVE  /\ conn'[RunnerOf(o)] # "new"
               /\ conn'[RunnerOf(o)] = "open" => o[2] <= sent'[RunnerOf(o)]
    <3>1. RunnerOf(o) \in Runners /\ o[2] \in Nat
      BY OfferFacts
    <3>2. CASE o \in N
      BY <1>11, <1>16, <3>2
    <3>3. CASE Used(o)
      <4>1. conn[RunnerOf(o)] # "new" /\ (conn[RunnerOf(o)] = "open" => o[2] <= sent[RunnerOf(o)])
        BY <3>3 DEF IInv, Numbered
      <4> QED BY <2>2, <3>1, <4>1
    <3> QED BY <2>1, <2>3, <3>2, <3>3
  <2> QED BY <2>2, <2>3 DEF Numbered
<1>21. OneUse'
  <2>1. UNCHANGED <<offers, accepting, tasks>>
    BY DEF brokerVars, matchVars, pendingVars, taskVars
  <2>2. \A j \in Runners : Once(toBroker'[j], "offer")
    BY <1>15 DEF IInv, OneUse
  <2>3. \A o \in N : o \notin Elements(offers) \cup accepting \cup tasks
    BY <1>11 DEF Used
  <2>4. ASSUME NEW j \in Runners, NEW m \in Elements(toBroker'[j]), m.type = "offer"
        PROVE  m.task \notin Elements(offers) \cup accepting \cup tasks
    <3>1. m \in Elements(toBroker[j]) \/ m \in Elements(oms)
      BY <1>15, <2>4
    <3> QED BY <1>12, <2>3, <2>4, <3>1 DEF IInv, OneUse
  <2> QED BY <2>1, <2>2, <2>4 DEF IInv, OneUse
<1>22. OneAnswer'
  BY <1>15 DEF IInv, OneAnswer
<1>23. OneStart'
  <2> SUFFICES ASSUME NEW o \in Offers
               PROVE  LET j == RunnerOf(o)
                      IN  /\ o \in open' \/ Msg("accepted", o) \in Elements(toBroker'[j])
                               => Msg("settings", o) \notin Elements(toRunner'[j])
                          /\ o \in open' => status'[o] = "none" /\ Msg("accepted", o) \notin Elements(toBroker'[j])
                          /\ Msg("accepted", o) \in Elements(toBroker'[j]) \/ Msg("settings", o) \in Elements(toRunner'[j])
                               => status'[o] \in {"none", "waitingForSettings"}
    BY DEF OneStart, Msg
  <2>1. /\ RunnerOf(o) \in Runners /\ Msg("accepted", o).type = "accepted" /\ Msg("accepted", o).task = o
        /\ Msg("settings", o).task = o
    BY OfferFacts, MessageFacts DEF MessageTypes
  <2>2. Msg("accepted", o) \in Elements(toBroker'[RunnerOf(o)]) => Msg("accepted", o) \in Elements(toBroker[RunnerOf(o)])
    BY <1>12, <1>15, <2>1
  <2>3. status'[o] = status[o] \/ status'[o] = "none"
    BY <1>2
  <2>4. CASE o \in N
    <3>1. /\ Msg("accepted", o) \notin Elements(toBroker'[RunnerOf(o)])
          /\ Msg("settings", o) \notin Elements(toRunner'[RunnerOf(o)])
      BY <1>11, <1>14, <2>1, <2>2, <2>4
    <3>2. status'[o] = "none"
      BY <1>11, <2>3, <2>4 DEF Used
    <3> QED BY <3>1, <3>2
  <2>5. CASE o \notin N
    <3>1. o \in open' => o \in open
      BY <1>2, <2>5
    <3> QED BY <2>2, <2>3, <3>1 DEF IInv, OneStart
  <2> QED BY <2>4, <2>5
<1>24. WithinConcurrency'
  <2> SUFFICES ASSUME NEW j \in Runners
               PROVE  Cardinality(OpenOf(j)') + Cardinality(RunningOf(j, status)') <= MaxConcurrency
    BY DEF WithinConcurrency
  <2>0. Cardinality(OpenOf(j)) + Cardinality(RunningOf(j, status)) <= MaxConcurrency /\ MaxConcurrency \in Nat
    BY BrokerConstants DEF IInv, WithinConcurrency
  <2>1. CASE j = n
    <3> DEFINE A1 == OpenOf(j)'
               B1 == RunningOf(j, status)'
    <3>1. A1 = kept \cup N
      BY <1>2, <1>11, <2>1 DEF OpenOf, kept
    <3>2. B1 = running
      BY <1>2, <2>1 DEF RunningOf, running
    <3> HIDE DEF A1, B1
    <3>3. Cardinality(kept \cup N) <= Cardinality(kept) + Cardinality(N) /\ Cardinality(kept \cup N) \in Nat
      <4>1. Cardinality(kept \cup N) = Cardinality(kept) + Cardinality(N) - Cardinality(kept \cap N)
            /\ IsFiniteSet(kept \cup N)
        BY <1>4, <1>13, FS_Union
      <4>2. Cardinality(kept \cap N) \in Nat /\ Cardinality(kept \cup N) \in Nat
        BY <1>4, <4>1, FS_Intersection, FS_CardinalityType
      <4> QED BY <1>4, <1>13, <4>1, <4>2
    <3>4. Cardinality(kept) <= Cardinality(OpenOf(n)) /\ Cardinality(running) <= Cardinality(RunningOf(n, status))
      BY <1>3, <1>4, FS_Subset
    <3>5. Cardinality(A1) + Cardinality(B1) <= MaxConcurrency
      BY <1>4, <1>7, <1>13, <2>0, <2>1, <3>1, <3>2, <3>3, <3>4
    <3> QED BY <3>5 DEF A1, B1
  <2>2. CASE j # n
    <3> DEFINE A == OpenOf(j)
               B == RunningOf(j, status)
               A1 == OpenOf(j)'
               B1 == RunningOf(j, status)'
    <3>1. A1 \in SUBSET A
      BY <1>2, <1>11, <2>2 DEF OpenOf
    <3>2. B1 \in SUBSET B
      BY <1>2 DEF RunningOf
    <3>3. A \in SUBSET {o \in Offers : RunnerOf(o) = j} /\ B \in SUBSET {o \in Offers : RunnerOf(o) = j}
      BY TypeFacts DEF OpenOf, RunningOf
    <3>4. Cardinality(A) + Cardinality(B) <= MaxConcurrency
      BY <2>0
    <3> HIDE DEF A, B, A1, B1
    <3>5. /\ IsFiniteSet(A) /\ Cardinality(A) \in Nat /\ IsFiniteSet(B) /\ Cardinality(B) \in Nat
      BY <3>3, OffersOfFinite
    <3>6. /\ Cardinality(A1) <= Cardinality(A) /\ Cardinality(A1) \in Nat
          /\ Cardinality(B1) <= Cardinality(B) /\ Cardinality(B1) \in Nat
      BY <3>1, <3>2, <3>5, FS_Subset, FS_CardinalityType
    <3>7. Cardinality(A1) + Cardinality(B1) <= MaxConcurrency
      BY <2>0, <3>4, <3>5, <3>6
    <3> QED BY <3>7 DEF A1, B1
  <2> QED BY <2>1, <2>2
<1> QED BY <1>17, <1>18, <1>19, <1>20, <1>21, <1>22, <1>23, <1>24 DEF IInv

(* The interval of startTaskOffers *)
LEMMA OfferTickStep ==
  ASSUME IInv, NEW n \in Runners, OfferTick(n)
  PROVE  IInv'
<1>1. /\ conn[n] = "open" /\ SendOffers(n, status, <<>>)
      /\ UNCHANGED <<brokerVars, requesterVars, conn, canSend, leaving, toRunner>>
  BY DEF OfferTick
<1>2. <<>> \in Seq(Message) /\ Distinct(<<>>) /\ Elements(<<>>) = {}
  BY EmptyFacts
<1>3. /\ status \in [Offers -> {"none", "waitingForSettings", "running",
                                "aborting:cancelled", "aborting:timeout"}]
      /\ \A o \in Offers : status[o] = status[o] \/ status[o] = "none"
  BY TypeFacts
<1> QED BY <1>1, <1>2, <1>3, SendOffersStep

(* finishTask, with or without a result *)
LEMMA FinishTaskStep ==
  ASSUME IInv, NEW n \in Runners, conn[n] = "open", NEW o \in Offers, RunnerOf(o) = n, status[o] # "none",
         NEW msgs, msgs \in {<<>>, <<Msg("result", o)>>}, FinishTask(n, o, msgs),
         UNCHANGED <<brokerVars, requesterVars, conn, canSend, leaving, toRunner>>
  PROVE  IInv'
<1> DEFINE st == [status EXCEPT ![o] = "none"]
<1>1. SendOffers(n, st, msgs)
  BY DEF FinishTask
<1>2. /\ st \in [Offers -> {"none", "waitingForSettings", "running",
                            "aborting:cancelled", "aborting:timeout"}]
      /\ \A p \in Offers : st[p] = status[p] \/ st[p] = "none"
  BY TypeFacts
<1>3. /\ Msg("result", o) \in Message /\ Msg("result", o).type = "result" /\ Msg("result", o).task = o
      /\ Used(o)
  BY MessageFacts DEF MessageTypes, Used
<1>4. /\ msgs \in Seq(Message) /\ Distinct(msgs)
      /\ \A m \in Elements(msgs) : m = Msg("result", o)
  <2>1. CASE msgs = <<>>
    BY <2>1, EmptyFacts
  <2>2. CASE msgs = <<Msg("result", o)>>
    <3>1. msgs \in Seq(Message) /\ DOMAIN msgs = {1} /\ msgs[1] = Msg("result", o)
      BY <1>3, <2>2
    <3> QED BY <3>1 DEF Distinct, Elements
  <2> QED BY <2>1, <2>2
<1>5. \A m \in Elements(msgs) : m.type = "result" /\ m.task \in Offers /\ RunnerOf(m.task) = n /\ Used(m.task)
  BY <1>3, <1>4
<1> HIDE DEF st
<1> QED BY <1>1, <1>2, <1>4, <1>5, SendOffersStep

LEMMA TaskEndsStep ==
  ASSUME IInv, NEW n \in Runners, NEW o \in Offers, TaskEnds(n, o)
  PROVE  IInv'
<1> DEFINE msgs == IF status[o] = "aborting:cancelled" THEN <<>> ELSE <<Msg("result", o)>>
<1>1. /\ conn[n] = "open" /\ RunnerOf(o) = n /\ status[o] # "none"
      /\ FinishTask(n, o, msgs)
      /\ UNCHANGED <<brokerVars, requesterVars, conn, canSend, leaving, toRunner>>
  BY DEF TaskEnds
<1>2. msgs \in {<<>>, <<Msg("result", o)>>}
  OBVIOUS
<1> HIDE DEF msgs
<1> QED BY <1>1, <1>2, FinishTaskStep

LEMMA TaskTimedOutStep ==
  ASSUME IInv, NEW n \in Runners, NEW o \in Offers, TaskTimedOut(n, o)
  PROVE  IInv'
<1>1. /\ conn[n] = "open" /\ RunnerOf(o) = n
      /\ UNCHANGED <<brokerVars, requesterVars, conn, canSend, leaving, toRunner>>
  BY DEF TaskTimedOut
<1>2. CASE status[o] = "waitingForSettings" /\ FinishTask(n, o, <<Msg("result", o)>>)
  <2> DEFINE msgs == <<Msg("result", o)>>
  <2>1. msgs \in {<<>>, <<Msg("result", o)>>} /\ FinishTask(n, o, msgs) /\ status[o] # "none"
    BY <1>2
  <2> HIDE DEF msgs
  <2> QED BY <1>1, <2>1, FinishTaskStep
<1>3. CASE /\ status[o] = "running"
           /\ status' = [status EXCEPT ![o] = "aborting:timeout"]
           /\ UNCHANGED <<sent, open, toBroker>>
  <2>1. /\ status' \in [Offers -> {"none", "waitingForSettings", "running",
                                   "aborting:cancelled", "aborting:timeout"}]
        /\ TasksEndAtMost
    BY <1>3, TypeFacts DEF TasksEndAtMost
  <2>2. RunnersGoOn
    BY <1>1, <1>3, TypeFacts DEF RunnersGoOn, IInv, Numbered
  <2>3. Fewer(toRunner, toRunner')
    BY <1>1, SameFacts
  <2> QED BY <1>1, <1>3, <2>1, <2>2, <2>3, TypeFacts, RunnerQuietStep
<1> QED BY <1>2, <1>3 DEF TaskTimedOut

-----------------------------------------------------------------------------
(***************************************************************************)
(* The theorems                                                            *)
(***************************************************************************)

LEMMA InitIInv ==
  Init => IInv
<1> SUFFICES ASSUME Init PROVE IInv
  OBVIOUS
<1> USE DEF Init
<1>1. TypeOK
  BY DEF TypeOK
<1>2. /\ \A n \in Runners : Elements(toRunner[n]) = {} /\ Elements(toBroker[n]) = {}
      /\ \A n \in Runners : \A type : Once(toRunner[n], type) /\ Once(toBroker[n], type)
      /\ Elements(offers) = {} /\ Distinct(offers) /\ Elements(requests) = {} /\ Distinct(requests)
  BY EmptyFacts
<1>3. \A o \in Offers : RunnerOf(o) \in Runners
  BY OfferFacts
<1>4. Routed /\ OneUse /\ OneAnswer
  BY <1>2 DEF Routed, OneUse, OneAnswer
<1>5. Numbered
  <2>1. \A o \in Offers : ~Used(o)
    BY <1>2, <1>3 DEF Used
  <2>2. \A n \in Runners : sent[n] <= MaxOffers[n]
    BY BrokerConstants
  <2> QED BY <2>1, <2>2 DEF Numbered
<1>6. RequestsSound /\ CallersSound /\ AcceptingSound /\ TasksSound
  BY <1>2 DEF RequestsSound, CallersSound, AcceptingSound, TasksSound, AwaitedTaskIsTracked, OrphansOnlyAfterExpiry
<1>7. OneStart
  BY <1>2, <1>3 DEF OneStart
<1>8. WithinConcurrency
  <2> SUFFICES ASSUME NEW n \in Runners
               PROVE  Cardinality(OpenOf(n)) + Cardinality(RunningOf(n, status)) <= MaxConcurrency
    BY DEF WithinConcurrency
  <2>1. OpenOf(n) = {} /\ RunningOf(n, status) = {}
    BY DEF OpenOf, RunningOf
  <2>2. Cardinality(OpenOf(n)) = 0 /\ Cardinality(RunningOf(n, status)) = 0 /\ MaxConcurrency \in Nat
    BY <2>1, FS_EmptySet, BrokerConstants
  <2> QED BY <2>2
<1> QED BY <1>1, <1>4, <1>5, <1>6, <1>7, <1>8 DEF IInv

LEMMA NextIInv ==
  IInv /\ [Next]_vars => IInv'
<1> SUFFICES ASSUME IInv, [Next]_vars PROVE IInv'
  OBVIOUS
<1>1. ASSUME NEW n \in Runners, RunnerNext(n) PROVE IInv'
  <2>1. CASE Register(n)
    BY <2>1, RegisterStep
  <2>2. CASE Deregister(n)
    BY <2>2, DeregisterStep
  <2>3. CASE BrokerReceive(n)
    BY <2>3, BrokerReceiveStep
  <2>4. CASE OfferTick(n)
    BY <2>4, OfferTickStep
  <2>5. CASE RunnerReceive(n)
    BY <2>5, RunnerReceiveStep
  <2>6. CASE Leave(n)
    BY <2>6, LeaveStep
  <2>7. CASE CloseConnection(n)
    BY <2>7, CloseConnectionStep
  <2>8. CASE Crash(n)
    BY <2>8, CrashStep
  <2>9. CASE \E o \in Offers : TaskEnds(n, o) \/ TaskTimedOut(n, o)
    BY <2>9, TaskEndsStep, TaskTimedOutStep
  <2> QED BY <1>1, <2>1, <2>2, <2>3, <2>4, <2>5, <2>6, <2>7, <2>8, <2>9 DEF RunnerNext
<1>2. ASSUME NEW o \in Offers, AcceptTimeout(o) \/ TaskTimeout(o) PROVE IInv'
  BY <1>2, AcceptTimeoutStep, TaskTimeoutStep
<1>3. ASSUME NEW r \in Requests, StartTask(r) \/ CancelTasks(r) \/ RequestTimeout(r) PROVE IInv'
  BY <1>3, StartTaskStep, CancelTasksStep, RequestTimeoutStep
<1>4. CASE StartDraining
  BY <1>4, StartDrainingStep
<1>5. CASE Drained \/ DrainTimeout
  BY <1>5, StopRunnersStep DEF Drained, DrainTimeout
<1>6. CASE UNCHANGED vars
  <2>1. UNCHANGED <<brokerVars, requesterVars>> /\ UNCHANGED <<conn, runnerVars>> /\ UNCHANGED <<toRunner, toBroker>>
    BY <1>6 DEF vars, channels
  <2>2. UNCHANGED <<canSend, leaving, sent, open, status>> /\ TasksEndAtMost /\ RunnersGoOn
    BY <2>1, RunnersFrame
  <2>3. Fewer(toRunner, toRunner')
    BY <2>1, SameFacts
  <2> QED BY <2>1, <2>2, <2>3, TypeFacts, RunnerQuietStep
<1> QED BY <1>1, <1>2, <1>3, <1>4, <1>5, <1>6 DEF Next

(* IInv is an invariant of the broker and its runners. *)
THEOREM Invariance ==
  Spec => []IInv
<1> QED BY InitIInv, NextIInv, PTL DEF Spec

(* Every variable has its type, for any number of runners and requests and *)
(* whatever they offer.                                                    *)
THEOREM TypeCorrect ==
  Spec => []TypeOK
<1>1. IInv => TypeOK
  BY DEF IInv
<1> QED BY <1>1, Invariance, PTL

(* Whoever awaits the result of a task awaits one the broker still has, at *)
(* a runner it knows and with its timer set, so that one of the ways in    *)
(* which a task can end will settle the caller.                            *)
THEOREM AwaitedTasksAreTracked ==
  Spec => []AwaitedTaskIsTracked
<1>1. IInv => AwaitedTaskIsTracked
  BY DEF IInv, CallersSound
<1> QED BY <1>1, Invariance, PTL

(* The broker has a task that nobody awaits only for a request that        *)
(* expired while its acceptance was on its way, and no request has two.    *)
THEOREM OrphansAreExpired ==
  Spec => []OrphansOnlyAfterExpiry
<1>1. IInv => OrphansOnlyAfterExpiry
  BY DEF IInv, TasksSound
<1> QED BY <1>1, Invariance, PTL

(* The open offers and the tasks of a runner never exceed maxConcurrency,  *)
(* so an offer it made can always be honoured.                             *)
THEOREM ConcurrencyIsKept ==
  Spec => []WithinConcurrency
<1>1. IInv => WithinConcurrency
  BY DEF IInv
<1> QED BY <1>1, Invariance, PTL

(* The assertion of receivedSettings holds: settings never reach a task    *)
(* that runs or is being aborted.                                          *)
THEOREM SettingsComeFirst ==
  Spec => []SettingsFindTaskWaiting
<1>1. IInv => SettingsFindTaskWaiting
  <2> SUFFICES ASSUME IInv, NEW n \in Runners, NEW i \in DOMAIN toRunner[n], toRunner[n][i].type = "settings"
               PROVE  status[toRunner[n][i].task] \in {"none", "waitingForSettings"}
    BY DEF SettingsFindTaskWaiting
  <2> DEFINE m == toRunner[n][i]
  <2>1. m \in Elements(toRunner[n])
    BY DEF Elements
  <2>2. m \in Message
    BY TypeFacts
  <2> HIDE DEF m
  <2>3. m.type = "settings"
    BY DEF m
  <2>4. m = Msg("settings", m.task) /\ m.task \in Offers /\ RunnerOf(m.task) = n
    BY <2>1, <2>2, <2>3, MessageFacts DEF IInv, Routed
  <2>5. status[m.task] \in {"none", "waitingForSettings"}
    BY <2>1, <2>4 DEF IInv, OneStart
  <2> QED BY <2>5 DEF m
<1> QED BY <1>1, Invariance, PTL
=============================================================================
