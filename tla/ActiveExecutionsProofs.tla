----------------------- MODULE ActiveExecutionsProofs -----------------------
(* Theorems about ActiveExecutions, for any number of executions, runs,     *)
(* restarts and any limit.                                                  *)
EXTENDS ActiveExecutions, ConcurrencyQueueLemmas, WellFoundedInduction

(* The run that creates an execution's row. *)
First(e) == <<e, 1>>

Pre == {"created", "queued", "reserved"}
Early == {"idle", "created", "queued", "reserved", "marked"}

(* A run owns its execution from the moment it has marked the row as       *)
(* running until it has saved; one that ends otherwise than in a wait owns *)
(* it until it is finalized.                                               *)
Owns(r) ==
  \/ pc[r] \in {"marked", "registered", "starting", "executing", "parking", "saving"}
  \/ pc[r] = "saved" /\ outcome[r] # "waiting"

(* An owner that is registered and has not been put to wait. *)
Busy(r) ==
  \/ pc[r] \in {"registered", "starting", "executing"}
  \/ pc[r] \in {"saving", "saved"} /\ outcome[r] # "waiting"

(* A run that was put to wait. *)
Parked(r) ==
  \/ pc[r] \in {"parking", "done"}
  \/ pc[r] \in {"saving", "saved"} /\ outcome[r] = "waiting"

(* Who waits in the queue waits there once, and nobody else is let through. *)
QueueSound ==
  /\ Distinct(queue)
  /\ \A r \in Waiting(queue) : pc[r] = "queued"

(* A row exists once its first run was started, nobody stops or saves one *)
(* that does not exist, and what a run saves is a status.                  *)
RowsSound ==
  /\ \A r \in Runs : db[ExecutionOf(r)] = "none" => pc[r] = "idle"
  /\ \A e \in Executions : pc[First(e)] = "idle" => db[e] = "none"
  /\ \A r \in Runs : pc[r] = "saving" => outcome[r] # "none"
  /\ \A r \in cancelSaves : db[ExecutionOf(r)] # "none"
  /\ \A e \in Executions : stop[e] \in {"read", "write"} => db[e] # "none"

(* An execution has at most one owner, and none while its row waits or     *)
(* its first run has not marked it.                                        *)
OneOwner ==
  /\ \A r, s \in Runs : ExecutionOf(r) = ExecutionOf(s) /\ Owns(r) /\ Owns(s) => r = s
  /\ \A r \in Runs : Owns(r) =>
       /\ db[ExecutionOf(r)] # "waiting"
       /\ pc[First(ExecutionOf(r))] \notin Pre
  /\ \A e \in Executions : pc[First(e)] \in Pre => db[e] # "waiting"

(* The registry: what is stored under an id, who replaces whom, and what   *)
(* the fields of an entry say about its run.                               *)
RegistrySound ==
  /\ \A e \in Executions : entry[e] # None =>
       ExecutionOf(entry[e]) = e /\ pc[entry[e]] \notin Early
  /\ \A r \in Runs : Owns(r) /\ pc[r] # "marked" => entry[ExecutionOf(r)] \in {None, r}
  /\ \A r \in Runs : engineOf[r] \in {None, r}
  /\ \A r \in Runs : status[r] = "waiting" => Parked(r)
  /\ \A r \in Runs : pc[r] = "parking" => status[r] = "waiting" /\ r \notin cancelled

(* Where the reservation of a run goes. *)
CapacitySound ==
  /\ \A r \in settled : r \notin held /\ pc[r] \notin Early
  /\ \A r \in Runs : Busy(r) => r \in settled \/ entry[ExecutionOf(r)] = r
  /\ \A r \in Runs : (pc[r] = "executing" \/ (pc[r] = "saving" /\ outcome[r] # "waiting"))
       => r \in settled \/ r \in handled
  /\ \A r \in held : pc[r] \in {"done", "refused"} => outcome[r] = "waiting"

IInv == TypeOK /\ QueueSound /\ RowsSound /\ OneOwner /\ RegistrySound /\ CapacitySound

(* A run of a workflow without a wait. *)
Plain(r) == ExecutionOf(r) \notin CanWait

(* No stop and no timeout has reached the run. *)
Untouched(r) == r \notin cancelled /\ stop[ExecutionOf(r)] \notin {"write", "done"}

(* Plain runs never wait; a timer belongs to an attached engine whose      *)
(* promise is pending and has a handler; and nobody but a stop or a        *)
(* timeout settles a plain run before its result is saved, if it has a     *)
(* handler then (the error processError saves has none).                   *)
PlainSound ==
  /\ \A r \in Runs : Plain(r) =>
       outcome[r] # "waiting" /\ pc[r] # "parking" /\ status[r] # "waiting"
  /\ \A r \in timers :
       /\ pc[r] \in {"executing", "parking", "saving", "saved"} /\ r \in handled
       /\ Plain(r) => engineOf[r] = r
  /\ \A r \in handled : pc[r] \notin Early \cup {"registered", "starting"}
  /\ \A r \in Runs : Plain(r) /\ Untouched(r) =>
       /\ pc[r] \in {"registered", "starting", "executing"} => r \notin settled
       /\ pc[r] = "saving" /\ r \in handled => r \notin settled
       /\ pc[r] = "executing" => engineOf[r] = r


-----------------------------------------------------------------------------
(* Runs and executions. *)
LEMMA RunFacts ==
  /\ \A e \in Executions : First(e) \in Runs /\ ExecutionOf(First(e)) = e
  /\ \A r \in Runs : ExecutionOf(r) \in Executions
  /\ \A r \in Runs : r # None
  /\ \A r \in Runs : IsFirst(r) => r = First(ExecutionOf(r))
<1>1. 1 \in 1..MaxRuns
  BY BoundsType
<1>2. ASSUME NEW r \in Runs PROVE r # None
  <2>1. PICK e \in Executions, k \in 1..MaxRuns : r = <<e, k>>
    BY DEF Runs
  <2>2. Len(<<e, k>>) = 2 /\ Len(<<>>) = 0
    OBVIOUS
  <2> QED BY <2>1, <2>2 DEF None
<1> QED BY <1>1, <1>2 DEF Runs, First, ExecutionOf, IsFirst

(* Every nonempty set of naturals has a least element. *)
LEMMA LeastElement ==
  ASSUME NEW T \in SUBSET Nat, T # {}
  PROVE  \E x \in T : \A y \in T : x <= y
<1>1. \E x \in T : \A y \in T : ~(<<y, x>> \in OpToRel(<, Nat))
  BY NatLessThanWellFounded, WFMin
<1>2. OpToRel(<, Nat) = {p \in Nat \X Nat : p[1] < p[2]}
  BY Zenon DEF OpToRel
<1>3. PICK x \in T : \A y \in T : ~(<<y, x>> \in {p \in Nat \X Nat : p[1] < p[2]})
  BY <1>1, <1>2, Zenon
<1>4. ASSUME NEW y \in T PROVE x <= y
  <2>1. x \in Nat /\ y \in Nat
    OBVIOUS
  <2>2. <<y, x>> \in Nat \X Nat /\ <<y, x>>[1] = y /\ <<y, x>>[2] = x
    BY <2>1
  <2>3. ~(y < x)
    BY <1>3, <2>2, Zenon
  <2> QED BY <2>1, <2>3
<1> QED BY <1>4

(* The queue part of the type invariant, in the form the lemmas about      *)
(* queues expect.                                                          *)
LEMMA QueueType ==
  ASSUME TypeOK
  PROVE  queue \in QueueOf(Runs)
BY DEF TypeOK, QueueOf

(* The list loses the members of R, which are let through. *)
LosesOnly(R) ==
  /\ R \subseteq Waiting(queue)
  /\ queue' \in QueueOf(Runs)
  /\ Distinct(queue')
  /\ Waiting(queue') = Waiting(queue) \ R

(* Everybody in the list is a run that waits there. *)
LEMMA WaitingFacts ==
  ASSUME TypeOK, QueueSound
  PROVE  \A r \in Waiting(queue) : r \in Runs /\ pc[r] = "queued"
BY QueueType DEF QueueSound, Waiting, QueueOf

(* release: the capacity of o is returned and at most the head of the list *)
(* is let through.                                                         *)
LEMMA ReleaseFacts ==
  ASSUME TypeOK, QueueSound, NEW o \in Runs, Release(o)
  PROVE  LosesOnly(Released(o)) /\ held' = (held \ {o}) \cup Released(o)
<1>1. queue \in QueueOf(Runs) /\ Distinct(queue)
  BY QueueType DEF QueueSound
<1>2. /\ Dequeue(queue) \in QueueOf(Runs) /\ Distinct(Dequeue(queue))
      /\ Waiting(Dequeue(queue)) = Waiting(queue) \ Resolved(queue)
      /\ Resolved(queue) \subseteq Waiting(queue)
  BY <1>1, DequeueFacts
<1>3. CASE o \in held /\ isEnabled
  BY <1>2, <1>3 DEF Release, Released, LosesOnly
<1>4. CASE ~(o \in held /\ isEnabled)
  BY <1>1, <1>4 DEF Release, Released, LosesOnly
<1> QED BY <1>3, <1>4

(* Settling: the reservation of o is gone afterwards, whether it was       *)
(* settled before or not.                                                  *)
Settles(o, labels, R) ==
  /\ LosesOnly(R)
  /\ pc' = LetThrough(labels, R)
  /\ held' = (held \ {o}) \cup R
  /\ settled' = settled \cup {o}
  /\ entry' = entry \/ (status[o] # "waiting" /\ entry' = [entry EXCEPT ![ExecutionOf(o)] = None])
  /\ engineOf' = engineOf \/ (status[o] = "waiting" /\ engineOf' = [engineOf EXCEPT ![o] = None])

(* What a call of Settle does, in these terms. *)
LEMMA SettleFacts ==
  ASSUME IInv, NEW o \in Runs, NEW labels \in [Runs -> Labels], Settle(o, labels)
  PROVE  \E R \in SUBSET Runs : Settles(o, labels, R)
<1>0. /\ TypeOK /\ QueueSound /\ queue \in QueueOf(Runs) /\ Distinct(queue)
      /\ Waiting(queue) \subseteq Runs
  BY QueueType, WaitingFacts DEF IInv, QueueSound
<1>1. CASE o \in settled
  <2>1. /\ LosesOnly({}) /\ pc' = LetThrough(labels, {})
    BY <1>0, <1>1 DEF Settle, LosesOnly, LetThrough
  <2>2. o \notin held
    BY <1>1 DEF IInv, CapacitySound
  <2>3. Settles(o, labels, {})
    BY <1>1, <2>1, <2>2 DEF Settle, Settles
  <2> QED BY <2>3
<1>2. CASE o \notin settled
  <2>1. Release(o)
    BY <1>2 DEF Settle
  <2>2. LosesOnly(Released(o)) /\ held' = (held \ {o}) \cup Released(o)
    BY <1>0, <2>1, ReleaseFacts
  <2>3. Settles(o, labels, Released(o))
    BY <1>2, <2>2 DEF Settle, Settles
  <2> QED BY <1>0, <2>2, <2>3 DEF LosesOnly
<1> QED BY <1>1, <1>2

-----------------------------------------------------------------------------
(* One lemma per action: it preserves the invariant. *)

(* add creates the row. *)
LEMMA StartStep ==
  ASSUME IInv, NEW e \in Executions, Start(e)
  PROVE  IInv'
<1>0. /\ db[e] = "none" /\ db' = [db EXCEPT ![e] = "new"]
      /\ pc' = [pc EXCEPT ![First(e)] = "created"]
      /\ \A r \in Runs : ExecutionOf(r) = e => pc[r] = "idle"
      /\ UNCHANGED <<outcome, queue, isEnabled, held, entry, status, engineOf, settled,
                     handled, timers, cancelled, cancelSaves, stop, phase, boots>>
  BY DEF Start, Write, Goto, IInv, RowsSound, registry, outside, First
<1> USE RunFacts DEF IInv, TypeOK
<1>1. TypeOK'
  BY <1>0 DEF Labels
<1>2. QueueSound'
  BY <1>0, WaitingFacts DEF QueueSound
<1>3. RowsSound'
  BY <1>0 DEF RowsSound
<1>4. OneOwner'
  BY <1>0 DEF OneOwner, Owns, Pre
<1>5. RegistrySound'
  BY <1>0 DEF RegistrySound, Owns, Parked, Early
<1>6. CapacitySound'
  BY <1>0 DEF CapacitySound, Busy, Early
<1> QED BY <1>1, <1>2, <1>3, <1>4, <1>5, <1>6

(* throttle: the run waits in the queue or holds capacity. *)
LEMMA ReserveStep ==
  ASSUME IInv, NEW r \in Runs, Reserve(r)
  PROVE  IInv'
<1>0. /\ pc[r] = "created" /\ pc' = [pc EXCEPT ![r] = pc'[r]] /\ pc'[r] \in {"queued", "reserved"}
      /\ held' \in {held, held \cup {r}}
      /\ UNCHANGED <<db, outcome, isEnabled, entry, status, engineOf, settled,
                     handled, timers, cancelled, cancelSaves, stop, phase, boots>>
  BY DEF Reserve, Write, Goto, IInv, TypeOK, registry, outside, First
<1> USE RunFacts DEF IInv, TypeOK
<1>2. queue' \in QueueOf(Runs) /\ QueueSound'
  <2>1. queue \in QueueOf(Runs) /\ Distinct(queue) /\ r \notin Waiting(queue)
    BY <1>0, QueueType, WaitingFacts DEF QueueSound
  <2>2. /\ Enqueue(queue, r) \in QueueOf(Runs) /\ Distinct(Enqueue(queue, r))
        /\ MustWait(queue) => Waiting(Enqueue(queue, r)) = Waiting(queue) \cup {r}
        /\ ~MustWait(queue) => Enqueue(queue, r).queue = queue.queue
    BY <2>1, EnqueueFacts
  <2>3. CASE isEnabled /\ MustWait(queue)
    BY <2>2, <2>3, WaitingFacts DEF QueueSound, Reserve, Goto
  <2>4. CASE isEnabled /\ ~MustWait(queue)
    <3>1. Waiting(queue') = Waiting(queue)
      BY <2>2, <2>4 DEF Reserve, Waiting
    <3> QED BY <2>1, <2>2, <2>4, <3>1, WaitingFacts DEF QueueSound, Reserve, Goto
  <2>5. CASE ~isEnabled
    BY <2>1, <2>5, WaitingFacts DEF QueueSound, Reserve, Goto
  <2> QED BY <2>3, <2>4, <2>5
<1>1. TypeOK'
  <2>1. pc' \in [Runs -> Labels]
    BY <1>0 DEF Labels
  <2>2. held' \subseteq Runs
    BY <1>0
  <2> QED BY <1>0, <1>2, <2>1, <2>2 DEF QueueOf
<1>3. RowsSound'
  BY <1>0 DEF RowsSound
<1>4. OneOwner'
  BY <1>0 DEF OneOwner, Owns, Pre
<1>5. RegistrySound'
  BY <1>0 DEF RegistrySound, Owns, Parked, Early
<1>6. CapacitySound'
  BY <1>0 DEF CapacitySound, Busy, Early
<1> QED BY <1>1, <1>2, <1>3, <1>4, <1>5, <1>6

(* A resume starts a further run, never the first. *)
LEMMA ResumeStep ==
  ASSUME IInv, NEW e \in Executions, Resume(e)
  PROVE  IInv'
<1>a. PICK r \in RunsOf(e) : FreshRun(e, r) /\ Goto(r, "created")
  BY DEF Resume
<1>0. /\ r \in Runs /\ ExecutionOf(r) = e /\ db[e] # "none"
      /\ r # First(e) /\ pc[r] = "idle" /\ pc' = [pc EXCEPT ![r] = "created"]
      /\ UNCHANGED <<db, outcome, queue, isEnabled, held, entry, status,
                     engineOf, settled, handled, timers, cancelled,
                     cancelSaves, stop, phase, boots>>
  BY <1>a, RunFacts DEF Resume, FreshRun, RunsOf, Goto, IInv, RowsSound, registry, outside
<1> USE RunFacts DEF IInv, TypeOK
<1>1. TypeOK'
  BY <1>0 DEF Labels
<1>2. QueueSound'
  BY <1>0, WaitingFacts DEF QueueSound
<1>3. RowsSound'
  BY <1>0 DEF RowsSound
<1>4. OneOwner'
  BY <1>0 DEF OneOwner, Owns, Pre
<1>5. RegistrySound'
  BY <1>0 DEF RegistrySound, Owns, Parked, Early
<1>6. CapacitySound'
  BY <1>0 DEF CapacitySound, Busy, Early
<1> QED BY <1>1, <1>2, <1>3, <1>4, <1>5, <1>6

(* add: the entry is stored. *)
LEMMA RegisterStep ==
  ASSUME IInv, NEW r \in Runs, Register(r)
  PROVE  IInv'
<1>0. /\ pc[r] = "marked" /\ pc' = [pc EXCEPT ![r] = "registered"]
      /\ entry' = [entry EXCEPT ![ExecutionOf(r)] = r]
      /\ UNCHANGED <<db, outcome, queue, isEnabled, held, status, engineOf,
                     settled, handled, timers, cancelled, cancelSaves, stop,
                     phase, boots>>
  BY RunFacts DEF Register, Goto, outside
<1> USE RunFacts DEF IInv, TypeOK
<1>1. TypeOK'
  BY <1>0 DEF Labels
<1>2. QueueSound'
  BY <1>0, WaitingFacts DEF QueueSound
<1>3. RowsSound'
  BY <1>0 DEF RowsSound
<1>4. OneOwner'
  BY <1>0 DEF OneOwner, Owns, Pre
<1>5. RegistrySound'
  BY <1>0 DEF RegistrySound, OneOwner, Owns, Parked, Early
<1>6. CapacitySound'
  BY <1>0 DEF CapacitySound, OneOwner, Owns, Busy, Early
<1> QED BY <1>1, <1>2, <1>3, <1>4, <1>5, <1>6

(* failExecution. *)
LEMMA FailExecutionStep ==
  ASSUME IInv, NEW r \in Runs, FailExecution(r)
  PROVE  IInv'
<1>0. /\ pc[r] = "registered" /\ pc' = [pc EXCEPT ![r] = "saving"]
      /\ outcome' = [outcome EXCEPT ![r] = "error"]
      /\ handled' = handled \cup {r}
      /\ UNCHANGED <<db, queue, isEnabled, held, entry, status, engineOf,
                     settled, timers, cancelled, cancelSaves, stop, phase,
                     boots>>
  BY RunFacts DEF FailExecution, Goto, registry, capacity, outside
<1> USE RunFacts DEF IInv, TypeOK
<1>1. TypeOK'
  BY <1>0 DEF Labels, Final
<1>2. QueueSound'
  BY <1>0, WaitingFacts DEF QueueSound
<1>3. RowsSound'
  BY <1>0 DEF RowsSound
<1>4. OneOwner'
  BY <1>0 DEF OneOwner, Owns, Pre
<1>5. RegistrySound'
  BY <1>0 DEF RegistrySound, Owns, Parked, Early
<1>6. CapacitySound'
  BY <1>0 DEF CapacitySound, Busy, Early
<1> QED BY <1>1, <1>2, <1>3, <1>4, <1>5, <1>6

(* attachResponsePromise finds no entry. *)
LEMMA AttachResponseFailsStep ==
  ASSUME IInv, NEW r \in Runs, AttachResponseFails(r)
  PROVE  IInv'
<1>0. /\ pc[r] = "registered" /\ pc' = [pc EXCEPT ![r] = "refused"]
      /\ entry[ExecutionOf(r)] = None
      /\ UNCHANGED <<db, outcome, queue, isEnabled, held, entry, status,
                     engineOf, settled, handled, timers, cancelled,
                     cancelSaves, stop, phase, boots>>
  BY RunFacts DEF AttachResponseFails, Goto, registry, capacity, outside
<1> USE RunFacts DEF IInv, TypeOK
<1>1. TypeOK'
  BY <1>0 DEF Labels
<1>2. QueueSound'
  BY <1>0, WaitingFacts DEF QueueSound
<1>3. RowsSound'
  BY <1>0 DEF RowsSound
<1>4. OneOwner'
  BY <1>0 DEF OneOwner, Owns, Pre
<1>5. RegistrySound'
  BY <1>0 DEF RegistrySound, Owns, Parked, Early
<1>6. CapacitySound'
  BY <1>0 DEF CapacitySound, Busy, Early
<1> QED BY <1>1, <1>2, <1>3, <1>4, <1>5, <1>6

(* runMainProcess marks the row again. *)
LEMMA RunMainProcessStep ==
  ASSUME IInv, NEW r \in Runs, RunMainProcess(r)
  PROVE  IInv'
<1>0. /\ pc[r] = "registered" /\ pc' = [pc EXCEPT ![r] = "starting"]
      /\ db' = [db EXCEPT ![ExecutionOf(r)] = "running"]
      /\ UNCHANGED <<outcome, queue, isEnabled, held, entry, status,
                     engineOf, settled, handled, timers, cancelled,
                     cancelSaves, stop, phase, boots>>
  BY RunFacts DEF RunMainProcess, Goto, Write, registry, capacity, outside
<1> USE RunFacts DEF IInv, TypeOK
<1>1. TypeOK'
  BY <1>0 DEF Labels, Final
<1>2. QueueSound'
  BY <1>0, WaitingFacts DEF QueueSound
<1>3. RowsSound'
  BY <1>0 DEF RowsSound
<1>4. OneOwner'
  BY <1>0 DEF OneOwner, Owns, Pre
<1>5. RegistrySound'
  BY <1>0 DEF RegistrySound, Owns, Parked, Early
<1>6. CapacitySound'
  BY <1>0 DEF CapacitySound, Busy, Early
<1> QED BY <1>1, <1>2, <1>3, <1>4, <1>5, <1>6

(* runMainProcess fails before its `try`; the entry and the slot stay. *)
LEMMA RunMainProcessFailsStep ==
  ASSUME IInv, NEW r \in Runs, RunMainProcessFails(r)
  PROVE  IInv'
<1>0. /\ pc[r] = "registered" /\ pc' = [pc EXCEPT ![r] = "rejected"]
      /\ UNCHANGED <<db, outcome, queue, isEnabled, held, entry, status,
                     engineOf, settled, handled, timers, cancelled,
                     cancelSaves, stop, phase, boots>>
  BY RunFacts DEF RunMainProcessFails, Goto, registry, capacity, outside
<1> USE RunFacts DEF IInv, TypeOK
<1>1. TypeOK'
  BY <1>0 DEF Labels
<1>2. QueueSound'
  BY <1>0, WaitingFacts DEF QueueSound
<1>3. RowsSound'
  BY <1>0 DEF RowsSound
<1>4. OneOwner'
  BY <1>0 DEF OneOwner, Owns, Pre
<1>5. RegistrySound'
  BY <1>0 DEF RegistrySound, Owns, Parked, Early
<1>6. CapacitySound'
  BY <1>0 DEF CapacitySound, Busy, Early
<1> QED BY <1>1, <1>2, <1>3, <1>4, <1>5, <1>6

(* attachWorkflowExecution: an owner finds its own entry or none. *)
LEMMA StartEngineStep ==
  ASSUME IInv, NEW r \in Runs, StartEngine(r)
  PROVE  IInv'
<1>0. /\ pc[r] = "starting" /\ pc' = [pc EXCEPT ![r] = "executing"]
      /\ entry[ExecutionOf(r)] \in {None, r}
      /\ \/ entry[ExecutionOf(r)] = None /\ UNCHANGED <<engineOf, handled, timers>>
         \/ /\ entry[ExecutionOf(r)] = r /\ handled' = handled \cup {r}
            /\ engineOf' = [engineOf EXCEPT ![r] = r]
            /\ timers' \in {timers, timers \cup {r}}
      /\ UNCHANGED <<db, outcome, queue, isEnabled, held, entry, status,
                     settled, cancelled, cancelSaves, stop, phase, boots>>
  BY RunFacts DEF StartEngine, Goto, IInv, RegistrySound, Owns, capacity, outside
<1> USE RunFacts DEF IInv, TypeOK
<1>1. TypeOK'
  BY <1>0 DEF Labels
<1>2. QueueSound'
  BY <1>0, WaitingFacts DEF QueueSound
<1>3. RowsSound'
  BY <1>0 DEF RowsSound
<1>4. OneOwner'
  BY <1>0 DEF OneOwner, Owns, Pre
<1>5. RegistrySound'
  BY <1>0 DEF RegistrySound, Owns, Parked, Early
<1>6. CapacitySound'
  BY <1>0 DEF CapacitySound, Busy, Early
<1> QED BY <1>1, <1>2, <1>3, <1>4, <1>5, <1>6

(* putExecutionToWait finds the entry of the run itself. *)
LEMMA PutExecutionToWaitStep ==
  ASSUME IInv, NEW r \in Runs, PutExecutionToWait(r)
  PROVE  IInv'
<1>0. /\ pc[r] = "executing" /\ pc' = [pc EXCEPT ![r] = "parking"]
      /\ entry[ExecutionOf(r)] = r /\ r \notin cancelled
      /\ status' = [status EXCEPT ![r] = "waiting"]
      /\ UNCHANGED <<db, outcome, queue, isEnabled, held, entry, engineOf,
                     settled, handled, timers, cancelled, cancelSaves, stop,
                     phase, boots>>
  BY RunFacts DEF PutExecutionToWait, Goto, IInv, RegistrySound, Owns, capacity, outside
<1> USE RunFacts DEF IInv, TypeOK
<1>1. TypeOK'
  BY <1>0 DEF Labels
<1>2. QueueSound'
  BY <1>0, WaitingFacts DEF QueueSound
<1>3. RowsSound'
  BY <1>0 DEF RowsSound
<1>4. OneOwner'
  BY <1>0 DEF OneOwner, Owns, Pre
<1>5. RegistrySound'
  BY <1>0 DEF RegistrySound, Owns, Parked, Early
<1>6. CapacitySound'
  BY <1>0 DEF CapacitySound, Busy, Early
<1> QED BY <1>1, <1>2, <1>3, <1>4, <1>5, <1>6

(* The node loop is over. *)
LEMMA EndEngineStep ==
  ASSUME IInv, NEW r \in Runs, EndEngine(r)
  PROVE  IInv'
<1>0. /\ pc[r] \in {"executing", "parking"}
      /\ pc' = [pc EXCEPT ![r] = IF r \in cancelled THEN "saved" ELSE "saving"]
      /\ outcome' = [outcome EXCEPT ![r] = outcome'[r]] /\ outcome'[r] \in Endings(r)
      /\ r \notin cancelled /\ pc[r] = "parking" => outcome'[r] = "waiting"
      /\ r \in cancelled \/ pc[r] # "parking" => outcome'[r] \in Final
      /\ UNCHANGED <<db, queue, isEnabled, held, entry, status, engineOf,
                     settled, handled, timers, cancelled, cancelSaves, stop,
                     phase, boots>>
  BY RunFacts DEF EndEngine, Goto, IInv, TypeOK, Endings, Final, registry, capacity, outside
<1> USE RunFacts DEF IInv, TypeOK
<1>1. TypeOK'
  BY <1>0 DEF Labels, Final
<1>2. QueueSound'
  BY <1>0, WaitingFacts DEF QueueSound
<1>3. RowsSound'
  BY <1>0 DEF RowsSound, Final
<1>4. OneOwner'
  BY <1>0 DEF OneOwner, Owns, Pre
<1>5. RegistrySound'
  BY <1>0 DEF RegistrySound, Owns, Parked, Early
<1>6. CapacitySound'
  BY <1>0 DEF CapacitySound, RegistrySound, Busy, Early, Final
<1> QED BY <1>1, <1>2, <1>3, <1>4, <1>5, <1>6

(* The final save: only an owner turns its row into a waiting one. *)
LEMMA SaveResultStep ==
  ASSUME IInv, NEW r \in Runs, SaveResult(r)
  PROVE  IInv'
<1>0. /\ pc[r] = "saving" /\ pc' = [pc EXCEPT ![r] = IF r \in handled THEN "saved" ELSE "done"]
      /\ db' = [db EXCEPT ![ExecutionOf(r)] = outcome[r]] /\ outcome[r] # "none"
      /\ UNCHANGED <<outcome, queue, isEnabled, held, entry, status,
                     engineOf, settled, handled, timers, cancelled,
                     cancelSaves, stop, phase, boots>>
  BY RunFacts DEF SaveResult, Goto, Write, IInv, RowsSound, registry, capacity, outside
<1> USE RunFacts DEF IInv, TypeOK
<1>1. TypeOK'
  BY <1>0 DEF Labels, Final
<1>2. QueueSound'
  BY <1>0, WaitingFacts DEF QueueSound
<1>3. RowsSound'
  BY <1>0 DEF RowsSound
<1>4. OneOwner'
  BY <1>0 DEF OneOwner, Owns, Pre
<1>5. RegistrySound'
  BY <1>0 DEF RegistrySound, Owns, Parked, Early
<1>6. CapacitySound'
  BY <1>0 DEF CapacitySound, Busy, Early
<1> QED BY <1>1, <1>2, <1>3, <1>4, <1>5, <1>6

(* The save of onCancel. *)
LEMMA SaveCancelledStep ==
  ASSUME IInv, NEW r \in Runs, SaveCancelled(r)
  PROVE  IInv'
<1>0. /\ db' = [db EXCEPT ![ExecutionOf(r)] = "canceled"]
      /\ r \in cancelSaves /\ cancelSaves' = cancelSaves \ {r}
      /\ UNCHANGED <<pc, outcome, queue, isEnabled, held, entry, status,
                     engineOf, settled, handled, timers, cancelled, stop,
                     phase, boots>>
  BY RunFacts DEF SaveCancelled, Write, registry, capacity, outside
<1> USE RunFacts DEF IInv, TypeOK
<1>1. TypeOK'
  BY <1>0 DEF Labels, Final
<1>2. QueueSound'
  BY <1>0, WaitingFacts DEF QueueSound
<1>3. RowsSound'
  BY <1>0 DEF RowsSound
<1>4. OneOwner'
  BY <1>0 DEF OneOwner, Owns, Pre
<1>5. RegistrySound'
  BY <1>0 DEF RegistrySound, Owns, Parked, Early
<1>6. CapacitySound'
  BY <1>0 DEF CapacitySound, Busy, Early
<1> QED BY <1>1, <1>2, <1>3, <1>4, <1>5, <1>6

(* The stop request reads the row. *)
LEMMA StopReadStep ==
  ASSUME IInv, NEW e \in Executions, StopRead(e)
  PROVE  IInv'
<1>0. /\ db[e] # "none" /\ stop' = [stop EXCEPT ![e] = "read"]
      /\ UNCHANGED <<db, pc, outcome, queue, isEnabled, held, entry, status,
                     engineOf, settled, handled, timers, cancelled,
                     cancelSaves, phase, boots>>
  BY RunFacts DEF StopRead, process
<1> USE RunFacts DEF IInv, TypeOK
<1>1. TypeOK'
  BY <1>0 DEF Labels
<1>2. QueueSound'
  BY <1>0, WaitingFacts DEF QueueSound
<1>3. RowsSound'
  BY <1>0 DEF RowsSound
<1>4. OneOwner'
  BY <1>0 DEF OneOwner, Owns, Pre
<1>5. RegistrySound'
  BY <1>0 DEF RegistrySound, Owns, Parked, Early
<1>6. CapacitySound'
  BY <1>0 DEF CapacitySound, Busy, Early
<1> QED BY <1>1, <1>2, <1>3, <1>4, <1>5, <1>6

(* The stop request writes the row. *)
LEMMA StopWriteStep ==
  ASSUME IInv, NEW e \in Executions, StopWrite(e)
  PROVE  IInv'
<1>0. /\ db' = [db EXCEPT ![e] = "canceled"]
      /\ stop[e] = "write" /\ stop' = [stop EXCEPT ![e] = "done"]
      /\ UNCHANGED <<pc, outcome, queue, isEnabled, held, entry, status,
                     engineOf, settled, handled, timers, cancelled,
                     cancelSaves, phase, boots>>
  BY RunFacts DEF StopWrite, Write, process
<1> USE RunFacts DEF IInv, TypeOK
<1>1. TypeOK'
  BY <1>0 DEF Labels, Final
<1>2. QueueSound'
  BY <1>0, WaitingFacts DEF QueueSound
<1>3. RowsSound'
  BY <1>0 DEF RowsSound
<1>4. OneOwner'
  BY <1>0 DEF OneOwner, Owns, Pre
<1>5. RegistrySound'
  BY <1>0 DEF RegistrySound, Owns, Parked, Early
<1>6. CapacitySound'
  BY <1>0 DEF CapacitySound, Busy, Early
<1> QED BY <1>1, <1>2, <1>3, <1>4, <1>5, <1>6

(* shutdown drops the entries of waiting runs. *)
LEMMA ShutdownStep ==
  ASSUME IInv, Shutdown
  PROVE  IInv'
<1>0. /\ phase' = "draining" /\ isEnabled' = FALSE
      /\ \A e \in Executions : entry'[e] = entry[e] \/ (entry'[e] = None /\ status[entry[e]] = "waiting")
      /\ entry' \in [Executions -> Runs \cup {None}]
      /\ UNCHANGED <<db, pc, outcome, queue, held, status, engineOf,
                     settled, handled, timers, cancelled, cancelSaves, stop,
                     boots>>
  BY RunFacts DEF Shutdown, IInv, TypeOK, capacity
<1> USE RunFacts DEF IInv, TypeOK
<1>1. TypeOK'
  BY <1>0 DEF Labels
<1>2. QueueSound'
  BY <1>0, WaitingFacts DEF QueueSound
<1>3. RowsSound'
  BY <1>0 DEF RowsSound
<1>4. OneOwner'
  BY <1>0 DEF OneOwner, Owns, Pre
<1>5. RegistrySound'
  BY <1>0 DEF RegistrySound, Owns, Parked, Early
<1>6. CapacitySound'
  BY <1>0 DEF CapacitySound, RegistrySound, Busy, Parked, Early
<1> QED BY <1>1, <1>2, <1>3, <1>4, <1>5, <1>6

(* The process ends. *)
LEMMA ExitStep ==
  ASSUME IInv, Exit \/ Crash
  PROVE  IInv'
<1>0. /\ phase' = "down"
      /\ UNCHANGED <<db, pc, outcome, queue, isEnabled, held, entry, status,
                     engineOf, settled, handled, timers, cancelled,
                     cancelSaves, stop, boots>>
  BY RunFacts DEF Exit, Crash, process
<1> USE RunFacts DEF IInv, TypeOK
<1>1. TypeOK'
  BY <1>0 DEF Labels
<1>2. QueueSound'
  BY <1>0, WaitingFacts DEF QueueSound
<1>3. RowsSound'
  BY <1>0 DEF RowsSound
<1>4. OneOwner'
  BY <1>0 DEF OneOwner, Owns, Pre
<1>5. RegistrySound'
  BY <1>0 DEF RegistrySound, Owns, Parked, Early
<1>6. CapacitySound'
  BY <1>0 DEF CapacitySound, Busy, Early
<1> QED BY <1>1, <1>2, <1>3, <1>4, <1>5, <1>6

(* add, up to setRunning: a run that may not run returns its capacity. *)
LEMMA MarkRunningStep ==
  ASSUME IInv, NEW r \in Runs, MarkRunning(r)
  PROVE  IInv'
<1>0. /\ pc[r] = "reserved"
      /\ UNCHANGED <<outcome, isEnabled, entry, status, engineOf, settled, handled,
                     timers, cancelled, cancelSaves, stop, phase, boots>>
  BY DEF MarkRunning, registry, outside
<1> USE RunFacts DEF IInv, TypeOK
<1>1. CASE MayRun(r)
  <2>0. /\ db' = [db EXCEPT ![ExecutionOf(r)] = "running"]
        /\ pc' = [pc EXCEPT ![r] = "marked"]
        /\ r = First(ExecutionOf(r)) \/ db[ExecutionOf(r)] = "waiting"
        /\ UNCHANGED <<queue, held>>
    BY <1>1 DEF MarkRunning, MayRun, Write, Goto, capacity
  <2>1. TypeOK'
    BY <1>0, <2>0 DEF Labels
  <2>2. QueueSound'
    BY <1>0, <2>0, WaitingFacts DEF QueueSound
  <2>3. RowsSound'
    BY <1>0, <2>0 DEF RowsSound
  <2>4. OneOwner'
    BY <1>0, <2>0 DEF OneOwner, Owns, Pre
  <2>5. RegistrySound'
    BY <1>0, <2>0 DEF RegistrySound, Owns, Parked, Early
  <2>6. CapacitySound'
    BY <1>0, <2>0 DEF CapacitySound, Busy, Early
  <2> QED BY <2>1, <2>2, <2>3, <2>4, <2>5, <2>6
<1>2. CASE ~MayRun(r)
  <2> DEFINE R == Released(r)
  <2>0. /\ pc' = [LetThrough(pc, R) EXCEPT ![r] = "refused"]
        /\ Release(r) /\ UNCHANGED db
    BY <1>2 DEF MarkRunning
  <2>a. LosesOnly(R) /\ held' = (held \ {r}) \cup R
    BY <2>0, ReleaseFacts
  <2> HIDE DEF R
  <2>b. /\ \A s \in R : s \in Runs /\ pc[s] = "queued" /\ s # r
        /\ \A s \in Waiting(queue') : s \in Runs /\ pc[s] = "queued" /\ s # r /\ s \notin R
        /\ queue' \in QueueOf(Runs) /\ Distinct(queue')
    BY <1>0, <2>a, WaitingFacts DEF LosesOnly
  <2>c. /\ pc' \in [Runs -> Labels] /\ pc'[r] = "refused"
        /\ \A s \in R : pc'[s] = "reserved"
        /\ \A s \in Runs : s # r /\ s \notin R => pc'[s] = pc[s]
    BY <2>0, <2>b DEF LetThrough, Labels
  <2>1. TypeOK'
    BY <1>0, <2>0, <2>a, <2>b, <2>c DEF QueueOf
  <2>2. QueueSound'
    BY <2>b, <2>c DEF QueueSound
  <2>3. RowsSound'
    BY <1>0, <2>0, <2>b, <2>c DEF RowsSound
  <2>4. OneOwner'
    BY <1>0, <2>0, <2>b, <2>c DEF OneOwner, Owns, Pre
  <2>5. RegistrySound'
    BY <1>0, <2>b, <2>c DEF RegistrySound, Owns, Parked, Early
  <2>6. CapacitySound'
    BY <1>0, <2>a, <2>b, <2>c DEF CapacitySound, Busy, Early
  <2> QED BY <2>1, <2>2, <2>3, <2>4, <2>5, <2>6
<1> QED BY <1>1, <1>2

(* What everybody else sees of the settling of o's promise, when labels    *)
(* tells how far the runs have come besides.                               *)
AfterSettle(o, labels) ==
  /\ queue' \in QueueOf(Runs) /\ QueueSound'
  /\ pc' \in [Runs -> Labels]
  /\ \A s \in Runs : pc'[s] = labels[s] \/ (pc[s] = "queued" /\ pc'[s] = "reserved")
  /\ held' \subseteq Runs
  /\ \A s \in held' : (s \in held /\ s # o) \/ (pc[s] = "queued" /\ pc'[s] = "reserved")
  /\ settled' = settled \cup {o}
  /\ entry' \in [Executions -> Runs \cup {None}]
  /\ \A e \in Executions : entry'[e] = entry[e] \/ (entry'[e] = None /\ ExecutionOf(o) = e)
  /\ engineOf' \in [Runs -> Runs \cup {None}]
  /\ \A s \in Runs : engineOf'[s] = engineOf[s]
       \/ (engineOf'[s] = None /\ status[s] = "waiting")

(* labels leaves the runs in the queue alone. *)
KeepsQueued(labels) ==
  /\ labels \in [Runs -> Labels]
  /\ \A s \in Runs : pc[s] = "queued" => labels[s] = "queued"

(* Settling leaves everybody else in the state AfterSettle describes. *)
LEMMA SettledFacts ==
  ASSUME IInv, NEW o \in Runs, NEW labels, KeepsQueued(labels), Settle(o, labels)
  PROVE  AfterSettle(o, labels)
<1>0. labels \in [Runs -> Labels] /\ \A s \in Runs : pc[s] = "queued" => labels[s] = "queued"
  BY DEF KeepsQueued
<1>1. PICK R \in SUBSET Runs : Settles(o, labels, R)
  BY <1>0, SettleFacts
<1>2. \A s \in Waiting(queue) : s \in Runs /\ pc[s] = "queued"
  BY WaitingFacts DEF IInv
<1>3. /\ R \subseteq Waiting(queue) /\ Waiting(queue') = Waiting(queue) \ R
      /\ pc' = [s \in Runs |-> IF s \in R THEN "reserved" ELSE labels[s]]
      /\ queue' \in QueueOf(Runs) /\ Distinct(queue')
      /\ held' = (held \ {o}) \cup R /\ settled' = settled \cup {o}
  BY <1>1 DEF Settles, LosesOnly, LetThrough
<1>4. QueueSound'
  BY <1>0, <1>2, <1>3 DEF QueueSound
<1>5. /\ entry' \in [Executions -> Runs \cup {None}]
      /\ \A e \in Executions : entry'[e] = entry[e] \/ (entry'[e] = None /\ ExecutionOf(o) = e)
      /\ engineOf' \in [Runs -> Runs \cup {None}]
      /\ \A s \in Runs : engineOf'[s] = engineOf[s]
           \/ (engineOf'[s] = None /\ status[s] = "waiting")
  BY <1>1, RunFacts DEF Settles, IInv, TypeOK
<1>6. /\ pc' \in [Runs -> Labels]
      /\ \A s \in Runs : pc'[s] = labels[s] \/ (pc[s] = "queued" /\ pc'[s] = "reserved")
      /\ held' \subseteq Runs
      /\ \A s \in held' : (s \in held /\ s # o) \/ (pc[s] = "queued" /\ pc'[s] = "reserved")
  BY <1>0, <1>2, <1>3 DEF Labels, IInv, TypeOK
<1> QED BY <1>3, <1>4, <1>5, <1>6 DEF AfterSettle

(* Nothing is registered, and the promise of r is settled already. *)
LEMMA SettledBefore ==
  ASSUME IInv, NEW r \in settled, NEW labels, KeepsQueued(labels), pc' = labels,
         UNCHANGED <<settled, held, queue, entry, engineOf>>
  PROVE  AfterSettle(r, labels)
<1>1. QueueSound' /\ queue' \in QueueOf(Runs)
  BY QueueType, WaitingFacts DEF IInv, QueueSound, KeepsQueued
<1>2. r \notin held /\ held \subseteq Runs
  BY DEF IInv, CapacitySound, TypeOK
<1> QED BY <1>1, <1>2 DEF IInv, TypeOK, AfterSettle, KeepsQueued

(* processError: whatever is registered is finalized, then the error is    *)
(* saved.                                                                  *)
LEMMA ProcessErrorStep ==
  ASSUME IInv, NEW r \in Runs, ProcessError(r)
  PROVE  IInv'
<1> DEFINE e == ExecutionOf(r)
           labels == [pc EXCEPT ![r] = "saving"]
<1>0. /\ pc[r] = "starting" /\ outcome' = [outcome EXCEPT ![r] = "error"]
      /\ FinalizeExecution(e, labels)
      /\ e \in Executions /\ entry[e] \in {None, r}
      /\ UNCHANGED <<db, isEnabled, status, handled, timers, cancelled, cancelSaves,
                     stop, phase, boots>>
  BY RunFacts DEF ProcessError, outside, IInv, RegistrySound, Owns
<1>l. /\ KeepsQueued(labels) /\ labels[r] = "saving"
      /\ \A s \in Runs : s # r => labels[s] = pc[s]
  BY <1>0 DEF IInv, TypeOK, Labels, KeepsQueued
<1> HIDE DEF labels
<1>a. AfterSettle(r, labels)
  <2>1. CASE entry[e] = None
    <3>1. r \in settled
      BY <1>0, <2>1, RunFacts DEF IInv, CapacitySound, Busy
    <3>2. pc' = labels /\ UNCHANGED <<settled, held, queue, entry, engineOf>>
      BY <1>0, <2>1 DEF FinalizeExecution
    <3> QED BY <1>l, <3>1, <3>2, SettledBefore
  <2>2. CASE entry[e] = r
    <3>1. Settle(r, labels)
      BY <1>0, <2>2, RunFacts DEF FinalizeExecution
    <3> QED BY <1>l, <3>1, SettledFacts
  <2> QED BY <1>0, <2>1, <2>2
<1>b. /\ pc'[r] = "saving" /\ outcome'[r] = "error"
      /\ \A s \in Runs : s # r => outcome'[s] = outcome[s]
      /\ \A s \in Runs : s # r => pc'[s] = pc[s] \/ (pc[s] = "queued" /\ pc'[s] = "reserved")
  BY <1>0, <1>l, <1>a DEF AfterSettle, IInv, TypeOK
<1> USE RunFacts DEF IInv, TypeOK
<1>c. \A s \in Runs : (Owns(s)' => Owns(s)) /\ (pc'[s] \in Pre => pc[s] \in Pre)
  BY <1>0, <1>b DEF Owns, Pre
<1>1. TypeOK'
  <2>1. outcome' \in [Runs -> Final \cup {"none", "waiting"}]
    BY <1>0 DEF Final
  <2> QED BY <1>0, <1>a, <2>1 DEF AfterSettle, QueueOf
<1>2. QueueSound'
  BY <1>a DEF AfterSettle
<1>3. RowsSound'
  BY <1>0, <1>b DEF RowsSound
<1>4. OneOwner'
  BY <1>0, <1>c DEF OneOwner
<1>5. RegistrySound'
  <2>1. \A s \in Runs : /\ pc'[s] \in Early => pc[s] \in Early
                        /\ Parked(s) => Parked(s)'
                        /\ pc'[s] = "parking" => pc[s] = "parking"
                        /\ Owns(s)' /\ pc'[s] # "marked" => Owns(s) /\ pc[s] # "marked"
    BY <1>0, <1>b DEF Early, Parked, Owns
  <2> QED BY <1>0, <1>a, <2>1 DEF AfterSettle, RegistrySound
<1>6. CapacitySound'
  BY <1>0, <1>a, <1>b DEF AfterSettle, CapacitySound, Busy, Early
<1> QED BY <1>1, <1>2, <1>3, <1>4, <1>5, <1>6

(* The engine's promise resolves: whatever is registered is finalized. *)
LEMMA FinishStep ==
  ASSUME IInv, NEW r \in Runs, Finish(r)
  PROVE  IInv'
<1> DEFINE e == ExecutionOf(r)
           labels == [pc EXCEPT ![r] = "done"]
<1>0. /\ pc[r] = "saved" /\ FinalizeExecution(e, labels)
      /\ e \in Executions /\ timers' \subseteq timers
      /\ UNCHANGED <<db, outcome, isEnabled, status, handled, cancelled, cancelSaves,
                     stop, phase, boots>>
  BY RunFacts DEF Finish, outside
<1>l. /\ KeepsQueued(labels) /\ labels[r] = "done"
      /\ \A s \in Runs : s # r => labels[s] = pc[s]
  BY <1>0 DEF IInv, TypeOK, Labels, KeepsQueued
<1> HIDE DEF labels
<1>a. CASE entry[e] = None
  <2>0. pc' = labels /\ UNCHANGED <<settled, held, queue, entry, engineOf>>
    BY <1>0, <1>a DEF FinalizeExecution
  <2>1. Busy(r) => r \notin held
    BY <1>0, <1>a, RunFacts DEF IInv, CapacitySound
  <2> USE RunFacts DEF IInv, TypeOK
  <2>2. TypeOK'
    BY <1>0, <1>l, <2>0 DEF KeepsQueued
  <2>3. QueueSound'
    BY <1>l, <2>0, WaitingFacts DEF QueueSound, KeepsQueued
  <2>4. RowsSound'
    BY <1>0, <1>l, <2>0 DEF RowsSound
  <2>5. OneOwner'
    BY <1>0, <1>l, <2>0 DEF OneOwner, Owns, Pre
  <2>6. RegistrySound'
    BY <1>0, <1>l, <2>0 DEF RegistrySound, Owns, Parked, Early
  <2>7. CapacitySound'
    BY <1>0, <1>l, <2>0, <2>1 DEF CapacitySound, Busy, Early
  <2> QED BY <2>2, <2>3, <2>4, <2>5, <2>6, <2>7
<1>b. CASE entry[e] # None
  <2> DEFINE o == entry[e]
  <2>0. /\ o \in Runs /\ ExecutionOf(o) = e /\ pc[o] \notin Early
        /\ o # r => outcome[r] = "waiting"
    BY <1>0, <1>b DEF IInv, TypeOK, RegistrySound, Owns
  <2> HIDE DEF o
  <2>1. Settle(o, labels)
    BY <1>0, <1>b DEF FinalizeExecution, o
  <2>a. AfterSettle(o, labels)
    BY <1>l, <2>0, <2>1, SettledFacts
  <2>b. /\ pc'[r] = "done"
        /\ \A s \in Runs : s # r => pc'[s] = pc[s] \/ (pc[s] = "queued" /\ pc'[s] = "reserved")
    BY <1>0, <1>l, <2>a DEF AfterSettle
  <2> USE RunFacts DEF IInv, TypeOK
  <2>2. TypeOK'
    BY <1>0, <2>0, <2>a DEF AfterSettle, QueueOf
  <2>3. QueueSound'
    BY <2>a DEF AfterSettle
  <2>4. RowsSound'
    BY <1>0, <2>b DEF RowsSound
  <2>5. OneOwner'
    BY <1>0, <2>b DEF OneOwner, Owns, Pre
  <2>6. RegistrySound'
    <3>1. \A s \in Runs : Owns(s)' => Owns(s) /\ pc'[s] = pc[s]
      BY <1>0, <2>b DEF Owns
    <3>2. \A s \in Runs : /\ pc'[s] \in Early => pc[s] \in Early
                          /\ Parked(s) => Parked(s)'
                          /\ pc'[s] = "parking" => pc[s] = "parking"
      BY <1>0, <2>b DEF Early, Parked
    <3> QED BY <1>0, <2>a, <3>1, <3>2 DEF AfterSettle, RegistrySound
  <2>7. CapacitySound'
    BY <1>0, <2>0, <2>a, <2>b DEF AfterSettle, CapacitySound, Busy, Early, o
  <2> QED BY <2>2, <2>3, <2>4, <2>5, <2>6, <2>7
<1> QED BY <1>a, <1>b

(* stopExecution: nothing registered, a waiting entry, or a run that is    *)
(* cancelled and settled.                                                  *)
LEMMA StopExecutionStep ==
  ASSUME IInv, NEW e \in Executions, StopExecution(e),
         UNCHANGED <<db, outcome, isEnabled, status, handled, phase, boots>>,
         timers' \subseteq timers,
         stop' \in [Executions -> {"idle", "read", "write", "done"}],
         \A d \in Executions : stop'[d] \in {"read", "write"} => db[d] # "none"
  PROVE  IInv'
<1>a. CASE entry[e] = None
  <2>1. UNCHANGED <<pc, settled, held, queue, entry, engineOf, cancelled, cancelSaves>>
    BY <1>a DEF StopExecution
  <2> USE DEF IInv
  <2>2. TypeOK'
    BY <2>1 DEF TypeOK
  <2>3. QueueSound' /\ RowsSound'
    BY <2>1 DEF QueueSound, RowsSound
  <2>4. OneOwner' /\ RegistrySound' /\ CapacitySound'
    BY <2>1 DEF OneOwner, RegistrySound, CapacitySound, Owns, Busy, Parked
  <2> QED BY <2>2, <2>3, <2>4
<1>b. CASE entry[e] # None /\ status[entry[e]] = "waiting"
  <2>1. /\ entry' = [entry EXCEPT ![e] = None]
        /\ UNCHANGED <<pc, settled, held, queue, engineOf, cancelled, cancelSaves>>
    BY <1>b DEF StopExecution
  <2> USE DEF IInv
  <2>2. TypeOK'
    BY <2>1 DEF TypeOK
  <2>3. QueueSound' /\ RowsSound' /\ OneOwner'
    BY <2>1 DEF QueueSound, RowsSound, OneOwner, Owns
  <2>4. RegistrySound'
    BY <2>1, RunFacts DEF TypeOK, RegistrySound, Owns, Parked
  <2>5. \A r \in Runs : Busy(r) => status[r] # "waiting"
    BY DEF RegistrySound, Busy, Parked
  <2>6. \A r \in Runs : Busy(r) => r \in settled \/ entry'[ExecutionOf(r)] = r
    BY <1>b, <2>1, <2>5, RunFacts DEF TypeOK, CapacitySound
  <2>7. CapacitySound'
    BY <2>1, <2>6 DEF CapacitySound, Busy
  <2> QED BY <2>2, <2>3, <2>4, <2>7
<1>c. CASE entry[e] # None /\ status[entry[e]] # "waiting"
  <2> DEFINE o == entry[e]
  <2>0. /\ o \in Runs /\ ExecutionOf(o) = e /\ pc[o] \notin Early /\ status[o] # "waiting"
        /\ engineOf[o] \in {None, o} /\ db[e] # "none"
    BY <1>c DEF IInv, TypeOK, RegistrySound, RowsSound, Early
  <2>1. Settle(o, pc) /\ cancelled' = cancelled \cup Cancels(o)
        /\ cancelSaves' = cancelSaves \cup Cancels(o)
    BY <1>c DEF StopExecution
  <2>2. Cancels(o) \subseteq {o}
    BY <2>0 DEF Cancels
  <2> HIDE DEF o
  <2>3. KeepsQueued(pc)
    BY DEF KeepsQueued, IInv, TypeOK
  <2>a. AfterSettle(o, pc)
    BY <2>0, <2>1, <2>3, SettledFacts
  <2>b. \A s \in Runs : pc'[s] = pc[s] \/ (pc[s] = "queued" /\ pc'[s] = "reserved")
    BY <2>a DEF AfterSettle
  <2>c. \A s \in Runs :
          /\ (Owns(s)' <=> Owns(s)) /\ (Busy(s)' <=> Busy(s)) /\ (Parked(s)' <=> Parked(s))
          /\ pc'[s] \in Pre => pc[s] \in Pre
          /\ pc'[s] \in Early => pc[s] \in Early
          /\ \A l \in {"idle", "marked", "parking", "executing", "saving", "done", "refused"} :
               pc'[s] = l <=> pc[s] = l
    BY <2>b DEF Owns, Busy, Parked, Pre, Early
  <2>4. TypeOK'
    BY <2>0, <2>1, <2>2, <2>a DEF AfterSettle, QueueOf, IInv, TypeOK
  <2>5. QueueSound'
    BY <2>a DEF AfterSettle
  <2>6. RowsSound'
    BY <2>0, <2>1, <2>2, <2>c, RunFacts DEF RowsSound, IInv
  <2>7. OneOwner'
    BY <2>c, RunFacts DEF OneOwner, IInv
  <2>8. RegistrySound'
    <3>1. \A r \in Runs : pc'[r] = "parking" => r # o /\ r \notin cancelled'
      BY <2>0, <2>1, <2>2, <2>c DEF RegistrySound, IInv
    <3> QED BY <2>a, <2>c, <3>1, RunFacts DEF AfterSettle, RegistrySound, IInv, TypeOK
  <2>9. CapacitySound'
    BY <2>0, <2>a, <2>c, RunFacts DEF AfterSettle, CapacitySound, IInv, TypeOK, Early, o
  <2> QED BY <2>4, <2>5, <2>6, <2>7, <2>8, <2>9 DEF IInv
<1> QED BY <1>a, <1>b, <1>c

(* A timeout fires. *)
LEMMA TimeoutStep ==
  ASSUME IInv, NEW r \in Runs, Timeout(r)
  PROVE  IInv'
<1>1. /\ StopExecution(ExecutionOf(r)) /\ timers' \subseteq timers /\ stop' = stop
      /\ UNCHANGED <<db, outcome, isEnabled, status, handled, phase, boots>>
  BY DEF Timeout, outside
<1>2. /\ stop \in [Executions -> {"idle", "read", "write", "done"}]
      /\ \A d \in Executions : stop[d] \in {"read", "write"} => db[d] # "none"
  BY DEF IInv, TypeOK, RowsSound
<1> QED BY <1>1, <1>2, RunFacts, StopExecutionStep

(* The run that is first in the queue is in the queue. *)
LEMMA FirstQueuedFacts ==
  ASSUME IInv, NEW e \in Executions, QueuedRuns(e) # {}
  PROVE  FirstQueued(e) \in Runs /\ Has(queue, FirstQueued(e))
<1> DEFINE T == {FindIndex(queue, r) : r \in QueuedRuns(e)}
<1>1. \A r \in QueuedRuns(e) : r \in Runs /\ Has(queue, r)
  BY DEF QueuedRuns, RunsOf
<1>2. \A r \in QueuedRuns(e) : FindIndex(queue, r) \in Nat
  <2>1. queue \in QueueOf(Runs) /\ Distinct(queue)
    BY QueueType DEF IInv, QueueSound
  <2>2. Len(queue.queue) \in Nat
    BY <2>1 DEF QueueOf
  <2>3. ASSUME NEW r \in QueuedRuns(e) PROVE FindIndex(queue, r) \in 1..Len(queue.queue)
    BY <1>1, <2>1, FindIndexFacts
  <2> QED BY <2>2, <2>3
<1>3. PICK x \in T : \A y \in T : x <= y
  <2>1. T \in SUBSET Nat /\ T # {}
    BY <1>2
  <2> HIDE DEF T
  <2> QED BY <2>1, LeastElement
<1>4. PICK r \in QueuedRuns(e) : x = FindIndex(queue, r)
  OBVIOUS
<1>5. \A s \in QueuedRuns(e) : FindIndex(queue, r) <= FindIndex(queue, s)
  BY <1>3, <1>4
<1>6. FirstQueued(e) \in QueuedRuns(e)
  BY <1>5, Zenon DEF FirstQueued
<1> QED BY <1>1, <1>6

(* ExecutionService.stop in regular mode. *)
LEMMA StopInRegularModeStep ==
  ASSUME IInv, NEW e \in Executions, StopInRegularMode(e)
  PROVE  IInv'
<1>0. /\ stop[e] = "read" /\ stop' = [stop EXCEPT ![e] = "write"]
      /\ UNCHANGED <<db, outcome, isEnabled, status, handled, timers, phase, boots>>
  BY DEF StopInRegularMode
<1>1. /\ stop' \in [Executions -> {"idle", "read", "write", "done"}]
      /\ \A d \in Executions : stop'[d] \in {"read", "write"} => db[d] # "none"
  BY <1>0 DEF IInv, TypeOK, RowsSound
<1>a. CASE QueuedRuns(e) = {}
  <2>1. StopExecution(e)
    BY <1>a DEF StopInRegularMode
  <2> QED BY <1>0, <1>1, <2>1, StopExecutionStep
<1>b. CASE QueuedRuns(e) # {}
  <2> DEFINE r == FirstQueued(e)
             R == RemoveResolves(queue, r)
  <2>0. r \in Runs /\ Has(queue, r)
    BY <1>b, FirstQueuedFacts
  <2>1. /\ queue' = Remove(queue, r) /\ held' = held \cup R
        /\ pc' = [LetThrough(pc, R) EXCEPT ![r] = "abandoned"]
        /\ UNCHANGED <<settled, entry, engineOf, cancelled, cancelSaves>>
    BY <1>b DEF StopInRegularMode, RemoveFromQueue
  <2>2. queue \in QueueOf(Runs) /\ Distinct(queue)
    BY QueueType DEF IInv, QueueSound
  <2>3. /\ queue' \in QueueOf(Runs) /\ Distinct(queue')
        /\ Waiting(queue') = Waiting(queue) \ ({r} \cup R)
        /\ R \subseteq Waiting(queue) \ {r}
    BY <2>0, <2>1, <2>2, RemoveFacts
  <2> HIDE DEF r, R
  <2>4. /\ \A s \in Waiting(queue) : s \in Runs /\ pc[s] = "queued"
        /\ r \in Waiting(queue)
    BY <2>0, WaitingFacts DEF IInv, Has
  <2>5. /\ pc' \in [Runs -> Labels] /\ pc'[r] = "abandoned" /\ pc[r] = "queued"
        /\ \A s \in R : s \in Runs /\ pc'[s] = "reserved" /\ pc[s] = "queued"
        /\ \A s \in Runs : s # r /\ s \notin R => pc'[s] = pc[s]
    BY <2>0, <2>1, <2>3, <2>4 DEF LetThrough, Labels, IInv, TypeOK
  <2>c. \A s \in Runs :
          /\ (Owns(s)' => Owns(s)) /\ (Busy(s)' => Busy(s)) /\ (Parked(s) => Parked(s)')
          /\ pc'[s] \in Pre => pc[s] \in Pre
          /\ pc'[s] \in Early => pc[s] \in Early
          /\ \A l \in {"idle", "marked", "parking", "executing", "saving", "done", "refused"} :
               pc'[s] = l <=> pc[s] = l
    BY <1>0, <2>5 DEF Owns, Busy, Parked, Pre, Early
  <2>6. TypeOK'
    BY <1>0, <1>1, <2>1, <2>3, <2>5 DEF QueueOf, IInv, TypeOK
  <2>7. QueueSound'
    BY <2>3, <2>4, <2>5 DEF QueueSound
  <2>8. RowsSound'
    BY <1>0, <1>1, <2>1, <2>c, RunFacts DEF RowsSound, IInv
  <2>9. OneOwner'
    BY <1>0, <2>c, RunFacts DEF OneOwner, IInv
  <2>10. RegistrySound'
    BY <1>0, <2>1, <2>c, RunFacts DEF RegistrySound, IInv, TypeOK
  <2>11. CapacitySound'
    <3>1. \A s \in R : s \notin settled /\ pc'[s] \notin {"done", "refused"}
      BY <2>5 DEF CapacitySound, IInv, Early
    <3>2. \A s \in settled : s \in Runs
      BY DEF IInv, TypeOK
    <3>3. \A s \in held : s \in Runs
      BY DEF IInv, TypeOK
    <3> QED BY <1>0, <2>1, <2>c, <3>1, <3>2, <3>3, RunFacts DEF CapacitySound, IInv
  <2> QED BY <2>6, <2>7, <2>8, <2>9, <2>10, <2>11 DEF IInv
<1> QED BY <1>a, <1>b

(* A new process knows nothing of the runs of the old one. *)
LEMMA BootStep ==
  ASSUME IInv, Boot
  PROVE  IInv'
<1>0. /\ queue' = NewQueue(Limit) /\ isEnabled' = TRUE /\ held' = {} /\ settled' = {}
      /\ handled' = {} /\ timers' = {} /\ cancelled' = {} /\ cancelSaves' = {}
      /\ entry' = [e \in Executions |-> None] /\ status' = [r \in Runs |-> "running"]
      /\ engineOf' = [r \in Runs |-> None]
      /\ stop' = [e \in Executions |-> IF stop[e] = "idle" THEN "idle" ELSE "done"]
      /\ phase' = "up" /\ boots < MaxBoots /\ boots' = boots + 1
      /\ UNCHANGED <<db, outcome>>
  BY DEF Boot, FreshProcess
<1>1. \A r \in Runs : Enqueued(r) =>
        pc[r] = "idle" /\ db[ExecutionOf(r)] = "new" /\ r # First(ExecutionOf(r))
  BY RunFacts DEF Enqueued, FreshRun, IInv, RowsSound
<1>2. /\ pc' \in [Runs -> Labels]
      /\ \A r \in Runs : pc'[r] \in {"idle", "created", "done", "refused", "lost"}
      /\ \A r \in Runs : pc'[r] = "created" => r # First(ExecutionOf(r))
      /\ \A r \in Runs : pc[r] = "idle" /\ pc'[r] # "idle" => db[ExecutionOf(r)] = "new"
      /\ \A r \in Runs : pc'[r] = "idle" => pc[r] = "idle"
  BY <1>1 DEF Boot, Ended, Labels
<1>3. /\ queue' \in QueueOf(Runs) /\ Distinct(queue') /\ Waiting(queue') = {}
  BY <1>0, BoundsType DEF NewQueue, QueueOf, Distinct, Waiting
<1>4. TypeOK'
  <2>1. boots' \in 0..MaxBoots
    BY <1>0, BoundsType DEF IInv, TypeOK
  <2> QED BY <1>0, <1>2, <1>3, <2>1 DEF IInv, TypeOK, QueueOf
<1>5. QueueSound'
  BY <1>3 DEF QueueSound
<1>6. RowsSound'
  BY <1>0, <1>2, RunFacts DEF IInv, RowsSound
<1>7. OneOwner'
  BY <1>2, RunFacts DEF OneOwner, Owns, Pre
<1>8. RegistrySound'
  BY <1>0, <1>2, RunFacts DEF RegistrySound, Owns
<1>9. CapacitySound'
  BY <1>0, <1>2 DEF CapacitySound, Busy
<1> QED BY <1>4, <1>5, <1>6, <1>7, <1>8, <1>9 DEF IInv

(* Every step preserves the invariant. *)
LEMMA IInvStep ==
  ASSUME IInv, [Next]_vars
  PROVE  IInv'
<1>1. CASE UNCHANGED vars
  <2>1. UNCHANGED <<db, pc, outcome, queue, isEnabled, held, entry, status, engineOf, settled,
                    handled, timers, cancelled, cancelSaves, stop, phase, boots>>
    BY <1>1 DEF vars, process, outside
  <2> USE DEF IInv
  <2>2. TypeOK' /\ QueueSound' /\ RowsSound'
    BY <2>1 DEF TypeOK, QueueSound, RowsSound
  <2>3. OneOwner' /\ RegistrySound' /\ CapacitySound'
    BY <2>1 DEF OneOwner, RegistrySound, CapacitySound, Owns, Busy, Parked
  <2> QED BY <2>2, <2>3
<1>2. ASSUME NEW e \in Executions,
             Start(e) \/ Resume(e) \/ StopRead(e) \/ StopInRegularMode(e) \/ StopWrite(e)
      PROVE  IInv'
  BY <1>2, StartStep, ResumeStep, StopReadStep, StopInRegularModeStep, StopWriteStep
<1>3. ASSUME NEW r \in Runs, RunStep(r) \/ PutExecutionToWait(r) \/ Timeout(r)
      PROVE  IInv'
  BY <1>3, ReserveStep, MarkRunningStep, RegisterStep, FailExecutionStep,
     AttachResponseFailsStep, RunMainProcessStep, RunMainProcessFailsStep, StartEngineStep,
     ProcessErrorStep,
     EndEngineStep, SaveResultStep, SaveCancelledStep, FinishStep,
     PutExecutionToWaitStep, TimeoutStep DEF RunStep
<1>4. CASE Shutdown \/ Exit \/ Crash \/ Boot
  BY <1>4, ShutdownStep, ExitStep, BootStep
<1> QED BY <1>1, <1>2, <1>3, <1>4 DEF Next

(* The initial states satisfy the invariant. *)
LEMMA IInvInit ==
  ASSUME Init
  PROVE  IInv
<1>1. queue \in QueueOf(Runs) /\ Distinct(queue) /\ Waiting(queue) = {}
  BY BoundsType DEF Init, NewQueue, QueueOf, Distinct, Waiting
<1>2. TypeOK
  <2>1. 0 \in 0..MaxBoots
    BY BoundsType
  <2> QED BY <1>1, <2>1 DEF Init, TypeOK, Labels, QueueOf
<1>3. QueueSound /\ RowsSound
  BY <1>1, RunFacts DEF Init, QueueSound, RowsSound
<1>4. OneOwner /\ RegistrySound /\ CapacitySound
  BY RunFacts DEF Init, OneOwner, RegistrySound, CapacitySound, Owns, Busy, Pre
<1> QED BY <1>2, <1>3, <1>4 DEF IInv

(* The inductive invariant holds in every reachable state. *)
THEOREM Invariance == Spec => []IInv
<1>1. Init => IInv
  BY IInvInit
<1>2. IInv /\ [Next]_vars => IInv'
  BY IInvStep
<1> QED BY <1>1, <1>2, PTL DEF Spec

(* Every field of the services keeps its type. *)
THEOREM TypeCorrect == Spec => []TypeOK
<1>1. IInv => TypeOK
  BY DEF IInv
<1> QED BY <1>1, Invariance, PTL

(* Two runs of one execution never work on it at the same time, however    *)
(* many resumes, stops, timeouts and restarts there are.                   *)
THEOREM SingleEngineHolds == Spec => []SingleEngine
<1>1. IInv => SingleEngine
  BY DEF IInv, OneOwner, Owns, SingleEngine, Working
<1> QED BY <1>1, Invariance, PTL

(* A run that is over and did not end in a wait has returned its capacity. *)
THEOREM CapacityIsReturned == Spec => []CapacityReturned
<1>1. IInv => CapacityReturned
  BY DEF IInv, CapacitySound, CapacityReturned
<1> QED BY <1>1, Invariance, PTL

-----------------------------------------------------------------------------
(* Workflows without a wait. *)

(* A stop or a timeout settles at most the registered run. *)
LEMMA StopExecutionPlain ==
  ASSUME IInv, NEW e \in Executions, StopExecution(e)
  PROVE  /\ \A s \in Runs : pc'[s] = pc[s] \/ (pc[s] = "queued" /\ pc'[s] = "reserved")
         /\ \A s \in settled' : s \in settled \/ s = entry[e]
         /\ \A s \in Runs : engineOf'[s] = engineOf[s] \/ status[s] = "waiting"
         /\ cancelled \subseteq cancelled'
         /\ \A s \in settled' : s \notin settled => Cancels(s) \subseteq cancelled'
<1>1. CASE entry[e] = None \/ status[entry[e]] = "waiting"
  BY <1>1 DEF StopExecution
<1>2. CASE entry[e] # None /\ status[entry[e]] # "waiting"
  <2> DEFINE o == entry[e]
  <2>1. o \in Runs
    BY <1>2 DEF IInv, TypeOK
  <2>2. Settle(o, pc) /\ cancelled' = cancelled \cup Cancels(o)
    BY <1>2 DEF StopExecution
  <2>3. AfterSettle(o, pc)
    <3>1. KeepsQueued(pc)
      BY DEF KeepsQueued, IInv, TypeOK
    <3> HIDE DEF o
    <3> QED BY <2>1, <2>2, <3>1, SettledFacts
  <2> QED BY <2>2, <2>3 DEF AfterSettle
<1> QED BY <1>1, <1>2


(* Every step keeps PlainSound. *)
LEMMA PlainStep ==
  ASSUME IInv, PlainSound, [Next]_vars
  PROVE  PlainSound'
<1> USE RunFacts DEF PlainSound, Plain, Untouched, Early
<1>1. CASE UNCHANGED vars
  BY <1>1 DEF vars, process, outside
<1>2. ASSUME NEW e \in Executions, Start(e) PROVE PlainSound'
  <2>1. pc[First(e)] = "idle" /\ First(e) \in Runs /\ pc' = [pc EXCEPT ![First(e)] = "created"]
    BY <1>2 DEF Start, Goto, IInv, RowsSound, First
  <2>2. \A r \in Runs : pc'[r] = pc[r] \/ (pc[r] = "idle" /\ pc'[r] = "created")
    BY <2>1 DEF IInv, TypeOK
  <2>3. UNCHANGED <<outcome, status, engineOf, settled, handled, timers, cancelled, stop>>
    BY <1>2 DEF Start, registry, outside
  <2> QED BY <2>2, <2>3 DEF IInv, TypeOK
<1>3. ASSUME NEW e \in Executions, Resume(e) PROVE PlainSound'
  BY <1>3 DEF Resume, FreshRun, RunsOf, Goto, registry, outside, IInv, TypeOK
<1>4. ASSUME NEW r \in Runs, Reserve(r) PROVE PlainSound'
  BY <1>4 DEF Reserve, Goto, registry, outside, IInv, TypeOK
<1>5. ASSUME NEW r \in Runs, MarkRunning(r) PROVE PlainSound'
  <2>1. CASE MayRun(r)
    <3>1. pc[r] = "reserved" /\ pc' = [pc EXCEPT ![r] = "marked"]
      BY <1>5, <2>1 DEF MarkRunning, Goto
    <3>2. UNCHANGED <<outcome, status, engineOf, settled, handled, timers, cancelled, stop>>
      BY <1>5 DEF MarkRunning, registry, outside
    <3> QED BY <3>1, <3>2 DEF IInv, TypeOK
  <2>2. CASE ~MayRun(r)
    <3>1. /\ pc' = [LetThrough(pc, Released(r)) EXCEPT ![r] = "refused"] /\ pc[r] = "reserved"
          /\ LosesOnly(Released(r))
      BY <1>5, <2>2, ReleaseFacts DEF MarkRunning, IInv
    <3>2. \A s \in Runs : pc'[s] = pc[s] \/ (pc[s] \in Pre /\ pc'[s] \in {"reserved", "refused"})
      BY <3>1, WaitingFacts DEF LetThrough, LosesOnly, IInv, TypeOK, Pre
    <3> QED BY <1>5, <3>2 DEF MarkRunning, registry, outside, IInv, TypeOK, Pre
  <2> QED BY <2>1, <2>2
<1>6. ASSUME NEW r \in Runs, Register(r) PROVE PlainSound'
  BY <1>6 DEF Register, Goto, registry, outside, IInv, TypeOK, CapacitySound, Early
<1>7. ASSUME NEW r \in Runs, FailExecution(r) PROVE PlainSound'
  BY <1>7 DEF FailExecution, Goto, registry, outside, IInv, TypeOK
<1>8. ASSUME NEW r \in Runs, AttachResponseFails(r) PROVE PlainSound'
  BY <1>8 DEF AttachResponseFails, Goto, registry, outside, IInv, TypeOK
<1>9. ASSUME NEW r \in Runs, RunMainProcess(r) PROVE PlainSound'
  BY <1>9 DEF RunMainProcess, Goto, registry, outside, IInv, TypeOK
<1>9a. ASSUME NEW r \in Runs, RunMainProcessFails(r) PROVE PlainSound'
  BY <1>9a DEF RunMainProcessFails, Goto, registry, outside, IInv, TypeOK
<1>10. ASSUME NEW r \in Runs, StartEngine(r) PROVE PlainSound'
  <2>1. /\ pc[r] = "starting" /\ pc' = [pc EXCEPT ![r] = "executing"]
        /\ entry[ExecutionOf(r)] \in {None, r}
        /\ r \notin settled => entry[ExecutionOf(r)] = r
    BY <1>10 DEF StartEngine, Goto, IInv, RegistrySound, CapacitySound, Owns, Busy
  <2> QED BY <1>10, <2>1 DEF StartEngine, outside, IInv, TypeOK
<1>11. ASSUME NEW r \in Runs, ProcessError(r) PROVE PlainSound'
  <2> DEFINE labels == [pc EXCEPT ![r] = "saving"]
  <2>1. /\ pc[r] = "starting" /\ FinalizeExecution(ExecutionOf(r), labels)
        /\ entry[ExecutionOf(r)] \in {None, r}
        /\ outcome' = [outcome EXCEPT ![r] = "error"]
        /\ UNCHANGED <<status, handled, timers, cancelled, stop>>
    BY <1>11 DEF ProcessError, outside, IInv, RegistrySound, Owns
  <2>2. KeepsQueued(labels)
    BY <2>1 DEF KeepsQueued, IInv, TypeOK, Labels
  <2>3. /\ \A s \in Runs : pc'[s] = labels[s] \/ (pc[s] = "queued" /\ pc'[s] = "reserved")
        /\ \A s \in settled' : s \in settled \/ s = r
        /\ \A s \in Runs : engineOf'[s] = engineOf[s] \/ status[s] = "waiting"
    <3> HIDE DEF labels
    <3>1. CASE entry[ExecutionOf(r)] = None
      BY <2>1, <3>1 DEF FinalizeExecution
    <3>2. CASE entry[ExecutionOf(r)] = r
      <4>1. AfterSettle(r, labels)
        BY <2>1, <2>2, <3>2, SettledFacts DEF FinalizeExecution
      <4> QED BY <4>1 DEF AfterSettle
    <3> QED BY <2>1, <3>1, <3>2
  <2>4. /\ \A s \in Runs : s # r => pc'[s] = pc[s] \/ (pc[s] = "queued" /\ pc'[s] = "reserved")
        /\ pc'[r] = "saving"
    BY <2>1, <2>3 DEF IInv, TypeOK
  <2>5. r \notin timers
    BY <2>1
  <2> QED BY <2>1, <2>3, <2>4, <2>5 DEF IInv, TypeOK
<1>12. ASSUME NEW r \in Runs, EndEngine(r) PROVE PlainSound'
  <2>1. /\ pc[r] \in {"executing", "parking"}
        /\ pc' = [pc EXCEPT ![r] = IF r \in cancelled THEN "saved" ELSE "saving"]
        /\ outcome' = [outcome EXCEPT ![r] = outcome'[r]]
        /\ outcome'[r] = "waiting" => pc[r] = "parking"
    BY <1>12 DEF EndEngine, Goto, Endings, IInv, TypeOK
  <2> QED BY <1>12, <2>1 DEF EndEngine, registry, outside, IInv, TypeOK
<1>13. ASSUME NEW r \in Runs, SaveResult(r) PROVE PlainSound'
  BY <1>13 DEF SaveResult, Goto, registry, outside, IInv, TypeOK
<1>14. ASSUME NEW r \in Runs, SaveCancelled(r) PROVE PlainSound'
  BY <1>14 DEF SaveCancelled, registry, outside
<1>15. ASSUME NEW r \in Runs, Finish(r) PROVE PlainSound'
  <2> DEFINE labels == [pc EXCEPT ![r] = "done"]
             e == ExecutionOf(r)
  <2>1. /\ pc[r] = "saved" /\ FinalizeExecution(e, labels) /\ timers' = timers \ {r}
        /\ UNCHANGED <<outcome, status, handled, cancelled, stop>>
    BY <1>15 DEF Finish, outside
  <2>2. KeepsQueued(labels)
    BY <2>1 DEF KeepsQueued, IInv, TypeOK, Labels
  <2>3. /\ \A s \in Runs : pc'[s] = labels[s] \/ (pc[s] = "queued" /\ pc'[s] = "reserved")
        /\ \A s \in settled' : s \in settled \/ s = entry[e]
        /\ \A s \in Runs : engineOf'[s] = engineOf[s] \/ status[s] = "waiting"
    <3> HIDE DEF labels
    <3>1. CASE entry[e] = None
      BY <2>1, <3>1 DEF FinalizeExecution
    <3>2. CASE entry[e] # None
      <4>1. entry[e] \in Runs /\ Settle(entry[e], labels)
        BY <2>1, <3>2 DEF FinalizeExecution, IInv, TypeOK
      <4>2. AfterSettle(entry[e], labels)
        BY <2>2, <4>1, SettledFacts
      <4> QED BY <4>2 DEF AfterSettle
    <3> QED BY <3>1, <3>2
  <2>4. /\ \A s \in Runs : s # r => pc'[s] = pc[s] \/ (pc[s] = "queued" /\ pc'[s] = "reserved")
        /\ pc'[r] = "done"
    BY <2>1, <2>3 DEF IInv, TypeOK
  (* A plain run that is finished owns its execution, so nobody else does. *)
  <2>5. ASSUME NEW s \in Runs, Plain(s), s = entry[e]
        PROVE  pc[s] \notin {"registered", "starting", "executing", "saving"}
    <3>1. ExecutionOf(s) = e
      BY <2>5 DEF IInv, RegistrySound
    <3>2. Owns(r)
      BY <2>1, <2>5, <3>1 DEF Owns
    <3> QED BY <2>1, <3>1, <3>2 DEF IInv, OneOwner, Owns
  <2> QED BY <2>1, <2>3, <2>4, <2>5 DEF IInv, TypeOK
<1>16. ASSUME NEW r \in Runs, PutExecutionToWait(r) PROVE PlainSound'
  <2>1. /\ pc[r] = "executing" /\ pc' = [pc EXCEPT ![r] = "parking"] /\ ~Plain(r)
        /\ status' = [status EXCEPT ![r] = "waiting"]
    BY <1>16 DEF PutExecutionToWait, Goto, IInv, RegistrySound, Owns
  <2> QED BY <1>16, <2>1 DEF PutExecutionToWait, outside, IInv, TypeOK
<1>17. ASSUME NEW r \in Runs, Timeout(r) PROVE PlainSound'
  <2> DEFINE e == ExecutionOf(r)
  <2>1. /\ StopExecution(e) /\ r \in timers /\ timers' = timers \ {r}
        /\ UNCHANGED <<outcome, status, handled, stop>>
    BY <1>17 DEF Timeout, outside
  <2>2. /\ \A s \in Runs : pc'[s] = pc[s] \/ (pc[s] = "queued" /\ pc'[s] = "reserved")
        /\ \A s \in settled' : s \in settled \/ s = entry[e]
        /\ \A s \in Runs : engineOf'[s] = engineOf[s] \/ status[s] = "waiting"
        /\ cancelled \subseteq cancelled'
        /\ \A s \in settled' : s \notin settled => Cancels(s) \subseteq cancelled'
    BY <2>1, StopExecutionPlain
  (* The timer of a plain run belongs to the registered run, whose engine  *)
  (* is attached and therefore cancelled.                                  *)
  <2>3. ASSUME NEW s \in Runs, Plain(s), s = entry[e], s \in settled', s \notin settled,
               pc[s] \in {"registered", "starting", "executing", "saving"}
        PROVE  ~Untouched(s)'
    <3>1. ExecutionOf(s) = e
      BY <2>3 DEF IInv, RegistrySound
    <3>2. Owns(r)
      BY <2>1, <2>3, <3>1 DEF Owns
    <3>3. s = r /\ pc[s] \in {"executing", "saving"}
      BY <2>1, <2>3, <3>1, <3>2 DEF IInv, OneOwner, Owns
    <3>4. Untouched(s) => s \in Cancels(s)
      BY <2>1, <2>3, <3>3 DEF Cancels, Pending
    <3> QED BY <2>1, <2>2, <2>3, <3>4
  <2> QED BY <2>1, <2>2, <2>3 DEF IInv, TypeOK
<1>18. ASSUME NEW e \in Executions, StopRead(e) PROVE PlainSound'
  BY <1>18 DEF StopRead, process, IInv, TypeOK
<1>19. ASSUME NEW e \in Executions, StopInRegularMode(e) PROVE PlainSound'
  <2>1. /\ stop' = [stop EXCEPT ![e] = "write"]
        /\ UNCHANGED <<outcome, status, handled, timers>>
    BY <1>19 DEF StopInRegularMode
  <2>2. CASE QueuedRuns(e) = {}
    <3>1. /\ \A s \in Runs : pc'[s] = pc[s] \/ (pc[s] = "queued" /\ pc'[s] = "reserved")
          /\ \A s \in settled' : s \in settled \/ s = entry[e]
          /\ \A s \in Runs : engineOf'[s] = engineOf[s] \/ status[s] = "waiting"
          /\ cancelled \subseteq cancelled'
      BY <1>19, <2>2, StopExecutionPlain DEF StopInRegularMode
    <3>2. \A s \in Runs : s = entry[e] => ExecutionOf(s) = e
      BY DEF IInv, RegistrySound
    <3> QED BY <2>1, <3>1, <3>2 DEF IInv, TypeOK
  <2>3. CASE QueuedRuns(e) # {}
    <3> DEFINE q == FirstQueued(e)
    <3>1. q \in Runs /\ Has(queue, q)
      BY <2>3, FirstQueuedFacts
    <3>2. /\ pc' = [LetThrough(pc, RemoveResolves(queue, q)) EXCEPT ![q] = "abandoned"]
          /\ UNCHANGED <<settled, engineOf, cancelled>>
      BY <1>19, <2>3 DEF StopInRegularMode, RemoveFromQueue
    <3>3. RemoveResolves(queue, q) \subseteq Waiting(queue)
      BY <3>1, QueueType, RemoveFacts DEF IInv, QueueSound
    <3> HIDE DEF q
    <3>4. \A s \in Runs : pc'[s] = pc[s]
            \/ (pc[s] = "queued" /\ pc'[s] \in {"reserved", "abandoned"})
      BY <3>1, <3>2, <3>3, WaitingFacts DEF LetThrough, Has, IInv
    <3> QED BY <2>1, <3>2, <3>4 DEF IInv, TypeOK
  <2> QED BY <2>2, <2>3
<1>20. ASSUME NEW e \in Executions, StopWrite(e) PROVE PlainSound'
  BY <1>20 DEF StopWrite, process, IInv, TypeOK
<1>21. CASE Shutdown \/ Exit \/ Crash
  BY <1>21 DEF Shutdown, Exit, Crash, process
<1>22. CASE Boot
  <2>1. /\ \A r \in Runs : pc'[r] \in {"idle", "created", "done", "refused", "lost"}
        /\ timers' = {} /\ handled' = {} /\ status' = [r \in Runs |-> "running"] /\ outcome' = outcome
    BY <1>22 DEF Boot, FreshProcess, Ended
  <2> QED BY <2>1
<1> QED BY <1>1, <1>2, <1>3, <1>4, <1>5, <1>6, <1>7, <1>8, <1>9, <1>10, <1>11, <1>12,
           <1>13, <1>14, <1>15, <1>16, <1>17, <1>18, <1>19, <1>20, <1>21, <1>22, <1>9a
        DEF Next, RunStep

(* The invariant of the runs without a wait holds in every reachable state. *)
THEOREM PlainInvariance == Spec => [](IInv /\ PlainSound)
<1>1. Init => PlainSound
  BY DEF Init, PlainSound
<1>2. IInv /\ PlainSound /\ [Next]_vars => PlainSound'
  BY PlainStep
<1> QED BY <1>1, <1>2, Invariance, PTL DEF Spec

(* The engine of a plain run that nobody stopped and no timeout cancelled  *)
(* is found by the execution's id, until the process is restarted.         *)
LEMMA PlainEngineIsRegistered ==
  ASSUME IInv, PlainSound, NEW r \in Runs, Plain(r), Untouched(r), pc[r] \in Working
  PROVE  entry[ExecutionOf(r)] # None /\ engineOf[entry[ExecutionOf(r)]] = r
<1>1. pc[r] = "executing" /\ r \notin settled /\ engineOf[r] = r
  BY DEF PlainSound, Working
<1>2. entry[ExecutionOf(r)] = r
  BY <1>1 DEF IInv, CapacitySound, Busy
<1> QED BY <1>1, <1>2, RunFacts

(* Without waits, a working engine of an execution nobody stopped is       *)
(* attached to the entry registered under the execution's id.              *)
THEOREM WorkingEnginesAreFound ==
  ASSUME CanWait = {}
  PROVE  Spec => []WorkingEngineIsRegistered
<1>1. IInv /\ PlainSound => WorkingEngineIsRegistered
  BY PlainEngineIsRegistered DEF WorkingEngineIsRegistered, Plain, Untouched
<1> QED BY <1>1, PlainInvariance, PTL

(* shutdown's loop lets the process exit only when every registered run of *)
(* a workflow without a wait has saved its result, or was stopped or timed *)
(* out, or is in processError, which settles before it saves.              *)
THEOREM ShutdownWaits == Spec => ShutdownWaitsForResults
<1>1. ASSUME IInv, PlainSound, Exit, NEW r \in Runs, ExecutionOf(r) \notin CanWait,
             pc[r] \in {"registered", "starting", "executing", "parking", "saving"}
      PROVE  \/ stop[ExecutionOf(r)] \in {"write", "done"}
             \/ r \in cancelled
             \/ pc[r] = "saving" /\ r \notin handled
  <2>1. \A e \in Executions : entry[e] = None
    BY <1>1 DEF Exit, Drained, Registered
  <2>2. Busy(r)
    BY <1>1 DEF PlainSound, Plain, Busy
  <2>3. r \in settled
    BY <1>1, <2>1, <2>2, RunFacts DEF IInv, CapacitySound
  <2> QED BY <1>1, <2>3 DEF PlainSound, Plain, Untouched
<1>2. IInv /\ PlainSound =>
        [Exit => \A r \in Runs :
           /\ ExecutionOf(r) \notin CanWait
           /\ pc[r] \in {"registered", "starting", "executing", "parking", "saving"}
           => \/ stop[ExecutionOf(r)] \in {"write", "done"}
              \/ r \in cancelled
              \/ pc[r] = "saving" /\ r \notin handled]_vars
  BY <1>1
<1> QED BY <1>2, PlainInvariance, PTL DEF ShutdownWaitsForResults
=============================================================================
