-------------------------- MODULE ActiveExecutions --------------------------
(***************************************************************************)
(* The life of production executions in one regular-mode main process:     *)
(* WorkflowRunner.run, ActiveExecutions, the capacity reservation each run *)
(* holds, the engine's final save, ExecutionService.stop, resuming after a *)
(* wait, shutdown, and a restart of the process.                           *)
(*                                                                         *)
(* An execution is a database row.  A run is one call of                   *)
(* WorkflowRunner.run for it: the first creates the row, later ones resume *)
(* it.  Code between two awaits is one step; promise callbacks that run as *)
(* microtasks belong to the step that settles the promise.                 *)
(***************************************************************************)
EXTENDS ConcurrencyQueue

CONSTANTS
  Executions,   \* executions started during the behaviour
  MaxRuns,      \* bound: runs per execution (first run and resumes)
  Limit,        \* executions.concurrency.productionLimit
  CanWait,      \* executions whose workflow contains a wait
  CanStop,      \* executions a user asks to stop (once each)
  Timeouts,     \* whether executions have a timeout
  MaxBoots      \* bound: how often the process is started again

ASSUME BoundsType ==
  /\ MaxRuns \in Nat \ {0}
  /\ Limit \in Nat \ {0}
  /\ MaxBoots \in Nat
ASSUME ChoicesType ==
  /\ CanWait \subseteq Executions
  /\ CanStop \subseteq Executions
  /\ Timeouts \in BOOLEAN

Runs == Executions \X (1..MaxRuns)

ExecutionOf(r) == r[1]

None == <<>>

RunsOf(e) == {r \in Runs : ExecutionOf(r) = e}

VARIABLES
  db,         \* the status column of each execution's row, "none" without a row
  pc,         \* how far each run has come
  outcome,    \* the status a run's final save will write
  queue,      \* the production queue, holding runs
  isEnabled,  \* the flag of the concurrency control service
  held,       \* runs with an acquired, unreleased reservation
  entry,      \* activeExecutions: the run registered under an execution id
  status,     \* the status field of each run's entry
  engineOf,   \* entry.workflowExecution: the engine attached to a run's entry
  settled,    \* runs whose postExecutePromise is settled
  handled,    \* runs whose engine result is followed by finalizeExecution
  timers,     \* runs with an armed timeout
  cancelled,  \* runs whose engine was cancelled
  cancelSaves,\* cancelled engines whose onCancel hook has not saved yet
  stop,       \* progress of ExecutionService.stop for each execution
  phase,      \* "up", "draining" (shutdown called) or "down"
  boots       \* restarts so far

process == <<pc, outcome, queue, isEnabled, held, entry, status, engineOf,
             settled, handled, timers, cancelled, cancelSaves>>
registry == <<entry, status, engineOf, settled>>
capacity == <<queue, held>>
engines == <<outcome, handled, timers, cancelled, cancelSaves>>
outside == <<stop, phase, boots>>
vars == <<db, process, outside>>

Final == {"success", "error", "canceled"}

FreshProcess ==
  /\ queue' = NewQueue(Limit)
  /\ isEnabled' = TRUE
  /\ held' = {}
  /\ entry' = [e \in Executions |-> None]
  /\ status' = [r \in Runs |-> "running"]
  /\ engineOf' = [r \in Runs |-> None]
  /\ settled' = {}
  /\ handled' = {}
  /\ timers' = {}
  /\ cancelled' = {}
  /\ cancelSaves' = {}

Init ==
  /\ db = [e \in Executions |-> "none"]
  /\ pc = [r \in Runs |-> "idle"]
  /\ outcome = [r \in Runs |-> "none"]
  /\ queue = NewQueue(Limit)
  /\ isEnabled = TRUE
  /\ held = {}
  /\ entry = [e \in Executions |-> None]
  /\ status = [r \in Runs |-> "running"]
  /\ engineOf = [r \in Runs |-> None]
  /\ settled = {}
  /\ handled = {}
  /\ timers = {}
  /\ cancelled = {}
  /\ cancelSaves = {}
  /\ stop = [e \in Executions |-> "idle"]
  /\ phase = "up"
  /\ boots = 0

Alive == phase # "down"

Goto(r, label) == pc' = [pc EXCEPT ![r] = label]

Write(e, s) == db' = [db EXCEPT ![e] = s]

(* The first run of an execution that has not been used yet. *)
FreshRun(e, r) ==
  r \in RunsOf(e) /\ pc[r] = "idle" /\ \A k \in 1..(r[2] - 1) : pc[<<e, k>>] # "idle"

IsFirst(r) == r[2] = 1

-----------------------------------------------------------------------------
(***************************************************************************)
(* ActiveExecutions.add                                                    *)
(***************************************************************************)

(* A new execution: executionPersistence.create writes the row. *)
Start(e) ==
  /\ Alive
  /\ db[e] = "none"
  /\ Write(e, "new")
  /\ Goto(<<e, 1>>, "created")
  /\ UNCHANGED <<outcome, queue, isEnabled, held, registry, handled, timers,
                 cancelled, cancelSaves, outside>>

(* Resuming a waiting execution (wait timer, waiting webhook, finished     *)
(* child): the caller has read a row that is not finished.                 *)
Resume(e) ==
  /\ Alive
  /\ db[e] \in {"running", "waiting", "error", "canceled"}
  /\ e \in CanWait
  /\ \E r \in RunsOf(e) : FreshRun(e, r) /\ Goto(r, "created")
  /\ UNCHANGED <<db, outcome, queue, isEnabled, held, registry, handled, timers,
                 cancelled, cancelSaves, outside>>

(* capacityReservation.reserve, i.e. throttle. *)
Reserve(r) ==
  /\ Alive
  /\ pc[r] = "created"
  /\ queue' = IF isEnabled THEN Enqueue(queue, r) ELSE queue
  /\ IF isEnabled /\ MustWait(queue)
     THEN Goto(r, "queued") /\ UNCHANGED held
     ELSE Goto(r, "reserved") /\ held' = held \cup {r}
  /\ UNCHANGED <<db, outcome, isEnabled, registry, handled, timers, cancelled,
                 cancelSaves, outside>>

(* A released reservation lets the head of the queue through, unless the   *)
(* service is disabled.                                                    *)
Released(r) == IF r \in held /\ isEnabled THEN Resolved(queue) ELSE {}

Release(r) ==
  /\ held' = (held \ {r}) \cup Released(r)
  /\ queue' = IF r \in held /\ isEnabled THEN Dequeue(queue) ELSE queue

LetThrough(labels, R) ==
  [r \in Runs |-> IF r \in R THEN "reserved" ELSE labels[r]]

(* Mutant: the resume does not require the row to be waiting. *)
MayRunAlways(r) == TRUE

(* setRunning is unconditional; a resume only takes over a waiting row. *)
MayRun(r) == IsFirst(r) \/ db[ExecutionOf(r)] = "waiting"

MarkRunning(r) ==
  /\ Alive
  /\ pc[r] = "reserved"
  /\ IF MayRun(r)
     THEN /\ Write(ExecutionOf(r), "running")
          /\ Goto(r, "marked")
          /\ UNCHANGED capacity
     ELSE /\ Release(r)
          /\ pc' = [LetThrough(pc, Released(r)) EXCEPT ![r] = "refused"]
          /\ UNCHANGED db
  /\ UNCHANGED <<outcome, isEnabled, registry, handled, timers, cancelled,
                 cancelSaves, outside>>

(* The entry is stored under the execution id, replacing whatever entry    *)
(* is there.                                                               *)
Register(r) ==
  /\ Alive
  /\ pc[r] = "marked"
  /\ Goto(r, "registered")
  /\ entry' = [entry EXCEPT ![ExecutionOf(r)] = r]
  /\ UNCHANGED <<db, outcome, queue, isEnabled, held, status, engineOf, settled,
                 handled, timers, cancelled, cancelSaves, outside>>

-----------------------------------------------------------------------------
(***************************************************************************)
(* Settling the postExecutePromise of run o, with its `finally`: release   *)
(* the reservation, then drop the entry of this id, unless o waits.        *)
(***************************************************************************)

(* Mutant: `finally` does not release the reservation. *)
SettleKeepsCapacity(o, labels) ==
  /\ settled' = settled \cup {o}
  /\ UNCHANGED capacity
  /\ pc' = labels
  /\ entry' = [entry EXCEPT ![ExecutionOf(o)] = None]
  /\ UNCHANGED engineOf

(* Mutant: `finally` keeps every entry, not only waiting ones. *)
SettleKeepsEntry(o, labels) ==
  /\ settled' = settled \cup {o}
  /\ Release(o)
  /\ pc' = LetThrough(labels, Released(o))
  /\ UNCHANGED <<entry, engineOf>>

Settle(o, labels) ==
  IF o \in settled
  THEN pc' = labels /\ UNCHANGED <<settled, held, queue, entry, engineOf>>
  ELSE /\ settled' = settled \cup {o}
       /\ Release(o)
       /\ pc' = LetThrough(labels, Released(o))
       /\ IF status[o] = "waiting"
          THEN engineOf' = [engineOf EXCEPT ![o] = None] /\ UNCHANGED entry
          ELSE entry' = [entry EXCEPT ![ExecutionOf(o)] = None] /\ UNCHANGED engineOf

(* finalizeExecution(executionId) *)
FinalizeExecution(e, labels) ==
  IF entry[e] = None
  THEN pc' = labels /\ UNCHANGED <<settled, held, queue, entry, engineOf>>
  ELSE Settle(entry[e], labels)

(* Engines whose promise is still pending can be cancelled. *)
Pending(g) == pc[g] \in {"executing", "parking", "saving", "saved"}

(* The engine the entry of run o would cancel. *)
Cancels(o) ==
  {g \in {engineOf[o]} \ {None} : Pending(g) /\ g \notin cancelled}

(* stopExecution(executionId): a waiting entry is only deleted; any other  *)
(* has its engine cancelled (onCancel starts a save of its own) and its    *)
(* promise rejected.                                                       *)
StopExecution(e) ==
  IF entry[e] = None
  THEN UNCHANGED <<pc, settled, held, queue, entry, engineOf, cancelled, cancelSaves>>
  ELSE LET o == entry[e]
       IN  IF status[o] = "waiting"
           THEN /\ entry' = [entry EXCEPT ![e] = None]
                /\ UNCHANGED <<pc, settled, held, queue, engineOf, cancelled,
                               cancelSaves>>
           ELSE /\ cancelled' = cancelled \cup Cancels(o)
                /\ cancelSaves' = cancelSaves \cup Cancels(o)
                /\ Settle(o, pc)

-----------------------------------------------------------------------------
(***************************************************************************)
(* WorkflowRunner.run after add                                            *)
(***************************************************************************)

(* Masking or the credentials check failed: failExecution saves an error   *)
(* and finalizes.                                                          *)
FailExecution(r) ==
  /\ Alive
  /\ pc[r] = "registered"
  /\ Goto(r, "saving")
  /\ outcome' = [outcome EXCEPT ![r] = "error"]
  /\ handled' = handled \cup {r}
  /\ UNCHANGED <<db, capacity, isEnabled, registry, timers, cancelled, cancelSaves,
                 outside>>

(* attachResponsePromise finds no entry: the call of run() fails. *)
AttachResponseFails(r) ==
  /\ Alive
  /\ pc[r] = "registered"
  /\ entry[ExecutionOf(r)] = None
  /\ Goto(r, "refused")
  /\ UNCHANGED <<db, outcome, capacity, isEnabled, registry, handled, timers,
                 cancelled, cancelSaves, outside>>

(* runMainProcess marks the row as running once more. *)
RunMainProcess(r) ==
  /\ Alive
  /\ pc[r] = "registered"
  /\ Goto(r, "starting")
  /\ Write(ExecutionOf(r), "running")
  /\ UNCHANGED <<outcome, capacity, isEnabled, registry, handled, timers, cancelled,
                 cancelSaves, outside>>

(* Loading static data, getBase or that write fails, outside the `try` of  *)
(* runMainProcess: run() rejects, and nobody settles the entry.            *)
RunMainProcessFails(r) ==
  /\ Alive
  /\ pc[r] = "registered"
  /\ Goto(r, "rejected")
  /\ UNCHANGED <<db, outcome, capacity, isEnabled, registry, handled, timers, cancelled,
                 cancelSaves, outside>>

(* Mutant: attachWorkflowExecution is forgotten. *)
StartEngineUnattached(r) ==
  /\ Alive
  /\ pc[r] = "starting"
  /\ Goto(r, "executing")
  /\ handled' = handled \cup {r}
  /\ UNCHANGED <<db, outcome, capacity, isEnabled, registry, timers, cancelled,
                 cancelSaves, outside>>

(* The engine starts.  Without an entry attachWorkflowExecution throws,    *)
(* and the engine that is already running gets no handler.                 *)
StartEngine(r) ==
  LET o == entry[ExecutionOf(r)]
  IN  /\ Alive
      /\ pc[r] = "starting"
      /\ Goto(r, "executing")
      /\ IF o = None
         THEN UNCHANGED <<engineOf, handled, timers>>
         ELSE /\ engineOf' = [engineOf EXCEPT ![o] = r]
              /\ handled' = handled \cup {r}
              /\ timers' = IF Timeouts THEN timers \cup {r} ELSE timers
      /\ UNCHANGED <<db, outcome, capacity, isEnabled, entry, status, settled,
                     cancelled, cancelSaves, outside>>

(* The engine cannot be built (workflow issues): processError finalizes    *)
(* first and saves the error afterwards.                                   *)
ProcessError(r) ==
  /\ Alive
  /\ pc[r] = "starting"
  /\ FinalizeExecution(ExecutionOf(r), [pc EXCEPT ![r] = "saving"])
  /\ outcome' = [outcome EXCEPT ![r] = "error"]
  /\ UNCHANGED <<db, isEnabled, status, handled, timers, cancelled, cancelSaves,
                 outside>>

(* A timeout stops whatever run is registered under the execution id. *)
Timeout(r) ==
  /\ Alive
  /\ r \in timers
  /\ timers' = timers \ {r}
  /\ StopExecution(ExecutionOf(r))
  /\ UNCHANGED <<db, outcome, isEnabled, status, handled, outside>>

-----------------------------------------------------------------------------
(***************************************************************************)
(* The engine                                                              *)
(***************************************************************************)

(* putExecutionToWait sets the status of the registered entry. *)
PutExecutionToWait(r) ==
  /\ Alive
  /\ pc[r] = "executing"
  /\ r \notin cancelled
  /\ ExecutionOf(r) \in CanWait
  /\ entry[ExecutionOf(r)] # None
  /\ Goto(r, "parking")
  /\ status' = [status EXCEPT ![entry[ExecutionOf(r)]] = "waiting"]
  /\ UNCHANGED <<db, outcome, capacity, isEnabled, entry, engineOf, settled, handled,
                 timers, cancelled, cancelSaves, outside>>

(* How an engine can end: a soft timeout counts as cancelled. *)
Endings(r) ==
  IF r \in cancelled THEN {"canceled"}
  ELSE IF pc[r] = "parking" THEN {"waiting"}
  ELSE {"success", "error"} \cup (IF Timeouts THEN {"canceled"} ELSE {})

(* The node loop is over; a cancelled engine does not save again. *)
EndEngine(r) ==
  /\ Alive
  /\ pc[r] \in {"executing", "parking"}
  /\ \E s \in Endings(r) : outcome' = [outcome EXCEPT ![r] = s]
  /\ Goto(r, IF r \in cancelled THEN "saved" ELSE "saving")
  /\ UNCHANGED <<db, capacity, isEnabled, registry, handled, timers, cancelled,
                 cancelSaves, outside>>

(* The workflowExecuteAfter hook of a finished run writes its outcome. *)
SaveResult(r) ==
  /\ Alive
  /\ pc[r] = "saving"
  /\ Write(ExecutionOf(r), outcome[r])
  /\ Goto(r, IF r \in handled THEN "saved" ELSE "done")
  /\ UNCHANGED <<outcome, capacity, isEnabled, registry, handled, timers, cancelled,
                 cancelSaves, outside>>

(* The same hook, started by onCancel. *)
SaveCancelled(r) ==
  /\ Alive
  /\ r \in cancelSaves
  /\ cancelSaves' = cancelSaves \ {r}
  /\ Write(ExecutionOf(r), "canceled")
  /\ UNCHANGED <<pc, outcome, capacity, isEnabled, registry, handled, timers, cancelled,
                 outside>>

(* The engine's promise resolves: finalizeExecution by execution id. *)
Finish(r) ==
  /\ Alive
  /\ pc[r] = "saved"
  /\ FinalizeExecution(ExecutionOf(r), [pc EXCEPT ![r] = "done"])
  /\ timers' = timers \ {r}
  /\ UNCHANGED <<db, outcome, isEnabled, status, handled, cancelled, cancelSaves,
                 outside>>

-----------------------------------------------------------------------------
(***************************************************************************)
(* ExecutionService.stop in regular mode                                   *)
(***************************************************************************)

StopRead(e) ==
  /\ Alive
  /\ e \in CanStop
  /\ stop[e] = "idle"
  /\ db[e] \in {"new", "waiting", "running"}
  /\ stop' = [stop EXCEPT ![e] = "read"]
  /\ UNCHANGED <<db, process, phase, boots>>

(* `has` sees no queue while the service is disabled. *)
QueuedRuns(e) == {r \in RunsOf(e) : isEnabled /\ Has(queue, r)}

(* The run whose queue element has this execution id and comes first. *)
FirstQueued(e) ==
  CHOOSE r \in QueuedRuns(e) :
    \A s \in QueuedRuns(e) : FindIndex(queue, r) <= FindIndex(queue, s)

RemoveFromQueue(e) ==
  LET r == FirstQueued(e)
      R == RemoveResolves(queue, r)
  IN  /\ queue' = Remove(queue, r)
      /\ held' = held \cup R
      /\ pc' = [LetThrough(pc, R) EXCEPT ![r] = "abandoned"]
      /\ UNCHANGED <<settled, entry, engineOf, cancelled, cancelSaves>>

StopInRegularMode(e) ==
  /\ Alive
  /\ stop[e] = "read"
  /\ stop' = [stop EXCEPT ![e] = "write"]
  /\ IF QueuedRuns(e) # {} THEN RemoveFromQueue(e) ELSE StopExecution(e)
  /\ UNCHANGED <<db, outcome, isEnabled, status, handled, timers, phase, boots>>

(* stopBeforeRun or stopDuringRun; both write unconditionally. *)
StopWrite(e) ==
  /\ Alive
  /\ stop[e] = "write"
  /\ stop' = [stop EXCEPT ![e] = "done"]
  /\ Write(e, "canceled")
  /\ UNCHANGED <<process, phase, boots>>

-----------------------------------------------------------------------------
(***************************************************************************)
(* Shutdown, crash and restart                                             *)
(***************************************************************************)

(* ActiveExecutions.shutdown up to its waiting loop; concurrencyControl    *)
(* .removeAll returns at once because disable came first.                  *)
Shutdown ==
  /\ phase = "up"
  /\ phase' = "draining"
  /\ isEnabled' = FALSE
  /\ entry' = [e \in Executions |->
                 IF entry[e] # None /\ status[entry[e]] = "waiting"
                 THEN None ELSE entry[e]]
  /\ UNCHANGED <<db, pc, outcome, capacity, status, engineOf, settled, handled,
                 timers, cancelled, cancelSaves, stop, boots>>

Registered == {e \in Executions : entry[e] # None}

(* Mutant: the loop does not look at the entries again. *)
DrainedAlways == TRUE

Drained == Registered = {}

(* The loop ends and the process exits. *)
Exit ==
  /\ phase = "draining"
  /\ Drained
  /\ phase' = "down"
  /\ UNCHANGED <<db, process, stop, boots>>

Crash ==
  /\ Alive
  /\ boots < MaxBoots
  /\ phase' = "down"
  /\ UNCHANGED <<db, process, stop, boots>>

Ended == {"idle", "done", "refused"}

Enqueued(r) == db[ExecutionOf(r)] = "new" /\ FreshRun(ExecutionOf(r), r)

(* A new process; runEnqueuedExecutions passes every row that is still new *)
(* to WorkflowRunner.run with its id.                                      *)
Boot ==
  /\ phase = "down"
  /\ boots < MaxBoots
  /\ phase' = "up"
  /\ boots' = boots + 1
  /\ FreshProcess
  /\ pc' = [r \in Runs |-> IF Enqueued(r) THEN "created"
                           ELSE IF pc[r] \in Ended THEN pc[r] ELSE "lost"]
  /\ stop' = [e \in Executions |-> IF stop[e] = "idle" THEN "idle" ELSE "done"]
  /\ UNCHANGED <<db, outcome>>

RunStep(r) ==
  \/ Reserve(r) \/ MarkRunning(r) \/ Register(r)
  \/ FailExecution(r) \/ AttachResponseFails(r)
  \/ RunMainProcess(r) \/ RunMainProcessFails(r)
  \/ StartEngine(r) \/ ProcessError(r)
  \/ EndEngine(r) \/ SaveResult(r) \/ SaveCancelled(r) \/ Finish(r)

Next ==
  \/ \E e \in Executions : Start(e) \/ Resume(e)
  \/ \E r \in Runs : RunStep(r) \/ PutExecutionToWait(r) \/ Timeout(r)
  \/ \E e \in Executions : StopRead(e) \/ StopInRegularMode(e) \/ StopWrite(e)
  \/ Shutdown \/ Exit \/ Crash \/ Boot

(***************************************************************************)
(* The event loop keeps serving every run and every accepted stop request, *)
(* nodes end, and the shutdown loop polls; nobody has to start, resume,    *)
(* ask for a stop, time out or crash.                                      *)
(***************************************************************************)
Fairness ==
  /\ \A r \in Runs : WF_vars(RunStep(r))
  /\ \A e \in Executions : WF_vars(StopInRegularMode(e) \/ StopWrite(e))
  /\ WF_vars(Exit)

Spec == Init /\ [][Next]_vars

FairSpec == Spec /\ Fairness

-----------------------------------------------------------------------------
(***************************************************************************)
(* Properties                                                              *)
(***************************************************************************)

Labels == {"idle", "created", "queued", "reserved", "marked", "registered",
           "starting", "executing", "parking", "saving", "saved", "done",
           "refused", "rejected", "abandoned", "lost"}

(* The type invariant: rows, runs and the fields of the services. *)
TypeOK ==
  /\ db \in [Executions -> Final \cup {"none", "new", "running", "waiting"}]
  /\ pc \in [Runs -> Labels]
  /\ outcome \in [Runs -> Final \cup {"none", "waiting"}]
  /\ queue \in [capacity : Int, queue : Seq(Runs)]
  /\ isEnabled \in BOOLEAN
  /\ entry \in [Executions -> Runs \cup {None}]
  /\ status \in [Runs -> {"running", "waiting"}]
  /\ engineOf \in [Runs -> Runs \cup {None}]
  /\ held \cup settled \cup handled \cup timers \cup cancelled \cup cancelSaves
       \subseteq Runs
  /\ stop \in [Executions -> {"idle", "read", "write", "done"}]
  /\ phase \in {"up", "draining", "down"}
  /\ boots \in 0..MaxBoots

Working == {"executing", "parking"}

(* Two runs of one execution never work on it at the same time, whatever   *)
(* resumes race with each other, with a stop and with the previous run's   *)
(* clean-up: only the run that turns the row from waiting to running gets  *)
(* through (add, requireStatus).                                           *)
SingleEngine ==
  Alive => \A r, s \in Runs :
    ExecutionOf(r) = ExecutionOf(s) /\ pc[r] \in Working /\ pc[s] \in Working => r = s

(* A run that is over and did not end in a wait has returned its capacity, *)
(* on every path: success, error, failed pre-flight checks, an engine that *)
(* cannot be built, timeout, stop before and after the engine is attached. *)
(* Two ways of losing a slot are exempt.  A stop between                   *)
(* putExecutionToWait and finalizeExecution of a run that ends in a wait   *)
(* only deletes the entry (active-executions.ts:228); and a run that       *)
(* RunMainProcessFails has rejected keeps its slot until somebody stops    *)
(* the execution.                                                          *)
CapacityReturned ==
  Alive => \A r \in held : pc[r] \in {"done", "refused"} => outcome[r] = "waiting"

(* An engine that works for an execution nobody stopped can be found by    *)
(* the execution's id (stopExecution, shutdown): it is attached to the     *)
(* entry registered there.                                                 *)
WorkingEngineIsRegistered ==
  phase = "up" => \A r \in Runs :
    pc[r] \in Working /\ r \notin cancelled /\ stop[ExecutionOf(r)] = "idle" =>
      entry[ExecutionOf(r)] # None /\ engineOf[entry[ExecutionOf(r)]] = r

(* shutdown: "Wait for all active executions to finish"                    *)
(* (active-executions.ts:324).  When the loop lets the process exit, every *)
(* run that was registered, of a workflow without a wait, has saved its    *)
(* result, unless it was stopped or timed out (its last save is not        *)
(* awaited) or processError is about to save its error: it settles the     *)
(* promise, and so removes the entry, before it saves                      *)
(* (workflow-runner.ts:156-158).                                           *)
ShutdownWaitsForResults ==
  [][Exit => \A r \in Runs :
       /\ ExecutionOf(r) \notin CanWait
       /\ pc[r] \in {"registered", "starting", "executing", "parking", "saving"}
       => \/ stop[ExecutionOf(r)] \in {"write", "done"}
          \/ r \in cancelled
          \/ pc[r] = "saving" /\ r \notin handled]_vars

(* shutdown's loop ends: every execution that is active when shutdown is   *)
(* called finishes and leaves the registry, unless the entry of a rejected *)
(* run is still there (RunMainProcessFails).                               *)
ShutdownEnds ==
  (phase = "draining") ~>
    (phase = "down" \/ \E r \in Runs : pc[r] = "rejected" /\ entry[ExecutionOf(r)] = r)

(* Every started execution gets a final status, or the process goes down:  *)
(* no execution is left in the queue or in the registry by the stops,      *)
(* timeouts and failures of the others.  The exceptions are an execution   *)
(* whose run was rejected, and those that wait for the slot of such a run. *)
EveryExecutionSettles ==
  \A e \in Executions : (db[e] = "new") ~>
    \/ db[e] \in Final \/ phase # "up"
    \/ \E r \in Runs : pc[r] = "rejected" /\ (ExecutionOf(r) = e \/ r \in held)

(* "start running any such executions concurrently up to the concurrency   *)
(* limit" (commands/start.ts:461): the run of an execution that was        *)
(* enqueued at shutdown is not turned away at start-up.                    *)
EnqueuedAreRun ==
  [][\A r \in Runs :
       pc[r] = "reserved" /\ db[ExecutionOf(r)] = "new" => pc'[r] # "refused"]_vars
=============================================================================
