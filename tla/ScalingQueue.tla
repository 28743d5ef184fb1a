---------------------------- MODULE ScalingQueue ----------------------------
(***************************************************************************)
(* Queue mode: WorkflowRunner.enqueueExecution of a main instance,         *)
(* ScalingService and JobProcessor of the workers                          *)
(* (packages/cli/src/scaling), the stop requests of ExecutionService and   *)
(* the recovery of dangling executions by the leader, around a Bull queue. *)
(*                                                                         *)
(* Every step ends where the code awaits the database, Redis or the        *)
(* engine.  The queue keeps one job per execution; Bull never hands a job  *)
(* out twice since maxStalledCount is 0.  Rows are their status.           *)
(***************************************************************************)
EXTENDS Naturals, FiniteSets

CONSTANTS
  Executions,
  Workers,
  MaxCrashes,      \* bound: workers and main instances that die
  MaxFalseStalls,  \* bound: jobs taken for stalled although their worker lives
  None             \* no worker

ASSUME QueueConstants ==
  MaxCrashes \in Nat /\ MaxFalseStalls \in Nat /\ None \notin Workers

VARIABLES
  row,         \* status of the execution in the database, "none" before it exists
  caller,      \* the post-execute promise: "none", "open" or what it was told
  main,        \* where enqueueExecution of the main instance stands
  job,         \* state of the job: one of JobStates
  worker,      \* the worker that processes the job
  proc,        \* where processJob stands
  outcome,     \* how the engine ended
  starts,      \* how often the engine was started
  cancelSave,  \* executions whose cancelled engine has still to save its row
  aborts,      \* abort-job messages on their way to the workers
  stop,        \* where a stop request stands
  cancelling,  \* where the onCancel handler of the main instance stands
  recovery,    \* where recoverFromQueue stands and the ids it holds
  crashes, falseStalls

mainVars == <<caller, main>>
workerVars == <<worker, proc, outcome, starts, cancelSave>>
stopVars == <<stop, cancelling, aborts>>
faultVars == <<crashes, falseStalls>>
vars == <<row, mainVars, job, workerVars, stopVars, recovery, faultVars>>

Final == {"success", "error", "canceled", "crashed"}
Statuses == {"none", "new", "running"} \cup Final
Outcomes == {"success", "error", "canceled"}
Failures == {"stalled", "cancelled", "errored"}
JobStates == {"none", "waiting", "active", "completed", "removed"} \cup Failures
Queued == {"waiting", "active"}

Init ==
  /\ row = [e \in Executions |-> "none"]
  /\ caller = [e \in Executions |-> "none"]
  /\ main = [e \in Executions |-> "idle"]
  /\ job = [e \in Executions |-> "none"]
  /\ worker = [e \in Executions |-> None]
  /\ proc = [e \in Executions |-> "none"]
  /\ outcome = [e \in Executions |-> "none"]
  /\ starts = [e \in Executions |-> 0]
  /\ cancelSave = {} /\ aborts = {}
  /\ stop = [e \in Executions |-> "none"]
  /\ cancelling = [e \in Executions |-> "none"]
  /\ recovery = [at |-> "idle", ids |-> {}]
  /\ crashes = 0 /\ falseStalls = 0

Set(f, e, v) == [f EXCEPT ![e] = v]

(* finalizeExecution, or the rejection by stopExecution: the promise is    *)
(* settled once and the entry leaves the active executions.                *)
Tell(e, v) == caller' = IF caller[e] = "open" THEN Set(caller, e, v) ELSE caller

-----------------------------------------------------------------------------
(***************************************************************************)
(* Main instance: enqueueExecution                                         *)
(***************************************************************************)

(* add creates the row and the entry; in queue mode nothing is reserved.   *)
Create(e) ==
  /\ main[e] = "idle"
  /\ main' = Set(main, e, "created")
  /\ row' = Set(row, e, "new")
  /\ caller' = Set(caller, e, "open")
  /\ UNCHANGED <<job, workerVars, stopVars, recovery, faultVars>>

AddJob(e) ==
  /\ main[e] = "created"
  /\ main' = Set(main, e, "enqueued")
  /\ job' = Set(job, e, "waiting")
  /\ UNCHANGED <<row, caller, workerVars, stopVars, recovery, faultVars>>

(* The job cannot be added: processError settles the promise and the       *)
(* worker's hooks save the error.                                          *)
AddJobFails(e) ==
  /\ main[e] = "created"
  /\ main' = Set(main, e, "done")
  /\ Tell(e, "error")
  /\ row' = Set(row, e, "error")
  /\ UNCHANGED <<job, workerVars, stopVars, recovery, faultVars>>

(* Mutant: the sanity check takes every row for a false positive. *)
FalsePositiveAlways(e) == TRUE

(* The sanity check of processError *)
FalsePositive(e) == row[e] = "success"

(* A workflowExecuteBefore hook throws after the job was added: the same   *)
(* catch begins processError, and nobody watches the job, which stays.     *)
BeforeHookFails(e) ==
  /\ main[e] = "enqueued"
  /\ main' = Set(main, e, IF FalsePositive(e) THEN "positive" ELSE "erring")
  /\ UNCHANGED <<row, caller, job, workerVars, stopVars, recovery, faultVars>>

(* After the workflowExecuteBefore hooks the job is watched.  When the     *)
(* entry is gone attachWorkflowExecution throws, but the promise that      *)
(* watches the job exists by then; it merely cannot be cancelled.          *)
Attach(e) ==
  /\ main[e] = "enqueued"
  /\ main' = Set(main, e, "watching")
  /\ UNCHANGED <<row, caller, job, workerVars, stopVars, recovery, faultVars>>

(* job.finished() resolves: the row is read, or the status in the worker's *)
(* job-finished message is taken if it arrived and suffices (that is, with *)
(* N8N_MINIMIZE_EXECUTION_DATA_FETCHING and no need for the full data).    *)
JobFinished(e) ==
  /\ main[e] = "watching" /\ job[e] = "completed"
  /\ main' = Set(main, e, "done")
  /\ \E status \in {row[e], outcome[e]} \ {"none"} : Tell(e, status)
  /\ UNCHANGED <<row, job, workerVars, stopVars, recovery, faultVars>>

(* job.finished() rejects.  processError returns early for errors that     *)
(* say "cancelled" and for executions that were successful.                *)
JobFailed(e) ==
  /\ main[e] = "watching" /\ job[e] \in Failures
  /\ main' = Set(main, e, IF job[e] = "cancelled" THEN "ignored"
                          ELSE IF FalsePositive(e) THEN "positive" ELSE "failing")
  /\ UNCHANGED <<row, caller, job, workerVars, stopVars, recovery, faultVars>>

(* The rest of processError *)
ProcessError(e) ==
  /\ main[e] \in {"failing", "erring"}
  /\ main' = Set(main, e, "done")
  /\ Tell(e, "error")
  /\ row' = Set(row, e, "error")
  /\ UNCHANGED <<job, workerVars, stopVars, recovery, faultVars>>

-----------------------------------------------------------------------------
(***************************************************************************)
(* Worker: processJob                                                      *)
(***************************************************************************)

(* A job is handed to a worker, which reads the row.  A crashed execution  *)
(* is not processed.                                                       *)
Dequeue(w, e) ==
  /\ job[e] = "waiting"
  /\ IF row[e] = "crashed"
     THEN job' = Set(job, e, "completed") /\ UNCHANGED <<worker, proc>>
     ELSE /\ job' = Set(job, e, "active")
          /\ worker' = Set(worker, e, w)
          /\ proc' = Set(proc, e, "read")
  /\ UNCHANGED <<row, mainVars, outcome, starts, cancelSave, stopVars, recovery, faultVars>>

SetRunning(e) ==
  /\ proc[e] = "read"
  /\ proc' = Set(proc, e, "prepared")
  /\ row' = Set(row, e, "running")
  /\ UNCHANGED <<mainVars, job, worker, outcome, starts, cancelSave, stopVars, recovery, faultVars>>

(* The engine is started and the job entered in runningJobs. *)
StartEngine(e) ==
  /\ proc[e] = "prepared"
  /\ proc' = Set(proc, e, "running")
  /\ starts' = Set(starts, e, starts[e] + 1)
  /\ UNCHANGED <<row, mainVars, job, worker, outcome, cancelSave, stopVars, recovery, faultVars>>

(* The job of a worker ends: unless Bull gave it up in the meantime, it    *)
(* moves to its final state.                                               *)
EndJob(e, state) ==
  /\ job' = IF job[e] = "active" THEN Set(job, e, state) ELSE job
  /\ worker' = Set(worker, e, None)
  /\ proc' = Set(proc, e, "none")

(* processJob throws before the engine is started. *)
PrepareFails(e) ==
  /\ proc[e] = "prepared"
  /\ EndJob(e, "errored")
  /\ UNCHANGED <<row, mainVars, outcome, starts, cancelSave, stopVars, recovery, faultVars>>

(* runManually finds issues in the workflow: the error is saved, and the   *)
(* job is to complete without an engine.                                   *)
HasIssues(e) ==
  /\ proc[e] = "prepared"
  /\ proc' = Set(proc, e, "issues")
  /\ row' = Set(row, e, "error")
  /\ UNCHANGED <<mainVars, job, worker, outcome, starts, cancelSave, stopVars, recovery, faultVars>>

(* The engine ends by itself; "canceled" is its own time-out. *)
EngineEnds(e, o) ==
  /\ proc[e] = "running"
  /\ proc' = Set(proc, e, "saving")
  /\ outcome' = Set(outcome, e, o)
  /\ UNCHANGED <<row, mainVars, job, worker, starts, cancelSave, stopVars, recovery, faultVars>>

(* The hook of hookFunctionsSaveWorker writes the row. *)
SaveWorker(e) ==
  /\ proc[e] = "saving"
  /\ proc' = Set(proc, e, "saved")
  /\ row' = Set(row, e, outcome[e])
  /\ UNCHANGED <<mainVars, job, worker, outcome, starts, cancelSave, stopVars, recovery, faultVars>>

(* Mutant: the job is reported before the row is saved. *)
ReportableEarly(e) == proc[e] \in {"saving", "saved", "issues"}

Reportable(e) == proc[e] \in {"saved", "issues"}

(* job-finished and the end of the job; a canceled run throws.             *)
ReportJob(e) ==
  /\ Reportable(e)
  /\ EndJob(e, IF outcome[e] = "canceled" THEN "cancelled" ELSE "completed")
  /\ UNCHANGED <<row, mainVars, outcome, starts, cancelSave, stopVars, recovery, faultVars>>

(* An abort-job message reaches the workers.  A job that is not yet, or no *)
(* longer, in runningJobs is not found.  The engine's onCancel handler     *)
(* saves the row without anybody waiting for it; a run that was already    *)
(* saving keeps its outcome.                                               *)
StopJob(e) ==
  /\ e \in aborts
  /\ aborts' = aborts \ {e}
  /\ IF proc[e] \in {"running", "saving"}
     THEN /\ cancelSave' = cancelSave \cup {e}
          /\ IF proc[e] = "running"
             THEN proc' = Set(proc, e, "saved") /\ outcome' = Set(outcome, e, "canceled")
             ELSE UNCHANGED <<proc, outcome>>
     ELSE UNCHANGED <<cancelSave, proc, outcome>>
  /\ UNCHANGED <<row, mainVars, job, worker, starts, stop, cancelling, recovery, faultVars>>

SaveCancelled(e) ==
  /\ e \in cancelSave
  /\ cancelSave' = cancelSave \ {e}
  /\ row' = Set(row, e, "canceled")
  /\ UNCHANGED <<mainVars, job, worker, proc, outcome, starts, stopVars, recovery, faultVars>>

-----------------------------------------------------------------------------
(***************************************************************************)
(* Stop requests                                                           *)
(***************************************************************************)

(* stop reads the row and asserts that it can be stopped; the request may  *)
(* reach an instance that does not have the execution.                     *)
Stop(e, where) ==
  /\ stop[e] = "none" /\ row[e] \in {"new", "running"}
  /\ stop' = Set(stop, e, where)
  /\ UNCHANGED <<row, mainVars, job, workerVars, cancelling, aborts, recovery, faultVars>>

(* stopInScalingMode: the promise is rejected, and a job that is watched   *)
(* is cancelled by onCancel in the background.                             *)
StopInScalingMode(e) ==
  /\ stop[e] \in {"here", "elsewhere"}
  /\ stop' = Set(stop, e, "writing")
  /\ IF stop[e] = "here" /\ caller[e] = "open"
     THEN /\ caller' = Set(caller, e, "rejected")
          /\ cancelling' = IF main[e] \in {"watching", "failing"}
                           THEN Set(cancelling, e, "checking") ELSE cancelling
     ELSE UNCHANGED <<caller, cancelling>>
  /\ UNCHANGED <<row, main, job, workerVars, aborts, recovery, faultVars>>

(* stopDuringRun *)
StopDuringRun(e) ==
  /\ stop[e] = "writing"
  /\ stop' = Set(stop, e, "done")
  /\ row' = Set(row, e, "canceled")
  /\ UNCHANGED <<mainVars, job, workerVars, cancelling, aborts, recovery, faultVars>>

(* stopJob of ScalingService asks whether the job is active ...            *)
IsActive(e) ==
  /\ cancelling[e] = "checking"
  /\ cancelling' = Set(cancelling, e, IF job[e] = "active" THEN "aborting" ELSE "removing")
  /\ UNCHANGED <<row, mainVars, job, workerVars, stop, aborts, recovery, faultVars>>

(* ... and then tells its worker, or removes it, which fails when it was   *)
(* picked up in between.                                                   *)
AbortOrRemove(e) ==
  /\ cancelling[e] \in {"aborting", "removing"}
  /\ cancelling' = Set(cancelling, e, "done")
  /\ aborts' = IF cancelling[e] = "aborting" THEN aborts \cup {e} ELSE aborts
  /\ job' = IF cancelling[e] = "removing" /\ job[e] # "active" THEN Set(job, e, "removed") ELSE job
  /\ UNCHANGED <<row, mainVars, workerVars, stop, recovery, faultVars>>

-----------------------------------------------------------------------------
(***************************************************************************)
(* Failures, and what Bull makes of them                                   *)
(***************************************************************************)

OnWorker(w) == {e \in Executions : worker[e] = w}

(* A worker dies with the jobs it processes, and with saves of cancelled   *)
(* engines that outlived their jobs.                                       *)
WorkerCrash(w) ==
  \E late \in SUBSET {e \in cancelSave : worker[e] = None} :
    LET lost == OnWorker(w) \cup late
    IN  /\ crashes < MaxCrashes /\ lost # {}
        /\ crashes' = crashes + 1
        /\ worker' = [e \in Executions |-> IF e \in lost THEN None ELSE worker[e]]
        /\ proc' = [e \in Executions |-> IF e \in lost THEN "none" ELSE proc[e]]
        /\ cancelSave' = cancelSave \ lost
        /\ UNCHANGED <<row, mainVars, job, outcome, starts, stopVars, recovery, falseStalls>>

(* The main instance of an execution dies. *)
MainCrash(e) ==
  /\ crashes < MaxCrashes /\ main[e] \notin {"idle", "lost"}
  /\ crashes' = crashes + 1
  /\ main' = Set(main, e, "lost")
  /\ Tell(e, "lost")
  /\ cancelling' = Set(cancelling, e, "none")
  /\ UNCHANGED <<row, job, workerVars, stop, aborts, recovery, falseStalls>>

(* Mutant: a stalled job is handed out again (maxStalledCount above 0). *)
StalledAgain == "waiting"

Stalled == "stalled"

(* The lock of an active job was not renewed: its worker is dead.          *)
Stall(e) ==
  /\ job[e] = "active" /\ worker[e] = None
  /\ job' = Set(job, e, Stalled)
  /\ UNCHANGED <<row, mainVars, workerVars, stopVars, recovery, faultVars>>

(* ... or only too busy to renew it. *)
FalseStall(e) ==
  /\ job[e] = "active" /\ worker[e] # None /\ falseStalls < MaxFalseStalls
  /\ falseStalls' = falseStalls + 1
  /\ job' = Set(job, e, Stalled)
  /\ UNCHANGED <<row, mainVars, workerVars, stopVars, recovery, crashes>>

-----------------------------------------------------------------------------
(***************************************************************************)
(* recoverFromQueue, on the leader                                         *)
(***************************************************************************)

(* Mutant: only running executions are looked for. *)
InProgressRunning == {e \in Executions : row[e] = "running"}

(* getInProgressExecutionIds *)
InProgress == {e \in Executions : row[e] \in {"new", "running"}}

RecoverRead ==
  /\ recovery.at = "idle" /\ InProgress # {}
  /\ recovery' = [at |-> "stored", ids |-> InProgress]
  /\ UNCHANGED <<row, mainVars, job, workerVars, stopVars, faultVars>>

RecoverJobs ==
  /\ recovery.at = "stored"
  /\ LET dangling == {e \in recovery.ids : job[e] \notin Queued}
     IN  recovery' = [at |-> IF dangling = {} THEN "idle" ELSE "dangling", ids |-> dangling]
  /\ UNCHANGED <<row, mainVars, job, workerVars, stopVars, faultVars>>

(* markAsCrashed, without looking at the rows again *)
MarkAsCrashed ==
  /\ recovery.at = "dangling"
  /\ row' = [e \in Executions |-> IF e \in recovery.ids THEN "crashed" ELSE row[e]]
  /\ recovery' = [at |-> "idle", ids |-> {}]
  /\ UNCHANGED <<mainVars, job, workerVars, stopVars, faultVars>>

-----------------------------------------------------------------------------
MainStep(e) ==
  \/ AddJob(e) \/ AddJobFails(e) \/ BeforeHookFails(e) \/ Attach(e)
  \/ JobFinished(e) \/ JobFailed(e) \/ ProcessError(e)

WorkerStep(e) ==
  \/ \E w \in Workers : Dequeue(w, e)
  \/ SetRunning(e) \/ StartEngine(e) \/ PrepareFails(e) \/ HasIssues(e)
  \/ \E o \in Outcomes : EngineEnds(e, o)
  \/ SaveWorker(e) \/ ReportJob(e) \/ StopJob(e) \/ SaveCancelled(e) \/ Stall(e)

StopStep(e) ==
  StopInScalingMode(e) \/ StopDuringRun(e) \/ IsActive(e) \/ AbortOrRemove(e)

Recover == RecoverRead \/ RecoverJobs \/ MarkAsCrashed

Next ==
  \/ \E e \in Executions :
       \/ Create(e) \/ MainStep(e) \/ WorkerStep(e) \/ StopStep(e)
       \/ \E where \in {"here", "elsewhere"} : Stop(e, where)
       \/ MainCrash(e) \/ FalseStall(e)
  \/ \E w \in Workers : WorkerCrash(w)
  \/ Recover

Spec == Init /\ [][Next]_vars

(***************************************************************************)
(* Whatever was begun goes on as long as its process lives, Bull notices   *)
(* stalled jobs, and the leader repeats the recovery.  That the engine     *)
(* ends is an assumption about the workflow: the time limit that would end *)
(* it is off by default.                                                   *)
(***************************************************************************)
Fairness ==
  /\ WF_vars(\E e \in Executions : MainStep(e) \/ WorkerStep(e) \/ StopStep(e))
  /\ WF_vars(Recover)

FairSpec == Spec /\ Fairness

-----------------------------------------------------------------------------
(***************************************************************************)
(* Properties                                                              *)
(***************************************************************************)

(* Every variable has its type. *)
TypeOK ==
  /\ row \in [Executions -> Statuses]
  /\ caller \in [Executions -> Statuses \cup {"open", "rejected", "lost"}]
  /\ main \in [Executions -> {"idle", "created", "enqueued", "watching", "failing",
                              "erring", "ignored", "positive", "done", "lost"}]
  /\ job \in [Executions -> JobStates]
  /\ worker \in [Executions -> Workers \cup {None}]
  /\ proc \in [Executions -> {"none", "read", "prepared", "issues", "running", "saving", "saved"}]
  /\ outcome \in [Executions -> Outcomes \cup {"none"}]
  /\ starts \in [Executions -> Nat]
  /\ cancelSave \subseteq Executions /\ aborts \subseteq Executions
  /\ stop \in [Executions -> {"none", "here", "elsewhere", "writing", "done"}]
  /\ cancelling \in [Executions -> {"none", "checking", "aborting", "removing", "done"}]
  /\ recovery \in [at : {"idle", "stored", "dangling"}, ids : SUBSET Executions]
  /\ crashes \in Nat /\ falseStalls \in Nat

(* The engine of an execution works from its start until its job is        *)
(* reported or its worker dies.                                            *)
Working(e) == proc[e] \in {"running", "saving", "saved"}

(* An execution is over when no worker has it and either its engine was    *)
(* started or its job is no longer in the queue.                           *)
Over(e) ==
  /\ proc[e] = "none"
  /\ starts[e] > 0 \/ job[e] \in {"completed", "removed"} \cup Failures

(* The phase of an execution in the eyes of QueuedExecution *)
Phase(e) ==
  IF row[e] = "none" THEN "idle"
  ELSE IF Working(e) THEN "running"
  ELSE IF Over(e) THEN "over"
  ELSE "pending"

Abstract == INSTANCE QueuedExecution
              WITH phase <- [e \in Executions |-> Phase(e)], answer <- caller

(* Queue mode keeps the promise of QueuedExecution: whatever crashes,      *)
(* stalls or is stopped, no execution is run twice, no caller is answered  *)
(* twice, and success is told only after the run.                          *)
RunsAtMostOnce == Abstract!Spec

(* A caller is never told a status that is not final: the worker saves the *)
(* row before it reports the job, and nothing sets it back to running.     *)
(* Executions here do not wait; one that does is reported as "waiting".    *)
ToldFinalStatus ==
  \A e \in Executions : caller[e] \in Final \cup {"none", "open", "rejected", "lost"}

(* What makes the promise inductive: the steps of one execution in the     *)
(* main instance, the queue and the worker fit together.                   *)
Consistent(e) ==
  /\ main[e] = "idle" <=> row[e] = "none"
  /\ main[e] = "idle" =>
       /\ caller[e] = "none" /\ job[e] = "none" /\ stop[e] = "none"
       /\ e \notin cancelSave /\ e \notin recovery.ids
  /\ caller[e] = "none" => main[e] = "idle"
  /\ main[e] \in {"idle", "created"} => job[e] = "none"
  /\ main[e] \in {"enqueued", "watching", "failing", "erring"} \/ cancelling[e] # "none" => job[e] # "none"
  /\ worker[e] = None <=> proc[e] = "none"
  /\ job[e] \in {"none", "waiting"} => proc[e] = "none" /\ starts[e] = 0
  /\ proc[e] # "none" => job[e] \in {"active", "stalled", "removed"}
  /\ proc[e] \in {"read", "prepared", "issues"} => starts[e] = 0
  /\ Working(e) => starts[e] > 0
  /\ proc[e] \in {"saving", "saved"} => outcome[e] # "none"
  /\ proc[e] = "saved" /\ outcome[e] # "canceled" => row[e] \in Final
  /\ proc[e] = "issues" => row[e] \in Final
  /\ job[e] = "completed" => row[e] \in Final

QueueInvariant == TypeOK /\ \A e \in Executions : Consistent(e)

(* The comment in processError says of an error that mentions a            *)
(* cancellation: the execution "has already been cleaned up".              *)
CancelledIsCleanedUp ==
  \A e \in Executions : main[e] = "ignored" => caller[e] # "open"

(* What recoverFromQueue says it does: only executions that are stored as  *)
(* new or running and are absent from the queue become crashed.            *)
CrashedOnlyIfAbsent ==
  [][\A e \in Executions :
       row[e] # "crashed" /\ row'[e] = "crashed" =>
         row[e] \in {"new", "running"} /\ job[e] \notin Queued]_vars

(* No row stays new or running for ever, whatever process dies at whatever *)
(* moment: what neither worker nor main instance concludes, the recovery   *)
(* does.                                                                   *)
EveryRowEnds ==
  \A e \in Executions : row[e] \in {"new", "running"} ~> row[e] \in Final

(* Every caller is answered, except in the two cases in which processError *)
(* returns early: the engine was cancelled by its own time limit, or a row *)
(* already says success when the job is given up or a hook fails.          *)
EveryCallerIsTold ==
  \A e \in Executions :
    caller[e] = "open" ~>
      \/ caller[e] # "open"
      \/ main[e] = "ignored" /\ outcome[e] = "canceled"
      \/ main[e] = "positive" /\ outcome[e] = "success"
=============================================================================
