------------------------ MODULE ScalingQueueProofs ------------------------
(***************************************************************************)
(* Queue mode runs an execution at most once and answers its caller at     *)
(* most once: ScalingQueue implements QueuedExecution, for any executions  *)
(* and workers and any number of crashes and stalls.                       *)
(***************************************************************************)
EXTENDS ScalingQueue, TLAPS

(* The invariant holds initially. *)
LEMMA InitInvariant == Init => QueueInvariant
  BY DEF Init, QueueInvariant, TypeOK, Consistent, Statuses, Final, JobStates, Failures,
         Outcomes, Working

(* The steps of the main instance keep the invariant. *)
LEMMA MainKeeps ==
  ASSUME NEW e \in Executions, QueueInvariant, Create(e) \/ MainStep(e) \/ MainCrash(e)
  PROVE  QueueInvariant'
  <1> USE QueueConstants DEF QueueInvariant, TypeOK, Set, Tell, mainVars, workerVars, stopVars, faultVars,
          Statuses, Final, JobStates, Failures, Outcomes
  <1>1. CASE Create(e)
    BY <1>1 DEF Create, Consistent, Working
  <1>2. CASE AddJob(e)
    BY <1>2 DEF AddJob, Consistent, Working
  <1>3. CASE AddJobFails(e)
    BY <1>3 DEF AddJobFails, Consistent, Working
  <1>4. CASE Attach(e)
    BY <1>4 DEF Attach, Consistent, Working
  <1>5. CASE JobFinished(e)
    BY <1>5 DEF JobFinished, Consistent, Working
  <1>6. CASE JobFailed(e)
    BY <1>6 DEF JobFailed, Consistent, Working
  <1>7. CASE ProcessError(e)
    BY <1>7 DEF ProcessError, Consistent, Working
  <1>8. CASE BeforeHookFails(e)
    BY <1>8 DEF BeforeHookFails, Consistent, Working
  <1>9. CASE MainCrash(e)
    BY <1>9 DEF MainCrash, Consistent, Working
  <1>10. QED
    BY <1>1, <1>2, <1>3, <1>4, <1>5, <1>6, <1>7, <1>8, <1>9 DEF MainStep

(* The steps of a worker keep the invariant. *)
LEMMA WorkerKeeps ==
  ASSUME NEW e \in Executions, QueueInvariant, WorkerStep(e) \/ FalseStall(e)
  PROVE  QueueInvariant'
  <1> USE QueueConstants DEF QueueInvariant, TypeOK, Set, mainVars, workerVars, stopVars, faultVars,
          Statuses, Final, JobStates, Failures, Outcomes
  <1>1. ASSUME NEW w \in Workers, Dequeue(w, e)
        PROVE  QueueInvariant'
    BY <1>1 DEF Dequeue, Consistent, Working
  <1>2. CASE SetRunning(e)
    BY <1>2 DEF SetRunning, Consistent, Working
  <1>3. CASE StartEngine(e)
    BY <1>3 DEF StartEngine, Consistent, Working
  <1>4. CASE PrepareFails(e)
    BY <1>4 DEF PrepareFails, EndJob, Consistent, Working
  <1>5. ASSUME NEW o \in Outcomes, EngineEnds(e, o)
        PROVE  QueueInvariant'
    BY <1>5 DEF EngineEnds, Consistent, Working
  <1>6. CASE SaveWorker(e)
    BY <1>6 DEF SaveWorker, Consistent, Working
  <1>7. CASE ReportJob(e)
    BY <1>7 DEF ReportJob, Reportable, EndJob, Consistent, Working
  <1>8. CASE StopJob(e)
    BY <1>8 DEF StopJob, Consistent, Working
  <1>9. CASE SaveCancelled(e)
    BY <1>9 DEF SaveCancelled, Consistent, Working
  <1>10. CASE Stall(e)
    BY <1>10 DEF Stall, Stalled, Consistent, Working
  <1>11. CASE FalseStall(e)
    BY <1>11 DEF FalseStall, Stalled, Consistent, Working
  <1>12. CASE HasIssues(e)
    BY <1>12 DEF HasIssues, Consistent, Working
  <1>13. QED
    BY <1>1, <1>2, <1>3, <1>4, <1>5, <1>6, <1>7, <1>8, <1>9, <1>10, <1>11, <1>12 DEF WorkerStep

(* Stop requests keep the invariant. *)
LEMMA StopKeeps ==
  ASSUME NEW e \in Executions, QueueInvariant,
         StopStep(e) \/ \E where \in {"here", "elsewhere"} : Stop(e, where)
  PROVE  QueueInvariant'
  <1> USE QueueConstants DEF QueueInvariant, TypeOK, Set, mainVars, workerVars, stopVars, faultVars,
          Statuses, Final, JobStates, Failures, Outcomes
  <1>1. ASSUME NEW where \in {"here", "elsewhere"}, Stop(e, where)
        PROVE  QueueInvariant'
    BY <1>1 DEF Stop, Consistent, Working
  <1>2. CASE StopInScalingMode(e)
    BY <1>2 DEF StopInScalingMode, Consistent, Working
  <1>3. CASE StopDuringRun(e)
    BY <1>3 DEF StopDuringRun, Consistent, Working
  <1>4. CASE IsActive(e)
    BY <1>4 DEF IsActive, Consistent, Working
  <1>5. CASE AbortOrRemove(e)
    BY <1>5 DEF AbortOrRemove, Consistent, Working
  <1>6. QED
    BY <1>1, <1>2, <1>3, <1>4, <1>5 DEF StopStep

(* Recovery and the crash of a worker, which concern many executions at    *)
(* once, keep the invariant.                                               *)
LEMMA SystemKeeps ==
  ASSUME QueueInvariant, Recover \/ \E w \in Workers : WorkerCrash(w)
  PROVE  QueueInvariant'
  <1> USE QueueConstants DEF QueueInvariant, TypeOK, mainVars, workerVars, stopVars, faultVars,
          Statuses, Final, JobStates, Failures, Outcomes
  <1>1. CASE RecoverRead
    BY <1>1 DEF RecoverRead, InProgress, Consistent, Working
  <1>2. CASE RecoverJobs
    BY <1>2 DEF RecoverJobs, Consistent, Working
  <1>3. CASE MarkAsCrashed
    BY <1>3 DEF MarkAsCrashed, Consistent, Working
  <1>4. ASSUME NEW w \in Workers, WorkerCrash(w)
        PROVE  QueueInvariant'
    BY <1>4 DEF WorkerCrash, OnWorker, Consistent, Working
  <1>5. QED
    BY <1>1, <1>2, <1>3, <1>4 DEF Recover

(* Every step keeps the invariant. *)
LEMMA NextKeeps == QueueInvariant /\ [Next]_vars => QueueInvariant'
  <1> SUFFICES ASSUME QueueInvariant, [Next]_vars PROVE QueueInvariant'
    OBVIOUS
  <1>1. CASE UNCHANGED vars
    BY <1>1 DEF QueueInvariant, TypeOK, Consistent, Working, vars, mainVars, workerVars,
                stopVars, faultVars
  <1>2. CASE Next
    BY <1>2, MainKeeps, WorkerKeeps, StopKeeps, SystemKeeps DEF Next
  <1>3. QED
    BY <1>1, <1>2

(* QueueInvariant holds in every reachable state: the entry in the main    *)
(* instance, the job in the queue, the worker's progress and the row of    *)
(* each execution fit together.                                            *)
THEOREM QueueInvariantHolds == Spec => []QueueInvariant
  BY InitInvariant, NextKeeps, PTL DEF Spec

(* ToldFinalStatus: a caller is only told final statuses.  The one step    *)
(* that tells a stored or reported status finds the job completed, so the  *)
(* invariant says that the row is final.                                   *)
THEOREM ToldFinalStatusHolds == Spec => []ToldFinalStatus
  <1>1. Init => ToldFinalStatus
    BY DEF Init, ToldFinalStatus, Final
  <1>2. QueueInvariant /\ ToldFinalStatus /\ [Next]_vars => ToldFinalStatus'
    <2> SUFFICES ASSUME QueueInvariant, ToldFinalStatus, [Next]_vars PROVE ToldFinalStatus'
      OBVIOUS
    <2> USE DEF ToldFinalStatus, QueueInvariant, TypeOK, Tell, Set, Final
    <2>1. ASSUME UNCHANGED caller PROVE ToldFinalStatus'
      BY <2>1
    <2>2. ASSUME NEW e \in Executions, JobFinished(e) PROVE ToldFinalStatus'
      BY <2>2 DEF JobFinished, Consistent, Outcomes
    <2>3. ASSUME NEW e \in Executions, Create(e) \/ AddJobFails(e) \/ ProcessError(e)
          PROVE  ToldFinalStatus'
      BY <2>3 DEF Create, AddJobFails, ProcessError
    <2>4. ASSUME NEW e \in Executions, MainCrash(e) \/ StopInScalingMode(e)
          PROVE  ToldFinalStatus'
      BY <2>4 DEF MainCrash, StopInScalingMode
    <2>5. ASSUME NEW e \in Executions, AddJob(e) \/ BeforeHookFails(e) \/ Attach(e) \/ JobFailed(e)
          PROVE  UNCHANGED caller
      BY <2>5 DEF AddJob, BeforeHookFails, Attach, JobFailed
    <2>6. ASSUME NEW e \in Executions, WorkerStep(e) \/ FalseStall(e)
          PROVE  UNCHANGED caller
      BY <2>6 DEF WorkerStep, Dequeue, SetRunning, StartEngine, PrepareFails, HasIssues, EngineEnds,
                  SaveWorker, ReportJob, StopJob, SaveCancelled, Stall, FalseStall, mainVars
    <2>7. ASSUME NEW e \in Executions, NEW where \in {"here", "elsewhere"},
                 StopDuringRun(e) \/ IsActive(e) \/ AbortOrRemove(e) \/ Stop(e, where)
          PROVE  UNCHANGED caller
      BY <2>7 DEF StopDuringRun, IsActive, AbortOrRemove, Stop, mainVars
    <2>8. ASSUME Recover \/ \E w \in Workers : WorkerCrash(w)
          PROVE  UNCHANGED caller
      BY <2>8 DEF Recover, RecoverRead, RecoverJobs, MarkAsCrashed, WorkerCrash, mainVars
    <2>9. CASE UNCHANGED vars
      BY <2>9, <2>1 DEF vars, mainVars
    <2>10. CASE Next
      BY <2>10, <2>1, <2>2, <2>3, <2>4, <2>5, <2>6, <2>7, <2>8 DEF Next, MainStep, StopStep
    <2>11. QED
      BY <2>9, <2>10
  <1>3. QED
    BY <1>1, <1>2, QueueInvariantHolds, PTL DEF Spec

-----------------------------------------------------------------------------
(***************************************************************************)
(* Refinement                                                              *)
(***************************************************************************)

(* The phases of all executions *)
PhaseOf == [e \in Executions |-> Phase(e)]

(* A step that changes neither the worker's progress, nor the queue, nor   *)
(* whether there is a row keeps the phase.                                 *)
LEMMA SamePhase ==
  ASSUME UNCHANGED <<proc, job, starts>>,
         \A e \in Executions : row[e] = "none" <=> row'[e] = "none"
  PROVE  UNCHANGED PhaseOf
  BY DEF PhaseOf, Phase, Working, Over

(* The phases when one of them changes *)
LEMMA OnePhase ==
  ASSUME NEW e \in Executions, NEW p, Phase(e)' = p,
         \A f \in Executions : f # e => Phase(f)' = Phase(f)
  PROVE  PhaseOf' = [PhaseOf EXCEPT ![e] = p]
  BY DEF PhaseOf

(* The initial states are initial states of QueuedExecution. *)
LEMMA InitRefines == Init => Abstract!Init
  BY DEF Init, Abstract!Init, Phase

(* Steps of the main instance are submissions, answers or stutter. *)
LEMMA MainRefines ==
  ASSUME NEW e \in Executions, QueueInvariant, Create(e) \/ MainStep(e) \/ MainCrash(e)
  PROVE  Abstract!Next \/ UNCHANGED Abstract!vars
  <1> USE DEF QueueInvariant, TypeOK, Consistent, Set, Tell, workerVars
  <1>1. CASE Create(e)
    <2>1. Phase(e) = "idle" /\ Phase(e)' = "pending"
      BY <1>1 DEF Create, Phase, Working, Over, Failures
    <2>2. \A f \in Executions : f # e => Phase(f)' = Phase(f)
      BY <1>1 DEF Create, Phase, Working, Over
    <2>3. PhaseOf' = [PhaseOf EXCEPT ![e] = "pending"]
      BY <2>1, <2>2, OnePhase
    <2>4. Abstract!Submit(e)
      BY <1>1, <2>1, <2>3 DEF Create, Abstract!Submit, PhaseOf
    <2>5. QED
      BY <2>4 DEF Abstract!Next
  <1>2. ASSUME NEW a \in Abstract!Answers, UNCHANGED PhaseOf,
               caller' = IF caller[e] = "open" THEN [caller EXCEPT ![e] = a] ELSE caller,
               caller[e] = "open" /\ a = "success" => Phase(e) = "over"
        PROVE  Abstract!Next \/ UNCHANGED Abstract!vars
    <2>1. CASE caller[e] = "open"
      <3>1. Abstract!Answer(e, a)
        BY <1>2, <2>1 DEF Abstract!Answer, PhaseOf
      <3>2. QED
        BY <3>1 DEF Abstract!Next
    <2>2. CASE caller[e] # "open"
      BY <1>2, <2>2 DEF Abstract!vars, PhaseOf
    <2>3. QED
      BY <2>1, <2>2
  <1>3. CASE AddJobFails(e)
    <2>1. UNCHANGED PhaseOf
      BY <1>3, SamePhase DEF AddJobFails
    <2>2. QED
      BY <1>2, <1>3, <2>1 DEF AddJobFails, Abstract!Answers
  <1>4. CASE ProcessError(e)
    <2>1. UNCHANGED PhaseOf
      BY <1>4, SamePhase DEF ProcessError
    <2>2. QED
      BY <1>2, <1>4, <2>1 DEF ProcessError, Abstract!Answers
  <1>5. CASE MainCrash(e)
    <2>1. UNCHANGED PhaseOf
      BY <1>5, SamePhase DEF MainCrash
    <2>2. QED
      BY <1>2, <1>5, <2>1 DEF MainCrash, Abstract!Answers
  <1>6. CASE JobFinished(e)
    <2>1. UNCHANGED PhaseOf
      BY <1>6, SamePhase DEF JobFinished
    <2>2. PICK status \in {row[e], outcome[e]} \ {"none"} :
            caller' = IF caller[e] = "open" THEN [caller EXCEPT ![e] = status] ELSE caller
      BY <1>6 DEF JobFinished
    <2>3. status \in Abstract!Answers /\ Phase(e) = "over"
      BY <1>6 DEF JobFinished, Final, Outcomes, Abstract!Answers, Phase, Working, Over
    <2>4. QED
      BY <1>2, <2>1, <2>2, <2>3
  <1>7. CASE AddJob(e)
    <2>1. UNCHANGED PhaseOf
      BY <1>7 DEF AddJob, PhaseOf, Phase, Working, Over, Failures
    <2>2. QED
      BY <1>7, <2>1 DEF AddJob, Abstract!vars, PhaseOf
  <1>8. CASE BeforeHookFails(e) \/ Attach(e) \/ JobFailed(e)
    <2>1. UNCHANGED PhaseOf
      BY <1>8, SamePhase DEF BeforeHookFails, Attach, JobFailed
    <2>2. QED
      BY <1>8, <2>1 DEF BeforeHookFails, Attach, JobFailed, Abstract!vars, PhaseOf
  <1>9. QED
    BY <1>1, <1>3, <1>4, <1>5, <1>6, <1>7, <1>8 DEF MainStep

(* A step in which the executions in E are given up or end their run, and  *)
(* nothing else changes for the abstract specification, is End(E).         *)
LEMMA EndRefines ==
  ASSUME NEW E \in SUBSET Executions, UNCHANGED caller,
         \A e \in E : Phase(e) \in {"pending", "running"} /\ Phase(e)' = "over",
         \A e \in Executions \ E : Phase(e)' = Phase(e)
  PROVE  Abstract!Next
  <1>1. [e \in Executions |-> Phase(e)]' =
          [e \in Executions |-> IF e \in E THEN "over" ELSE Phase(e)]
    OBVIOUS
  <1>2. Abstract!End(E)
    BY <1>1 DEF Abstract!End
  <1>3. QED
    BY <1>2 DEF Abstract!Next

(* Steps of a worker start or end a run, or stutter.  A stalled job ends   *)
(* an execution that was never started.                                    *)
LEMMA WorkerRefines ==
  ASSUME NEW e \in Executions, QueueInvariant, WorkerStep(e) \/ FalseStall(e)
  PROVE  Abstract!Next \/ UNCHANGED Abstract!vars
  <1> USE DEF QueueInvariant, TypeOK, Consistent, Set, mainVars
  <1>1. ASSUME UNCHANGED PhaseOf, UNCHANGED caller
        PROVE  UNCHANGED Abstract!vars
    BY <1>1 DEF Abstract!vars, PhaseOf
  <1>2. ASSUME UNCHANGED caller, Phase(e) \in {"pending", "running"}, Phase(e)' = "over",
               \A f \in Executions \ {e} : Phase(f)' = Phase(f)
        PROVE  Abstract!Next
    <2>1. PhaseOf' = [PhaseOf EXCEPT ![e] = "over"]
      BY <1>2, OnePhase
    <2>2. PhaseOf' = [f \in Executions |-> IF f \in {e} THEN "over" ELSE PhaseOf[f]]
      BY <2>1 DEF PhaseOf
    <2>3. Abstract!End({e})
      BY <1>2, <2>2 DEF Abstract!End, PhaseOf
    <2>4. QED
      BY <2>3 DEF Abstract!Next
  <1>3. ASSUME NEW w \in Workers, Dequeue(w, e)
        PROVE  Abstract!Next \/ UNCHANGED Abstract!vars
    <2>1. CASE row[e] = "crashed"
      BY <1>2, <1>3, <2>1 DEF Dequeue, Phase, Working, Over, Failures
    <2>2. CASE row[e] # "crashed"
      <3>1. UNCHANGED PhaseOf
        BY <1>3, <2>2 DEF Dequeue, PhaseOf, Phase, Working, Over, Failures
      <3>2. QED
        BY <1>1, <1>3, <3>1 DEF Dequeue
    <2>3. QED
      BY <2>1, <2>2
  <1>4. CASE SetRunning(e)
    <2>1. UNCHANGED PhaseOf
      BY <1>4 DEF SetRunning, PhaseOf, Phase, Working, Over, Failures
    <2>2. QED
      BY <1>1, <1>4, <2>1 DEF SetRunning
  <1>5. CASE StartEngine(e)
    <2>1. Phase(e) = "pending" /\ Phase(e)' = "running"
      BY <1>5 DEF StartEngine, Phase, Working, Over
    <2>2. \A f \in Executions : f # e => Phase(f)' = Phase(f)
      BY <1>5 DEF StartEngine, Phase, Working, Over
    <2>3. PhaseOf' = [PhaseOf EXCEPT ![e] = "running"]
      BY <2>1, <2>2, OnePhase
    <2>4. Abstract!Start(e)
      BY <1>5, <2>1, <2>3 DEF StartEngine, Abstract!Start, PhaseOf
    <2>5. QED
      BY <2>4 DEF Abstract!Next
  <1>6. CASE PrepareFails(e)
    BY <1>2, <1>6 DEF PrepareFails, EndJob, Phase, Working, Over, Failures
  <1>7. ASSUME NEW o \in Outcomes, EngineEnds(e, o)
        PROVE  Abstract!Next \/ UNCHANGED Abstract!vars
    <2>1. UNCHANGED PhaseOf
      BY <1>7 DEF EngineEnds, PhaseOf, Phase, Working, Over
    <2>2. QED
      BY <1>1, <1>7, <2>1 DEF EngineEnds
  <1>8. CASE SaveWorker(e)
    <2>1. UNCHANGED PhaseOf
      BY <1>8 DEF SaveWorker, Outcomes, PhaseOf, Phase, Working, Over
    <2>2. QED
      BY <1>1, <1>8, <2>1 DEF SaveWorker
  <1>9. CASE ReportJob(e)
    BY <1>2, <1>9 DEF ReportJob, Reportable, EndJob, Phase, Working, Over, Failures
  <1>10. CASE StopJob(e)
    <2>1. UNCHANGED PhaseOf
      BY <1>10 DEF StopJob, PhaseOf, Phase, Working, Over
    <2>2. QED
      BY <1>1, <1>10, <2>1 DEF StopJob
  <1>11. CASE SaveCancelled(e)
    <2>1. UNCHANGED PhaseOf
      BY <1>11, SamePhase DEF SaveCancelled
    <2>2. QED
      BY <1>1, <1>11, <2>1 DEF SaveCancelled
  <1>12. CASE Stall(e)
    <2>1. CASE starts[e] = 0
      BY <1>2, <1>12, <2>1 DEF Stall, Stalled, workerVars, Phase, Working, Over, Failures
    <2>2. CASE starts[e] # 0
      <3>1. UNCHANGED PhaseOf
        BY <1>12, <2>2 DEF Stall, Stalled, workerVars, PhaseOf, Phase, Working, Over, Failures
      <3>2. QED
        BY <1>1, <1>12, <3>1 DEF Stall
    <2>3. QED
      BY <2>1, <2>2
  <1>13. CASE FalseStall(e)
    <2>1. UNCHANGED PhaseOf
      BY <1>13 DEF FalseStall, Stalled, workerVars, PhaseOf, Phase, Working, Over, Failures
    <2>2. QED
      BY <1>1, <1>13, <2>1 DEF FalseStall
  <1>14. CASE HasIssues(e)
    <2>1. UNCHANGED PhaseOf
      BY <1>14 DEF HasIssues, PhaseOf, Phase, Working, Over, Failures
    <2>2. QED
      BY <1>1, <1>14, <2>1 DEF HasIssues
  <1>15. QED
    BY <1>3, <1>4, <1>5, <1>6, <1>7, <1>8, <1>9, <1>10, <1>11, <1>12, <1>13, <1>14 DEF WorkerStep

(* Steps of a stop request answer the caller, give up a job that waits, or *)
(* stutter.                                                                *)
LEMMA StopRefines ==
  ASSUME NEW e \in Executions, QueueInvariant,
         StopStep(e) \/ \E where \in {"here", "elsewhere"} : Stop(e, where)
  PROVE  Abstract!Next \/ UNCHANGED Abstract!vars
  <1> USE DEF QueueInvariant, TypeOK, Consistent, Set, mainVars, workerVars
  <1>1. ASSUME NEW where \in {"here", "elsewhere"},
               Stop(e, where) \/ StopDuringRun(e) \/ IsActive(e)
        PROVE  UNCHANGED Abstract!vars
    <2>1. UNCHANGED PhaseOf
      BY <1>1, SamePhase DEF Stop, StopDuringRun, IsActive
    <2>2. QED
      BY <1>1, <2>1 DEF Stop, StopDuringRun, IsActive, Abstract!vars, PhaseOf
  <1>2. CASE StopInScalingMode(e)
    <2>1. UNCHANGED PhaseOf
      BY <1>2, SamePhase DEF StopInScalingMode
    <2>2. CASE caller[e] = "open" /\ caller' = [caller EXCEPT ![e] = "rejected"]
      <3>1. Abstract!Answer(e, "rejected")
        BY <2>1, <2>2 DEF Abstract!Answer, PhaseOf
      <3>2. QED
        BY <3>1 DEF Abstract!Next, Abstract!Answers
    <2>3. CASE UNCHANGED caller
      BY <2>1, <2>3 DEF Abstract!vars, PhaseOf
    <2>4. QED
      BY <1>2, <2>2, <2>3 DEF StopInScalingMode
  <1>3. CASE AbortOrRemove(e)
    <2>1. CASE Phase(e) = "pending" /\ Phase(e)' = "over"
      <3>1. \A f \in Executions : f # e => Phase(f)' = Phase(f)
        BY <1>3 DEF AbortOrRemove, Phase, Working, Over
      <3>2. PhaseOf' = [PhaseOf EXCEPT ![e] = "over"]
        BY <2>1, <3>1, OnePhase
      <3>3. PhaseOf' = [f \in Executions |-> IF f \in {e} THEN "over" ELSE PhaseOf[f]]
        BY <3>2 DEF PhaseOf
      <3>4. Abstract!End({e})
        BY <1>3, <2>1, <3>3 DEF AbortOrRemove, Abstract!End, PhaseOf
      <3>5. QED
        BY <3>4 DEF Abstract!Next
    <2>2. CASE ~(Phase(e) = "pending" /\ Phase(e)' = "over")
      <3>1. Phase(e)' = Phase(e)
        BY <1>3, <2>2 DEF AbortOrRemove, Phase, Working, Over, Failures
      <3>2. \A f \in Executions : f # e => Phase(f)' = Phase(f)
        BY <1>3 DEF AbortOrRemove, Phase, Working, Over
      <3>3. UNCHANGED PhaseOf
        BY <3>1, <3>2 DEF PhaseOf
      <3>4. QED
        BY <1>3, <3>3 DEF AbortOrRemove, Abstract!vars, PhaseOf
    <2>3. QED
      BY <2>1, <2>2
  <1>4. QED
    BY <1>1, <1>2, <1>3 DEF StopStep

(* A crash of a worker ends the runs it had, and gives up what Bull had    *)
(* given up before; the recovery only changes rows.                        *)
LEMMA SystemRefines ==
  ASSUME QueueInvariant, Recover \/ \E w \in Workers : WorkerCrash(w)
  PROVE  Abstract!Next \/ UNCHANGED Abstract!vars
  <1> USE DEF QueueInvariant, TypeOK, Consistent, mainVars, workerVars
  <1>1. CASE Recover
    <2>1. UNCHANGED PhaseOf
      BY <1>1, SamePhase DEF Recover, RecoverRead, RecoverJobs, MarkAsCrashed
    <2>2. QED
      BY <1>1, <2>1 DEF Recover, RecoverRead, RecoverJobs, MarkAsCrashed, Abstract!vars, PhaseOf
  <1>2. ASSUME NEW w \in Workers, WorkerCrash(w)
        PROVE  Abstract!Next
    <2>1. PICK late \in SUBSET {e \in cancelSave : worker[e] = None} :
            /\ proc' = [e \in Executions |-> IF e \in OnWorker(w) \cup late THEN "none" ELSE proc[e]]
            /\ UNCHANGED <<row, caller, job, starts>>
      BY <1>2 DEF WorkerCrash
    <2> DEFINE Ended == {e \in OnWorker(w) : Working(e) \/ job[e] # "active"}
    <2>2. \A e \in late : proc[e] = "none"
      BY <2>1
    <2>3. \A e \in OnWorker(w) : e \in Executions /\ proc[e] # "none" /\ proc'[e] = "none"
      BY <2>1, QueueConstants DEF OnWorker
    <2>4. \A e \in Ended : Phase(e) \in {"pending", "running"} /\ Phase(e)' = "over"
      BY <2>1, <2>3 DEF Phase, Working, Over, Failures
    <2>5. \A e \in Executions \ Ended : Phase(e)' = Phase(e)
      BY <2>1, <2>2, <2>3 DEF Phase, Working, Over, Failures
    <2>6. Ended \in SUBSET Executions
      BY <2>3
    <2>7. QED
      BY <2>1, <2>4, <2>5, <2>6, EndRefines
  <1>3. QED
    BY <1>1, <1>2

(* RunsAtMostOnce: for any executions, workers, crashes and stalls, queue  *)
(* mode implements QueuedExecution, so that no execution is run twice and  *)
(* no caller is answered twice or told of a success before the run ended.  *)
THEOREM QueueModeRunsAtMostOnce == Spec => RunsAtMostOnce
  <1>1. QueueInvariant /\ [Next]_vars => [Abstract!Next]_(Abstract!vars)
    <2> SUFFICES ASSUME QueueInvariant, [Next]_vars
                 PROVE  Abstract!Next \/ UNCHANGED Abstract!vars
      OBVIOUS
    <2>1. CASE UNCHANGED vars
      <3>1. UNCHANGED PhaseOf /\ UNCHANGED caller
        BY <2>1 DEF vars, mainVars, workerVars, PhaseOf, Phase, Working, Over
      <3>2. QED
        BY <3>1 DEF Abstract!vars, PhaseOf
    <2>2. CASE Next
      BY <2>2, MainRefines, WorkerRefines, StopRefines, SystemRefines DEF Next
    <2>3. QED
      BY <2>1, <2>2
  <1>2. QED
    BY <1>1, InitRefines, QueueInvariantHolds, PTL DEF Spec, RunsAtMostOnce, Abstract!Spec
=============================================================================
