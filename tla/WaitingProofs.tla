---------------------------- MODULE WaitingProofs ----------------------------
(***************************************************************************)
(* Proofs about executions that wait, in WaitTracking and ParentResume.    *)
(*                                                                         *)
(* WaitTracking: whatever the number of instances, executions, waits and   *)
(* leaders, the conditional update lets one run at a time work on an       *)
(* execution.  OneEngine is not inductive: the update starts a run when    *)
(* the row says "waiting", so one must know that no run is at work then.   *)
(* A stop may write "canceled" over the row of a running execution, and    *)
(* only the end of that run can make it "waiting" again; the strengthening *)
(* says so.                                                                *)
(*                                                                         *)
(* ParentResume: a child that found its parent waiting never ends that     *)
(* wait with the node's own input, for any number of children, waits,      *)
(* failures and attempts.                                                  *)
(***************************************************************************)
EXTENDS WaitTracking, ParentResume, TLAPS

-----------------------------------------------------------------------------
(***************************************************************************)
(* Resuming waiting executions                                             *)
(***************************************************************************)

(* Nobody works on an execution whose row says that it waits. *)
WaitingIsIdle == \A e \in Executions : row[e] = "waiting" => engines[e] = 0

(* A running timer has its entry in waitingExecutions. *)
ArmedIsTracked == \A h \in Hosts : \A e \in armed[h] : entry[h][e] # 0

IInv == TypeOK /\ ArmedIsTracked /\ OneEngine /\ WaitingIsIdle

(* The initial states have the types, and no run. *)
LEMMA Initially == Init => IInv
<1> SUFFICES ASSUME Init PROVE IInv
  OBVIOUS
<1>1. TypeOK
  BY WaitConstants DEF Init, TypeOK, Waits
<1>2. OneEngine /\ WaitingIsIdle /\ ArmedIsTracked
  BY DEF Init, OneEngine, WaitingIsIdle, ArmedIsTracked
<1> QED
  BY <1>1, <1>2 DEF IInv

(* Every step of a tracker keeps the types. *)
LEMMA TrackerTypes ==
  ASSUME TypeOK, NEW h \in Hosts,
         StartTracking(h) \/ Tick(h) \/ SetTimers(h) \/ StopTracking(h)
  PROVE  TypeOK'
<1>1. WaitingExecutions \in [Executions -> 0..MaxWaits]
  BY WaitConstants DEF WaitingExecutions, TypeOK, Waits
<1>2. ASSUME Query(h) PROVE found' \in [Hosts -> [Polls -> [Executions -> 0..MaxWaits] \cup {Idle}]]
  BY <1>1, <1>2 DEF Query, TypeOK
<1>3. CASE StartTracking(h)
  BY <1>2, <1>3, WaitConstants DEF StartTracking, TypeOK, rowVars
<1>4. CASE Tick(h)
  BY <1>2, <1>4 DEF Tick, TypeOK, rowVars
<1>5. CASE SetTimers(h)
  <2>1. PICK p \in Polls : SetTimers(h)!(p)
    BY <1>5 DEF SetTimers
  <2>2. found[h][p] \in [Executions -> 0..MaxWaits]
    BY <2>1 DEF TypeOK
  <2>3. found' \in [Hosts -> [Polls -> [Executions -> 0..MaxWaits] \cup {Idle}]]
    BY <2>1 DEF TypeOK
  <2>4. entry' \in [Hosts -> [Executions -> 0..MaxWaits]]
    BY <2>1, <2>2 DEF TypeOK
  <2>5. armed' \in [Hosts -> SUBSET Executions]
    BY <2>1 DEF TypeOK, NewOnes
  <2> QED
    BY <2>1, <2>3, <2>4, <2>5 DEF TypeOK, rowVars
<1>6. CASE StopTracking(h)
  BY <1>6 DEF StopTracking, TypeOK, rowVars
<1> QED
  BY <1>3, <1>4, <1>5, <1>6

(* Firing a timer and stopping an execution keep the types. *)
LEMMA TimerTypes ==
  ASSUME TypeOK, ArmedIsTracked, NEW h \in Hosts, NEW e \in Executions,
         StartExecution(h, e) \/ StopExecution(h, e)
  PROVE  TypeOK'
<1>1. ASSUME Untrack(h, e)
      PROVE  /\ entry' \in [Hosts -> [Executions -> 0..MaxWaits]]
             /\ armed' \in [Hosts -> SUBSET Executions]
  BY <1>1, WaitConstants DEF Untrack, TypeOK
<1>2. CASE StartExecution(h, e)
  <2>1. entry[h][e] \in Waits
    BY <1>2, WaitConstants DEF StartExecution, ArmedIsTracked, TypeOK, Waits
  <2>2. 0 \in 0..MaxWaits
    BY WaitConstants
  <2>3. resumes' \subseteq [of : Executions, cause : Waits, data : 0..MaxWaits,
                            by : Hosts \cup {"webhook"}]
    BY <1>2, <2>1, <2>2 DEF StartExecution, TypeOK
  <2> QED
    BY <1>1, <1>2, <2>3 DEF StartExecution, TypeOK, rowVars
<1>3. CASE StopExecution(h, e)
  BY <1>1, <1>3 DEF StopExecution, TypeOK, rowVars
<1> QED
  BY <1>2, <1>3

(* The steps of a resume, of the webhook, of a run, of a stop and of time  *)
(* keep the types.                                                         *)
LEMMA RowTypes ==
  ASSUME TypeOK,
         \/ \E r \in resumes : FindSingleExecution(r) \/ Resume(r)
         \/ \E e \in Executions : ExecuteWebhook(e) \/ EndRun(e) \/ StopDuringRun(e)
         \/ \E e \in Executions, n \in Waits : TimePasses(e, n)
  PROVE  TypeOK'
<1>1. ASSUME NEW r \in resumes, FindSingleExecution(r) PROVE TypeOK'
  <2>1. wait[r.of] \in 0..MaxWaits
    BY WaitConstants DEF TypeOK, Waits
  <2> QED
    BY <1>1, <2>1 DEF FindSingleExecution, TypeOK, rowVars, trackerVars
<1>2. ASSUME NEW r \in resumes, Resume(r) PROVE TypeOK'
  <2>1. r.of \in Executions
    BY DEF TypeOK
  <2>2. row' \in [Executions -> {"waiting", "running", "success", "canceled"}]
    BY <1>2, <2>1 DEF Resume, TypeOK
  <2>3. engines' \in [Executions -> Nat]
    BY <1>2, <2>1 DEF Resume, TypeOK
  <2> QED
    BY <1>2, <2>2, <2>3 DEF Resume, TypeOK, trackerVars
<1>3. ASSUME NEW e \in Executions, ExecuteWebhook(e) PROVE TypeOK'
  <2>1. wait[e] \in Waits /\ wait[e] \in 0..MaxWaits
    BY WaitConstants DEF TypeOK, Waits
  <2> QED
    BY <1>3, <2>1 DEF ExecuteWebhook, TypeOK, rowVars, trackerVars
<1>4. ASSUME NEW e \in Executions, EndRun(e) PROVE TypeOK'
  <2>1. row' \in [Executions -> {"waiting", "running", "success", "canceled"}]
    BY <1>4 DEF EndRun, TypeOK
  <2>2. engines' \in [Executions -> Nat]
    <3>1. engines[e] - 1 \in Nat
      BY <1>4 DEF EndRun, TypeOK
    <3> QED
      BY <1>4, <3>1 DEF EndRun, TypeOK
  <2>3. wait' \in [Executions -> Waits]
    <3>1. wait[e] < MaxWaits => wait[e] + 1 \in Waits
      BY WaitConstants DEF TypeOK, Waits
    <3> QED
      BY <1>4, <3>1 DEF EndRun, TypeOK
  <2> QED
    BY <1>4, <2>1, <2>2, <2>3 DEF EndRun, TypeOK, trackerVars
<1>5. ASSUME NEW e \in Executions, StopDuringRun(e) PROVE TypeOK'
  BY <1>5 DEF StopDuringRun, TypeOK, trackerVars
<1>6. ASSUME NEW e \in Executions, NEW n \in Waits, TimePasses(e, n) PROVE TypeOK'
  BY <1>6 DEF TimePasses, TypeOK, trackerVars
<1> QED
  BY <1>1, <1>2, <1>3, <1>4, <1>5, <1>6

(* Every step keeps the types. *)
LEMMA TypePreserved == TypeOK /\ ArmedIsTracked /\ [Next]_vars => TypeOK'
<1> SUFFICES ASSUME TypeOK, ArmedIsTracked, [Next]_vars PROVE TypeOK'
  OBVIOUS
<1>1. CASE Next
  BY <1>1, TrackerTypes, TimerTypes, RowTypes DEF Next
<1>2. CASE UNCHANGED vars
  BY <1>2 DEF vars, rowVars, trackerVars, TypeOK
<1> QED
  BY <1>1, <1>2

(* Every step keeps entries for its timers: both are made and dropped      *)
(* together, and a step-down drops the timers alone.                       *)
LEMMA ArmedPreserved == TypeOK /\ ArmedIsTracked /\ [Next]_vars => ArmedIsTracked'
<1> SUFFICES ASSUME TypeOK, ArmedIsTracked, [Next]_vars PROVE ArmedIsTracked'
  OBVIOUS
<1>1. ASSUME armed' = armed, entry' = entry PROVE ArmedIsTracked'
  BY <1>1 DEF ArmedIsTracked
<1>2. ASSUME NEW h \in Hosts, SetTimers(h) PROVE ArmedIsTracked'
  BY <1>2 DEF SetTimers, NewOnes, ArmedIsTracked, TypeOK
<1>3. ASSUME NEW h \in Hosts, StopTracking(h) PROVE ArmedIsTracked'
  BY <1>3 DEF StopTracking, ArmedIsTracked, TypeOK
<1>4. ASSUME NEW h \in Hosts, NEW e \in Executions, Untrack(h, e) PROVE ArmedIsTracked'
  BY <1>4 DEF Untrack, ArmedIsTracked, TypeOK
<1>5. CASE UNCHANGED vars
  BY <1>1, <1>5 DEF vars, trackerVars
<1>6. ASSUME NEW h \in Hosts, StartTracking(h) \/ Tick(h) PROVE ArmedIsTracked'
  BY <1>1, <1>6 DEF StartTracking, Tick
<1>7. ASSUME NEW h \in Hosts, NEW e \in Executions, StartExecution(h, e) \/ StopExecution(h, e)
      PROVE  ArmedIsTracked'
  BY <1>4, <1>7 DEF StartExecution, StopExecution
<1>8. ASSUME NEW r \in resumes, FindSingleExecution(r) \/ Resume(r) PROVE ArmedIsTracked'
  BY <1>1, <1>8 DEF FindSingleExecution, Resume, trackerVars
<1>9. ASSUME NEW e \in Executions, ExecuteWebhook(e) \/ EndRun(e) \/ StopDuringRun(e)
      PROVE  ArmedIsTracked'
  BY <1>1, <1>9 DEF ExecuteWebhook, EndRun, StopDuringRun, trackerVars
<1>10. ASSUME NEW e \in Executions, NEW n \in Waits, TimePasses(e, n) PROVE ArmedIsTracked'
  BY <1>1, <1>10 DEF TimePasses, trackerVars
<1> QED
  BY <1>2, <1>3, <1>5, <1>6, <1>7, <1>8, <1>9, <1>10 DEF Next

(* Every step keeps one run at a time: only Resume adds one, and it looks  *)
(* at the row first.                                                       *)
LEMMA EnginesPreserved == IInv /\ [Next]_vars => (OneEngine /\ WaitingIsIdle)'
<1> SUFFICES ASSUME IInv, [Next]_vars PROVE (OneEngine /\ WaitingIsIdle)'
  OBVIOUS
<1> USE DEF IInv
<1>1. ASSUME row' = row, engines' = engines PROVE (OneEngine /\ WaitingIsIdle)'
  BY <1>1 DEF OneEngine, WaitingIsIdle
<1>2. ASSUME NEW h \in Hosts, StartTracking(h) \/ Tick(h) \/ SetTimers(h) \/ StopTracking(h)
      PROVE  row' = row /\ engines' = engines
  BY <1>2 DEF StartTracking, Tick, SetTimers, StopTracking, rowVars
<1>3. ASSUME NEW h \in Hosts, NEW e \in Executions, StartExecution(h, e) \/ StopExecution(h, e)
      PROVE  row' = row /\ engines' = engines
  BY <1>3 DEF StartExecution, StopExecution, rowVars
<1>4. ASSUME NEW r \in resumes, FindSingleExecution(r) PROVE row' = row /\ engines' = engines
  BY <1>4 DEF FindSingleExecution, rowVars
<1>5. ASSUME NEW r \in resumes, Resume(r) PROVE (OneEngine /\ WaitingIsIdle)'
  <2>1. r.of \in Executions
    BY DEF TypeOK
  <2>2. CASE RequireStatus(r.of)
    <3>1. engines[r.of] = 0
      BY <2>1, <2>2 DEF RequireStatus, WaitingIsIdle
    <3> QED
      <4>1. /\ engines' = [engines EXCEPT ![r.of] = 1]
            /\ row' = [row EXCEPT ![r.of] = "running"]
        BY <1>5, <2>2, <3>1 DEF Resume
      <4> QED
        BY <2>1, <4>1 DEF OneEngine, WaitingIsIdle, TypeOK
  <2>3. CASE ~RequireStatus(r.of)
    BY <1>1, <1>5, <2>3 DEF Resume
  <2> QED
    BY <2>2, <2>3
<1>6. ASSUME NEW e \in Executions, ExecuteWebhook(e) PROVE row' = row /\ engines' = engines
  BY <1>6 DEF ExecuteWebhook, rowVars
<1>7. ASSUME NEW e \in Executions, EndRun(e) PROVE (OneEngine /\ WaitingIsIdle)'
  <2>1. engines[e] = 1
    BY <1>7 DEF EndRun, OneEngine, TypeOK
  <2> QED
    BY <1>7, <2>1 DEF EndRun, OneEngine, WaitingIsIdle, TypeOK
<1>8. ASSUME NEW e \in Executions, StopDuringRun(e) PROVE (OneEngine /\ WaitingIsIdle)'
  BY <1>8 DEF StopDuringRun, OneEngine, WaitingIsIdle, TypeOK
<1>9. ASSUME NEW e \in Executions, NEW n \in Waits, TimePasses(e, n)
      PROVE  row' = row /\ engines' = engines
  BY <1>9 DEF TimePasses
<1>10. CASE UNCHANGED vars
  BY <1>1, <1>10 DEF vars, rowVars
<1> QED
  BY <1>1, <1>2, <1>3, <1>4, <1>5, <1>6, <1>7, <1>8, <1>9, <1>10 DEF Next

(* The inductive invariant, for any number of instances, executions and    *)
(* waits.                                                                  *)
THEOREM Invariance == Spec => []IInv
<1>1. Init => IInv
  BY Initially
<1>2. IInv /\ [Next]_vars => IInv'
  BY TypePreserved, ArmedPreserved, EnginesPreserved DEF IInv
<1> QED
  BY <1>1, <1>2, PTL DEF Spec

(* Timers on several instances and webhooks never make two runs work on    *)
(* one execution: the update with requireStatus 'waiting' in               *)
(* ActiveExecutions.add admits one of them.                                *)
THEOREM OneRunPerExecution == Spec => []OneEngine
<1>1. IInv => OneEngine
  BY DEF IInv
<1> QED
  BY <1>1, Invariance, PTL

(* An execution that was canceled while nobody ran it is never woken, by   *)
(* no timer, old poll or resume in flight on any instance.                 *)
THEOREM CanceledIsFinal == Spec => CanceledStaysCanceled
<1> DEFINE Kept == \A e \in Executions :
                     row[e] = "canceled" /\ engines[e] = 0 => row'[e] = "canceled"
<1>1. IInv /\ [Next]_vars => [Kept]_vars
  <2> SUFFICES ASSUME IInv, Next, NEW x \in Executions, row[x] = "canceled", engines[x] = 0
               PROVE  row'[x] = "canceled"
    OBVIOUS
  <2>1. TypeOK
    BY DEF IInv
  <2>2. ASSUME NEW r \in resumes, Resume(r) PROVE row'[x] = "canceled"
    BY <2>1, <2>2 DEF Resume, RequireStatus, TypeOK
  <2>3. ASSUME NEW e \in Executions, EndRun(e) PROVE row'[x] = "canceled"
    BY <2>1, <2>3 DEF EndRun, TypeOK
  <2>4. ASSUME NEW e \in Executions, StopDuringRun(e) PROVE row'[x] = "canceled"
    BY <2>1, <2>4 DEF StopDuringRun, TypeOK
  <2> QED
    BY <2>2, <2>3, <2>4 DEF Next, StartTracking, Tick, SetTimers, StopTracking, StartExecution,
       StopExecution, FindSingleExecution, ExecuteWebhook, TimePasses, rowVars
<1> QED
  BY <1>1, Invariance, PTL DEF Spec, CanceledStaysCanceled

-----------------------------------------------------------------------------
(***************************************************************************)
(* Parents whose children wait                                             *)
(***************************************************************************)

(* Initially nothing has waited and no child has a result. *)
LEMMA InitResumeInvariant == ParentInit => ResumeInvariant
<1> SUFFICES ASSUME ParentInit PROVE ResumeInvariant
  OBVIOUS
<1>1. Start \in StoredData /\ Start.wait = 0
  BY ParentConstants DEF StoredData, Start, Data, Own
<1>2. /\ 0 \in 0..MaxParentWaits /\ 0 \in 0..MaxFailures /\ 1 \in 1..(MaxChildren + 1)
      /\ 1 \in 1..MaxParentResumeAttempts
  BY ParentConstants
<1>t. ParentTypeOK
  BY <1>1, <1>2 DEF ParentInit, ParentTypeOK
<1>3. \A c \in Children : Answered(c)
  BY <1>1 DEF ParentInit, Answered
<1> QED
  BY <1>1, <1>t, <1>3 DEF ParentInit, ResumeInvariant

(* Storing the end or a new wait of the parent: every child has seen       *)
(* earlier waits only.                                                     *)
LEMMA SaveKeepsInvariant ==
  ASSUME ResumeInvariant,
         UNCHANGED <<next, result, resumeVars>>,
         child' \in [Children -> {"none", "inline", "waiting", "resumed", "updating",
                                  "writing", "starting", "found", "over"}],
         \A c \in Children : child'[c] = child[c] \/ child[c] = "inline",
         at' \in {"node", "child", "after", "none"},
         waitTill' \in BOOLEAN, data' \in StoredData, waits' \in 0..MaxParentWaits,
         parentRow' \in {"running", "waiting", "success", "error"},
         waits <= waits', data'.wait <= waits',
         parentRow' = "waiting" => waits < waits'
  PROVE  ResumeInvariant'
<1>1. ParentTypeOK'
  BY DEF ResumeInvariant, ParentTypeOK, resumeVars
<1>2. ASSUME NEW c \in Children PROVE Answered(c)'
  <2>1. /\ snapshot[c].wait <= waits /\ foundParent[c].wait <= waits
        /\ snapshot[c].wait \in Nat /\ foundParent[c].wait \in Nat
        /\ waits \in Nat /\ waits' \in Nat
    BY ParentConstants DEF ResumeInvariant, ParentTypeOK, Answered, StoredData
  <2>2. parentRow' = "waiting" => snapshot[c].wait # waits'
    BY <2>1
  <2> QED
    BY <2>1, <2>2 DEF ResumeInvariant, Answered, resumeVars
<1> QED
  BY <1>1, <1>2 DEF ResumeInvariant

(* Steps of the parent's engine *)
LEMMA EngineKeepsInvariant == ResumeInvariant /\ EngineStep => ResumeInvariant'
<1> SUFFICES ASSUME ResumeInvariant, EngineStep PROVE ResumeInvariant'
  OBVIOUS
<1> USE ParentConstants DEF ResumeInvariant, ParentTypeOK, parentVars, resumeVars
<1>0. \A c \in result : child[c] \notin {"none", "inline", "waiting", "resumed"}
  BY DEF Answered
<1>t. /\ next \in 1..(MaxChildren + 1) /\ waits \in 0..MaxParentWaits /\ result \subseteq Children
      /\ child \in [Children -> {"none", "inline", "waiting", "resumed", "updating",
                               "writing", "starting", "found", "over"}]
  OBVIOUS
<1>1. CASE ExecuteWorkflow
  <2>1. next \in Children /\ next + 1 \in 1..(MaxChildren + 1)
    BY <1>1 DEF ExecuteWorkflow, Children
  <2>2. child' = [child EXCEPT ![next] = "inline"] /\ next' = next + 1
    BY <1>1 DEF ExecuteWorkflow
  <2>3. ParentTypeOK'
    BY <1>1, <2>1, <2>2 DEF ExecuteWorkflow
  <2>4. ASSUME NEW c \in Children PROVE Answered(c)'
    <3>1. child'[c] = child[c] \/ (child'[c] = "inline" /\ c = next)
      BY <2>1, <2>2
    <3> QED
      BY <1>0, <1>1, <2>1, <2>2, <3>1 DEF ExecuteWorkflow, Answered, Children
  <2> QED
    BY <1>1, <2>3, <2>4 DEF ExecuteWorkflow
<1>2. CASE NodeEnds
  BY <1>2 DEF NodeEnds, Answered
<1>3. CASE ParkParent
  <2>1. waits' = waits + 1 /\ data' = Data("sub", waits + 1, Own)
    BY <1>3 DEF ParkParent, Save
  <2>2. data' \in StoredData /\ data'.wait <= waits' /\ waits' \in 0..MaxParentWaits
    BY <1>3, <2>1 DEF ParkParent, StoredData, Data, Own
  <2>3. waits <= waits' /\ waits < waits'
    BY <2>1
  <2>4. /\ UNCHANGED <<next, child, result, resumeVars>>
        /\ at' = "none" /\ waitTill' = FALSE
        /\ parentRow' \in {"running", "waiting", "success", "error"}
    BY <1>3 DEF ParkParent, Save
  <2> HIDE DEF ResumeInvariant, ParentTypeOK, resumeVars
  <2> QED
    BY <1>t, <2>1, <2>2, <2>3, <2>4, SaveKeepsInvariant
<1>4. CASE WaitAgain
  <2>1. waits' = waits + 1 /\ data' = Data("wait", waits + 1, Own)
    BY <1>4 DEF WaitAgain, Save
  <2>2. data' \in StoredData /\ data'.wait <= waits' /\ waits' \in 0..MaxParentWaits
    BY <1>4, <2>1 DEF WaitAgain, StoredData, Data, Own
  <2>3. waits <= waits' /\ waits < waits'
    BY <2>1
  <2>4. /\ UNCHANGED <<next, child, result, resumeVars>>
        /\ at' = "none" /\ waitTill' = FALSE
        /\ parentRow' \in {"running", "waiting", "success", "error"}
    BY <1>4 DEF WaitAgain, Save
  <2> HIDE DEF ResumeInvariant, ParentTypeOK, resumeVars
  <2> QED
    BY <1>t, <2>1, <2>2, <2>3, <2>4, SaveKeepsInvariant
<1>5. CASE ParentEnds
  <2>1. waits' = waits /\ data' = Data("end", waits, Own) /\ parentRow' \in {"success", "error"}
    BY <1>5 DEF ParentEnds, Save
  <2>2. data' \in StoredData /\ data'.wait = waits'
    BY <2>1 DEF StoredData, Data, Own
  <2>3. waits <= waits'
    BY <2>1
  <2>4. /\ UNCHANGED <<next, child, result, resumeVars>>
        /\ at' = "none" /\ waitTill' = FALSE
        /\ parentRow' \in {"running", "waiting", "success", "error"}
    BY <1>5 DEF ParentEnds, Save
  <2> HIDE DEF ResumeInvariant, ParentTypeOK, resumeVars
  <2> QED
    BY <1>t, <2>1, <2>2, <2>3, <2>4, SaveKeepsInvariant
<1>6. CASE OwnWaitEnds
  BY <1>6, SaveKeepsInvariant DEF OwnWaitEnds, Continue
<1>7. ASSUME NEW c \in Children, ChildReturns(c) PROVE ResumeInvariant'
  BY <1>0, <1>7 DEF ChildReturns, Answered
<1>8. ASSUME NEW c \in Children, ChildThrows(c) PROVE ResumeInvariant'
  <2>1. waits' = waits /\ data' = Data("end", waits, Own) /\ parentRow' = "error"
    BY <1>8 DEF ChildThrows, Save
  <2>2. data' \in StoredData /\ data'.wait = waits'
    BY <2>1 DEF StoredData, Data, Own
  <2>3. /\ child' \in [Children -> {"none", "inline", "waiting", "resumed", "updating",
                                  "writing", "starting", "found", "over"}]
        /\ \A b \in Children : child'[b] = child[b] \/ child[b] = "inline"
    BY <1>t, <1>8 DEF ChildThrows
  <2>4. /\ UNCHANGED <<next, result, resumeVars>> /\ waits <= waits'
        /\ at' = "none" /\ waitTill' = FALSE
    BY <1>8, <2>1 DEF ChildThrows, Save
  <2> HIDE DEF ResumeInvariant, ParentTypeOK, resumeVars
  <2> QED
    BY <1>t, <2>1, <2>2, <2>3, <2>4, SaveKeepsInvariant
<1> QED
  BY <1>1, <1>2, <1>3, <1>4, <1>5, <1>6, <1>7, <1>8 DEF EngineStep

(* Steps of a child and of its resumeParentExecution *)
LEMMA ChildKeepsInvariant ==
  ASSUME NEW c \in Children, ResumeInvariant,
         ResumeChild(c) \/ ChildEnds(c) \/ ResumeStep(c) \/ Fail(c) \/ StartFails(c)
  PROVE  ResumeInvariant'
<1> USE ParentConstants DEF ResumeInvariant, ParentTypeOK, parentVars, engineVars, resumeVars
<1>1. CASE ResumeChild(c)
  BY <1>1 DEF ResumeChild, Answered
<1>2. CASE ChildEnds(c)
  BY <1>2 DEF ChildEnds, Answered
<1>3. CASE ReadParent(c)
  <2>1. ParentTypeOK'
    BY <1>3 DEF ReadParent
  <2>2. ASSUME NEW b \in Children PROVE Answered(b)'
    BY <1>3 DEF ReadParent, Answered
  <2> QED
    BY <1>3, <2>1, <2>2 DEF ReadParent
<1>4. CASE WriteParent(c)
  <2>1. data' \in StoredData /\ data'.wait = snapshot[c].wait /\ data'.input = c /\ c # Own
    <3>1. snapshot[c] \in StoredData /\ c \in Children /\ c # Own
      BY DEF Children, Own
    <3> QED
      BY <1>4, <3>1 DEF WriteParent, StoredData
  <2>2. ParentTypeOK'
    BY <1>4, <2>1 DEF WriteParent
  <2>3. ASSUME NEW b \in Children PROVE Answered(b)'
    BY <1>4, <2>1 DEF WriteParent, Answered
  <2> QED
    BY <1>4, <2>1, <2>2, <2>3 DEF WriteParent, Answered
<1>5. CASE FindParent(c)
  <2>1. ParentTypeOK'
    BY <1>5 DEF FindParent
  <2>2. ASSUME NEW b \in Children PROVE Answered(b)'
    BY <1>5 DEF FindParent, Answered
  <2> QED
    BY <1>5, <2>1, <2>2 DEF FindParent
<1>6. CASE ResumeParent(c)
  <2>1. CASE parentRow = "waiting" /\ Continue(foundParent[c])
    BY <1>6, <2>1 DEF ResumeParent, Continue, Answered
  <2>2. CASE parentRow # "waiting" /\ UNCHANGED <<parentVars, engineVars>>
    BY <1>6, <2>2 DEF ResumeParent, Answered
  <2> QED
    BY <1>6, <2>1, <2>2 DEF ResumeParent
<1>7. CASE Fail(c)
  <2>1. ParentTypeOK'
    BY <1>7 DEF Fail, Caught, MayRetry, RetryFrom
  <2>2. ASSUME NEW b \in Children PROVE Answered(b)'
    BY <1>7 DEF Fail, Caught, RetryFrom, Answered
  <2> QED
    BY <1>7, <2>1, <2>2 DEF Fail, Caught
<1>8. CASE StartFails(c)
  <2>1. ParentTypeOK'
    BY <1>8 DEF StartFails, Caught, MayRetry, RetryFrom
  <2>2. ASSUME NEW b \in Children PROVE Answered(b)'
    BY <1>8 DEF StartFails, Caught, RetryFrom, Answered
  <2>3. data'.wait <= waits'
    BY <1>8 DEF StartFails, Answered
  <2> QED
    BY <2>1, <2>2, <2>3
<1> QED
  BY <1>1, <1>2, <1>3, <1>4, <1>5, <1>6, <1>7, <1>8 DEF ResumeStep

LEMMA StepKeepsInvariant == ResumeInvariant /\ [ParentNext]_familyVars => ResumeInvariant'
<1> SUFFICES ASSUME ResumeInvariant, [ParentNext]_familyVars PROVE ResumeInvariant'
  OBVIOUS
<1>1. CASE UNCHANGED familyVars
  BY <1>1
  DEF familyVars, parentVars, engineVars, resumeVars, ResumeInvariant, ParentTypeOK, Answered
<1>2. CASE ParentNext
  BY <1>2, EngineKeepsInvariant, ChildKeepsInvariant DEF ParentNext
<1> QED
  BY <1>1, <1>2

(* The invariant of the parent's waits holds in every reachable state. *)
THEOREM ResumeInvariantHolds == ParentSpec => []ResumeInvariant
  BY InitResumeInvariant, StepKeepsInvariant, PTL DEF ParentSpec

(* No child ends a wait it saw with the node's own input. *)
THEOREM ResumedWithResultHolds == ParentSpec => ResumedWithResult
<1>1. ResumeInvariant /\ [ParentNext]_familyVars =>
        [\A c \in result : ResumedBy(c) /\ snapshot[c].wait = waits =>
           foundParent[c].input # Own]_familyVars
  BY DEF ResumeInvariant, ParentTypeOK, Answered, ResumedBy
<1> QED
  BY <1>1, ResumeInvariantHolds, PTL DEF ParentSpec, ResumedWithResult
=============================================================================
