---------------------------- MODULE ParentResume ----------------------------
(***************************************************************************)
(* A parent execution whose sub-workflows wait: the Execute Workflow node, *)
(* which runs one child per item and puts the parent to wait as well, and  *)
(* resumeParentExecution of packages/cli/src/wait-tracker.ts, with which a *)
(* child that completes later wakes its parent.                            *)
(*                                                                         *)
(* One parent is modelled; parents share no state.  Its row has a status   *)
(* and the data from which it can be continued: the node it goes on with,  *)
(* the wait that saved it and the input of that node, which is the node's  *)
(* own or the result of a child.  Module WaitTracking says how the waits   *)
(* of the children end; the names here are apart from its names, so that   *)
(* WaitingProofs can extend both.                                          *)
(***************************************************************************)
EXTENDS Naturals

CONSTANTS
  MaxChildren,     \* bound: children the parent starts, one after another
  MaxParentWaits,  \* bound: how often the parent is put to wait
  MaxFailures,     \* bound: transient failures of database or queue
  MaxParentResumeAttempts

ASSUME ParentConstants ==
  /\ MaxChildren \in Nat /\ MaxParentWaits \in Nat /\ MaxFailures \in Nat
  /\ MaxParentResumeAttempts \in Nat \ {0}

VARIABLES
  parentRow,       \* status column of the parent
  data,            \* its stored execution data
  waits,           \* how often it was put to wait
  at,              \* where its engine is: "node" (Execute Workflow), "child", "after",
                   \* "none", or "lost" (taken over, but not started)
  waitTill,        \* TRUE when a child of this run of the node waits
  next,            \* number of the next child
  child,           \* where each child is, and then its resumeParentExecution
  result,          \* children whose last node returned data
  snapshot,        \* what updateParentExecutionWithChildResults read
  foundParent,     \* what startExecution read
  attempt,         \* attempt of withRetry
  failures         \* transient failures so far

parentVars == <<parentRow, data, waits>>
engineVars == <<at, waitTill, next>>
resumeVars == <<snapshot, foundParent, attempt, failures>>
familyVars == <<parentVars, engineVars, child, result, resumeVars>>

Children == 1..MaxChildren
Own == 0        \* a node's own input, as opposed to the result of a child
Data(node, wait, input) == [node |-> node, wait |-> wait, input |-> input]
Start == Data("start", 0, Own)

(* The parent has just been started; its row holds the data it was created *)
(* with.                                                                   *)
ParentInit ==
  /\ parentRow = "running" /\ data = Start /\ waits = 0
  /\ at = "node" /\ waitTill = FALSE /\ next = 1
  /\ child = [c \in Children |-> "none"] /\ result = {}
  /\ snapshot = [c \in Children |-> Start] /\ foundParent = [c \in Children |-> Start]
  /\ attempt = [c \in Children |-> 1] /\ failures = 0

-----------------------------------------------------------------------------
(***************************************************************************)
(* The parent's engine                                                     *)
(***************************************************************************)

(* The run of the parent ends and is saved. *)
Save(status, d) ==
  /\ parentRow' = status /\ data' = d
  /\ at' = "none" /\ waitTill' = FALSE

(* The node executes a child for the next item and awaits it. *)
ExecuteWorkflow ==
  /\ at = "node" /\ next <= MaxChildren
  /\ at' = "child" /\ next' = next + 1
  /\ child' = [child EXCEPT ![next] = "inline"]
  /\ UNCHANGED <<parentVars, waitTill, result, resumeVars>>

(* The child ends or begins to wait, which it has saved by now; in the     *)
(* latter case the parent will wait too, once the other items are done.    *)
ChildReturns(c) ==
  /\ at = "child" /\ child[c] = "inline"
  /\ \/ child' = [child EXCEPT ![c] = "over"] /\ waitTill' = waitTill
     \/ child' = [child EXCEPT ![c] = "waiting"] /\ waitTill' = TRUE
  /\ at' = "node"
  /\ UNCHANGED <<parentVars, next, result, resumeVars>>

(* The child fails and the node does not continue on failure: the parent   *)
(* fails, even if other children wait.                                     *)
ChildThrows(c) ==
  /\ at = "child" /\ child[c] = "inline"
  /\ child' = [child EXCEPT ![c] = "over"]
  /\ Save("error", Data("end", waits, Own))
  /\ UNCHANGED <<waits, next, result, resumeVars>>

(* All items are done and no child waits. *)
NodeEnds ==
  /\ at = "node" /\ ~waitTill
  /\ at' = "after"
  /\ UNCHANGED <<parentVars, waitTill, next, child, result, resumeVars>>

(* All items are done and a child waits: the node goes back to the stack   *)
(* with its own input.                                                     *)
ParkParent ==
  /\ at = "node" /\ waitTill /\ waits < MaxParentWaits
  /\ Save("waiting", Data("sub", waits + 1, Own))
  /\ waits' = waits + 1
  /\ UNCHANGED <<next, child, result, resumeVars>>

(* A later node of the parent waits, for a time or a call. *)
WaitAgain ==
  /\ at = "after" /\ waits < MaxParentWaits
  /\ Save("waiting", Data("wait", waits + 1, Own))
  /\ waits' = waits + 1
  /\ UNCHANGED <<next, child, result, resumeVars>>

ParentEnds ==
  /\ at \in {"node", "after"}
  /\ \E status \in {"success", "error"} :
       /\ at = "node" => status = "error"
       /\ Save(status, Data("end", waits, Own))
  /\ UNCHANGED <<waits, next, child, result, resumeVars>>

(* The parent goes on from stored data: a node that waited is disabled and *)
(* passes its input on; data from before the first wait starts it anew.    *)
Continue(d) ==
  /\ parentRow' = "running" /\ data' = d
  /\ at' = IF d.node = "start" THEN "node" ELSE "after"
  /\ UNCHANGED <<waits, waitTill, next>>

(* The timer or webhook of a later wait *)
OwnWaitEnds ==
  /\ parentRow = "waiting" /\ data.node = "wait"
  /\ Continue(data)
  /\ UNCHANGED <<child, result, resumeVars>>

-----------------------------------------------------------------------------
(***************************************************************************)
(* A child and its resumeParentExecution                                   *)
(***************************************************************************)

(* The wait of a child ends: resumeParentExecution awaits its result. *)
ResumeChild(c) ==
  /\ child[c] = "waiting"
  /\ child' = [child EXCEPT ![c] = "resumed"]
  /\ UNCHANGED <<parentVars, engineVars, result, resumeVars>>

(* The child completes with data of its last node (so that the parent is   *)
(* updated) or without (so that it is only started), waits again, or is    *)
(* stopped (so that its promise is rejected).                              *)
ChildEnds(c) ==
  /\ child[c] = "resumed"
  /\ \/ child' = [child EXCEPT ![c] = "updating"] /\ result' = result \cup {c}
     \/ \E s \in {"starting", "waiting", "over"} :
          child' = [child EXCEPT ![c] = s] /\ UNCHANGED result
  /\ UNCHANGED <<parentVars, engineVars, resumeVars>>

(* updateParentExecutionWithChildResults, up to its second await *)
ReadParent(c) ==
  /\ child[c] = "updating"
  /\ IF parentRow = "waiting"
     THEN /\ snapshot' = [snapshot EXCEPT ![c] = data]
          /\ child' = [child EXCEPT ![c] = "writing"]
          /\ UNCHANGED attempt
     ELSE /\ child' = [child EXCEPT ![c] = "starting"]
          /\ attempt' = [attempt EXCEPT ![c] = 1]
          /\ UNCHANGED snapshot
  /\ UNCHANGED <<parentVars, engineVars, result, foundParent, failures>>

(* Its write: the data it read with the child's result, whatever has       *)
(* become of the parent.                                                   *)
WriteParent(c) ==
  /\ child[c] = "writing"
  /\ data' = [snapshot[c] EXCEPT !.input = c]
  /\ child' = [child EXCEPT ![c] = "starting"]
  /\ attempt' = [attempt EXCEPT ![c] = 1]
  /\ UNCHANGED <<parentRow, waits, engineVars, result, snapshot, foundParent, failures>>

(* startExecution of the parent: its read; a finished parent is an error   *)
(* that is not retried.                                                    *)
FindParent(c) ==
  /\ child[c] = "starting"
  /\ IF parentRow = "success"
     THEN child' = [child EXCEPT ![c] = "over"] /\ UNCHANGED foundParent
     ELSE /\ child' = [child EXCEPT ![c] = "found"]
          /\ foundParent' = [foundParent EXCEPT ![c] = data]
  /\ UNCHANGED <<parentVars, engineVars, result, snapshot, attempt, failures>>

(* Its run: the conditional update of ActiveExecutions.add decides; a      *)
(* refusal is taken for a resume by another child.                         *)
ResumeParent(c) ==
  /\ child[c] = "found"
  /\ child' = [child EXCEPT ![c] = "over"]
  /\ \/ parentRow = "waiting" /\ Continue(foundParent[c])
     \/ parentRow # "waiting" /\ UNCHANGED <<parentVars, engineVars>>
  /\ UNCHANGED <<result, resumeVars>>

(* Mutant: the first failure is final. *)
MayRetryNever(c) == FALSE

(* withRetry: whether another attempt is made *)
MayRetry(c) == attempt[c] < MaxParentResumeAttempts

(* Mutant: a failed update is not repeated; the parent is started.         *)
RetryStart(c) == IF child[c] = "writing" THEN "starting" ELSE child[c]

(* The operation that withRetry repeats *)
RetryFrom(c) == IF child[c] \in {"updating", "writing"} THEN "updating" ELSE "starting"

(* withRetry catches a failure: the operation is repeated from its         *)
(* beginning or, in the end, given up and logged.                          *)
Caught(c) ==
  /\ failures < MaxFailures
  /\ failures' = failures + 1
  /\ attempt' = [attempt EXCEPT ![c] = IF MayRetry(c) THEN @ + 1 ELSE @]
  /\ child' = [child EXCEPT ![c] = IF MayRetry(c) THEN RetryFrom(c) ELSE "over"]
  /\ UNCHANGED <<result, snapshot, foundParent>>

(* A read, a write or the start of the parent fails, the latter before the *)
(* conditional update of ActiveExecutions.add.                             *)
Fail(c) ==
  /\ child[c] \in {"updating", "writing", "starting", "found"}
  /\ Caught(c)
  /\ UNCHANGED <<parentVars, engineVars>>

(* The start fails after that update: before the engine is built, when the *)
(* row stays running, or when the job is added, when processError saves    *)
(* an error.  The attempts that follow find the row not waiting.           *)
StartFails(c) ==
  /\ child[c] = "found" /\ parentRow = "waiting"
  /\ Caught(c)
  /\ parentRow' \in {"running", "error"} /\ data' = foundParent[c]
  /\ at' = "lost"
  /\ UNCHANGED <<waits, waitTill, next>>

-----------------------------------------------------------------------------
EngineStep ==
  \/ ExecuteWorkflow \/ NodeEnds \/ ParkParent \/ WaitAgain \/ ParentEnds \/ OwnWaitEnds
  \/ \E c \in Children : ChildReturns(c) \/ ChildThrows(c)

ResumeStep(c) == ReadParent(c) \/ WriteParent(c) \/ FindParent(c) \/ ResumeParent(c)

ParentNext ==
  \/ EngineStep
  \/ \E c \in Children : ResumeChild(c) \/ ChildEnds(c) \/ ResumeStep(c) \/ Fail(c) \/ StartFails(c)

ParentSpec == ParentInit /\ [][ParentNext]_familyVars

(* The instance that resumed a child goes on with the parent; nothing is   *)
(* assumed of engines and waits.                                           *)
ParentFairness == \A c \in Children : WF_familyVars(ResumeStep(c))

ParentFairSpec == ParentSpec /\ ParentFairness

-----------------------------------------------------------------------------
(***************************************************************************)
(* Properties                                                              *)
(***************************************************************************)

StoredData ==
  [node : {"start", "sub", "wait", "end"}, wait : 0..MaxParentWaits, input : Children \cup {Own}]

(* Every variable has its type. *)
ParentTypeOK ==
  /\ parentRow \in {"running", "waiting", "success", "error"}
  /\ data \in StoredData
  /\ snapshot \in [Children -> StoredData] /\ foundParent \in [Children -> StoredData]
  /\ waits \in 0..MaxParentWaits /\ next \in 1..(MaxChildren + 1)
  /\ at \in {"node", "child", "after", "none", "lost"} /\ waitTill \in BOOLEAN
  /\ child \in [Children -> {"none", "inline", "waiting", "resumed", "updating", "writing",
                             "starting", "found", "over"}]
  /\ result \subseteq Children
  /\ attempt \in [Children -> 1..MaxParentResumeAttempts] /\ failures \in 0..MaxFailures

(* A step in which child c lets the parent go on *)
ResumedBy(c) ==
  parentRow = "waiting" /\ parentRow' = "running" /\ child[c] = "found" /\ child'[c] = "over"

(* A child with a result that found the parent waiting never ends that     *)
(* wait with the node's own input, whatever other children read and write  *)
(* meanwhile and whichever attempts fail: its result or that of another    *)
(* child is there.                                                         *)
ResumedWithResult ==
  [][\A c \in result : ResumedBy(c) /\ snapshot[c].wait = waits =>
       foundParent[c].input # Own]_familyVars

(* Why it holds: from its write until the parent goes on, the wait that a  *)
(* child saw is left with a result, and nobody has seen a later wait.      *)
Answered(c) ==
  /\ c >= next => child[c] = "none"
  /\ c \in result => child[c] \notin {"none", "inline", "waiting", "resumed"}
  /\ snapshot[c].wait <= waits /\ foundParent[c].wait <= waits
  /\ c \in result /\ parentRow = "waiting" /\ snapshot[c].wait = waits =>
       /\ child[c] \in {"starting", "found"} => data.input # Own
       /\ child[c] = "found" => foundParent[c].input # Own

ResumeInvariant == ParentTypeOK /\ data.wait <= waits /\ \A c \in Children : Answered(c)

(* Once a child has completed, an engine goes on with the parent that      *)
(* waits for it, by this or by another child: "a transient failure         *)
(* recovers and the parent resumes" (wait-tracker.ts:185), unless the      *)
(* failures were as many as there are attempts.  One kind of failure does  *)
(* not recover: a start that fails after its conditional update has made   *)
(* the row running, since every further attempt is then refused and the    *)
(* refusal taken for a resume by another child (wait-tracker.ts:154-162).  *)
EveryParentResumes ==
  \A c \in Children :
    /\ parentRow = "waiting" /\ data.node = "sub" /\ child[c] \in {"updating", "starting"}
    ~> \/ at \in {"node", "child", "after"}
       \/ failures >= MaxParentResumeAttempts
       \/ at = "lost"

(* What the comment on updateParentExecutionWithChildResults says: the     *)
(* node returns a child's data "rather than the original input".           *)
NeverOwnInput ==
  [][\A c \in result : ResumedBy(c) => foundParent[c].input # Own]_familyVars

(* The parent goes on from the wait it is in, not from data of an earlier  *)
(* one or of its start.                                                    *)
ContinuesForward ==
  [][parentRow = "waiting" /\ parentRow' = "running" => data'.wait = waits]_familyVars
=============================================================================
