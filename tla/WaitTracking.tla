---------------------------- MODULE WaitTracking ----------------------------
(***************************************************************************)
(* Resuming waiting executions: WaitTracker of packages/cli/src/           *)
(* wait-tracker.ts on every main instance, the waiting webhook, and the    *)
(* conditional update in ActiveExecutions.add that they all end in.        *)
(*                                                                         *)
(* Only the leader polls; leadership comes and goes (module                *)
(* LeaderElection says how).  A time is far, near (within the 70 seconds a *)
(* poll looks ahead) or due.  The waits of an execution are numbered.      *)
(***************************************************************************)
EXTENDS Integers, FiniteSets

CONSTANTS
  Hosts,         \* main instances
  Executions,    \* executions
  Webhooks,      \* executions that a webhook may resume as well
  Polls,         \* bound: database queries of a host in flight
  MaxWaits,      \* bound: waits of an execution
  MaxTakeovers,  \* bound: takeovers of a host
  MaxLeaders     \* bound: instances that lead at the same time

ASSUME WaitConstants ==
  /\ Webhooks \subseteq Executions
  /\ MaxWaits \in Nat \ {0}
  /\ MaxTakeovers \in Nat /\ MaxLeaders \in Nat

VARIABLES
  row,        \* status column of each execution
  wait,       \* the wait an execution is in, or was in last
  time,       \* of each wait: how far its waitTill is
  engines,    \* runs working on the execution
  polling,    \* hosts whose mainTimer is set
  takeovers,  \* how often a host has taken over
  found,      \* answers of the database to each query in flight
  entry,      \* waitingExecutions: the wait the timer was set for, or 0
  armed,      \* executions whose timer in waitingExecutions is running
  resumes,    \* resumes between their trigger and the conditional update
  stopping    \* executions whose stop has still to write the row

rowVars == <<row, wait, time, engines>>
trackerVars == <<polling, takeovers, found, entry, armed>>
vars == <<rowVars, trackerVars, resumes, stopping>>

Waits == 1..MaxWaits
Idle == <<>>    \* no query in flight

(* Every execution has just been put to wait and will be due soon; no      *)
(* instance leads yet.                                                     *)
Init ==
  /\ row = [e \in Executions |-> "waiting"]
  /\ wait = [e \in Executions |-> 1]
  /\ time = [e \in Executions |-> [n \in Waits |-> IF n = 1 THEN "near" ELSE "far"]]
  /\ engines = [e \in Executions |-> 0]
  /\ polling = {}
  /\ takeovers = [h \in Hosts |-> 0]
  /\ found = [h \in Hosts |-> [p \in Polls |-> Idle]]
  /\ entry = [h \in Hosts |-> [e \in Executions |-> 0]]
  /\ armed = [h \in Hosts |-> {}]
  /\ resumes = {}
  /\ stopping = {}

-----------------------------------------------------------------------------
(***************************************************************************)
(* Tracking                                                                *)
(***************************************************************************)

(* What a poll finds: the present wait of every execution that waits and   *)
(* is not far off, 0 for the others.                                       *)
WaitingExecutions ==
  [e \in Executions |->
     IF row[e] = "waiting" /\ time[e][wait[e]] # "far" THEN wait[e] ELSE 0]

(* getWaitingExecutions, up to its await *)
Query(h) ==
  \E p \in Polls :
    /\ found[h][p] = Idle
    /\ found' = [found EXCEPT ![h][p] = WaitingExecutions]

(* A takeover sets the interval and polls at once. *)
StartTracking(h) ==
  /\ h \notin polling /\ Cardinality(polling) < MaxLeaders
  /\ takeovers[h] < MaxTakeovers
  /\ polling' = polling \cup {h}
  /\ takeovers' = [takeovers EXCEPT ![h] = @ + 1]
  /\ Query(h)
  /\ UNCHANGED <<rowVars, entry, armed, resumes, stopping>>

(* The interval fires. *)
Tick(h) ==
  /\ h \in polling
  /\ Query(h)
  /\ UNCHANGED <<rowVars, polling, takeovers, entry, armed, resumes, stopping>>

(* Mutant: an entry is made only for the first wait of an execution. *)
NewOnesFirstWait(h, answer) == {e \in Executions : entry[h][e] = 0 /\ answer[e] = 1}

(* The executions of an answer that have no entry yet *)
NewOnes(h, answer) == {e \in Executions : entry[h][e] = 0 /\ answer[e] # 0}

(* getWaitingExecutions, after its await: nobody looks whether this        *)
(* instance still leads.                                                   *)
SetTimers(h) ==
  \E p \in Polls :
    /\ found[h][p] # Idle
    /\ found' = [found EXCEPT ![h][p] = Idle]
    /\ LET answer == found[h][p]
           new == NewOnes(h, answer)
       IN  /\ entry' = [entry EXCEPT ![h] =
                          [e \in Executions |-> IF e \in new THEN answer[e] ELSE entry[h][e]]]
           /\ armed' = [armed EXCEPT ![h] = @ \cup new]
    /\ UNCHANGED <<rowVars, polling, takeovers, resumes, stopping>>

(* A step-down clears the interval and the timers, and keeps the entries.  *)
StopTracking(h) ==
  /\ h \in polling
  /\ \E g \in Hosts : takeovers[g] < MaxTakeovers \/ g \in polling \ {h}
  /\ polling' = polling \ {h}
  /\ armed' = [armed EXCEPT ![h] = {}]
  /\ UNCHANGED <<rowVars, takeovers, found, entry, resumes, stopping>>

-----------------------------------------------------------------------------
(***************************************************************************)
(* Resuming.  A resume record has the wait whose timer or webhook caused   *)
(* it and the wait whose data it has read, 0 before it has read any.       *)
(***************************************************************************)

Untrack(h, e) ==
  /\ entry' = [entry EXCEPT ![h][e] = 0]
  /\ armed' = [armed EXCEPT ![h] = @ \ {e}]

(* Bound: one resume of an execution in flight per host, and one by webhook. *)
InFlight(e, by) == \E r \in resumes : r.of = e /\ r.by = by

(* The timer fires: startExecution drops the entry and begins to read.     *)
StartExecution(h, e) ==
  /\ e \in armed[h]
  /\ ~InFlight(e, h)
  /\ time[e][entry[h][e]] = "due"
  /\ Untrack(h, e)
  /\ resumes' = resumes \cup {[of |-> e, cause |-> entry[h][e], data |-> 0, by |-> h]}
  /\ UNCHANGED <<rowVars, polling, takeovers, found, stopping>>

(* startExecution reads the row; only a finished one ends the resume.      *)
FindSingleExecution(r) ==
  /\ r.data = 0
  /\ resumes' = (resumes \ {r}) \cup
                  (IF row[r.of] = "success" THEN {} ELSE {[r EXCEPT !.data = wait[r.of]]})
  /\ UNCHANGED <<rowVars, trackerVars, stopping>>

(* A waiting webhook is called: it reads the row and leaves the timers.    *)
ExecuteWebhook(e) ==
  /\ e \in Webhooks
  /\ ~InFlight(e, "webhook")
  /\ row[e] = "waiting"
  /\ resumes' = resumes \cup {[of |-> e, cause |-> wait[e], data |-> wait[e], by |-> "webhook"]}
  /\ UNCHANGED <<rowVars, trackerVars, stopping>>

(* Mutant: the update does not ask for the status. *)
RequireStatusNever(e) == TRUE

RequireStatus(e) == row[e] = "waiting"

(* ActiveExecutions.add, after it got its slot: the conditional update     *)
(* starts the execution, or the resume is dropped.                         *)
Resume(r) ==
  /\ r.data # 0
  /\ resumes' = resumes \ {r}
  /\ IF RequireStatus(r.of)
     THEN /\ row' = [row EXCEPT ![r.of] = "running"]
          /\ engines' = [engines EXCEPT ![r.of] = @ + 1]
     ELSE UNCHANGED <<row, engines>>
  /\ UNCHANGED <<wait, time, trackerVars, stopping>>

-----------------------------------------------------------------------------
(***************************************************************************)
(* The execution itself, stopping it, and time                             *)
(***************************************************************************)

(* A run ends and saves its status: it has finished, or waits again. *)
EndRun(e) ==
  /\ engines[e] > 0
  /\ engines' = [engines EXCEPT ![e] = @ - 1]
  /\ \/ row' = [row EXCEPT ![e] = "success"] /\ UNCHANGED wait
     \/ /\ wait[e] < MaxWaits
        /\ row' = [row EXCEPT ![e] = "waiting"]
        /\ wait' = [wait EXCEPT ![e] = @ + 1]
  /\ UNCHANGED <<time, trackerVars, resumes, stopping>>

(* A user stops a waiting execution at host h, whose tracker forgets it.   *)
StopExecution(h, e) ==
  /\ row[e] = "waiting"
  /\ e \notin stopping
  /\ Untrack(h, e)
  /\ stopping' = stopping \cup {e}
  /\ UNCHANGED <<rowVars, polling, takeovers, found, resumes>>

StopDuringRun(e) ==
  /\ e \in stopping
  /\ stopping' = stopping \ {e}
  /\ row' = [row EXCEPT ![e] = "canceled"]
  /\ UNCHANGED <<wait, time, engines, trackerVars, resumes>>

(* The waitTill of a wait that has begun comes nearer. *)
TimePasses(e, n) ==
  /\ n <= wait[e]
  /\ time[e][n] # "due"
  /\ time' = [time EXCEPT ![e][n] = IF @ = "far" THEN "near" ELSE "due"]
  /\ UNCHANGED <<row, wait, engines, trackerVars, resumes, stopping>>

Next ==
  \/ \E h \in Hosts : StartTracking(h) \/ Tick(h) \/ SetTimers(h) \/ StopTracking(h)
  \/ \E h \in Hosts, e \in Executions : StartExecution(h, e) \/ StopExecution(h, e)
  \/ \E r \in resumes : FindSingleExecution(r) \/ Resume(r)
  \/ \E e \in Executions : ExecuteWebhook(e) \/ EndRun(e) \/ StopDuringRun(e)
  \/ \E e \in Executions, n \in Waits : TimePasses(e, n)

Spec == Init /\ [][Next]_vars

(***************************************************************************)
(* There is a leader in the end; intervals, queries, timers and calls make *)
(* progress; a time that is near passes.                                   *)
(***************************************************************************)
Fairness ==
  /\ WF_vars(polling = {} /\ \E h \in Hosts : StartTracking(h))
  /\ \A h \in Hosts : WF_vars(Tick(h)) /\ WF_vars(SetTimers(h))
  /\ \A h \in Hosts, e \in Executions : WF_vars(StartExecution(h, e))
  /\ \A e \in Executions, by \in Hosts \cup {"webhook"} :
       WF_vars(\E r \in resumes : r.of = e /\ r.by = by /\ (FindSingleExecution(r) \/ Resume(r)))
  /\ \A e \in Executions : WF_vars(StopDuringRun(e))
  /\ WF_vars(\E e \in Executions, n \in Waits : time[e][n] = "near" /\ TimePasses(e, n))

FairSpec == Spec /\ Fairness

-----------------------------------------------------------------------------
(***************************************************************************)
(* Properties                                                              *)
(***************************************************************************)

(* The type invariant. *)
TypeOK ==
  /\ row \in [Executions -> {"waiting", "running", "success", "canceled"}]
  /\ wait \in [Executions -> Waits]
  /\ time \in [Executions -> [Waits -> {"far", "near", "due"}]]
  /\ engines \in [Executions -> Nat]
  /\ polling \subseteq Hosts
  /\ takeovers \in [Hosts -> 0..MaxTakeovers]
  /\ found \in [Hosts -> [Polls -> [Executions -> 0..MaxWaits] \cup {Idle}]]
  /\ entry \in [Hosts -> [Executions -> 0..MaxWaits]]
  /\ armed \in [Hosts -> SUBSET Executions]
  /\ resumes \subseteq [of : Executions, cause : Waits, data : 0..MaxWaits,
                        by : Hosts \cup {"webhook"}]
  /\ stopping \subseteq Executions

(* However many instances set a timer for a wait, and however many         *)
(* webhooks race with them, one run at a time works on an execution.       *)
OneEngine == \A e \in Executions : engines[e] <= 1

(* Timers on other instances, answers of old polls and resumes in flight   *)
(* never wake an execution that was canceled while nobody ran it.          *)
CanceledStaysCanceled ==
  [][\A e \in Executions :
       row[e] = "canceled" /\ engines[e] = 0 => row'[e] = "canceled"]_vars

(* "Add timers for each waiting execution that they get started at the     *)
(* correct time" (wait-tracker.ts:96): a wait whose time has come ends.    *)
EveryWaitEnds ==
  \A e \in Executions, n \in Waits :
    (row[e] = "waiting" /\ wait[e] = n /\ time[e][n] = "due")
      ~> (row[e] # "waiting" \/ wait[e] # n)

(* A resume continues the wait whose timer or webhook caused it, with the  *)
(* data of that wait.                                                      *)
ResumesItsOwnWait ==
  [][\A r \in resumes :
       row[r.of] = "waiting" /\ row'[r.of] = "running" /\ r \notin resumes'
         => r.cause = wait[r.of] /\ r.data = wait[r.of]]_vars
=============================================================================
