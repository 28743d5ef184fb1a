----------------------------- MODULE EvalFanOut -----------------------------
(***************************************************************************)
(* The fan-out of evaluation test runs over their test cases               *)
(* (TestRunnerService.runTest, test-runner.service.ee.ts) on top of the    *)
(* instance-wide evaluation queue, with users cancelling runs and single   *)
(* cases.                                                                  *)
(*                                                                         *)
(* Whether a slot of the queue survives a cancelled run depends on the     *)
(* order of promise callbacks, so they are explicit: `micro` is the        *)
(* microtask queue, and every other step waits until it is empty.  A       *)
(* request that cancels several runs aborts them in one synchronous loop,  *)
(* before any callback gets to run.                                        *)
(***************************************************************************)
EXTENDS ConcurrencyQueue

CONSTANTS
  TestRuns,         \* test runs in progress on the instance
  CasesPerRun,      \* test cases of each run
  RunConcurrency,   \* effectiveConcurrency, the argument of pLimit
  EvaluationLimit   \* capacity of the evaluation queue

ASSUME FanOutConstants ==
  /\ IsFiniteSet(TestRuns)
  /\ CasesPerRun \in Nat \ {0}
  /\ RunConcurrency \in Nat \ {0}
  /\ EvaluationLimit \in Nat \ {0}

Cases == TestRuns \X (1..CasesPerRun)

RunOf(c) == c[1]

CasesOf(t) == {c \in Cases : RunOf(c) = t}

VARIABLES
  row,        \* status column of each TestCaseExecution row
  at,         \* where the callback of each case is
  queue,      \* the evaluation queue
  listeners,  \* abort listeners of each run's signal, in the order of addEventListener
  micro,      \* pending promise callbacks: <<case, "acquired" | "aborted">>
  cancelling, \* test runs that the loop of a cancel request still has to abort
  aborted,    \* test runs whose signal is aborted
  finished    \* test runs that are over

vars == <<row, at, queue, listeners, micro, cancelling, aborted, finished>>

Init ==
  /\ row = [c \in Cases |-> "new"]
  /\ at = [c \in Cases |-> "pending"]
  /\ queue = NewQueue(EvaluationLimit)
  /\ listeners = [t \in TestRuns |-> <<>>]
  /\ micro = <<>>
  /\ cancelling = {}
  /\ aborted = {}
  /\ finished = {}

Idle == micro = <<>> /\ cancelling = {}

Goto(c, label) == at' = [at EXCEPT ![c] = label]

InFlight(t) == {c \in CasesOf(t) : at[c] \notin {"pending", "ended"}}

(* pLimit calls the next callback in order when one of its places is free; *)
(* the callback returns at once if the run is aborted.                     *)
Begin(c) ==
  /\ Idle
  /\ at[c] = "pending"
  /\ \A d \in CasesOf(RunOf(c)) : d[2] < c[2] => at[d] # "pending"
  /\ Cardinality(InFlight(RunOf(c))) < RunConcurrency
  /\ Goto(c, IF RunOf(c) \in aborted THEN "ended" ELSE "claiming")
  /\ UNCHANGED <<row, queue, listeners, micro, cancelling, aborted, finished>>

(* Mutant: the row is updated whatever its status. *)
ClaimableAlways(c) == TRUE

(* The WHERE clause of tryMarkCaseAsRunning. *)
Claimable(c) == row[c] = "new"

Claim(c) ==
  /\ Idle
  /\ at[c] = "claiming"
  /\ IF Claimable(c)
     THEN Goto(c, "claimed") /\ row' = [row EXCEPT ![c] = "running"]
     ELSE Goto(c, "ended") /\ UNCHANGED row
  /\ UNCHANGED <<queue, listeners, micro, cancelling, aborted, finished>>

(* The abort listener is registered (an aborted signal will not fire it    *)
(* any more), then throttle is called.                                     *)
Throttle(c) ==
  /\ Idle
  /\ at[c] = "claimed"
  /\ Goto(c, "throttled")
  /\ listeners' = IF RunOf(c) \in aborted THEN listeners
                  ELSE [listeners EXCEPT ![RunOf(c)] = Append(@, c)]
  /\ queue' = Enqueue(queue, c)
  /\ micro' = IF MustWait(queue) THEN micro ELSE Append(micro, <<c, "acquired">>)
  /\ UNCHANGED <<row, cancelling, aborted, finished>>

(* Callbacks of the throttle promises that a queue operation resolves. *)
Acquiring(R) == IF R = {} THEN <<>> ELSE <<<<CHOOSE d \in R : TRUE, "acquired">>>>

(* removeEventListener: nothing if the listener has fired. *)
Without(s, c) ==
  IF \E i \in DOMAIN s : s[i] = c
  THEN LET i == CHOOSE i \in DOMAIN s : s[i] = c
       IN  SubSeq(s, 1, i - 1) \o SubSeq(s, i + 1, Len(s))
  ELSE s

Unlisten(c) == [listeners EXCEPT ![RunOf(c)] = Without(@, c)]

(* Mutant: a case that sees the abort after the throttle keeps its slot. *)
AcquiredWithoutRelease(c) ==
  /\ listeners' = Unlisten(c)
  /\ micro' = Tail(micro)
  /\ UNCHANGED queue
  /\ Goto(c, IF RunOf(c) \in aborted THEN "ended" ELSE "executing")

(* The race is won by throttle; an abort that came in between gives the    *)
(* slot back.                                                              *)
Acquired(c) ==
  /\ listeners' = Unlisten(c)
  /\ IF RunOf(c) \in aborted
     THEN /\ queue' = Dequeue(queue)
          /\ micro' = Tail(micro) \o Acquiring(Resolved(queue))
          /\ Goto(c, "ended")
     ELSE /\ micro' = Tail(micro)
          /\ UNCHANGED queue
          /\ Goto(c, "executing")

(* The race is won by the abort.  throttleAcquired is still false: setting *)
(* it is what decides the race for throttle.  remove() takes the case out  *)
(* of the queue if it is still there and lets the next one through.        *)
Evicted(c) ==
  /\ queue' = Remove(queue, c)
  /\ micro' = Tail(micro) \o Acquiring(RemoveResolves(queue, c))
  /\ Goto(c, "ended")
  /\ UNCHANGED listeners

(* The callback at the head of the microtask queue; the loser of a race    *)
(* that is already decided does nothing.                                   *)
Microtask ==
  /\ micro # <<>> /\ cancelling = {}
  /\ LET c == Head(micro)[1]
     IN  IF at[c] # "throttled"
         THEN micro' = Tail(micro) /\ UNCHANGED <<at, queue, listeners>>
         ELSE IF Head(micro)[2] = "acquired" THEN Acquired(c) ELSE Evicted(c)
  /\ UNCHANGED <<row, cancelling, aborted, finished>>

(* runTestCase ends and the row gets its result. *)
EndCase(c) ==
  /\ Idle
  /\ at[c] = "executing"
  /\ Goto(c, "closing")
  /\ \E s \in {"success", "error"} : row' = [row EXCEPT ![c] = s]
  /\ UNCHANGED <<queue, listeners, micro, cancelling, aborted, finished>>

(* The outer `finally` releases by mode. *)
Finally(c) ==
  /\ Idle
  /\ at[c] = "closing"
  /\ Goto(c, "ended")
  /\ queue' = Dequeue(queue)
  /\ micro' = Acquiring(Resolved(queue))
  /\ UNCHANGED <<row, listeners, cancelling, aborted, finished>>

(* cancelTestRunLocally (one run) and cancelCollectionLocally (the runs of *)
(* a collection) abort the runs T whose controllers they find.             *)
Cancel(T) ==
  /\ Idle
  /\ T # {} /\ T \subseteq TestRuns \ (aborted \cup finished)
  /\ cancelling' = T
  /\ UNCHANGED <<row, at, queue, listeners, micro, aborted, finished>>

(* The next abort of the loop: every listener of the run resolves its      *)
(* race.  The runs come in the order of the database query.                *)
AbortNext(t) ==
  /\ t \in cancelling
  /\ cancelling' = cancelling \ {t}
  /\ aborted' = aborted \cup {t}
  /\ micro' = micro \o [i \in 1..Len(listeners[t]) |-> <<listeners[t][i], "aborted">>]
  /\ listeners' = [listeners EXCEPT ![t] = <<>>]
  /\ UNCHANGED <<row, at, queue, finished>>

(* cancelIfNew: a user cancels one case that has not started. *)
CancelIfNew(c) ==
  /\ Idle
  /\ row[c] = "new"
  /\ row' = [row EXCEPT ![c] = "cancelled"]
  /\ UNCHANGED <<at, queue, listeners, micro, cancelling, aborted, finished>>

(* Mutant: a cancelled run does not sweep its rows. *)
SweptNever(t) == {}

(* markAllPendingAsCancelled, when the run was aborted. *)
Swept(t) ==
  {c \in CasesOf(t) : t \in aborted /\ row[c] \notin {"success", "error", "cancelled"}}

(* Promise.all is through; the run is marked completed or cancelled. *)
FinishRun(t) ==
  /\ Idle
  /\ t \notin finished
  /\ \A c \in CasesOf(t) : at[c] = "ended"
  /\ row' = [c \in Cases |-> IF c \in Swept(t) THEN "cancelled" ELSE row[c]]
  /\ finished' = finished \cup {t}
  /\ UNCHANGED <<at, queue, listeners, micro, cancelling, aborted>>

CaseStep(c) == Begin(c) \/ Claim(c) \/ Throttle(c) \/ EndCase(c) \/ Finally(c)

Next ==
  \/ \E c \in Cases : CaseStep(c) \/ CancelIfNew(c)
  \/ \E T \in SUBSET TestRuns : Cancel(T)
  \/ \E t \in TestRuns : AbortNext(t) \/ FinishRun(t)
  \/ Microtask

(* The event loop serves every callback, and test executions end. *)
Fairness ==
  /\ WF_vars(Microtask)
  /\ \A c \in Cases : WF_vars(CaseStep(c))
  /\ \A t \in TestRuns : WF_vars(AbortNext(t)) /\ WF_vars(FinishRun(t))

Spec == Init /\ [][Next]_vars

FairSpec == Spec /\ Fairness

-----------------------------------------------------------------------------
(***************************************************************************)
(* Properties                                                              *)
(***************************************************************************)

Labels == {"pending", "claiming", "claimed", "throttled", "executing", "closing", "ended"}

Over == {"success", "error", "cancelled"}

(* Every variable has its type. *)
TypeOK ==
  /\ row \in [Cases -> {"new", "running"} \cup Over]
  /\ at \in [Cases -> Labels]
  /\ queue \in [capacity : Int, queue : Seq(Cases)]
  /\ listeners \in [TestRuns -> Seq(Cases)]
  /\ micro \in Seq(Cases \X {"acquired", "aborted"})
  /\ cancelling \subseteq TestRuns /\ aborted \subseteq TestRuns /\ finished \subseteq TestRuns

(* The cases that wait for a slot of the queue or hold one *)
UsesQueue(c) == at[c] \in {"throttled", "executing", "closing"}

Using == {c \in Cases : UsesQueue(c)}

(* The slots that are in circulation: free ones, and those of the cases    *)
(* that wait or run (waiting ones drive the counter below zero).           *)
Slots == queue.capacity + Cardinality(Using)

(* The abort is about to win the race of a case that was let through       *)
(* already, by the eviction of another case of the same cancel request.    *)
LateAbort ==
  \E c \in Cases :
    at[c] = "throttled" /\ ~Has(queue, c) /\ micro # <<>> /\ Head(micro) = <<c, "aborted">>

(* However the aborts of runs, the throttle and the releases interleave,   *)
(* a slot of the evaluation queue is given back exactly once, except in    *)
(* one case: remove() of a late abort finds the case gone from the queue,  *)
(* and its slot is lost, although "we evict ourselves from the queue so    *)
(* the slot returns to circulation" (test-runner.service.ee.ts:843).       *)
OnlyLateAbortLosesSlot == [][Slots' # Slots => LateAbort]_vars

(* A case the user cancelled before it started is never executed: the      *)
(* claim of the runner and the cancellation exclude each other, so the     *)
(* row is not claimed, run or overwritten with a result afterwards.        *)
CancelledCaseNeverRuns ==
  [][\A c \in Cases :
       row[c] = "cancelled" => row'[c] = "cancelled" /\ at'[c] # "executing"]_vars

(* A run that is over leaves no case row at new or running. *)
RowsSettled ==
  \A t \in finished : \A c \in CasesOf(t) : row[c] \in Over

(* Every test run comes to its end, whatever the other runs on the same    *)
(* queue do and whoever is cancelled, as long as the queue has a slot left *)
(* (see OnlyLateAbortLosesSlot).                                           *)
EveryRunFinishes == \A t \in TestRuns : <>(t \in finished \/ Slots < 1)
=============================================================================
