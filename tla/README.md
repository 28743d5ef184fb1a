# Verification of the n8n execution runtime

This directory holds TLA+ models of the part of n8n that decides *when, where
and how often a workflow execution runs*: the concurrency limits, the life of
an execution inside a main process, queue mode with its workers and its
recovery, evaluation test runs, the election of a leader among main instances,
the resumption of waiting executions and of their parents, the task runners
that execute user code, and what is executed again when only a part of a
workflow is run. TLC checks the models on small instances, TLAPS proves the
central invariants and a refinement for every instance. Paths below are relative to `packages/cli/src` unless they
start with `packages/`. `PROJECT.json` maps every definition to its source
lines and lists runs, mutants, hazards, findings and theorems.

## The system and its parts

| Part | State | Operations | Hard because | Correct when |
|---|---|---|---|---|
| Concurrency control (`concurrency/`) | a counter and a list of deferred promises per limited kind (production, evaluation), a flag `isEnabled`, a lazily created evaluation queue | `throttle`, `release`, `remove`, `disable`, `removeAll` | bare counter moved in three places, negative while callers wait | no slot leaks or is invented, no slot idles while somebody waits, first come first served, nobody starves |
| Active executions (`active-executions.ts`) | entry per execution id with status, engine and post-execute promise; a capacity reservation per run | `add`, `attachWorkflowExecution`, `stopExecution`, `finalizeExecution`, `shutdown` | everything is found by execution id, an execution has several runs, every await is an interleaving point | capacity comes back on every path, a working engine can be found, shutdown waits for results and ends |
| Workflow runner (`workflow-runner.ts`) | timeouts | `run`, `runMainProcess`, `processError`, `failExecution` | many failure paths that must all settle one promise | every execution gets a final status |
| Execution rows (`executions/`, `execution-lifecycle/`) | status column | create, `setRunning`, conditional update on resume, final save, save on cancel, stop's write | unconditional writes of several actors | one engine per execution |
| Evaluation fan-out (`evaluation.ee/test-runner`) | a row per test case, abort listeners, one shared queue | claim, throttle, evict, run, release, abort, cancel one case, final sweep | outcome depends on the order of promise callbacks | the slot comes back, no row stays open, a cancelled case never runs |
| Leader election (`scaling/multi-main-setup.ee.ts`, `leader-election-client.ts`) | one Redis key with a time to live, a role per instance | init, periodic check, claim, renew, step down, shutdown | lost answers, expiry, unguarded delete | one leader unless something failed, and again one when faults are over |
| Wait tracker (`wait-tracker.ts`) | timers per waiting execution on every instance | poll, set timers, start, stop, step down | stale polls and timers, changing leaders, webhooks | one engine, canceled stays canceled, every wait ends at its time |
| Parents of waiting sub-workflows (`wait-tracker.ts`, `workflow-helpers.ts`, Execute Workflow node) | the parent's row and data, per child a chain of reads and writes | execute children, park, `updateParentExecutionWithChildResults`, `startExecution`, `withRetry` | several children update and start one parent, each step may fail | the parent goes on once a child completes, with a result |
| Task runners (`task-runners/`, `packages/@n8n/task-runner`) | pending offers and requests, tasks, timers at broker, runner and requester | offer, request, settle, accept, defer, reject, settings, done, cancel, time-outs, drain, (de)register | three parties with their own timers and no transactions | every caller is answered, every task ends, no runner is overloaded |
| Queue mode and its recovery (`scaling/`, `workflow-runner.ts`) | row, Bull job, job processor, caller's promise | enqueue, watch, process, save, report, stop, abort, stall, `recoverFromQueue` | four processes and a database without transactions between them, any of them dies | an execution runs at most once, its row ends, its caller is answered |
| Partial execution (`packages/core/src/execution-engine/partial-execution-utils`) | a directed graph, run data | filter, subgraph, start nodes, cycles, clean run data, recreate the stack | graph algorithms with loops, disabled nodes and several inputs that rely on each other | nothing needed is skipped, nothing starts with data about to be replaced |

How they interact. A run calls `ActiveExecutions.add`, which creates or
conditionally updates the row and *waits in the concurrency queue* in between;
the reservation is released by the `finally` of the run's post-execute
promise. `ExecutionService.stop` reaches into the queue, the registry and the
wait tracker and then writes the row. The wait tracker of the leading
instance, waiting webhooks and finished children all resume through the same
conditional update. The test runner uses the evaluation queue directly.
Leadership events start and stop the wait tracker and the recovery of queue
mode. In queue mode the registry's promise is settled by what Bull reports of
the job; the worker that runs it writes the row. Sub-workflows run inside the
process of their parent until they wait.

## Modules

| Module | Models | Extends |
|---|---|---|
| `ConcurrencyQueue` | `ConcurrencyQueue`: operators on a record `[capacity, queue]` | |
| `ConcurrencyControl` | `ConcurrencyControlService`: one action per operation, any caller | `ConcurrencyQueue` |
| `ConcurrencyQueueLemmas`, `ConcurrencyControlProofs` | proofs | |
| `ActiveExecutions`, `ActiveExecutionsProofs` | registry, runner, reservation, engine ends and saves, stop, resume, shutdown, crash, restart; proofs | `ConcurrencyQueue` |
| `EvalFanOut`, `EvalFanOutProofs` | per-case callbacks of `runTest` with an explicit microtask queue; proofs | `ConcurrencyQueue` |
| `LeaderElection`, `LeaderElectionProofs` | `MultiMainSetup` and `LeaderElectionClient`; proofs | |
| `WaitTracking` | `WaitTracker` on every main, waiting webhooks, stops | |
| `ParentResume` | a parent, its children and `resumeParentExecution` | |
| `WaitingProofs` | proofs about both | `WaitTracking`, `ParentResume` |
| `TaskBroker`, `TaskBrokerProofs` | `TaskBroker`, its WebSocket server, the local requester, runners and launchers; proofs | |
| `QueuedExecution` | abstract: runs at most once, answered at most once | |
| `ScalingQueue`, `ScalingQueueProofs` | queue mode and recovery, shown to implement `QueuedExecution`; proofs | instantiates `QueuedExecution` |
| `DirectedGraph` | `DirectedGraph` as operators on a graph record | |
| `PartialExecution` | `runPartialWorkflow2` up to the execution stack | `DirectedGraph` |
| `MC...` | instances for TLC | |

Conventions. Code between two awaits is one step; promise callbacks that run
as microtasks belong to the step that settles the promise, except in
`EvalFanOut`, whose subject is their order. A definition that starts with the
comment "Mutant:" is a plausible bug of the definition that follows it; no
specification uses it.

**ConcurrencyQueue / ConcurrencyControl.** `queues[t]` is the queue of a kind
with its counter, `waiting` the callers whose promise is pending, `passed`
those that were let through, `slots` those of them the queue counted. `created`
and `evalQueueResolved` are the lazily created evaluation queue;
`EnsureEvalQueueResolved` is the first line of every operation. `Disable` is
what shutdown calls.

**ActiveExecutions.** An execution is a row (`db`), a run `<<e, k>>` is the
k-th call of `WorkflowRunner.run` for it, with a program counter `pc` that names
the awaits. `entry[e]` is the run registered under the id, `status` and
`engineOf` are fields of an entry, `held` the reservations. `Settle` is the
`finally` in `add`; `FinalizeExecution` and `StopExecution` look up the entry
by execution id as the code does, so they may hit another run's entry. A run
that waits is `parking` from `putExecutionToWait` until the node loop ends.
`RunMainProcessFails` is a failure of the database or the static data before the
`try` of `runMainProcess`: the run is `rejected`, its entry and its slot stay.
`Shutdown`, `Exit`, `Crash` and `Boot` are the process; `Boot` takes the rows
that are still `new`, as `runEnqueuedExecutions` does.

**EvalFanOut.** `at[c]` is where the callback of a case is; `micro` is the
microtask queue, and no other step happens until it is empty. The race between
`throttle` and the abort listener is decided by the first of their callbacks.
`listeners[t]` are the listeners of the one abort signal of a run, in the order
in which they were added. `Cancel(T)` is a request that aborts the runs `T`, one
or, as `cancelCollectionLocally` does for the runs of a collection, several: their
listeners are called in one synchronous loop (`AbortNext`), and the microtasks run
only when the loop is through.

**LeaderElection.** A Redis command is executed atomically when it is sent and
answered later; `check[h]` and `answer[h]` are the command an instance waits
for and the answer on its way. A time-out is the answer `error` to a command
that was (`SetLeaderIfNotExists`, second disjunct) or was not (`LoseCommand`)
executed. Time is abstracted: a key may expire at any moment. An expiry of a
live instance's key, a lost command, a crash and a shutdown each count as a
fault.

**WaitTracking.** The waits of an execution are numbered; `entry[h][e]` is the
wait whose timer instance `h` has in `waitingExecutions`, `armed[h]` the
entries whose timer is running. `found[h][p]` is the answer to a query in
flight. A resume record carries the wait whose timer or webhook caused it and
the wait whose data it read. Waiting for capacity is the time between
`FindSingleExecution` and `Resume`.

**ParentResume.** The parent's row is `parentRow` and `data`: the node from which it
goes on, the number of the wait that saved it, and that node's input, which is
its own or the result of a child. `child[c]` is first the life of the child
(`inline`, `waiting`, `resumed`) and then the await of its
`resumeParentExecution` (`updating`, `writing`, `starting`, `found`); `snapshot`
and `foundParent` are what the two operations read. `Fail` is `withRetry` after a
failure that left no trace; in `StartFails` the start fails after the conditional
update of the parent's row, and the retry finds the parent no longer waiting. A later
wait of the parent (`WaitAgain`) is there because late children reach it.

**TaskBroker.** One task type. A task is identified with the offer it came
from. Every message between broker and runner travels in `toRunner[n]` and
`toBroker[n]`, in order, and is lost with the connection; the requester is in
the broker's process and answers within the same step. `accepting` holds the
offers whose runner has still to answer (`acceptOffer` awaits), `timed` and
`reqTimer` are timers, which may fire at any moment. A launcher is a runner
whose offers never lapse, that defers what it is asked to accept, leaves, and
starts the runner it stands for (`Launchers`, `HandedOver`, `Started`).

**ScalingQueue.** Per execution: the row, what its caller was told, where
`enqueueExecution` is (`main`), the Bull job, the worker that has it and where
`processJob` is (`proc`), the stop request and the abort message. Bull is
modelled from its use: an active job whose worker is gone, or seems to be, is
`stalled` and not handed out again, because `maxStalledCount` is 0. A worker
crash loses its jobs, a crash of the main instance the promise. A hook that throws
after the job was added (`BeforeHookFails`) fails the execution for its caller while
the job stays; a workflow with issues completes its job without an engine
(`HasIssues`). The recovery reads rows, reads jobs, and marks, in three steps.

**DirectedGraph / PartialExecution.** A graph is a record of nodes (with the
key under which each is stored, which keeps the order) and a sequence of
connections with output, type and input index. The recursive functions of the
code are recursive operators, so these modules are only model-checked. Initial
states are all small workflows; any data of an earlier run, pinned data and
edited nodes are chosen when they are first looked at (`CleanDirty`), for subgraphs
of up to `MaxPlanned` connections.
`runPartialWorkflow2` is the sequence `Filter`, `Reduce`, `CleanDirty`,
`FindStartNodes`, `MoveToCycleStart`, `Restart`. A removal that leaves a
connection to a node that no longer exists makes the next step fail, as the
assertion in the code does.

## Runs

| Run | Instance | Shows |
|---|---|---|
| `concurrency_limit` | 3 production, 2 evaluation, 1 unlimited caller, limits 1, evaluation limit from the license | `Accounting`, `WorkConserving`, `OverAdmissionOnlyByRemove`, `FirstComeFirstServed`, `NoStarvation` |
| `execution_lifecycle` | 2 executions, 1 slot, stops, timeouts, failures, shutdown | `CapacityReturned`, `WorkingEngineIsRegistered`, `ShutdownWaitsForResults`, `ShutdownEnds`, `EveryExecutionSettles` |
| `wait_and_resume` | 2 executions, one of which waits, is resumed and stopped; 3 runs each, 1 slot, one crash or exit with restart | `SingleEngine` |
| `enqueued_refused_at_startup` (violation) | 2 executions, 1 slot, one restart | enqueued executions are refused after a restart |
| `evaluation_fan_out` | 2 test runs of 2 cases, 2 cases at a time per run, 1 slot, cancels of one run or of both at once | `OnlyLateAbortLosesSlot`, `RowsSettled`, `CancelledCaseNeverRuns`, `EveryRunFinishes` |
| `leader_election` | 3 instances, 3 faults | `RoleMatchesCheck`, `LeadersBoundedByFaults`, `EventuallyOneLeader` |
| `wait_tracking` | 2 instances, 1 execution with 2 waits and a webhook, each instance leads at most once | `OneEngine`, `CanceledStaysCanceled`, `EveryWaitEnds` |
| `parent_resume` | 2 children, 2 waits of the parent, 3 transient failures before or after the conditional update, 3 attempts | `ResumedWithResult`, `EveryParentResumes` |
| `task_broker` | 2 requests, a runner with 2 offers and its launcher, both runner modes, 1 crash | `AwaitedTaskIsTracked`, `OrphansOnlyAfterExpiry`, `WithinConcurrency`, `SettingsFindTaskWaiting`, `EveryRequestSettles`, `EveryTaskEnds` |
| `queue_mode` | 1 execution, 2 workers, 2 crashes of workers or mains, 1 false stall | `RunsAtMostOnce` (refinement of `QueuedExecution`), `ToldFinalStatus`, `EveryRowEnds`, `EveryCallerIsTold` |
| `partial_execution` | all workflows of 5 nodes and a sub-node with up to 6 connections out of a fixed set of plugs and sockets, with disabled nodes; the plan with pinned, edited, looping and failing nodes for subgraphs of up to 5 connections | `DisabledNodesAreBridged`, `SubgraphKeepsEveryPath`, `ComponentsAreLoops`, `NoDirtyNodeIsSkipped`, `LoopsStartAtTheirEntry`, `InputsAreFinal`, `SomethingRuns` |
| `nested_loop_missed` (violation) | workflows with a loop inside a loop | a loop is not returned by `getStronglyConnectedComponents` |

Why these bounds. With one slot and three callers somebody waits behind a
waiter, which is what order, removal and idle slots need; a second slot adds
no new case to a counter. Two executions let one be stopped, fail or time out
while the other waits for its slot; three runs of one execution let two resumes
race with each other and with the run before them. Two test runs with two cases
each, both allowed at once, let a cancelled run leave cases waiting ahead of and
behind another run's, and let an abort come after the case was let through.
Three instances and three faults let two pretenders exist beside the owner of
the key, with one more fault while it heals. One execution with two waits is
enough for every race between the timers of two instances, because trackers
treat executions independently. `MaxLeaders` is 1 in the tracking runs: an
answer that arrives after the step-down already leaves timers on two
instances; the proofs cover any number of leaders. Two children are enough for one to
overtake or overwrite the other at every step of its resume, three failures
enough for one step to be given up. Two requests and two offers let an offer be
accepted for one request while the other waits, expires or is cancelled, and a
launcher's hand-over race with a runner's own offers. In queue mode executions
share only the recovery, whose steps treat each row alone, so one execution is
enough; two crashes let the process that should clean up die too. Six
connections on five nodes, of which three can be on loops, give a loop inside a
loop, two loops with a common node, a loop with two entries, a merge and a fan;
the graph properties see all of them, the properties of the plan those with up
to five connections, which leaves out the nested loops that need six.

Deadlock is not checked where the modelled activity ends (all executions
settled, all runs finished, all waits over, all requests answered, the stack
built).

Fairness. `ConcurrencyControl`: a caller that was let through releases some
day (executions end). `ActiveExecutions`: the event loop serves
every await of a run, engines and saves end; starting, stopping and
resuming executions, time-outs and crashes are never forced, see `Fairness` in
the module. `EvalFanOut`: callbacks are served, test executions end; cancelling
is not forced. `LeaderElection`: the interval fires, answers or time-outs
arrive, instances that went down are started again, a shutdown completes, a dead
instance's key expires; faults are bounded, so liveness speaks of the time
after the last one. `WaitTracking`: there is a leader in the end, intervals,
timers, queries and resumes make progress, a near time passes. `ParentResume`:
the instance that resumed a child goes on with its parent, until a result or an
error; engines and waits are not forced. `TaskBroker`: as long as a timer is
set, a message on its way or aborted code still running, one of them fires,
arrives or ends; new requests, crashes, answers of user code and lapsing
offers are not forced. `ScalingQueue`: what was begun in a process goes on while
the process lives, Bull notices stalled jobs, and the leader repeats the recovery;
that engines end is an assumption about the workflows, since the time limit that
would end them is off by default (likewise in `ConcurrencyControl`,
`ActiveExecutions` and `EvalFanOut`). All of it is weak fairness: timers
and callbacks stay enabled until they run.

## Proofs

TLAPS checks these for every value of the constants.

- **`ConcurrencyControlProofs`** (from `CallersFinite`, the types of the modes
  and limits): `TypeCorrect`, `CapacityIsConserved` (`Accounting`),
  `NoIdleSlot` (`WorkConserving`), `OnlyRemoveOverAdmits` and `ServedInOrder`
  (`FirstComeFirstServed`). `Accounting` is not
  inductive: one must know that the list and the set of waiting callers agree
  and have no duplicates (`ListsMatch`), that a queue that does not exist yet has
  had no traffic (`Untouched`), and that, until shutdown, whoever passed was
  counted (`Counted`), because `release` gives capacity back for any caller.
  The queue operations are described once, in `ConcurrencyQueueLemmas`: what
  each does to the capacity and to the set of those who wait, and that it keeps
  the order of those who stay.
- **`ActiveExecutionsProofs`** (from `BoundsType`, `ChoicesType`; any executions,
  runs, restarts and limit): `SingleEngineHolds`, `CapacityIsReturned`. Neither is
  inductive. A run *owns* its execution from the conditional update of the row to
  its save, or to its finalization if it does not end in a wait; `OneOwner` says
  that there is one owner at most and none while the row says `waiting`, which is
  what the conditional update relies on. For the capacity, `RegistrySound` and
  `CapacitySound` follow the promise whose `finally` releases the slot: a busy run
  is settled or still stored under its id, and one whose engine works has a
  handler for its end. `ShutdownWaits` says of every workflow without a wait, also
  when others wait, that its registered runs have saved when the process exits,
  but for the stopped and timed-out ones and those whose error `processError` is
  about to save. `WorkingEnginesAreFound` assumes `CanWait = {}`, the workflows of
  the run `execution_lifecycle`; with waits the code does not have these properties
  (see "Resume before finalize" and "Waits during shutdown" below). The invariant
  behind both is `PlainSound`: a run of such a workflow that nobody stopped is not
  settled before it has saved, unless by `processError`, and an unsettled run keeps
  its entry, for which the loop waits.
- **`TaskBrokerProofs`** (from `BrokerConstants`; any runners, requests and
  offers): `AwaitedTasksAreTracked`, `OrphansAreExpired`, `ConcurrencyIsKept`,
  `SettingsComeFirst`. The argument follows an offer. The runner numbers its
  offers and the next number is free (`Numbered`), so an offer is on its way,
  pending, being confirmed or a task, and never two of these (`OneUse`); its
  acceptance and its settings are each sent once, and its task does not run before
  the settings arrive (`OneStart`, `OneAnswer`). Without this an offer that is
  matched twice would create a second task over the first, and repeated settings
  would find a running task. `AcceptingSound` links a confirmation on its way to
  its request: the request is marked as in progress or has expired, and this is
  why an orphan belongs to an expired request. Messages are removed from the
  middle of lists with `At`, which is defined by ranks instead of recursion, so
  that the provers can reason about it.
- **`EvalFanOutProofs`** (from `FanOutConstants`; any test runs, cases and limit):
  `RowsAreSettled`, `CancelledNeverRuns`, `SlotsAreNotInvented` and `SlotsStay`
  (`OnlyLateAbortLosesSlot`), for any number of cases of a run at a time and any
  runs cancelled together. `RowsSound` links each row to the place of its callback:
  a row that was cancelled before the claim stays out of the callback's way, and a
  case that ended without a result belongs to an aborted run, whose sweep closes it.
  For the slots, `QueueSound` says that a case that was let through does not wait in
  the queue any more, so it gives its slot back once. `QueueStep` shows that every
  step keeps the slots, but for one, the abort that wins the race of a case that was
  already let through (see "Cancelled test run" below).
- **`LeaderElectionProofs`** (from `ElectionConstants`, `NoneIsNoHost`):
  `RolesAgree` (inductive with the types) and `LeadersCostFaults`. The number of
  leaders is not inductive, since an instance whose claim succeeded becomes leader only when the answer arrives. The
  invariant counts *pretenders*: leaders, and instances that an answer on its
  way will make leader, that do not own the key. Only a delete, an expiry or
  the loss of a key makes one, and each is a fault.
- **`WaitingProofs`**, about `WaitTracking` (from `WaitConstants`): `OneRunPerExecution`,
  `CanceledIsFinal`. The strengthening says that nobody works on an execution whose
  row is `waiting` (a stop may write `canceled` over a running row, but only the
  end of the run makes it `waiting` again) and that a running timer has an entry.
- **`WaitingProofs`**, about `ParentResume` (from `ParentConstants`):
  `ResumedWithResultHolds`. The
  invariant says why: between a child's write and the moment the parent goes
  on, the data of that wait contains some child's result, because other
  children only replace one result by another and the parent itself writes its
  own input only together with a new wait, which nobody can have seen yet
  (`snapshot[c].wait <= waits`).
- **`ScalingQueueProofs`** (for any executions, workers, crashes and stalls):
  `ToldFinalStatusHolds` and the refinement `QueueModeRunsAtMostOnce`. The
  mapping gives each execution a phase: `idle` without a row, `running` from the
  start of the engine until its job is reported or its worker is lost, `over`
  when no worker has it and it was started or its job left the queue, `pending`
  otherwise. `Consistent` makes it inductive: which job states go with which
  steps of main instance and worker, that a waiting job was never started, and
  that a reported job has a final row. Most steps leave the phases alone
  (`SamePhase`), a few change one (`OnePhase`), and the crash of a worker ends all
  the executions it had (`EndRefines`), which is why the abstract `End` takes a
  set.

Only model-checked: all liveness properties (fairness and ENABLED are out of the
prover's reach), and the graph algorithms of `PartialExecution`, whose recursive
operators the prover does not handle.

## Findings

Two runs show a disagreement between the code and what a comment says; each is
quoted in `PROJECT.json`.

1. Enqueued executions are refused at start-up: they are run with their id, and
   an id means "resume", which requires `waiting` (`commands/start.ts:491`).
2. `getStronglyConnectedComponents` stops popping its stack at a node that has the
   low link value of an inner loop, so a loop around another loop is missed
   (`packages/core/src/execution-engine/partial-execution-utils/directed-graph.ts:392`)
   and a partial execution may start in the middle of it. In larger nestings it also
   returns a part of a loop: with `t -> r`, `r -> a`, `w -> a`, `v -> a`, `a -> w`,
   `a -> r`, `a -> v`, `w -> d` it returns `{v}`, which is not maximal. What holds of
   all it returns is `ComponentsAreLoops`.

### Known exceptions

Behaviour of the code that the passing runs leave out, by their constants or in
the statement of a property. Where constants are given, TLC shows it with them.

Concurrency and active executions:

- **Removal from the queue.** `ConcurrencyQueue.remove` resolves the next waiter
  although no slot is free (`concurrency/concurrency-queue.ts:52`); `LimitRespected`
  is violated (`Spec`, `EvaluationLimit = 1`). `OverAdmissionOnlyByRemove` says that
  this is the only way past the limit, and it is proved.
- **Evaluation after `disable()`.** With the evaluation limit unset, the first
  evaluation call after `disable()` enables the service again
  (`concurrency/concurrency-control.service.ts:129`), and a release then resumes
  a throttled execution during shutdown.
- **Cancelled test run.** A slot is lost when the abort of a case comes in the same
  synchronous loop as the eviction of another case that let it through: its
  `remove()` finds nothing in the queue, and nobody releases
  (`evaluation.ee/test-runner/test-runner.service.ee.ts:885`), against the comment
  at line 843 that "we evict ourselves from the queue so the slot returns to
  circulation". It takes two cases of one run (`RunConcurrency = 2`, the constants of
  the run) or the cancel of a collection of runs (`TestRuns <- ThreeRuns`,
  `CasesPerRun = 1`, `RunConcurrency = 1`); in both TLC violates the invariant
  `Slots = EvaluationLimit`. When the last slot is lost no further test case runs,
  which is why `EveryRunFinishes` asks for a slot that is left.
- **Failure before the `try` of `runMainProcess`.** Loading the static data,
  `getBase` and `setRunning` (`workflow-runner.ts:337`, `:369`, `:387`) are outside
  of it: `run` rejects, and the entry and the slot stay until somebody stops the
  execution; `shutdown` waits for it without end. `CapacityReturned` looks at
  runs that are over, `ShutdownEnds` and `EveryExecutionSettles` name the
  exception. Failures of other writes of the database are not modelled.
- **Error settled before it is saved.** `processError` finalizes, which removes the
  entry, and saves afterwards (`workflow-runner.ts:156`); the process may exit in
  between. `ShutdownWaitsForResults` names it.
- **Stop while parking.** A stop between `putExecutionToWait` and
  `finalizeExecution` deletes the entry only (`active-executions.ts:228`): the
  promise never settles and the slot is lost. `CapacityReturned` exempts runs
  that ended in a wait for this reason.
- **Resume before finalize.** The row says `waiting` before the run that saved
  it has finalized. A resume in between replaces the entry
  (`active-executions.ts:156`), and the first run's finalization unregisters the
  second (`WorkingEngineIsRegistered` with `CanWait <- One`, `Limit = 2`,
  `MaxRuns = 2`).
- **Waits during shutdown.** An execution that begins to wait after the sweep
  keeps its entry and the loop goes on (`active-executions.ts:350`; `ShutdownEnds`
  with `CanWait <- One`); one that is swept while it parks is not waited for
  (`active-executions.ts:340`), so `ShutdownWaitsForResults` speaks of workflows
  without a wait.
- **Stop before the engine is attached.** `runMainProcess` starts the engine
  without looking whether the execution was stopped since `add`
  (`workflow-runner.ts:387`); the engine runs detached and its save overwrites
  `canceled`.

Waiting executions:

- **Second takeover.** `stopTracking` clears timers and keeps entries
  (`wait-tracker.ts:253`); an instance that leads again sets no timer for them, and
  the executions wait on (`EveryWaitEnds` with `Hosts <- OneHost`, `MaxWaits = 1`,
  `MaxTakeovers = 2`, `Webhooks <- Nothing`). The run has `MaxTakeovers = 1`, so its
  `EveryWaitEnds` does not see what a step-down leaves behind.
- **Stale timer.** A timer or a throttled resume ends a later wait than its own,
  the latter with the data of the earlier (`wait-tracker.ts:105`;
  `ResumesItsOwnWait` with `Hosts <- OneHost`).
- **Child quicker than its parent.** A child whose wait ends before its parent has
  saved `waiting` (a callback that comes at once, or other items that take
  long) finds the parent running: the update does nothing, and the parent
  then waits for ever, or goes on with the node's original input, or, if
  `startExecution` read its data before the save, starts again from its
  beginning (`wait-tracker.ts:157`; `NeverOwnInput` and `ContinuesForward` with the
  constants of `parent_resume`).
- **Start fails after its update.** A resume sets the parent's row to `running` by
  the conditional update of `add` and can fail afterwards (`setRunning`, adding the
  job). The retry finds the row no longer waiting, takes the refusal for a duplicate
  and gives up, so the parent is never resumed, although each step is retried "so a
  transient failure recovers and the parent resumes" (`wait-tracker.ts:185`).
  `EveryParentResumes` names the case.
- **Late child.** The update writes what it read some time ago without a
  condition (`workflow-helpers.ts:470`): it can replace the data of a parent that
  goes on or is finished, and a child that completes during a later wait of the
  parent ends that wait. A child that fails lets the parent go on with
  its own input; a child that is stopped leaves it waiting.

Queue mode:

- **Time-out on a worker.** The job fails with an error that mentions a
  cancellation; `processError` takes it for a stop that "has already been cleaned
  up" and returns (`workflow-runner.ts:109`), so the caller is never answered
  (`CancelledIsCleanedUp` with `MaxCrashes = 0`, `MaxFalseStalls = 0`). The same
  happens when Bull gives up a job, or a hook throws after the job was added, while
  the row says success (`workflow-runner.ts:129`). `EveryCallerIsTold` names both, so
  it shows that there is no third case and does not catch these two.
- **Hook fails after the job was added.** The caller is told of an error, but the job
  stays in the queue and runs (`workflow-runner.ts:537`); its result replaces the
  row's `error`.
- **Waits.** An execution that waits is reported with the status `waiting`, which
  is not final; executions do not wait in this model, and `ToldFinalStatus` speaks
  of those.
- **Recovery of a moving target.** `recoverFromQueue` reads rows, then jobs, then
  marks without looking again (`scaling/scaling.service.ts:626`): an execution
  enqueued or finished in between becomes `crashed` (`CrashedOnlyIfAbsent`, same
  constants). It looks at a batch of the newest rows only
  (`getInProgressExecutionIds` of the execution repository), which hides older ones
  while the load is high.
- **Stop that misses.** An abort that reaches the worker before the job is in
  `runningJobs` is dropped and `setRunning` overwrites `canceled`
  (`scaling/job-processor.ts:432`, `:109`); a job picked up between the question
  whether it is active and its removal runs on (`scaling/scaling.service.ts:262`);
  a stop at another main instance only writes the row. In all of them it
  stays one run with one final row.

Task runners:

- **Request gone after acceptance.** The log message "This shouldn't happen..."
  (`task-runners/task-broker/task-broker.service.ts:598`) is reached when a request
  expires while a runner confirms (`RequestFoundAfterAccept` with the constants of
  `task_broker`). `OrphansOnlyAfterExpiry` says that nothing else leads there.
- **No new match after a failed acceptance.** Time-out, rejection and deferral of an
  acceptance do not call `settleTasks`: the request waits for the next
  offer or request. Deregistration does not reject acceptances in progress;
  they time out. A request that is still pending cannot be cancelled.
- **Endless deferral.** Each deferral gives the request a new timer
  (`task-runners/task-broker/task-broker.service.ts:572`), so a request that is
  deferred again and again never expires. In the run a deferral needs the launcher,
  which leaves with it, so a request is deferred once; `EveryRequestSettles` says
  nothing of more.

Partial execution:

- **Loop of disabled nodes only**, a self-connection included: connections to
  removed nodes stay and `findSubgraph` ends with an assertion (the model's
  state `failed`).
- **Loop the trigger does not reach.** `findSubgraph` keeps a branch that comes back
  to a node it has visited, whether or not the trigger leads there: of `t -> d`,
  `a -> b`, `b -> a`, `b -> d` it keeps everything. This is step 4 of its description
  but not "all nodes that can lead from the trigger to the destination node"
  (`find-subgraph.ts:72`), nor what the assertion in `handle-cycles.ts:46` says of the
  subgraph. That assertion does not fail, because start nodes are found from the
  trigger. `SubgraphKeepsEveryPath` only asks that what is kept leads to the
  destination.
- **Missing input of a merge.** A start node that lacks one input goes only to the
  waiting executions, and nothing runs if it is the only one; a loop entered
  through two outputs starts with empty input; incomplete groups of inputs
  ignore pinned data. `SomethingRuns` leaves out merges and loops with several
  entries for these reasons, and loops that the search does not find.

## Not modelled

Execution data, node semantics and expressions (data out of TLC's reach), the
editor, integrations, push, logging and telemetry (I/O), the many request
handlers of the server, third-party code. In the modelled parts: response
promises and streaming, metadata and statistics, `shutdown(cancelAll)` of
`execute-batch`, the dataset and metrics of test runs, settings under which
executions are not saved; data and remote-procedure messages of running tasks,
heartbeats, the requester's two-second time-out, several task types, the Python
runner, restarts of the internal runner; waits in queue mode, responses and
chunks through job messages, deletion of rows, graceful shutdown of workers;
recovery of run data from the event log; finding the trigger of a partial
execution, `rewireGraph` for tools; stops and crashes of parents and deeper
nesting of sub-workflows. Redis, Bull, the database, the event loop and the clock are
modelled from how the code uses them.

## Plan

1. `ActiveWorkflowManager`: activation, the retry queue and leader-dependent
   triggers.
2. Waits in queue mode: `ScalingQueue` with resumes, and `ActiveExecutions` as
   another implementation of `QueuedExecution` per run.
3. Proofs: `ActiveExecutions` implements `QueuedExecution` per run, once it is
   stated; the steps of `PartialExecution` around its graph algorithms.
4. Collaboration locks, the instance registry and pruning as small modules.
