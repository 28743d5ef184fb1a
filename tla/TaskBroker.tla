----------------------------- MODULE TaskBroker -----------------------------
(***************************************************************************)
(* Running code in task runners: TaskBroker and TaskBrokerWsServer of      *)
(* packages/cli/src/task-runners/task-broker, the local TaskRequester of   *)
(* the same process, and the TaskRunner processes of                       *)
(* packages/@n8n/task-runner that are connected by web sockets.            *)
(*                                                                         *)
(* A runner offers its free slots, the broker matches offers with requests *)
(* and asks the runner to confirm.  A task is identified with the offer it *)
(* came from: an offer leaves the broker's list when it is matched, so it  *)
(* makes at most one task.  Offers and requests of different task types    *)
(* never meet and one type is modelled.  Time is abstracted: a timer that  *)
(* is set may fire at any moment, an offer may lapse at any moment.        *)
(***************************************************************************)
EXTENDS Integers, Sequences, FiniteSets

CONSTANTS
  Requests,        \* calls of startTask
  Runners,         \* runner processes; a restarted one has a new id
  LauncherOf,      \* the launcher that starts a runner and until then poses as it, or None
  MaxConcurrency,  \* tasks a runner accepts at the same time
  MaxOffers,       \* bound: offers each runner makes
  MaxLost,         \* bound: runners that crash
  Modes,           \* the runner modes to consider
  None             \* no task, no request

Offers == UNION {{n} \X (1..MaxOffers[n]) : n \in Runners}
RunnerOf(o) == o[1]
Launchers == {n \in Runners : \E m \in Runners : LauncherOf[m] = n}

ASSUME BrokerConstants ==
  /\ LauncherOf \in [Runners -> Runners \cup {None}]
  /\ MaxConcurrency \in Nat \ {0} /\ MaxOffers \in [Runners -> Nat]
  /\ MaxLost \in Nat
  /\ Modes \subseteq {"internal", "external"}
  /\ None \notin Requests /\ None \notin Runners /\ None \notin Offers

VARIABLES
  mode,        \* taskRunnersConfig.mode
  phase,       \* of the broker: "up", "draining", "stopped"
  known,       \* knownRunners
  requests,    \* pendingTaskRequests, oldest first
  inProgress,  \* requests with acceptInProgress
  reqTimer,    \* requests whose timeout is set
  offers,      \* pendingTaskOffers, oldest first
  reqOf,       \* the request an offer was matched with
  accepting,   \* offers whose runner has still to confirm
  tasks,       \* tasks of the broker
  timed,       \* tasks whose timeout is set
  state,       \* of each request: what its caller awaits or got
  awaits,      \* the task whose result a request awaits
  conn,        \* of each runner: "new", "open", "closed" by it, "lost", "gone"
  canSend,     \* runners with canSendOffers
  leaving,     \* runners with isShuttingDown
  sent,        \* how many offers a runner has made
  open,        \* openOffers of all runners
  status,      \* of each task in its runner, "none" if not in runningTasks
  toRunner,    \* messages to each runner
  toBroker     \* messages from each runner

requesterVars == <<state, awaits>>
pendingVars == <<requests, inProgress, reqTimer, offers, accepting>>
matchVars == <<pendingVars, reqOf>>
taskVars == <<tasks, timed>>
brokerVars == <<mode, phase, known, matchVars, taskVars>>
runnerVars == <<canSend, leaving, sent, open, status>>
channels == <<toRunner, toBroker>>
vars == <<brokerVars, requesterVars, conn, runnerVars, channels>>

Elements(s) == {s[i] : i \in DOMAIN s}

(* The members of s at the places in K, in their order.  (SelectSeq is not *)
(* used because the provers cannot expand it.)                             *)
At(s, K) ==
  [k \in 1..Cardinality(K) |-> s[CHOOSE i \in K : Cardinality({j \in K : j <= i}) = k]]

Without(s, S) == At(s, {i \in DOMAIN s : s[i] \notin S})
Msg(type, o) == [type |-> type, task |-> o]

Init ==
  /\ mode \in Modes /\ phase = "up"
  /\ known = {} /\ requests = <<>> /\ inProgress = {} /\ reqTimer = {}
  /\ offers = <<>> /\ reqOf = [o \in Offers |-> None]
  /\ accepting = {} /\ tasks = {} /\ timed = {}
  /\ state = [r \in Requests |-> "idle"] /\ awaits = [r \in Requests |-> None]
  /\ conn = [n \in Runners |-> "new"]
  /\ canSend = {} /\ leaving = {} /\ sent = [n \in Runners |-> 0]
  /\ open = {} /\ status = [o \in Offers |-> "none"]
  /\ toRunner = [n \in Runners |-> <<>>] /\ toBroker = [n \in Runners |-> <<>>]

-----------------------------------------------------------------------------
(***************************************************************************)
(* Broker: matching                                                        *)
(***************************************************************************)

(* messageRunner for every message of a sequence: lost if the runner is    *)
(* not known or its connection is gone.                                    *)
SendAll(chan, msgs) ==
  [n \in Runners |->
     IF n \in known /\ conn[n] = "open"
     THEN chan[n] \o At(msgs, {i \in DOMAIN msgs : RunnerOf(msgs[i].task) = n})
     ELSE chan[n]]

(* The requests that settleTasks looks at *)
Free(reqs) == Without(reqs, inProgress)

(* settleTasks: offers that lapsed are dropped, then the oldest free       *)
(* request takes the oldest offer, the next the next.  acceptOffer is      *)
(* started for every pair and asks the runner.                             *)
Settle(reqs, offs) ==
  \E lapsed \in SUBSET {o \in Elements(offs) : RunnerOf(o) \notin Launchers} :
    LET valid == Without(offs, lapsed)
        free == Free(reqs)
        n == IF Len(free) < Len(valid) THEN Len(free) ELSE Len(valid)
        taken == SubSeq(valid, 1, n)
    IN  /\ requests' = reqs
        /\ offers' = SubSeq(valid, n + 1, Len(valid))
        /\ inProgress' = inProgress \cup {free[i] : i \in 1..n}
        /\ reqOf' = [o \in Offers |->
                       IF \E i \in 1..n : taken[i] = o
                       THEN free[CHOOSE i \in 1..n : taken[i] = o]
                       ELSE reqOf[o]]
        /\ accepting' = accepting \cup Elements(taken)
        /\ toRunner' = SendAll(toRunner, [i \in 1..n |-> Msg("accept", taken[i])])

(* taskOffered *)
TaskOffered(o) ==
  /\ Settle(requests, Append(offers, o))
  /\ UNCHANGED <<mode, phase, known, reqTimer, taskVars, requesterVars>>

(* Mutant: a deferral clears the request's timer and sets no new one. *)
RearmNothing(r) == reqTimer \ {r}

(* clearTimeout and createRequestTimeout of a deferral *)
Rearm(r) == reqTimer \cup {r}

(* The acceptance of an offer fails: its request is free again.  Nobody    *)
(* calls settleTasks.                                                      *)
AcceptFails(o) ==
  /\ accepting' = accepting \ {o}
  /\ inProgress' = inProgress \ {reqOf[o]}
  /\ reqOf' = [reqOf EXCEPT ![o] = None]
  /\ UNCHANGED <<mode, phase, known, requests, offers, taskVars, requesterVars, toRunner>>

(* acceptOffer after the runner confirmed: the task exists; if the request *)
(* is still pending it leaves the list, its caller is told and answers     *)
(* with the settings, which go to the runner, all before the next event.   *)
Confirm(o) ==
  LET r == reqOf[o]
      found == r \in Elements(requests)
  IN  /\ accepting' = accepting \ {o}
      /\ reqTimer' = reqTimer \ {r}
      /\ tasks' = tasks \cup {o}
      /\ requests' = Without(requests, {r})
      /\ IF found
         THEN /\ inProgress' = inProgress \ {r}
              /\ state' = [state EXCEPT ![r] = "awaiting"]
              /\ awaits' = [awaits EXCEPT ![r] = o]
              /\ timed' = timed \cup {o}
              /\ toRunner' = SendAll(toRunner, <<Msg("settings", o)>>)
         ELSE UNCHANGED <<inProgress, requesterVars, timed, toRunner>>
      /\ UNCHANGED <<mode, phase, known, offers, reqOf>>

(* Mutant: the caller is told and the task is not deleted. *)
EndTasksKept(T) ==
  /\ timed' = timed \ T
  /\ state' = [r \in Requests |-> IF awaits[r] \in T THEN "ended" ELSE state[r]]
  /\ awaits' = [r \in Requests |-> IF awaits[r] \in T THEN None ELSE awaits[r]]
  /\ UNCHANGED <<tasks, reqOf>>

(* A task leaves the broker and its caller, if it has one, gets the result *)
(* or the error.                                                           *)
EndTasks(T) ==
  /\ tasks' = tasks \ T
  /\ timed' = timed \ T
  /\ state' = [r \in Requests |->
                 IF awaits[r] \in T THEN "ended" ELSE state[r]]
  /\ awaits' = [r \in Requests |-> IF awaits[r] \in T THEN None ELSE awaits[r]]
  /\ reqOf' = [o \in Offers |-> IF o \in T THEN None ELSE reqOf[o]]

(* onRunnerMessage *)
BrokerReceive(n) ==
  /\ n \in known /\ toBroker[n] # <<>>
  /\ toBroker' = [toBroker EXCEPT ![n] = Tail(@)]
  /\ UNCHANGED <<conn, runnerVars>>
  /\ LET m == Head(toBroker[n])
         o == m.task
     IN  \/ m.type = "offer" /\ TaskOffered(o)
         \/ m.type = "accepted" /\ o \in accepting /\ Confirm(o)
         \/ m.type = "rejected" /\ o \in accepting /\ AcceptFails(o) /\ UNCHANGED reqTimer
         \/ m.type = "deferred" /\ o \in accepting /\ AcceptFails(o) /\ reqTimer' = Rearm(reqOf[o])
         \/ /\ m.type = "result"
            /\ EndTasks({o} \cap tasks)
            /\ UNCHANGED <<mode, phase, known, pendingVars, toRunner>>
         \/ /\ m.type \in {"accepted", "rejected", "deferred"} /\ o \notin accepting
            /\ UNCHANGED <<brokerVars, requesterVars, toRunner>>

-----------------------------------------------------------------------------
(***************************************************************************)
(* Broker: timers, connections, draining                                   *)
(***************************************************************************)

(* The two seconds of acceptOffer pass. *)
AcceptTimeout(o) ==
  /\ o \in accepting
  /\ AcceptFails(o)
  /\ UNCHANGED <<reqTimer, conn, runnerVars, toBroker>>

(* handleRequestTimeout: also while an acceptance is in progress *)
RequestTimeout(r) ==
  /\ r \in reqTimer
  /\ reqTimer' = reqTimer \ {r}
  /\ requests' = Without(requests, {r})
  /\ inProgress' = inProgress \ {r}
  /\ state' = IF r \in Elements(requests) THEN [state EXCEPT ![r] = "expired"] ELSE state
  /\ UNCHANGED <<mode, phase, known, offers, reqOf, accepting, taskVars,
                 awaits, conn, runnerVars, channels>>

(* A runner process is gone, and its state with it. *)
Forget(R) ==
  /\ canSend' = canSend \ R
  /\ open' = {o \in open : RunnerOf(o) \notin R}
  /\ status' = [o \in Offers |-> IF RunnerOf(o) \in R THEN "none" ELSE status[o]]
  /\ leaving' = leaving \ R
  /\ sent' = [n \in Runners |-> IF n \in R THEN 0 ELSE sent[n]]

(* handleTaskTimeout: an internal runner is killed, an external one told.  *)
TaskTimeout(o) ==
  /\ o \in timed
  /\ EndTasks({o})
  /\ IF mode = "internal" /\ conn[RunnerOf(o)] = "open"
     THEN /\ conn' = [conn EXCEPT ![RunnerOf(o)] = "lost"]
          /\ toRunner' = [toRunner EXCEPT ![RunnerOf(o)] = <<>>]
          /\ Forget({RunnerOf(o)})
     ELSE /\ toRunner' = SendAll(toRunner, <<Msg("cancel", o)>>)
          /\ UNCHANGED <<conn, runnerVars>>
  /\ UNCHANGED <<mode, phase, known, pendingVars, toBroker>>

(* A runner with a launcher is started when the launcher has handed over.  *)
(* In internal mode n8n starts the runner itself, there are no launchers.  *)
Started(n) ==
  \/ mode = "internal" /\ n \notin Launchers
  \/ /\ mode = "external"
     /\ LauncherOf[n] # None => conn[LauncherOf[n]] \in {"closed", "lost", "gone"}

(* registerRunner *)
Register(n) ==
  /\ conn[n] = "new" /\ phase # "stopped" /\ Started(n)
  /\ conn' = [conn EXCEPT ![n] = "open"]
  /\ known' = known \cup {n}
  /\ toRunner' = [toRunner EXCEPT ![n] = <<Msg("registered", None)>>]
  /\ UNCHANGED <<mode, phase, matchVars, taskVars, requesterVars, runnerVars, toBroker>>

(* Mutant: the tasks of a runner that is gone are not failed. *)
TasksOfNobody(R) == {}

TasksOf(R) == {o \in tasks : RunnerOf(o) \in R}

(* deregisterRunner: offers are dropped and tasks fail.  An acceptance in  *)
(* progress is not rejected, its task is not in tasks yet.                 *)
DeregisterRunners(R) ==
  /\ known' = known \ R
  /\ offers' = Without(offers, {o \in Offers : RunnerOf(o) \in R})
  /\ EndTasks(TasksOf(R))
  /\ toBroker' = [n \in Runners |-> IF n \in R THEN <<>> ELSE toBroker[n]]
  /\ UNCHANGED <<mode, requests, inProgress, reqTimer, accepting>>

(* The server notices that a connection is closed or its runner dead; what *)
(* a runner sent before it closed the connection itself has arrived.       *)
Deregister(n) ==
  /\ n \in known
  /\ conn[n] = "lost" \/ (conn[n] = "closed" /\ toBroker[n] = <<>>)
  /\ DeregisterRunners({n})
  /\ conn' = [conn EXCEPT ![n] = "gone"]
  /\ UNCHANGED <<phase, runnerVars, toRunner>>

(* drainActiveTasks, before its loop *)
StartDraining ==
  /\ phase = "up"
  /\ phase' = "draining"
  /\ toRunner' = [n \in Runners |->
                    IF n \in known /\ conn[n] = "open"
                    THEN Append(toRunner[n], Msg("drain", None)) ELSE toRunner[n]]
  /\ UNCHANGED <<mode, known, matchVars, taskVars, requesterVars, conn, runnerVars, toBroker>>

(* stopConnectedRunners, after draining *)
StopRunners ==
  /\ phase' = "stopped"
  /\ DeregisterRunners(known)
  /\ conn' = [n \in Runners |-> "gone"]
  /\ toRunner' = [n \in Runners |-> <<>>]
  /\ Forget(Runners)

Drained == phase = "draining" /\ tasks = {} /\ StopRunners
DrainTimeout == phase = "draining" /\ tasks # {} /\ StopRunners

-----------------------------------------------------------------------------
(***************************************************************************)
(* Requester, in the process of the broker                                 *)
(***************************************************************************)

(* startTask and taskRequested *)
StartTask(r) ==
  /\ state[r] = "idle"
  /\ IF phase = "up"
     THEN /\ state' = [state EXCEPT ![r] = "waiting"]
          /\ reqTimer' = reqTimer \cup {r}
          /\ Settle(Append(requests, r), offers)
     ELSE /\ state' = [state EXCEPT ![r] = "expired"]
          /\ UNCHANGED <<matchVars, toRunner>>
  /\ UNCHANGED <<mode, phase, known, taskVars, awaits, conn, runnerVars, toBroker>>

(* cancelTasks: only what has a task can be cancelled.  The broker forgets *)
(* the task and tells the runner.                                          *)
CancelTasks(r) ==
  /\ state[r] = "awaiting"
  /\ EndTasks({awaits[r]})
  /\ toRunner' = SendAll(toRunner, <<Msg("cancel", awaits[r])>>)
  /\ UNCHANGED <<mode, phase, known, pendingVars, conn, runnerVars, toBroker>>

-----------------------------------------------------------------------------
(***************************************************************************)
(* Runner                                                                  *)
(***************************************************************************)

OpenOf(n) == {o \in open : RunnerOf(o) = n}
RunningOf(n, st) == {o \in Offers : RunnerOf(o) = n /\ st[o] # "none"}

(* Mutant: offers that are open are not counted. *)
FreeSlotsIgnoringOffers(kept, running) == MaxConcurrency - Cardinality(running)

(* offersToSend *)
FreeSlots(kept, running) == MaxConcurrency - (Cardinality(kept) + Cardinality(running))

(* sendOffers after the messages msgs: offers that lapsed are forgotten,   *)
(* free slots are offered.                                                 *)
SendOffers(n, st, msgs) ==
  \E stale \in IF n \in Launchers THEN {{}} ELSE SUBSET OpenOf(n) :
    LET free == FreeSlots(OpenOf(n) \ stale, RunningOf(n, st))
        left == MaxOffers[n] - sent[n]
        k == IF n \notin canSend \/ free < 0 THEN 0 ELSE IF free < left THEN free ELSE left
        new == [i \in 1..k |-> <<n, sent[n] + i>>]
    IN  /\ open' = (open \ stale) \cup Elements(new)
        /\ sent' = [sent EXCEPT ![n] = @ + k]
        /\ toBroker' = [toBroker EXCEPT ![n] = @ \o msgs \o [i \in 1..k |-> Msg("offer", new[i])]]
        /\ status' = st

(* The interval of startTaskOffers *)
OfferTick(n) ==
  /\ conn[n] = "open" /\ n \in canSend
  /\ SendOffers(n, status, <<>>)
  /\ UNCHANGED <<brokerVars, requesterVars, conn, canSend, leaving, toRunner>>

(* offerAccepted: what the runner answers *)
Answer(n, o) ==
  CASE n \in leaving -> "rejected"
    [] n \in Launchers -> "deferred"
    [] Cardinality(RunningOf(n, status)) >= MaxConcurrency -> "rejected"
    [] o \notin open -> "rejected"
    [] OTHER -> "accepted"

OfferAccepted(n, o) ==
  LET answer == Answer(n, o)
  IN  /\ open' = open \ {o}
      /\ status' = IF answer = "accepted" THEN [status EXCEPT ![o] = "waitingForSettings"] ELSE status
      /\ toBroker' = [toBroker EXCEPT ![n] = Append(@, Msg(answer, o))]
      /\ UNCHANGED sent

(* finishTask, after the messages msgs *)
FinishTask(n, o, msgs) == SendOffers(n, [status EXCEPT ![o] = "none"], msgs)

(* receivedSettings: a task that is gone is ignored; any other state than  *)
(* waitingForSettings makes the assertion in caseOf fail.                  *)
ReceivedSettings(o) ==
  /\ status' = IF status[o] = "waitingForSettings" THEN [status EXCEPT ![o] = "running"] ELSE status
  /\ UNCHANGED <<sent, open, toBroker>>

(* taskCancelled.  Settings and cancellation follow each other in the      *)
(* channel, so a task never waits for settings here.                       *)
TaskCancelled(o) ==
  /\ status' = IF status[o] = "running" THEN [status EXCEPT ![o] = "aborting:cancelled"] ELSE status
  /\ UNCHANGED <<sent, open, toBroker>>

(* onMessage *)
RunnerReceive(n) ==
  /\ conn[n] = "open" /\ toRunner[n] # <<>>
  /\ toRunner' = [toRunner EXCEPT ![n] = Tail(@)]
  /\ UNCHANGED <<brokerVars, requesterVars, conn, leaving>>
  /\ LET m == Head(toRunner[n])
     IN  \/ /\ m.type \in {"registered", "drain"}
            /\ canSend' = IF m.type = "registered" THEN canSend \cup {n} ELSE canSend \ {n}
            /\ UNCHANGED <<sent, open, status, toBroker>>
         \/ m.type = "accept" /\ OfferAccepted(n, m.task) /\ UNCHANGED canSend
         \/ m.type = "settings" /\ ReceivedSettings(m.task) /\ UNCHANGED canSend
         \/ m.type = "cancel" /\ TaskCancelled(m.task) /\ UNCHANGED canSend

(* executeTask resolves or rejects (a result message stands for taskdone   *)
(* and taskerror): nothing is sent for a cancelled task.  *)
TaskEnds(n, o) ==
  /\ conn[n] = "open" /\ RunnerOf(o) = n
  /\ status[o] \in {"running", "aborting:timeout", "aborting:cancelled"}
  /\ FinishTask(n, o, IF status[o] = "aborting:cancelled" THEN <<>> ELSE <<Msg("result", o)>>)
  /\ UNCHANGED <<brokerVars, requesterVars, conn, canSend, leaving, toRunner>>

(* Mutant: a task that times out while it waits for settings is aborted    *)
(* like a running one instead of being finished.                           *)
TaskTimedOutAborts(n, o) ==
  /\ conn[n] = "open" /\ RunnerOf(o) = n
  /\ status[o] \in {"waitingForSettings", "running"}
  /\ status' = [status EXCEPT ![o] = "aborting:timeout"]
  /\ UNCHANGED <<brokerVars, requesterVars, conn, canSend, leaving, sent, open, channels>>

(* Mutant: a task that times out while it waits for settings is finished   *)
(* without an error message.                                               *)
TaskTimedOutSilently(n, o) ==
  /\ conn[n] = "open" /\ RunnerOf(o) = n
  /\ \/ status[o] = "waitingForSettings" /\ FinishTask(n, o, <<>>)
     \/ /\ status[o] = "running"
        /\ status' = [status EXCEPT ![o] = "aborting:timeout"]
        /\ UNCHANGED <<sent, open, toBroker>>
  /\ UNCHANGED <<brokerVars, requesterVars, conn, canSend, leaving, toRunner>>

(* taskTimedOut, the runner's own timer *)
TaskTimedOut(n, o) ==
  /\ conn[n] = "open" /\ RunnerOf(o) = n
  /\ \/ status[o] = "waitingForSettings" /\ FinishTask(n, o, <<Msg("result", o)>>)
     \/ /\ status[o] = "running"
        /\ status' = [status EXCEPT ![o] = "aborting:timeout"]
        /\ UNCHANGED <<sent, open, toBroker>>
  /\ UNCHANGED <<brokerVars, requesterVars, conn, canSend, leaving, toRunner>>

(* stop: offers end, the connection is closed when all tasks are done.     *)
Leave(n) ==
  /\ conn[n] = "open" /\ n \notin leaving \cup Launchers
  /\ leaving' = leaving \cup {n}
  /\ canSend' = canSend \ {n}
  /\ open' = open \ OpenOf(n)
  /\ UNCHANGED <<brokerVars, requesterVars, conn, sent, status, channels>>

(* A launcher makes way when its offer was taken. *)
HandedOver(n) == n \in Launchers /\ sent[n] > 0 /\ OpenOf(n) = {}

CloseConnection(n) ==
  /\ conn[n] = "open" /\ (n \in leaving \/ HandedOver(n)) /\ RunningOf(n, status) = {}
  /\ conn' = [conn EXCEPT ![n] = "closed"]
  /\ toRunner' = [toRunner EXCEPT ![n] = <<>>]
  /\ Forget({n})
  /\ UNCHANGED <<brokerVars, requesterVars, toBroker>>

(* The process dies, hangs until it fails the heartbeat check, or runs     *)
(* into the time limit of its shutdown.                                    *)
Crash(n) ==
  /\ conn[n] = "open" /\ Cardinality({m \in Runners : conn[m] \in {"lost", "gone"}}) < MaxLost
  /\ conn' = [conn EXCEPT ![n] = "lost"]
  /\ toRunner' = [toRunner EXCEPT ![n] = <<>>]
  /\ Forget({n})
  /\ UNCHANGED <<brokerVars, requesterVars, toBroker>>

-----------------------------------------------------------------------------
RunnerNext(n) ==
  \/ Register(n) \/ Deregister(n) \/ BrokerReceive(n)
  \/ OfferTick(n) \/ RunnerReceive(n)
  \/ Leave(n) \/ CloseConnection(n) \/ Crash(n)
  \/ \E o \in Offers : TaskEnds(n, o) \/ TaskTimedOut(n, o)

Next ==
  \/ \E n \in Runners : RunnerNext(n)
  \/ \E o \in Offers : AcceptTimeout(o) \/ TaskTimeout(o)
  \/ \E r \in Requests : StartTask(r) \/ CancelTasks(r) \/ RequestTimeout(r)
  \/ StartDraining \/ Drained \/ DrainTimeout

Spec == Init /\ [][Next]_vars

(***************************************************************************)
(* While a timer can fire, a message can arrive, a closed connection can   *)
(* be noticed or code that was aborted can end, one of these happens in    *)
(* the end; a task may run for as long as it likes and nobody has to       *)
(* start, cancel, leave or drain.                                          *)
(***************************************************************************)
TimersFire ==
  \/ \E r \in Requests : RequestTimeout(r)
  \/ \E o \in Offers : AcceptTimeout(o) \/ TaskTimeout(o) \/ TaskTimedOut(RunnerOf(o), o)

MessagesArrive ==
  \E n \in Runners : Deregister(n) \/ BrokerReceive(n) \/ RunnerReceive(n)

AbortedCodeEnds ==
  \E o \in Offers :
    status[o] \in {"aborting:timeout", "aborting:cancelled"} /\ TaskEnds(RunnerOf(o), o)

Fairness == WF_vars(TimersFire \/ MessagesArrive \/ AbortedCodeEnds)

FairSpec == Spec /\ Fairness

-----------------------------------------------------------------------------
(***************************************************************************)
(* Properties                                                              *)
(***************************************************************************)

Message == [type : {"registered", "drain", "accept", "settings", "cancel", "offer",
                    "accepted", "rejected", "deferred", "result"},
            task : Offers \cup {None}]

(* Every variable has its type. *)
TypeOK ==
  /\ mode \in Modes /\ phase \in {"up", "draining", "stopped"}
  /\ known \subseteq Runners
  /\ requests \in Seq(Requests) /\ inProgress \subseteq Requests /\ reqTimer \subseteq Requests
  /\ offers \in Seq(Offers) /\ reqOf \in [Offers -> Requests \cup {None}]
  /\ accepting \subseteq Offers /\ tasks \subseteq Offers /\ timed \subseteq Offers
  /\ state \in [Requests -> {"idle", "waiting", "awaiting", "ended", "expired"}]
  /\ awaits \in [Requests -> Offers \cup {None}]
  /\ conn \in [Runners -> {"new", "open", "closed", "lost", "gone"}]
  /\ canSend \subseteq Runners /\ leaving \subseteq Runners
  /\ sent \in [Runners -> Nat] /\ open \subseteq Offers
  /\ status \in [Offers -> {"none", "waitingForSettings", "running",
                            "aborting:cancelled", "aborting:timeout"}]
  /\ toRunner \in [Runners -> Seq(Message)] /\ toBroker \in [Runners -> Seq(Message)]

(* Whoever awaits a result awaits a task the broker still has, with its    *)
(* timer set and at a runner that is known: every way in which a task can  *)
(* leave the broker (result, error, timeout, cancellation, loss of the     *)
(* runner, shutdown) also settles its caller.                              *)
AwaitedTaskIsTracked ==
  \A r \in Requests : state[r] = "awaiting" =>
    awaits[r] \in timed /\ awaits[r] \in tasks /\ RunnerOf(awaits[r]) \in known

(* A task that nobody awaits exists only for a request that expired while  *)
(* the runner's answer was on its way; in particular one request never has *)
(* two tasks.                                                              *)
OrphansOnlyAfterExpiry ==
  \A o \in tasks :
    LET r == reqOf[o]
    IN  state[r] = "expired" \/ (state[r] = "awaiting" /\ awaits[r] = o)

(* A runner's open offers and tasks together never exceed its concurrency, *)
(* so an offer that is accepted while it is open finds a free slot.        *)
WithinConcurrency ==
  \A n \in Runners : Cardinality(OpenOf(n)) + Cardinality(RunningOf(n, status)) <= MaxConcurrency

(* The assertion in receivedSettings never fails: settings reach a task    *)
(* that waits for them or is gone, whatever timers and cancellations were  *)
(* faster.                                                                 *)
SettingsFindTaskWaiting ==
  \A n \in Runners : \A i \in DOMAIN toRunner[n] :
    toRunner[n][i].type = "settings" =>
      status[toRunner[n][i].task] \in {"none", "waitingForSettings"}

(* What acceptOffer says "shouldn't happen": a task was accepted and its   *)
(* request is no longer there.                                             *)
RequestFoundAfterAccept ==
  \A o \in tasks : state[reqOf[o]] # "expired"

(* Every request is settled: by a result, an error or an expiry.           *)
EveryRequestSettles ==
  \A r \in Requests : state[r] = "waiting" ~> state[r] \notin {"waiting", "awaiting"}

(* Every task ends in the broker and in its runner, orphans included: the  *)
(* runner's timer cleans up what was never given settings, and its error   *)
(* message cleans up the broker.                                           *)
EveryTaskEnds ==
  \A o \in Offers : (o \in tasks \/ status[o] # "none") ~> (o \notin tasks /\ status[o] = "none")
=============================================================================
