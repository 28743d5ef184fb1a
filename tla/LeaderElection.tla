--------------------------- MODULE LeaderElection ---------------------------
(***************************************************************************)
(* Leader election among the main instances of a multi-main setup:         *)
(* MultiMainSetup (packages/cli/src/scaling/multi-main-setup.ee.ts) and    *)
(* LeaderElectionClient, over one Redis key with a time to live.           *)
(*                                                                         *)
(* A Redis command is executed atomically at the server and answered       *)
(* later; a command timeout is an error answer to a command that was or    *)
(* was not executed.  Time is not modelled: a key may expire at any        *)
(* moment, and a key that expires although its owner is up counts as a     *)
(* fault, like a lost command, a crash or a shutdown.  The number of       *)
(* faults is bounded.                                                      *)
(***************************************************************************)
EXTENDS Integers, FiniteSets

CONSTANTS
  Hosts,      \* main instances
  MaxFaults   \* bound: expiries, lost commands, crashes and shutdowns

ASSUME ElectionConstants == IsFiniteSet(Hosts) /\ MaxFaults \in Nat

None == <<>>

ASSUME NoneIsNoHost == None \notin Hosts

VARIABLES
  key,      \* the leader key: a host, or None
  role,     \* each host: "down", "follower" or "leader"
  check,    \* the command a host's leader check (or init) waits for
  answer,   \* the answer that is on its way
  closing,  \* hosts whose shutdown has cleared the interval
  faults    \* faults so far

vars == <<key, role, check, answer, closing, faults>>

Init ==
  /\ key = None
  /\ role = [h \in Hosts |-> "down"]
  /\ check = [h \in Hosts |-> "none"]
  /\ answer = [h \in Hosts |-> "none"]
  /\ closing = {}
  /\ faults = 0

Leaders == {h \in Hosts : role[h] = "leader"}

(* A fault may happen. *)
Fault == faults < MaxFaults /\ faults' = faults + 1

NoFault == UNCHANGED faults

-----------------------------------------------------------------------------
(***************************************************************************)
(* The commands of LeaderElectionClient                                    *)
(***************************************************************************)

Sends(h, command) == check' = [check EXCEPT ![h] = command]

Answers(h, a) == answer' = [answer EXCEPT ![h] = a]

(* Mutant: SET without NX. *)
VacantAlways(h) == TRUE

(* SET ... NX succeeds only if there is no key. *)
Vacant(h) == key = None

(* The command is executed and will be answered. *)
SetLeaderIfNotExists(h, command) ==
  /\ Sends(h, command)
  /\ key' = IF Vacant(h) THEN h ELSE key
  /\ \/ Answers(h, IF Vacant(h) THEN "set" ELSE "not-set") /\ NoFault
     \/ Answers(h, "error") /\ Fault

GetLeader(h) ==
  /\ Sends(h, "get")
  /\ UNCHANGED key
  /\ \/ Answers(h, IF key = None THEN "vacant" ELSE IF key = h THEN "own" ELSE "other")
        /\ NoFault
     \/ Answers(h, "error") /\ Fault

TryRenewLeaderTtl(h) ==
  /\ Sends(h, "renew")
  /\ UNCHANGED key
  /\ \/ Answers(h, IF key = None THEN "key-missing"
                   ELSE IF key = h THEN "success" ELSE "other-host-is-leader")
        /\ NoFault
     \/ Answers(h, "error") /\ Fault

(* The command never reaches the server; the client times out. *)
LoseCommand(h, command) ==
  /\ Fault
  /\ Sends(h, command)
  /\ Answers(h, "error")
  /\ UNCHANGED key

-----------------------------------------------------------------------------
(***************************************************************************)
(* MultiMainSetup                                                          *)
(***************************************************************************)

(* init: the instance starts and tries to become leader. *)
Start(h) ==
  /\ role[h] = "down"
  /\ role' = [role EXCEPT ![h] = "follower"]
  /\ SetLeaderIfNotExists(h, "claim") \/ LoseCommand(h, "claim")
  /\ UNCHANGED closing

(* The interval fires; leaderCheckInProgress keeps checks from overlapping. *)
CheckLeader(h) ==
  /\ role[h] # "down"
  /\ h \notin closing
  /\ check[h] = "none"
  /\ IF role[h] = "leader"
     THEN TryRenewLeaderTtl(h) \/ LoseCommand(h, "renew")
     ELSE GetLeader(h) \/ LoseCommand(h, "get")
  /\ UNCHANGED <<role, closing>>

EndCheck(h) ==
  Sends(h, "none") /\ Answers(h, "none") /\ UNCHANGED <<key, closing>> /\ NoFault

(* The answer ends the check and leaves the role as it is. *)
KeepRole(h) ==
  /\ \/ check[h] = "renew" /\ answer[h] \in {"success", "error"}
     \/ check[h] = "get" /\ answer[h] \in {"other", "error"}
     \/ check[h] = "claim" /\ answer[h] \in {"not-set", "error"}
     \/ check[h] = "reclaim" /\ answer[h] = "set"
  /\ EndCheck(h)
  /\ UNCHANGED role

(* takeOverAsLeader: the key was set, or it is found to be ours. *)
TakeOverAsLeader(h) ==
  /\ \/ check[h] = "claim" /\ answer[h] = "set"
     \/ check[h] = "get" /\ answer[h] = "own"
  /\ EndCheck(h)
  /\ role' = [role EXCEPT ![h] = "leader"]

(* Mutant: a leader that finds another host's key only logs it. *)
LostLeadershipIgnored(h) ==
  check[h] = "reclaim" /\ answer[h] \in {"not-set", "error"}

(* The answers that cost a leader its role. *)
LostLeadership(h) ==
  \/ check[h] = "renew" /\ answer[h] = "other-host-is-leader"
  \/ check[h] = "reclaim" /\ answer[h] \in {"not-set", "error"}

StepDownToFollower(h) ==
  /\ LostLeadership(h)
  /\ EndCheck(h)
  /\ role' = [role EXCEPT ![h] = "follower"]

(* Mutant: a leader whose key is gone steps down before it claims again. *)
ClaimVacantKeyStepsDown(h) ==
  /\ check[h] = "renew" /\ answer[h] = "key-missing"
  /\ SetLeaderIfNotExists(h, "reclaim")
  /\ role' = [role EXCEPT ![h] = "follower"]
  /\ UNCHANGED closing

(* The key is gone: a follower claims it, a leader claims it again. *)
ClaimVacantKey(h) ==
  /\ \/ /\ check[h] = "get" /\ answer[h] = "vacant"
        /\ SetLeaderIfNotExists(h, "claim") \/ LoseCommand(h, "claim")
     \/ /\ check[h] = "renew" /\ answer[h] = "key-missing"
        /\ SetLeaderIfNotExists(h, "reclaim") \/ LoseCommand(h, "reclaim")
  /\ UNCHANGED <<role, closing>>

GoDown(h) ==
  /\ role' = [role EXCEPT ![h] = "down"]
  /\ check' = [check EXCEPT ![h] = "none"]
  /\ answer' = [answer EXCEPT ![h] = "none"]
  /\ closing' = closing \ {h}

(* shutdown of a leader: the interval is cleared and the key deleted,      *)
(* whoever owns it by now (or the command is lost).  A check in progress   *)
(* goes on until the connection is closed.                                 *)
ClearLeader(h) ==
  /\ role[h] = "leader"
  /\ h \notin closing
  /\ Fault
  /\ closing' = closing \cup {h}
  /\ key' \in {None, key}
  /\ UNCHANGED <<role, check, answer>>

(* The connection is closed; pending answers are dropped.  A follower      *)
(* shuts down without touching the key.                                    *)
Destroy(h) ==
  /\ \/ h \in closing /\ NoFault
     \/ role[h] = "follower" /\ h \notin closing /\ Fault
  /\ GoDown(h)
  /\ UNCHANGED key

(* The process dies and leaves its key to expire. *)
Crash(h) ==
  /\ role[h] # "down"
  /\ Fault
  /\ GoDown(h)
  /\ UNCHANGED key

(* Redis drops the key: after a crash always in the end, otherwise because *)
(* its owner was too slow to renew it.                                     *)
Expire ==
  /\ key # None
  /\ key' = None
  /\ IF role[key] = "down" THEN NoFault ELSE Fault
  /\ UNCHANGED <<role, check, answer, closing>>

Handle(h) ==
  KeepRole(h) \/ TakeOverAsLeader(h) \/ StepDownToFollower(h) \/ ClaimVacantKey(h)

Next ==
  \/ \E h \in Hosts : Start(h) \/ CheckLeader(h) \/ Handle(h)
                     \/ ClearLeader(h) \/ Destroy(h) \/ Crash(h)
  \/ Expire

(***************************************************************************)
(* The interval timer keeps firing, answers or timeouts arrive, instances  *)
(* are started, a shutdown completes, and the key of a dead host expires.  *)
(***************************************************************************)
Fairness ==
  /\ \A h \in Hosts : WF_vars(Start(h)) /\ WF_vars(CheckLeader(h)) /\ WF_vars(Handle(h))
                     /\ WF_vars(h \in closing /\ Destroy(h))
  /\ WF_vars(Expire /\ role[key] = "down")

Spec == Init /\ [][Next]_vars

FairSpec == Spec /\ Fairness

-----------------------------------------------------------------------------
(***************************************************************************)
(* Properties                                                              *)
(***************************************************************************)

Commands == {"none", "claim", "reclaim", "get", "renew"}
AnswerSet == {"none", "set", "not-set", "vacant", "own", "other", "success",
              "key-missing", "other-host-is-leader", "error"}

(* The type invariant. *)
TypeOK ==
  /\ key \in Hosts \cup {None}
  /\ role \in [Hosts -> {"down", "follower", "leader"}]
  /\ check \in [Hosts -> Commands]
  /\ answer \in [Hosts -> AnswerSet]
  /\ closing \subseteq Hosts
  /\ faults \in 0..MaxFaults

(* A leader renews or reclaims, a follower reads or claims: the assertions *)
(* on isLeader in takeOverAsLeader and stepDownToFollower never fail, so   *)
(* take-over and step-down events alternate on every host.                 *)
RoleMatchesCheck ==
  \A h \in Hosts :
    /\ check[h] \in {"renew", "reclaim"} => role[h] = "leader"
    /\ check[h] \in {"get", "claim"} => role[h] = "follower"

(* Every leader beyond the first costs a fault: as long as Redis answers,  *)
(* the key is renewed in time and nobody goes down, there is one leader at *)
(* most.                                                                   *)
LeadersBoundedByFaults == Cardinality(Leaders) <= 1 + faults

(* "eventually the system will recover once Redis is available again"      *)
(* (multi-main-setup.ee.ts:128): when the faults are over, exactly one     *)
(* instance remains leader for good.                                       *)
EventuallyOneLeader == <>[](Cardinality(Leaders) = 1)
=============================================================================
