------------------------ MODULE LeaderElectionProofs ------------------------
(***************************************************************************)
(* For every set of hosts: a leader beyond the first costs a fault.        *)
(*                                                                         *)
(* The number of leaders alone is not inductive: a host whose SET NX       *)
(* succeeded is not a leader yet, and its key may expire before the answer *)
(* arrives.  The invariant counts claimants, the leaders and the hosts an  *)
(* answer on its way will make leader, that do not own the key.            *)
(***************************************************************************)
EXTENDS LeaderElection, FiniteSetTheorems, TLAPS

Claims(h) ==
  \/ role[h] = "leader"
  \/ check[h] = "claim" /\ answer[h] = "set"
  \/ check[h] = "get" /\ answer[h] = "own"

Claimants == {h \in Hosts : Claims(h)}

(* Claimants that do not own the key. *)
Pretenders == Claimants \ {key}

DownIsSilent == \A h \in Hosts : role[h] = "down" => check[h] = "none"

PretendersCost == Cardinality(Pretenders) <= faults

IInv == TypeOK /\ DownIsSilent /\ PretendersCost

(***************************************************************************)
(* Cardinalities.                                                          *)
(***************************************************************************)

(* Every set of hosts is finite, with a natural number of members. *)
LEMMA HostSets ==
  ASSUME NEW S, S \subseteq Hosts
  PROVE  IsFiniteSet(S) /\ Cardinality(S) \in Nat
BY FS_Subset, FS_CardinalityType, ElectionConstants

(* A subset of hosts has no more members than the set. *)
LEMMA Fewer ==
  ASSUME NEW S, NEW T, S \subseteq T, T \subseteq Hosts
  PROVE  Cardinality(S) <= Cardinality(T)
BY FS_Subset, HostSets

(* One host more adds at most one to the cardinality. *)
LEMMA OneMore ==
  ASSUME NEW S, NEW T, NEW x, T \subseteq Hosts, x \in Hosts, S \subseteq T \cup {x}
  PROVE  Cardinality(S) <= Cardinality(T) + 1
<1>1. T \cup {x} \subseteq Hosts
  OBVIOUS
<1>2. Cardinality(S) <= Cardinality(T \cup {x})
  BY <1>1, Fewer
<1>3. IsFiniteSet(T) /\ Cardinality(T) \in Nat
  BY HostSets
<1>4. Cardinality(T \cup {x}) \in {Cardinality(T), Cardinality(T) + 1}
  BY <1>3, FS_AddElement
<1>5. Cardinality(S) \in Nat
  BY <1>1, HostSets
<1> QED
  BY <1>2, <1>3, <1>4, <1>5

(* The invariant's count survives a step that makes no new pretender. *)
LEMMA NoNewPretender ==
  ASSUME PretendersCost, faults \in Nat, faults' \in Nat, faults <= faults',
         Pretenders' \subseteq Pretenders
  PROVE  PretendersCost'
<1>1. Pretenders \subseteq Hosts /\ Pretenders' \subseteq Hosts
  BY DEF Pretenders, Claimants
<1>2. Cardinality(Pretenders') <= Cardinality(Pretenders)
  BY <1>1, Fewer
<1>3. Cardinality(Pretenders) \in Nat /\ Cardinality(Pretenders') \in Nat
  BY <1>1, HostSets
<1> QED
  BY <1>2, <1>3 DEF PretendersCost

(* It survives one new pretender in a step that is a fault. *)
LEMMA PretenderByFault ==
  ASSUME PretendersCost, faults \in Nat, Fault, NEW x, x \in Hosts,
         Pretenders' \subseteq Pretenders \cup {x}
  PROVE  PretendersCost'
<1>1. Pretenders \subseteq Hosts /\ Pretenders' \subseteq Hosts
  BY DEF Pretenders, Claimants
<1>2. Cardinality(Pretenders') <= Cardinality(Pretenders) + 1
  BY <1>1, OneMore
<1>3. Cardinality(Pretenders) \in Nat /\ Cardinality(Pretenders') \in Nat
  BY <1>1, HostSets
<1>4. faults' = faults + 1
  BY DEF Fault
<1> QED
  BY <1>2, <1>3, <1>4 DEF PretendersCost

(***************************************************************************)
(* Commands: what they do to the key and to the claimants.                 *)
(***************************************************************************)

(* SET NX never makes a pretender: it claims only a key that is missing,   *)
(* and then the claimant owns it.                                          *)
LEMMA SetMakesNoPretender ==
  ASSUME TypeOK, NEW h \in Hosts, NEW c \in {"claim", "reclaim"},
         SetLeaderIfNotExists(h, c),
         \A g \in Hosts : role'[g] = "leader" => role[g] = "leader"
  PROVE  Pretenders' \subseteq Pretenders
<1>1. \A g \in Hosts \ {h} : check'[g] = check[g] /\ answer'[g] = answer[g]
  BY DEF SetLeaderIfNotExists, Sends, Answers, TypeOK
<1>2. check'[h] = c /\ answer'[h] \in {"set", "not-set", "error"}
  BY DEF SetLeaderIfNotExists, Sends, Answers, TypeOK
<1>3. answer'[h] = "set" => key = None /\ key' = h
  BY DEF SetLeaderIfNotExists, Sends, Answers, TypeOK, Vacant
<1>4. key' = key \/ (key = None /\ key' = h)
  BY DEF SetLeaderIfNotExists, Vacant
<1>5. SUFFICES ASSUME NEW g \in Hosts, Claims(g)', g # key'
               PROVE  Claims(g) /\ g # key
  BY DEF Pretenders, Claimants
<1>6. g # key
  BY <1>4, <1>5, NoneIsNoHost
<1>7. CASE g = h
  BY <1>2, <1>3, <1>5, <1>6, <1>7 DEF Claims
<1>8. CASE g # h
  BY <1>1, <1>5, <1>6, <1>8 DEF Claims
<1> QED
  BY <1>6, <1>7, <1>8

(* A read or a renewal makes no pretender: only the owner is told "own". *)
LEMMA ReadMakesNoPretender ==
  ASSUME TypeOK, NEW h \in Hosts, GetLeader(h) \/ TryRenewLeaderTtl(h),
         UNCHANGED role
  PROVE  Pretenders' \subseteq Pretenders
<1>1. \A g \in Hosts \ {h} : check'[g] = check[g] /\ answer'[g] = answer[g]
  BY DEF GetLeader, TryRenewLeaderTtl, Sends, Answers, TypeOK
<1>2. check'[h] \in {"get", "renew"} /\ key' = key
  BY DEF GetLeader, TryRenewLeaderTtl, Sends, Answers, TypeOK
<1>3. check'[h] = "get" /\ answer'[h] = "own" => key = h
  BY DEF GetLeader, TryRenewLeaderTtl, Sends, Answers, TypeOK
<1>4. SUFFICES ASSUME NEW g \in Hosts, Claims(g)', g # key'
               PROVE  Claims(g) /\ g # key
  BY DEF Pretenders, Claimants
<1>5. CASE g = h
  BY <1>2, <1>3, <1>4, <1>5 DEF Claims
<1>6. CASE g # h
  BY <1>1, <1>2, <1>4, <1>6 DEF Claims
<1> QED
  BY <1>5, <1>6

(* A lost command makes no pretender. *)
LEMMA LossMakesNoPretender ==
  ASSUME TypeOK, NEW h \in Hosts, NEW c \in Commands, LoseCommand(h, c),
         \A g \in Hosts : role'[g] = "leader" => role[g] = "leader"
  PROVE  Pretenders' \subseteq Pretenders
BY DEF LoseCommand, Sends, Answers, TypeOK, Pretenders, Claimants, Claims

(***************************************************************************)
(* Every step keeps the invariant.                                         *)
(***************************************************************************)

(* Every step keeps the types. *)
LEMMA TypePreserved == TypeOK /\ [Next]_vars => TypeOK'
<1> SUFFICES ASSUME TypeOK, [Next]_vars PROVE TypeOK'
  OBVIOUS
<1> USE ElectionConstants
<1>1. ASSUME NEW h \in Hosts, NEW c \in Commands,
             SetLeaderIfNotExists(h, c) \/ LoseCommand(h, c)
      PROVE  /\ key' \in Hosts \cup {None}
             /\ check' \in [Hosts -> Commands]
             /\ answer' \in [Hosts -> AnswerSet]
             /\ faults' \in 0..MaxFaults
  BY <1>1 DEF SetLeaderIfNotExists, LoseCommand, Sends, Answers, Fault, NoFault,
              TypeOK, AnswerSet
<1>2. ASSUME NEW h \in Hosts, GetLeader(h) \/ TryRenewLeaderTtl(h)
      PROVE  /\ key' \in Hosts \cup {None}
             /\ check' \in [Hosts -> Commands]
             /\ answer' \in [Hosts -> AnswerSet]
             /\ faults' \in 0..MaxFaults
  BY <1>2 DEF GetLeader, TryRenewLeaderTtl, Sends, Answers, Fault, NoFault,
              TypeOK, AnswerSet, Commands
<1>3. ASSUME NEW h \in Hosts, Start(h) PROVE TypeOK'
  BY <1>1, <1>3 DEF Start, TypeOK, Commands
<1>4. ASSUME NEW h \in Hosts, CheckLeader(h) PROVE TypeOK'
  BY <1>1, <1>2, <1>4 DEF CheckLeader, TypeOK, Commands
<1>5. ASSUME NEW h \in Hosts, KeepRole(h) PROVE TypeOK'
  BY <1>5 DEF KeepRole, EndCheck, Sends, Answers, NoFault, TypeOK, Commands, AnswerSet
<1>6. ASSUME NEW h \in Hosts, TakeOverAsLeader(h) PROVE TypeOK'
  BY <1>6 DEF TakeOverAsLeader, EndCheck, Sends, Answers, NoFault, TypeOK, Commands,
              AnswerSet
<1>7. ASSUME NEW h \in Hosts, StepDownToFollower(h) PROVE TypeOK'
  BY <1>7 DEF StepDownToFollower, EndCheck, Sends, Answers, NoFault, TypeOK, Commands,
              AnswerSet
<1>8. ASSUME NEW h \in Hosts, ClaimVacantKey(h) PROVE TypeOK'
  BY <1>1, <1>8 DEF ClaimVacantKey, TypeOK, Commands
<1>9. ASSUME NEW h \in Hosts, ClearLeader(h) PROVE TypeOK'
  BY <1>9 DEF ClearLeader, Fault, TypeOK
<1>10. ASSUME NEW h \in Hosts, Destroy(h) \/ Crash(h) PROVE TypeOK'
  BY <1>10 DEF Destroy, Crash, GoDown, Fault, NoFault, TypeOK, Commands, AnswerSet
<1>11. CASE Expire
  BY <1>11 DEF Expire, Fault, NoFault, TypeOK
<1>12. CASE UNCHANGED vars
  BY <1>12 DEF vars, TypeOK
<1> QED
  BY <1>3, <1>4, <1>5, <1>6, <1>7, <1>8, <1>9, <1>10, <1>11, <1>12 DEF Next, Handle

(* Every step leaves hosts that are down without a command or an answer. *)
LEMMA SilencePreserved == TypeOK /\ DownIsSilent /\ [Next]_vars => DownIsSilent'
<1> SUFFICES ASSUME TypeOK, DownIsSilent, [Next]_vars PROVE DownIsSilent'
  OBVIOUS
<1>1. ASSUME NEW h \in Hosts, Start(h) PROVE DownIsSilent'
  BY <1>1 DEF Start, SetLeaderIfNotExists, LoseCommand, Sends, DownIsSilent, TypeOK
<1>2. ASSUME NEW h \in Hosts, CheckLeader(h) PROVE DownIsSilent'
  BY <1>2 DEF CheckLeader, GetLeader, TryRenewLeaderTtl, LoseCommand, Sends,
              DownIsSilent, TypeOK
<1>3. ASSUME NEW h \in Hosts, KeepRole(h) \/ TakeOverAsLeader(h) \/ StepDownToFollower(h)
      PROVE  DownIsSilent'
  BY <1>3 DEF KeepRole, TakeOverAsLeader, StepDownToFollower, EndCheck, Sends,
              DownIsSilent, TypeOK
<1>4. ASSUME NEW h \in Hosts, ClaimVacantKey(h) PROVE DownIsSilent'
  BY <1>4 DEF ClaimVacantKey, SetLeaderIfNotExists, LoseCommand, Sends, DownIsSilent,
              TypeOK
<1>5. ASSUME NEW h \in Hosts, ClearLeader(h) PROVE DownIsSilent'
  BY <1>5 DEF ClearLeader, DownIsSilent
<1>6. ASSUME NEW h \in Hosts, Destroy(h) \/ Crash(h) PROVE DownIsSilent'
  BY <1>6 DEF Destroy, Crash, GoDown, DownIsSilent, TypeOK
<1>7. CASE Expire
  BY <1>7 DEF Expire, DownIsSilent
<1>8. CASE UNCHANGED vars
  BY <1>8 DEF vars, DownIsSilent
<1> QED
  BY <1>1, <1>2, <1>3, <1>4, <1>5, <1>6, <1>7, <1>8 DEF Next, Handle

(* Faults never become fewer. *)
LEMMA FaultsGrow == TypeOK /\ [Next]_vars => faults \in Nat /\ faults' \in Nat /\ faults <= faults'
<1> SUFFICES ASSUME TypeOK, [Next]_vars
             PROVE  faults \in Nat /\ faults' \in Nat /\ faults <= faults'
  OBVIOUS
<1>1. faults \in Nat
  BY ElectionConstants DEF TypeOK
<1>2. faults' = faults \/ faults' = faults + 1
  <2>1. ASSUME NEW h \in Hosts, NEW c, SetLeaderIfNotExists(h, c) \/ LoseCommand(h, c)
        PROVE  faults' = faults \/ faults' = faults + 1
    BY <2>1 DEF SetLeaderIfNotExists, LoseCommand, Fault, NoFault
  <2>2. ASSUME NEW h \in Hosts, GetLeader(h) \/ TryRenewLeaderTtl(h)
        PROVE  faults' = faults \/ faults' = faults + 1
    BY <2>2 DEF GetLeader, TryRenewLeaderTtl, Fault, NoFault
  <2>3. ASSUME NEW h \in Hosts, Start(h) \/ CheckLeader(h) \/ ClaimVacantKey(h)
        PROVE  faults' = faults \/ faults' = faults + 1
    BY <2>1, <2>2, <2>3 DEF Start, CheckLeader, ClaimVacantKey
  <2>4. ASSUME NEW h \in Hosts, KeepRole(h) \/ TakeOverAsLeader(h) \/ StepDownToFollower(h)
        PROVE  faults' = faults \/ faults' = faults + 1
    BY <2>4 DEF KeepRole, TakeOverAsLeader, StepDownToFollower, EndCheck, NoFault
  <2>5. ASSUME NEW h \in Hosts, ClearLeader(h) \/ Destroy(h) \/ Crash(h)
        PROVE  faults' = faults \/ faults' = faults + 1
    BY <2>5 DEF ClearLeader, Destroy, Crash, Fault, NoFault
  <2>6. ASSUME Expire \/ UNCHANGED vars
        PROVE  faults' = faults \/ faults' = faults + 1
    BY <2>6 DEF Expire, Fault, NoFault, vars
  <2> QED
    BY <2>3, <2>4, <2>5, <2>6 DEF Next, Handle
<1> QED
  BY <1>1, <1>2

(* Every step pays for each new pretender with a fault.  One step per      *)
(* action: only a deleted, expired or lost key makes a pretender.          *)
LEMMA CostPreserved == IInv /\ [Next]_vars => PretendersCost'
<1> SUFFICES ASSUME TypeOK, DownIsSilent, PretendersCost, [Next]_vars
             PROVE  PretendersCost'
  BY DEF IInv
<1>0. faults \in Nat /\ faults' \in Nat /\ faults <= faults'
  BY FaultsGrow
<1>1. ASSUME NEW h \in Hosts, Start(h) PROVE Pretenders' \subseteq Pretenders
  <2>1. \A g \in Hosts : role'[g] = "leader" => role[g] = "leader"
    BY <1>1 DEF Start, TypeOK
  <2> QED
    BY <1>1, <2>1, SetMakesNoPretender, LossMakesNoPretender DEF Start, Commands
<1>2. ASSUME NEW h \in Hosts, CheckLeader(h) PROVE Pretenders' \subseteq Pretenders
  <2>1. role' = role
    BY <1>2 DEF CheckLeader
  <2> QED
    BY <1>2, <2>1, ReadMakesNoPretender, LossMakesNoPretender DEF CheckLeader, Commands
<1>3. ASSUME NEW h \in Hosts, KeepRole(h) \/ StepDownToFollower(h)
      PROVE  Pretenders' \subseteq Pretenders
  BY <1>3 DEF KeepRole, StepDownToFollower, EndCheck, Sends, Answers, TypeOK, Pretenders,
              Claimants, Claims
<1>4. ASSUME NEW h \in Hosts, TakeOverAsLeader(h) PROVE Pretenders' \subseteq Pretenders
  <2>1. Claims(h)
    BY <1>4 DEF TakeOverAsLeader, Claims
  <2> QED
    BY <1>4, <2>1 DEF TakeOverAsLeader, EndCheck, Sends, Answers, TypeOK, Pretenders,
                      Claimants, Claims
<1>5. ASSUME NEW h \in Hosts, ClaimVacantKey(h) PROVE Pretenders' \subseteq Pretenders
  <2>1. role' = role
    BY <1>5 DEF ClaimVacantKey
  <2> QED
    BY <1>5, <2>1, SetMakesNoPretender, LossMakesNoPretender DEF ClaimVacantKey, Commands
<1>6. ASSUME NEW h \in Hosts, Destroy(h) \/ Crash(h) PROVE Pretenders' \subseteq Pretenders
  BY <1>6 DEF Destroy, Crash, GoDown, TypeOK, Pretenders, Claimants, Claims
<1>7. ASSUME NEW h \in Hosts, ClearLeader(h) PROVE PretendersCost'
  <2>1. Fault /\ Claimants' = Claimants /\ key' \in {None, key}
    BY <1>7 DEF ClearLeader, Claimants, Claims
  <2>2. CASE key \in Hosts
    <3>1. Pretenders' \subseteq Pretenders \cup {key}
      BY <2>1 DEF Pretenders
    <3> QED
      BY <2>1, <2>2, <3>1, <1>0, PretenderByFault
  <2>3. CASE key \notin Hosts
    <3>1. Pretenders' \subseteq Pretenders
      BY <2>1, <2>3, NoneIsNoHost DEF Pretenders, Claimants
    <3> QED
      BY <3>1, <1>0, NoNewPretender
  <2> QED
    BY <2>2, <2>3
<1>8. ASSUME Expire PROVE PretendersCost'
  <2>1. key \in Hosts /\ key' = None /\ Claimants' = Claimants
    BY <1>8 DEF Expire, TypeOK, Claimants, Claims
  <2>2. CASE role[key] = "down"
    <3>1. key \notin Claimants
      BY <2>1, <2>2 DEF Claimants, Claims, DownIsSilent
    <3>2. Pretenders' \subseteq Pretenders
      BY <2>1, <3>1 DEF Pretenders
    <3> QED
      BY <3>2, <1>0, NoNewPretender
  <2>3. CASE role[key] # "down"
    <3>1. Pretenders' \subseteq Pretenders \cup {key}
      BY <2>1 DEF Pretenders
    <3>2. Fault
      BY <1>8, <2>3 DEF Expire
    <3> QED
      BY <2>1, <3>1, <3>2, <1>0, PretenderByFault
  <2> QED
    BY <2>2, <2>3
<1>9. ASSUME UNCHANGED vars PROVE Pretenders' \subseteq Pretenders
  BY <1>9 DEF vars, Pretenders, Claimants, Claims
<1>10. ASSUME Pretenders' \subseteq Pretenders PROVE PretendersCost'
  BY <1>0, <1>10, NoNewPretender
<1> QED
  BY <1>1, <1>2, <1>3, <1>4, <1>5, <1>6, <1>7, <1>8, <1>9, <1>10 DEF Next, Handle

(* At first nobody is up and nobody claims the key. *)
LEMMA Initially == Init => IInv
<1> SUFFICES ASSUME Init PROVE IInv
  OBVIOUS
<1>1. TypeOK /\ DownIsSilent
  BY ElectionConstants DEF Init, TypeOK, DownIsSilent, Commands, AnswerSet
<1>2. Pretenders = {}
  BY DEF Init, Pretenders, Claimants, Claims
<1>3. Cardinality({}) = 0
  BY FS_EmptySet
<1>4. PretendersCost
  BY <1>2, <1>3 DEF PretendersCost, Init
<1> QED
  BY <1>1, <1>4 DEF IInv

(* The inductive invariant, for every set of hosts and any number of       *)
(* faults.                                                                 *)
THEOREM Invariance == Spec => []IInv
<1>1. IInv /\ [Next]_vars => IInv'
  BY TypePreserved, SilencePreserved, CostPreserved DEF IInv
<1> QED
  BY <1>1, Initially, PTL DEF Spec

(* Every leader beyond the first costs a fault (a key that expires under   *)
(* its owner, a lost command, a crash or a shutdown): with n faults there  *)
(* are at most n + 1 leaders at a time, and without one there is at most   *)
(* one.                                                                    *)
THEOREM LeadersCostFaults == Spec => []LeadersBoundedByFaults
<1>1. IInv => LeadersBoundedByFaults
  <2> SUFFICES ASSUME IInv PROVE Cardinality(Leaders) <= 1 + faults
    BY DEF LeadersBoundedByFaults
  <2>1. Leaders \subseteq Claimants /\ Claimants \subseteq Hosts /\ Pretenders \subseteq Hosts
    BY DEF Leaders, Claimants, Claims, Pretenders
  <2>2. faults \in Nat
    BY ElectionConstants DEF IInv, TypeOK
  <2>3. Cardinality(Leaders) \in Nat /\ Cardinality(Pretenders) \in Nat
    BY <2>1, HostSets
  <2>4. Cardinality(Leaders) <= Cardinality(Pretenders) + 1
    <3>1. CASE key \in Hosts
      BY <2>1, <3>1, OneMore DEF Pretenders
    <3>2. CASE key \notin Hosts
      <4>1. Leaders \subseteq Pretenders
        BY <2>1, <3>2 DEF Pretenders
      <4> QED
        BY <2>1, <2>3, <4>1, Fewer
    <3> QED
      BY <3>1, <3>2
  <2>5. Cardinality(Pretenders) <= faults
    BY DEF IInv, PretendersCost
  <2> QED
    BY <2>2, <2>3, <2>4, <2>5
<1> QED
  BY <1>1, Invariance, PTL

(* The checks never meet the wrong role: the assertions on isLeader in     *)
(* takeOverAsLeader, stepDownToFollower and the two checks cannot fail,    *)
(* for any number of instances and faults.                                 *)
THEOREM RolesAgree == Spec => []RoleMatchesCheck
<1>1. Init => TypeOK /\ RoleMatchesCheck
  BY Initially DEF Init, RoleMatchesCheck, IInv
<1>2. TypeOK /\ RoleMatchesCheck /\ [Next]_vars => RoleMatchesCheck'
  <2> SUFFICES ASSUME TypeOK, RoleMatchesCheck, [Next]_vars PROVE RoleMatchesCheck'
    OBVIOUS
  <2>1. ASSUME NEW h \in Hosts, NEW c \in Commands,
               SetLeaderIfNotExists(h, c) \/ LoseCommand(h, c)
        PROVE  check' = [check EXCEPT ![h] = c]
    BY <2>1 DEF SetLeaderIfNotExists, LoseCommand, Sends
  <2>2. ASSUME NEW h \in Hosts, Start(h) PROVE RoleMatchesCheck'
    BY <2>1, <2>2 DEF Start, Commands, RoleMatchesCheck, TypeOK
  <2>3. ASSUME NEW h \in Hosts, CheckLeader(h) PROVE RoleMatchesCheck'
    <3>1. CASE role[h] = "leader"
      <4>1. check' = [check EXCEPT ![h] = "renew"] /\ role' = role
        BY <2>3, <3>1 DEF CheckLeader, TryRenewLeaderTtl, LoseCommand, Sends
      <4> QED
        BY <3>1, <4>1 DEF RoleMatchesCheck, TypeOK
    <3>2. CASE role[h] # "leader"
      <4>1. check' = [check EXCEPT ![h] = "get"] /\ role' = role
        BY <2>3, <3>2 DEF CheckLeader, GetLeader, LoseCommand, Sends
      <4>2. role[h] = "follower"
        BY <2>3, <3>2 DEF CheckLeader, TypeOK
      <4> QED
        BY <4>1, <4>2 DEF RoleMatchesCheck, TypeOK
    <3> QED
      BY <3>1, <3>2
  <2>4. ASSUME NEW h \in Hosts, KeepRole(h) \/ TakeOverAsLeader(h) \/ StepDownToFollower(h)
        PROVE  RoleMatchesCheck'
    BY <2>4 DEF KeepRole, TakeOverAsLeader, StepDownToFollower, EndCheck, Sends,
                RoleMatchesCheck, TypeOK
  <2>5. ASSUME NEW h \in Hosts, ClaimVacantKey(h) PROVE RoleMatchesCheck'
    BY <2>1, <2>5 DEF ClaimVacantKey, Commands, RoleMatchesCheck, TypeOK
  <2>6. ASSUME NEW h \in Hosts, Destroy(h) \/ Crash(h) PROVE RoleMatchesCheck'
    BY <2>6 DEF Destroy, Crash, GoDown, RoleMatchesCheck, TypeOK
  <2>7. CASE \/ \E h \in Hosts : ClearLeader(h)
             \/ Expire
             \/ UNCHANGED vars
    BY <2>7 DEF ClearLeader, Expire, vars, RoleMatchesCheck
  <2> QED
    BY <2>2, <2>3, <2>4, <2>5, <2>6, <2>7 DEF Next, Handle
<1> QED
  BY <1>1, <1>2, TypePreserved, PTL DEF Spec
=============================================================================
