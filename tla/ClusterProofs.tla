--------------------------- MODULE ClusterProofs ----------------------------
(***************************************************************************)
(* How a cluster changes: MembershipSafe, LossIsNotFailover, FullPlanOnly, *)
(* IdleIsIdle and MoveSafe, for every number of receive threads, callers,  *)
(* waiters, nodes, moves, ticks, lost messages and failures.               *)
(*                                                                         *)
(* The first two are about a decision that is taken in one step and        *)
(* applied in a later one.  The inductive invariants say what keeps the    *)
(* decision valid in between: for the failure detector that the check      *)
(* thread has at most one decision per node and round, that no decision    *)
(* exists for a node that is DEAD or rejoining, and that a heartbeat under *)
(* way keeps its node from timing out; for the failover that each missed   *)
(* ping of the standby was lost.                                           *)
(*                                                                         *)
(* FullPlanOnly is not inductive: that the moves are over when the ring is *)
(* edited follows from how run_loop left its loop, and stays true because  *)
(* nothing but the end of a run leaves CANCELLING and because only one     *)
(* caller at a time is between its exchange IDLE -> RUNNING and the start  *)
(* of the worker.                                                          *)
(***************************************************************************)
EXTENDS HealthMonitor, CoordinatorHA, RebalanceManager, PartitionMigration, FiniteSetTheorems, TLAPS

USE SMTT(20), ZenonT(20)

-----------------------------------------------------------------------------
(* The failure detector                                                    *)

\* Which thread may be about to do what.
Deciders ==
    /\ \A t \in Receivers : hmTh[t].pc # "idle" =>
         t \in hmSetup.receivers /\ hmTh[t].new \in {"ACTIVE", "REJOINING"}
    /\ hmTh[Checker].pc # "idle" => hmTh[Checker].new \in {"SUSPECT", "DEAD"} /\ cpc = "probe" /\ cprobe = {}
    /\ \A t \in HmThreads : hmTh[t].pc = "sync" => hmTh[t].new = "REJOINING"
    /\ cpc = "sleep" => cjob = {} /\ cprobe = {}

\* A node that start() registered has an address; while it has not failed it is not
\* declared DEAD, and nobody is about to.
NotDeclared ==
    /\ hmSetup.seeds \subseteq hmAddr
    /\ hmSetup.reliable => \A n \in hmSetup.seeds \ died :
        /\ n \in alive /\ hmState[n] \notin {"DEAD", "REJOINING"} /\ <<n, "DEAD">> \notin cjob
        /\ \A t \in HmThreads : hmTh[t].pc # "idle" /\ hmTh[t].node = n => hmTh[t].new \notin {"DEAD", "REJOINING"}
        /\ n \in hmRing

\* The check thread is about to declare n DEAD, or may come to it in this round.
Declaring(n) ==
    \/ n \in cprobe \/ <<n, "DEAD">> \in cjob
    \/ hmTh[Checker].pc = "transition" /\ hmTh[Checker].node = n /\ hmTh[Checker].new = "DEAD"

\* The check thread has a decision about n that is not applied.
Deciding(n) ==
    \/ n \in cprobe \/ \E s \in {"SUSPECT", "DEAD"} : <<n, s>> \in cjob
    \/ hmTh[Checker].pc = "transition" /\ hmTh[Checker].node = n

\* One decision per node and round.
OneDecision ==
    /\ \A n \in HmPeers : n \in cprobe => <<n, "SUSPECT">> \notin cjob /\ <<n, "DEAD">> \notin cjob
    /\ \A n \in HmPeers : ~(<<n, "SUSPECT">> \in cjob /\ <<n, "DEAD">> \in cjob)
    /\ hmTh[Checker].pc = "transition" => \A s \in {"SUSPECT", "DEAD"} : <<hmTh[Checker].node, s>> \notin cjob

\* What a single receive thread may rely on: the check thread leaves a node alone that is DEAD
\* or rejoining, a node not yet ACTIVE was never DEAD, and a node whose heartbeat is under way has
\* not timed out.
Undecided == \A n \in HmPeers : hmState[n] \in {"DEAD", "REJOINING"} => ~Deciding(n)
NeverDead == \A n \in HmPeers : hmState[n] \in {"ABSENT", "JOINING"} => n \notin needsync /\ ~Declaring(n)
JustHeard == \A t \in Receivers : hmTh[t].pc # "idle" => age[hmTh[t].node] = 0

\* A rejoin under way starts from DEAD, is synchronised before ACTIVE, and stays so until the ring is edited.
FromDead ==
    \A t \in Receivers : hmTh[t].pc = "transition" /\ hmTh[t].new = "REJOINING" => hmState[hmTh[t].node] = "DEAD"
Synced ==
    \A t \in Receivers :
        hmTh[t].pc = "transition" /\ hmTh[t].new = "ACTIVE" /\ hmState[hmTh[t].node] = "REJOINING" =>
            hmTh[t].node \notin needsync
Joining ==
    \A t \in Receivers :
        hmTh[t].pc = "callback" /\ hmTh[t].new = "ACTIVE" /\ hmTh[t].old \in {"JOINING", "REJOINING"} =>
            hmTh[t].node \notin needsync /\ ~Declaring(hmTh[t].node)
Leaving ==
    \A n \in hmRing \cap needsync :
        hmTh[Checker].pc = "callback" /\ hmTh[Checker].node = n /\ hmTh[Checker].new = "DEAD"

Rejoins == Undecided /\ NeverDead /\ JustHeard /\ FromDead /\ Synced /\ Joining /\ Leaving

OneReceiver == Cardinality(hmSetup.receivers) = 1

MembershipInv == HmTypeOK /\ Deciders /\ NotDeclared /\ OneDecision /\ (OneReceiver => Rejoins)

LEMMA ThreadsDistinct == Checker \in HmThreads /\ Receivers \subseteq HmThreads /\ HmThreads = Receivers \cup {Checker}
                         /\ \A t \in Receivers : t # Checker
BY HealthAssumption DEF HmThreads

LEMMA SingleReceiver == ASSUME HmTypeOK, OneReceiver PROVE \A t, u \in hmSetup.receivers : t = u
<1>1. hmSetup.receivers \subseteq Receivers BY HealthAssumption DEF HmTypeOK, HmSetupType
<1>2. IsFiniteSet(hmSetup.receivers) BY <1>1, HealthAssumption, FS_Subset
<1>3. \E r : hmSetup.receivers = {r} BY <1>2, FS_Singleton, Zenon DEF OneReceiver
<1> QED BY <1>3

LEMMA InitMembership == HmInit => MembershipInv
<1> SUFFICES ASSUME HmInit PROVE MembershipInv
  OBVIOUS
<1>1. HmIdle.node \in HmPeers /\ HmIdle \in [pc : {"idle", "transition", "callback", "sync"}, node : HmPeers, old : States, new : States]
  BY HealthAssumption DEF HmIdle, States
<1>2. hmSetup \in HmSetups /\ hmSetup.seeds \subseteq HmPeers BY HealthAssumption DEF HmInit, HmSetupType
<1>3. HmTypeOK BY <1>1, <1>2 DEF HmInit, HmTypeOK, States
<1>4. \A t \in HmThreads : hmTh[t].pc = "idle" BY DEF HmInit, HmIdle
<1>5. Deciders BY <1>4, ThreadsDistinct DEF HmInit, Deciders
<1>6. NotDeclared BY <1>2, <1>4 DEF HmInit, NotDeclared
<1>7. OneDecision BY <1>4, ThreadsDistinct DEF HmInit, OneDecision
<1>8. Rejoins BY <1>4, ThreadsDistinct DEF HmInit, Rejoins, Undecided, NeverDead, JustHeard, FromDead, Synced, Joining, Leaving, Deciding, Declaring
<1> QED BY <1>3, <1>5, <1>6, <1>7, <1>8 DEF MembershipInv

LEMMA HeartbeatMembership ==
  ASSUME MembershipInv, NEW t \in Receivers, NEW n \in HmPeers, Heartbeat(t, n) PROVE MembershipInv'
<1> USE ThreadsDistinct DEF MembershipInv, Heartbeat, checkVars, envVars
<1>1. HmTypeOK' BY DEF HmTypeOK, Call, States
<1>2. Deciders' BY DEF HmTypeOK, Deciders, Call
<1>3. NotDeclared' BY DEF HmTypeOK, NotDeclared, Call
<1>4. OneDecision' BY DEF HmTypeOK, OneDecision, Call
<1>5. ASSUME OneReceiver PROVE Rejoins'
  <2> USE <1>5, SingleReceiver DEF HmTypeOK, Rejoins, Call, Deciders
  <2>1. Undecided' BY DEF Undecided, Deciding
  <2>2. NeverDead' BY DEF NeverDead, Declaring
  <2>3. JustHeard' BY DEF JustHeard
  <2>4. FromDead' BY DEF FromDead, Undecided, Deciding
  <2>5. Synced' BY DEF Synced
  <2>6. Joining' BY DEF Joining, Declaring
  <2>7. Leaving' BY DEF Leaving
  <2> QED BY <2>1, <2>2, <2>3, <2>4, <2>5, <2>6, <2>7
<1>6. OneReceiver' = OneReceiver BY DEF OneReceiver
<1> QED BY <1>1, <1>2, <1>3, <1>4, <1>5, <1>6

LEMMA CallbackMembership == ASSUME MembershipInv, NEW t \in HmThreads, Callback(t) PROVE MembershipInv'
<1> USE ThreadsDistinct DEF MembershipInv, Callback, checkVars, envVars
<1>1. HmTypeOK' BY DEF HmTypeOK, Continue
<1>2. Deciders' BY DEF HmTypeOK, Deciders, Continue
<1>3. NotDeclared' BY DEF HmTypeOK, NotDeclared, Continue
<1>4. OneDecision' BY DEF HmTypeOK, OneDecision, Continue
<1>5. ASSUME OneReceiver PROVE Rejoins'
  <2> USE <1>5, SingleReceiver DEF HmTypeOK, Rejoins, Continue, Deciders
  <2>1. Undecided' BY DEF Undecided, Deciding
  <2>2. NeverDead' BY DEF NeverDead, Declaring
  <2>3. JustHeard' BY DEF JustHeard
  <2>4. FromDead' BY DEF FromDead, Undecided, Deciding
  <2>5. Synced' BY DEF Synced
  <2>6. Joining' BY DEF Joining, Declaring
  <2>7. Leaving' BY DEF Leaving, Joining
  <2> QED BY <2>1, <2>2, <2>3, <2>4, <2>5, <2>6, <2>7
<1>6. OneReceiver' = OneReceiver BY DEF OneReceiver
<1> QED BY <1>1, <1>2, <1>3, <1>4, <1>5, <1>6

LEMMA TransitionMembership == ASSUME MembershipInv, NEW t \in HmThreads, Transition(t) PROVE MembershipInv'
<1> USE ThreadsDistinct DEF MembershipInv, Transition, checkVars, envVars
<1>1. HmTypeOK' BY DEF HmTypeOK, Continue, States
<1>2. Deciders' BY DEF HmTypeOK, Deciders, Continue, States
<1>3. NotDeclared' BY DEF HmTypeOK, NotDeclared, Continue, States
<1>4. OneDecision' BY DEF HmTypeOK, OneDecision, Deciders, Continue, States
<1>5. ASSUME OneReceiver PROVE Rejoins'
  <2> USE <1>5, SingleReceiver DEF HmTypeOK, Rejoins, Deciders, Continue, States
  <2>0. \A u \in Receivers : u # t /\ t \in Receivers => hmTh[u].pc = "idle" BY DEF Deciders
  <2>1. Undecided'
    <3>1. CASE t = Checker BY <3>1 DEF Undecided, Deciding, OneDecision
    <3>2. CASE t \in Receivers BY <3>2 DEF Undecided, Deciding, FromDead
    <3> QED BY <3>1, <3>2
  <2>2. NeverDead' BY DEF NeverDead, Declaring
  <2>3. JustHeard' BY DEF JustHeard
  <2>4. FromDead'
    <3>1. CASE t = Checker
      <4>1. SUFFICES ASSUME NEW u \in Receivers, hmTh[u].pc = "transition", hmTh[u].new = "REJOINING"
                     PROVE  hmState'[hmTh[u].node] = "DEAD"
        BY <3>1 DEF FromDead
      <4>2. hmTh[u].node \in HmPeers /\ hmState[hmTh[u].node] = "DEAD" BY <4>1 DEF FromDead
      <4>3. hmTh[Checker].node # hmTh[u].node BY <3>1, <4>2, Zenon DEF Undecided, Deciding
      <4> QED BY <3>1, <4>2, <4>3
    <3>2. CASE t \in Receivers BY <3>2, <2>0 DEF FromDead
    <3> QED BY <3>1, <3>2
  <2>5. Synced' BY DEF Synced
  <2>6. Joining'
    <3>1. CASE t = Checker BY <3>1 DEF Joining, Declaring
    <3>2. CASE t \in Receivers
      <4>1. \A u \in Receivers : u # t => hmTh'[u].pc = "idle" BY <2>0, <3>2
      <4>2. \A n \in HmPeers : Declaring(n) => Deciding(n) BY DEF Declaring, Deciding
      <4>3. \A n \in HmPeers : Declaring(n)' = Declaring(n) BY <3>2 DEF Declaring
      <4> QED BY <3>2, <4>1, <4>2, <4>3 DEF Joining, NeverDead, Synced, Undecided
    <3> QED BY <3>1, <3>2
  <2>7. Leaving' BY DEF Leaving
  <2> QED BY <2>1, <2>2, <2>3, <2>4, <2>5, <2>6, <2>7
<1>6. OneReceiver' = OneReceiver BY DEF OneReceiver
<1> QED BY <1>1, <1>2, <1>3, <1>4, <1>5, <1>6

LEMMA SyncMembership == ASSUME MembershipInv, NEW t \in HmThreads, Sync(t) PROVE MembershipInv'
<1> USE ThreadsDistinct DEF MembershipInv, Sync, checkVars, envVars
<1>1. HmTypeOK' BY DEF HmTypeOK, Call, States
<1>2. Deciders' BY DEF HmTypeOK, Deciders, Call, States
<1>3. NotDeclared' BY DEF HmTypeOK, NotDeclared, Call, States
<1>4. OneDecision' BY DEF HmTypeOK, OneDecision, Deciders, Call, States
<1>5. ASSUME OneReceiver PROVE Rejoins'
  <2> USE <1>5, SingleReceiver DEF HmTypeOK, Rejoins, Deciders, Call, States
  <2>1. Undecided' BY DEF Undecided, Deciding
  <2>2. NeverDead' BY DEF NeverDead, Declaring
  <2>3. JustHeard' BY DEF JustHeard
  <2>4. FromDead' BY DEF FromDead, Undecided, Deciding
  <2>5. Synced' BY DEF Synced
  <2>6. Joining' BY DEF Joining, Declaring
  <2>7. Leaving' BY DEF Leaving
  <2> QED BY <2>1, <2>2, <2>3, <2>4, <2>5, <2>6, <2>7
<1>6. OneReceiver' = OneReceiver BY DEF OneReceiver
<1> QED BY <1>1, <1>2, <1>3, <1>4, <1>5, <1>6

LEMMA CheckDecideMembership == ASSUME MembershipInv, CheckDecide PROVE MembershipInv'
<1> USE ThreadsDistinct DEF MembershipInv, CheckDecide, Silent, checkVars, envVars
<1>1. HmTypeOK' BY DEF HmTypeOK
<1>2. Deciders' BY DEF HmTypeOK, Deciders
<1>3. NotDeclared' BY Zenon DEF HmTypeOK, NotDeclared
<1>4. OneDecision' BY DEF HmTypeOK, OneDecision, Deciders
<1>5. ASSUME OneReceiver PROVE Rejoins'
  <2> USE <1>5, SingleReceiver DEF HmTypeOK, Rejoins, Deciders
  <2>1. Undecided' BY DEF Undecided, Deciding
  <2>2. NeverDead' BY Zenon DEF NeverDead, Declaring
  <2>3. JustHeard' BY DEF JustHeard
  <2>4. FromDead' BY DEF FromDead, Undecided, Deciding
  <2>5. Synced' BY DEF Synced
  <2>6. Joining'
    <3>1. SUFFICES ASSUME NEW u \in Receivers, hmTh[u].pc = "callback", hmTh[u].new = "ACTIVE",
                          hmTh[u].old \in {"JOINING", "REJOINING"}
                   PROVE  hmTh[u].node \notin needsync /\ ~Declaring(hmTh[u].node)'
      BY DEF Joining, Declaring
    <3>2. hmTh[u].node \notin needsync /\ ~Declaring(hmTh[u].node) /\ age[hmTh[u].node] = 0
      BY <3>1 DEF Joining, JustHeard
    <3>3. hmTh[u].node \notin cprobe' /\ <<hmTh[u].node, "DEAD">> \notin cjob' BY <3>2
    <3> QED BY <3>2, <3>3 DEF Declaring
  <2>7. Leaving' BY DEF Leaving
  <2> QED BY <2>1, <2>2, <2>3, <2>4, <2>5, <2>6, <2>7
<1>6. OneReceiver' = OneReceiver BY DEF OneReceiver
<1> QED BY <1>1, <1>2, <1>3, <1>4, <1>5, <1>6

LEMMA ProbeMembership == ASSUME MembershipInv, NEW n \in HmPeers, Probe(n) PROVE MembershipInv'
<1> USE ThreadsDistinct DEF MembershipInv, Probe, checkVars, envVars
<1>1. HmTypeOK' BY DEF HmTypeOK
<1>2. Deciders' BY DEF HmTypeOK, Deciders
<1>3. NotDeclared' BY DEF HmTypeOK, NotDeclared
<1>4. OneDecision' BY DEF HmTypeOK, OneDecision, Deciders
<1>5. ASSUME OneReceiver PROVE Rejoins'
  <2> USE <1>5, SingleReceiver DEF HmTypeOK, Rejoins, Deciders
  <2>1. Undecided' BY DEF Undecided, Deciding
  <2>2. NeverDead' BY DEF NeverDead, Declaring
  <2>3. JustHeard' BY DEF JustHeard
  <2>4. FromDead' BY DEF FromDead, Undecided, Deciding
  <2>5. Synced' BY DEF Synced
  <2>6. Joining' BY DEF Joining, Declaring
  <2>7. Leaving' BY DEF Leaving
  <2> QED BY <2>1, <2>2, <2>3, <2>4, <2>5, <2>6, <2>7
<1>6. OneReceiver' = OneReceiver BY DEF OneReceiver
<1> QED BY <1>1, <1>2, <1>3, <1>4, <1>5, <1>6

LEMMA CheckApplyMembership == ASSUME MembershipInv, CheckApply PROVE MembershipInv'
<1> USE ThreadsDistinct DEF MembershipInv, CheckApply, checkVars, envVars
<1>1. HmTypeOK' BY DEF HmTypeOK, Call, States
<1>2. Deciders' BY DEF HmTypeOK, Deciders, Call, States
<1>3. NotDeclared' BY DEF HmTypeOK, NotDeclared, Call, States
<1>4. OneDecision' BY DEF HmTypeOK, OneDecision, Deciders, Call, States
<1>5. ASSUME OneReceiver PROVE Rejoins'
  <2> USE <1>5, SingleReceiver DEF HmTypeOK, Rejoins, Deciders, Call, States
  <2>1. Undecided' BY DEF Undecided, Deciding
  <2>2. NeverDead' BY DEF NeverDead, Declaring
  <2>3. JustHeard' BY DEF JustHeard
  <2>4. FromDead' BY DEF FromDead, Undecided, Deciding
  <2>5. Synced' BY DEF Synced
  <2>6. Joining' BY DEF Joining, Declaring
  <2>7. Leaving' BY DEF Leaving
  <2> QED BY <2>1, <2>2, <2>3, <2>4, <2>5, <2>6, <2>7
<1>6. OneReceiver' = OneReceiver BY DEF OneReceiver
<1> QED BY <1>1, <1>2, <1>3, <1>4, <1>5, <1>6

LEMMA CheckEndMembership == ASSUME MembershipInv, CheckEnd PROVE MembershipInv'
<1> USE ThreadsDistinct DEF MembershipInv, CheckEnd, checkVars, envVars
<1>1. HmTypeOK' BY DEF HmTypeOK
<1>2. Deciders' BY DEF HmTypeOK, Deciders
<1>3. NotDeclared' BY DEF HmTypeOK, NotDeclared
<1>4. OneDecision' BY DEF HmTypeOK, OneDecision, Deciders
<1>5. ASSUME OneReceiver PROVE Rejoins'
  <2> USE <1>5, SingleReceiver DEF HmTypeOK, Rejoins, Deciders
  <2>1. Undecided' BY DEF Undecided, Deciding
  <2>2. NeverDead' BY DEF NeverDead, Declaring
  <2>3. JustHeard' BY DEF JustHeard
  <2>4. FromDead' BY DEF FromDead, Undecided, Deciding
  <2>5. Synced' BY DEF Synced
  <2>6. Joining' BY DEF Joining, Declaring
  <2>7. Leaving' BY DEF Leaving
  <2> QED BY <2>1, <2>2, <2>3, <2>4, <2>5, <2>6, <2>7
<1>6. OneReceiver' = OneReceiver BY DEF OneReceiver
<1> QED BY <1>1, <1>2, <1>3, <1>4, <1>5, <1>6

LEMMA SilenceMembership == ASSUME MembershipInv, NEW n \in HmPeers, Silence(n) PROVE MembershipInv'
<1> USE ThreadsDistinct DEF MembershipInv, Silence, checkVars, envVars
<1>1. HmTypeOK' BY DEF HmTypeOK
<1>2. Deciders' BY DEF HmTypeOK, Deciders
<1>3. NotDeclared' BY DEF HmTypeOK, NotDeclared
<1>4. OneDecision' BY DEF HmTypeOK, OneDecision, Deciders
<1>5. ASSUME OneReceiver PROVE Rejoins'
  <2> USE <1>5, SingleReceiver DEF HmTypeOK, Rejoins, Deciders
  <2>1. Undecided' BY DEF Undecided, Deciding
  <2>2. NeverDead' BY DEF NeverDead, Declaring
  <2>3. JustHeard' BY DEF JustHeard
  <2>4. FromDead' BY DEF FromDead, Undecided, Deciding
  <2>5. Synced' BY DEF Synced
  <2>6. Joining' BY DEF Joining, Declaring
  <2>7. Leaving' BY DEF Leaving
  <2> QED BY <2>1, <2>2, <2>3, <2>4, <2>5, <2>6, <2>7
<1>6. OneReceiver' = OneReceiver BY DEF OneReceiver
<1> QED BY <1>1, <1>2, <1>3, <1>4, <1>5, <1>6

LEMMA DieMembership == ASSUME MembershipInv, NEW n \in HmPeers, Die(n) PROVE MembershipInv'
<1> USE ThreadsDistinct DEF MembershipInv, Die, checkVars, envVars
<1>1. HmTypeOK' BY DEF HmTypeOK
<1>2. Deciders' BY DEF HmTypeOK, Deciders
<1>3. NotDeclared' BY DEF HmTypeOK, NotDeclared
<1>4. OneDecision' BY DEF HmTypeOK, OneDecision, Deciders
<1>5. ASSUME OneReceiver PROVE Rejoins'
  <2> USE <1>5, SingleReceiver DEF HmTypeOK, Rejoins, Deciders
  <2>1. Undecided' BY DEF Undecided, Deciding
  <2>2. NeverDead' BY DEF NeverDead, Declaring
  <2>3. JustHeard' BY DEF JustHeard
  <2>4. FromDead' BY DEF FromDead, Undecided, Deciding
  <2>5. Synced' BY DEF Synced
  <2>6. Joining' BY DEF Joining, Declaring
  <2>7. Leaving' BY DEF Leaving
  <2> QED BY <2>1, <2>2, <2>3, <2>4, <2>5, <2>6, <2>7
<1>6. OneReceiver' = OneReceiver BY DEF OneReceiver
<1> QED BY <1>1, <1>2, <1>3, <1>4, <1>5, <1>6

LEMMA HmRestartMembership == ASSUME MembershipInv, NEW n \in HmPeers, HmRestart(n) PROVE MembershipInv'
<1> USE ThreadsDistinct DEF MembershipInv, HmRestart, checkVars, envVars
<1>1. HmTypeOK' BY DEF HmTypeOK
<1>2. Deciders' BY DEF HmTypeOK, Deciders
<1>3. NotDeclared' BY DEF HmTypeOK, NotDeclared
<1>4. OneDecision' BY DEF HmTypeOK, OneDecision, Deciders
<1>5. ASSUME OneReceiver PROVE Rejoins'
  <2> USE <1>5, SingleReceiver DEF HmTypeOK, Rejoins, Deciders
  <2>1. Undecided' BY DEF Undecided, Deciding
  <2>2. NeverDead' BY DEF NeverDead, Declaring
  <2>3. JustHeard' BY DEF JustHeard
  <2>4. FromDead' BY DEF FromDead, Undecided, Deciding
  <2>5. Synced' BY DEF Synced
  <2>6. Joining' BY DEF Joining, Declaring
  <2>7. Leaving' BY DEF Leaving
  <2> QED BY <2>1, <2>2, <2>3, <2>4, <2>5, <2>6, <2>7
<1>6. OneReceiver' = OneReceiver BY DEF OneReceiver
<1> QED BY <1>1, <1>2, <1>3, <1>4, <1>5, <1>6

LEMMA AddPeerMembership == ASSUME MembershipInv, NEW n \in HmPeers, AddPeer(n) PROVE MembershipInv'
<1> USE ThreadsDistinct DEF MembershipInv, AddPeer, checkVars, envVars
<1>1. HmTypeOK' BY DEF HmTypeOK, States
<1>2. Deciders' BY DEF HmTypeOK, Deciders
<1>3. NotDeclared' BY DEF HmTypeOK, NotDeclared
<1>4. OneDecision' BY DEF HmTypeOK, OneDecision, Deciders
<1>5. ASSUME OneReceiver PROVE Rejoins'
  <2> USE <1>5, SingleReceiver DEF HmTypeOK, Rejoins, Deciders
  <2>1. Undecided' BY DEF Undecided, Deciding
  <2>2. NeverDead' BY DEF NeverDead, Declaring
  <2>3. JustHeard' BY DEF JustHeard
  <2>4. FromDead' BY DEF FromDead, Undecided, Deciding
  <2>5. Synced' BY DEF Synced
  <2>6. Joining' BY DEF Joining, Declaring
  <2>7. Leaving' BY DEF Leaving
  <2> QED BY <2>1, <2>2, <2>3, <2>4, <2>5, <2>6, <2>7
<1>6. OneReceiver' = OneReceiver BY DEF OneReceiver
<1> QED BY <1>1, <1>2, <1>3, <1>4, <1>5, <1>6

LEMMA NextMembership == MembershipInv /\ [HmNext]_hmVars => MembershipInv'
<1> SUFFICES ASSUME MembershipInv, [HmNext]_hmVars PROVE MembershipInv'
  OBVIOUS
<1>1. ASSUME NEW t \in Receivers, NEW n \in HmPeers, Heartbeat(t, n) PROVE MembershipInv'
  BY <1>1, HeartbeatMembership
<1>2. ASSUME NEW t \in HmThreads, HmThreadNext(t) PROVE MembershipInv'
  BY <1>2, TransitionMembership, CallbackMembership, SyncMembership DEF HmThreadNext
<1>3. CASE CheckNext
  BY <1>3, CheckDecideMembership, ProbeMembership, CheckApplyMembership, CheckEndMembership DEF CheckNext
<1>4. ASSUME NEW n \in HmPeers, AddPeer(n) \/ Silence(n) \/ Die(n) \/ HmRestart(n) PROVE MembershipInv'
  BY <1>4, AddPeerMembership, SilenceMembership, DieMembership, HmRestartMembership
<1>5. CASE UNCHANGED hmVars
  <2> USE <1>5 DEF hmVars, checkVars, envVars
  <2>1. HmTypeOK' = HmTypeOK BY DEF HmTypeOK
  <2>2. Deciders' = Deciders BY DEF Deciders
  <2>3. NotDeclared' = NotDeclared BY DEF NotDeclared
  <2>4. OneDecision' = OneDecision BY DEF OneDecision
  <2>5. OneReceiver' = OneReceiver BY DEF OneReceiver
  <2>6. Rejoins' = Rejoins
    BY DEF Rejoins, Undecided, NeverDead, JustHeard, FromDead, Synced, Joining, Leaving, Deciding, Declaring
  <2> QED BY <2>1, <2>2, <2>3, <2>4, <2>5, <2>6 DEF MembershipInv
<1> QED BY <1>1, <1>2, <1>3, <1>4, <1>5 DEF HmNext

LEMMA MembershipImplies == MembershipInv => MembershipSafe
<1> SUFFICES ASSUME MembershipInv PROVE LossIsNotDeath /\ ResyncBeforeRouting
  BY DEF MembershipSafe
<1>1. LossIsNotDeath BY Zenon DEF MembershipInv, NotDeclared, LossIsNotDeath
<1>2. ResyncBeforeRouting
  BY ThreadsDistinct DEF MembershipInv, Rejoins, Leaving, OneReceiver, ResyncBeforeRouting
<1> QED BY <1>1, <1>2

(* Whatever the receive threads and the check thread interleave, and       *)
(* however many nodes are added, fail and restart: lost heartbeats alone   *)
(* never bring a registered node down, and with one receive thread nothing *)
(* is routed to a node between its DEAD and its resynchronisation          *)
(* (inject_heartbeat, check_timeouts, transition_state,                    *)
(* on_node_state_change).                                                  *)
THEOREM MembershipIsSafe == HmSpec => []MembershipSafe
<1>1. HmInit => MembershipInv BY InitMembership
<1>2. MembershipInv /\ [HmNext]_hmVars => MembershipInv' BY NextMembership
<1>3. MembershipInv => MembershipSafe BY MembershipImplies
<1> QED BY <1>1, <1>2, <1>3, PTL DEF HmSpec

-----------------------------------------------------------------------------
(* The failover                                                            *)

FailoverInv ==
    /\ require_lease \in BOOLEAN
    /\ up \in [Coords -> BOOLEAN] /\ role \in [Coords -> {"ACTIVE", "STANDBY"}]
    /\ monitor \in [Coords -> {"loop", "promote", "ended"}] /\ missed \in [Coords -> Nat]
    /\ lost \in Nat /\ crashes \in Nat
    /\ ~require_lease /\ crashes = 0 =>
         /\ \A c \in Coords : up[c]
         /\ role[Primary] = "ACTIVE" /\ monitor[Primary] = "ended"
         /\ \A c \in Coords \ {Primary} :
              /\ missed[c] <= lost
              /\ monitor[c] # "loop" \/ role[c] = "ACTIVE" => lost >= Patience

LEMMA PeerIsCoord == ASSUME NEW c \in Coords PROVE Peer(c) \in Coords /\ Peer(c) # c
<1>1. Cardinality({c}) = 1 BY FS_Singleton
<1>2. \E d \in Coords : d # c
  <2>1. SUFFICES ASSUME \A d \in Coords : d = c PROVE FALSE
    OBVIOUS
  <2>2. Coords = {c} BY <2>1
  <2> QED BY <1>1, <2>2, HAAssumption
<1> QED BY <1>2 DEF Peer

LEMMA InitFailover == HaInit => FailoverInv
BY HAAssumption DEF HaInit, FailoverInv

LEMMA NextFailover == FailoverInv /\ [HaNext]_haVars => FailoverInv'
<1> SUFFICES ASSUME FailoverInv, [HaNext]_haVars PROVE FailoverInv'
  OBVIOUS
<1> USE HAAssumption DEF FailoverInv
<1>1. ASSUME NEW c \in Coords, LeaseLoop(c) PROVE FailoverInv'
  BY <1>1 DEF LeaseLoop, PromoteTimes, NoPromotion, regVars, dataVars
<1>2. ASSUME NEW c \in Coords, PingOk(c) PROVE FailoverInv'
  BY <1>2 DEF PingOk
<1>3. ASSUME NEW c \in Coords, PingFails(c) PROVE FailoverInv'
  BY <1>3, PeerIsCoord DEF PingFails
<1>4. ASSUME NEW c \in Coords, TryPromote(c) PROVE FailoverInv'
  BY <1>4 DEF TryPromote, PromoteTimes
<1>5. ASSUME NEW c \in Coords, Crash(c) PROVE FailoverInv'
  BY <1>5 DEF Crash
<1>6. ASSUME NEW c \in Coords, HaRestart(c) PROVE FailoverInv'
  BY <1>6 DEF HaRestart
<1>7. ASSUME NEW c \in Coords, RegisterSecond(c) \/ Write(c) \/ \E op \in {"add", "remove"}, n \in DataNodes : RegisterFirst(c, op, n)
      PROVE  FailoverInv'
  <2>1. CASE RegisterSecond(c) BY <2>1 DEF RegisterSecond
  <2>2. CASE Write(c) BY <2>2 DEF Write
  <2>3. ASSUME NEW op \in {"add", "remove"}, NEW n \in DataNodes, RegisterFirst(c, op, n) PROVE FailoverInv'
    BY <2>3 DEF RegisterFirst
  <2>4. QED BY <1>7, <2>1, <2>2, <2>3
<1>8. CASE UNCHANGED haVars BY <1>8 DEF haVars
<1> QED BY <1>1, <1>2, <1>3, <1>4, <1>5, <1>6, <1>7, <1>8 DEF HaNext, HaThreadNext

LEMMA FailoverImplies == FailoverInv => LossIsNotFailover
<1> SUFFICES ASSUME FailoverInv, ~require_lease, crashes = 0, lost < Patience PROVE Cardinality(Active) = 1
  BY DEF LossIsNotFailover
<1>1. Active = {Primary} BY HAAssumption DEF FailoverInv, Active
<1> QED BY <1>1, FS_Singleton, Zenon

(* Without a lease, only lost pings can make a second coordinator ACTIVE   *)
(* while none has failed, and fewer of them than failover_after_ms covers  *)
(* never do, however the monitor threads, the registrations and the writes *)
(* interleave (monitor_loop, try_promote).                                 *)
THEOREM LossNeedsPatience == HaSpec => []LossIsNotFailover
<1>1. HaInit => FailoverInv BY InitFailover
<1>2. FailoverInv /\ [HaNext]_haVars => FailoverInv' BY NextFailover
<1>3. FailoverInv => LossIsNotFailover BY FailoverImplies
<1> QED BY <1>1, <1>2, <1>3, PTL DEF HaSpec

-----------------------------------------------------------------------------
(* The rebalance manager                                                   *)

(* The worker is gone, or has only its notification left.                  *)
Finished == worker \in {"none", "notify"}

(* Only one caller has won the exchange of start_plan, and the run it is   *)
(* about to start is the only one.                                         *)
OneLauncher ==
    \A c \in Callers : pc[c].at = "launch" =>
        /\ state # "IDLE" /\ Finished
        /\ \A d \in Callers : pc[d].at = "launch" => c = d

(* How far the moves of the plan are at each point of run_loop.            *)
MovesCounted ==
    /\ worker \in {"move", "paused"} => done + bad < NumMoves
    /\ worker \in {"read", "test"} => done + bad = NumMoves \/ state = "CANCELLING"
    /\ worker = "edit" => done = NumMoves

RebalanceInv == TypeOK /\ IdleIsIdle /\ OneLauncher /\ MovesCounted /\ FullPlanOnly

USE DEF Finished

-----------------------------------------------------------------------------
LEMMA ActionTypes ==
    /\ NoAction \in Actions
    /\ \A a \in Actions : a.kind = "ADD_NODE" => a.node \in Nodes
<1>1. NoAction \in Actions BY DEF Actions
<1>2. NoAction.kind = "NONE" BY DEF NoAction
<1>3. ASSUME NEW a \in Actions, a.kind = "ADD_NODE" PROVE a.node \in Nodes
  <2>1. a # NoAction BY <1>2, <1>3
  <2>2. a \in [kind : {"ADD_NODE", "REMOVE_NODE"}, node : Nodes] BY <2>1 DEF Actions
  <2> QED BY <2>2
<1> QED BY <1>1, <1>3

LEMMA InitRebalance == Init => RebalanceInv
BY RebalanceAssumption, ActionTypes
   DEF Init, RebalanceInv, TypeOK, IdleIsIdle, OneLauncher, MovesCounted, FullPlanOnly, IdleCall,
   NoAction

(* A caller's step changes its own call only.                              *)
LEMMA GoStep ==
    ASSUME TypeOK, NEW c \in Callers,
           NEW at \in {"idle", "swap", "launch", "PAUSED", "RUNNING", "CANCELLING"},
           NEW what \in Actions, Go(c, at, what)
    PROVE  /\ pc' \in [Callers -> [at : {"idle", "swap", "launch", "PAUSED", "RUNNING", "CANCELLING"},
                                   what : Actions]]
           /\ pc'[c].at = at
           /\ \A d \in Callers : d # c => pc'[d].at = pc[d].at
BY DEF TypeOK, Go

LEMMA StartInv ==
  ASSUME RebalanceInv, NEW c \in Callers, NEW a \in Actions, Start(c, a)
  PROVE RebalanceInv'
<1>1. TypeOK /\ Go(c, "swap", a) BY ZenonT(30) DEF RebalanceInv, Start
<1>2. /\ pc' \in [Callers -> [at : {"idle", "swap", "launch", "PAUSED", "RUNNING", "CANCELLING"},
         what : Actions]]
      /\ pc'[c].at = "swap"
      /\ \A d \in Callers : d # c => pc'[d].at = pc[d].at
  BY <1>1, GoStep
<1> QED
  BY <1>2, Zenon DEF RebalanceInv, Start, TypeOK, IdleIsIdle, OneLauncher, MovesCounted, FullPlanOnly

LEMMA PolicyStartInv ==
  ASSUME RebalanceInv, NEW c \in Callers, NEW n \in Nodes, PolicyStart(c, n)
  PROVE RebalanceInv'
<1>1. TypeOK /\ Go(c, "swap", NoAction) BY ZenonT(30) DEF RebalanceInv, PolicyStart
<1>2. /\ pc' \in [Callers -> [at : {"idle", "swap", "launch", "PAUSED", "RUNNING", "CANCELLING"},
         what : Actions]]
      /\ pc'[c].at = "swap"
      /\ \A d \in Callers : d # c => pc'[d].at = pc[d].at
  BY <1>1, GoStep, ActionTypes
<1> QED
  BY <1>2 DEF RebalanceInv, PolicyStart, TypeOK, IdleIsIdle, OneLauncher, MovesCounted, FullPlanOnly

(* The exchange IDLE -> RUNNING: in IDLE nobody is launching.              *)
LEMMA StartSwapInv == ASSUME RebalanceInv, NEW c \in Callers, StartSwap(c) PROVE RebalanceInv'
<1>1. TypeOK /\ pc[c].what \in Actions BY DEF RebalanceInv, TypeOK
<1>2. CASE state = "IDLE" /\ state' = "RUNNING" /\ Go(c, "launch", pc[c].what)
  <2>1. /\ pc' \in [Callers -> [at : {"idle", "swap", "launch", "PAUSED", "RUNNING", "CANCELLING"},
           what : Actions]]
        /\ pc'[c].at = "launch"
        /\ \A d \in Callers : d # c => pc'[d].at = pc[d].at
    BY <1>1, <1>2, GoStep
  <2>2. Finished /\ \A d \in Callers : pc[d].at # "launch"
    BY <1>2 DEF RebalanceInv, IdleIsIdle, OneLauncher
  <2> QED
    BY <1>2, <2>1, <2>2 DEF RebalanceInv, StartSwap, TypeOK, IdleIsIdle, OneLauncher, MovesCounted,
       FullPlanOnly
<1>3. CASE Go(c, "idle", NoAction) /\ UNCHANGED state
  <2>1. /\ pc' \in [Callers -> [at : {"idle", "swap", "launch", "PAUSED", "RUNNING", "CANCELLING"},
           what : Actions]]
        /\ pc'[c].at = "idle"
        /\ \A d \in Callers : d # c => pc'[d].at = pc[d].at
    BY <1>1, <1>3, GoStep, ActionTypes
  <2> QED
    BY <1>3, <2>1, Zenon DEF RebalanceInv, StartSwap, TypeOK, IdleIsIdle, OneLauncher, MovesCounted,
       FullPlanOnly
<1> QED BY <1>2, <1>3 DEF StartSwap

LEMMA LaunchInv == ASSUME RebalanceInv, NEW c \in Callers, Launch(c) PROVE RebalanceInv'
<1>1. TypeOK /\ Go(c, "idle", NoAction) /\ pc[c].at = "launch" /\ pc[c].what \in Actions
  BY DEF RebalanceInv, Launch, TypeOK
<1>2. /\ pc' \in [Callers -> [at : {"idle", "swap", "launch", "PAUSED", "RUNNING", "CANCELLING"},
         what : Actions]]
      /\ pc'[c].at = "idle"
      /\ \A d \in Callers : d # c => pc'[d].at = pc[d].at
  BY <1>1, GoStep, ActionTypes, ZenonT(30)
<1>3. state # "IDLE" /\ \A d \in Callers : pc'[d].at # "launch"
  BY <1>1, <1>2 DEF RebalanceInv, OneLauncher
<1> QED
  BY <1>1, <1>2, <1>3, RebalanceAssumption
     DEF RebalanceInv, Launch, TypeOK, IdleIsIdle, OneLauncher, MovesCounted, FullPlanOnly

(* pause, resume and cancel: none of them leaves CANCELLING or IDLE.       *)
LEMMA ControlInv ==
    ASSUME RebalanceInv, NEW c \in Callers, NEW from \in SUBSET {"RUNNING", "PAUSED"},
           NEW to \in {"RUNNING", "PAUSED", "CANCELLING"}, Control(c, from, to)
    PROVE  RebalanceInv'
<1>1. TypeOK /\ Go(c, to, NoAction) BY ZenonT(30) DEF RebalanceInv, Control
<1>2. /\ pc' \in [Callers -> [at : {"idle", "swap", "launch", "PAUSED", "RUNNING", "CANCELLING"},
         what : Actions]]
      /\ pc'[c].at = to
      /\ \A d \in Callers : d # c => pc'[d].at = pc[d].at
  BY <1>1, GoStep, ActionTypes, ZenonT(30)
<1>3. state # "CANCELLING" /\ state' = to BY Zenon DEF Control
<1> QED
  BY <1>2, <1>3 DEF RebalanceInv, Control, TypeOK, IdleIsIdle, OneLauncher, MovesCounted, FullPlanOnly

LEMMA SetStatusInv == ASSUME RebalanceInv, NEW c \in Callers, SetStatus(c) PROVE RebalanceInv'
<1>1. TypeOK /\ Go(c, "idle", NoAction) BY ZenonT(30) DEF RebalanceInv, SetStatus
<1>2. /\ pc' \in [Callers -> [at : {"idle", "swap", "launch", "PAUSED", "RUNNING", "CANCELLING"},
         what : Actions]]
      /\ pc'[c].at = "idle"
      /\ \A d \in Callers : d # c => pc'[d].at = pc[d].at
  BY <1>1, GoStep, ActionTypes
<1> QED
  BY <1>2, Zenon DEF RebalanceInv, SetStatus, TypeOK, IdleIsIdle, OneLauncher, MovesCounted, FullPlanOnly

(* While the worker is at work no caller is launching.                     *)
LEMMA WorkerInv == ASSUME RebalanceInv, WorkerNext PROVE RebalanceInv'
<1>1. CASE WorkerNextMove
  BY <1>1, RebalanceAssumption
     DEF RebalanceInv, WorkerNextMove, TypeOK, IdleIsIdle, OneLauncher, MovesCounted, FullPlanOnly,
     callVars
<1>2. CASE Wake
  BY <1>2 DEF RebalanceInv, Wake, TypeOK, IdleIsIdle, OneLauncher, MovesCounted, FullPlanOnly, callVars
<1>3. CASE Move
  BY <1>3, RebalanceAssumption
     DEF RebalanceInv, Move, TypeOK, IdleIsIdle, OneLauncher, MovesCounted, FullPlanOnly, callVars
<1>4. CASE ReadAction
  BY <1>4 DEF RebalanceInv, ReadAction, TypeOK, IdleIsIdle, OneLauncher, MovesCounted, FullPlanOnly,
     callVars
<1>5. CASE Test
  BY <1>5 DEF RebalanceInv, Test, TypeOK, IdleIsIdle, OneLauncher, MovesCounted, FullPlanOnly, callVars
<1>6. CASE EditRing
  <2>1. ring' \subseteq Nodes
    BY <1>6, ActionTypes DEF RebalanceInv, EditRing, TypeOK
  <2>2. edited'.full
    BY <1>6, Zenon DEF RebalanceInv, EditRing, MovesCounted
  <2> QED
    BY <1>6, <2>1, <2>2
       DEF RebalanceInv, EditRing, TypeOK, IdleIsIdle, OneLauncher, MovesCounted, FullPlanOnly, callVars
<1>7. CASE Record
  BY <1>7, ActionTypes
     DEF RebalanceInv, Record, TypeOK, IdleIsIdle, OneLauncher, MovesCounted, FullPlanOnly, callVars
<1>8. CASE StoreIdle
  BY <1>8 DEF RebalanceInv, StoreIdle, TypeOK, IdleIsIdle, OneLauncher, MovesCounted, FullPlanOnly,
     callVars
<1>9. CASE Notify
  BY <1>9 DEF RebalanceInv, Notify, TypeOK, IdleIsIdle, OneLauncher, MovesCounted, FullPlanOnly,
     callVars
<1> QED BY <1>1, <1>2, <1>3, <1>4, <1>5, <1>6, <1>7, <1>8, <1>9 DEF WorkerNext

LEMMA WaitInv ==
    ASSUME RebalanceInv, NEW u \in Waiters, NEW to \in {"out", "in", "tested", "asleep"}, WaitSet(u, to)
    PROVE  RebalanceInv'
BY DEF RebalanceInv, WaitSet, TypeOK, IdleIsIdle, OneLauncher, MovesCounted, FullPlanOnly, callVars

LEMMA NextRebalance == RebalanceInv /\ [Next]_vars => RebalanceInv'
<1> SUFFICES ASSUME RebalanceInv, [Next]_vars PROVE RebalanceInv' OBVIOUS
<1>1. CASE WorkerNext BY <1>1, WorkerInv
<1>2. ASSUME NEW c \in Callers, NEW a \in Actions, Start(c, a) PROVE RebalanceInv' BY <1>2, StartInv
<1>3. ASSUME NEW c \in Callers, NEW n \in Nodes, PolicyStart(c, n) PROVE RebalanceInv'
  BY <1>3, PolicyStartInv
<1>4. ASSUME NEW c \in Callers, CallNext(c) PROVE RebalanceInv'
  BY <1>4, StartSwapInv, LaunchInv, SetStatusInv DEF CallNext
<1>5. ASSUME NEW c \in Callers, Pause(c) \/ Resume(c) \/ Cancel(c) PROVE RebalanceInv'
  <2>1. CASE Pause(c) BY <2>1, ControlInv DEF Pause
  <2>2. CASE Resume(c) BY <2>2, ControlInv DEF Resume
  <2>3. CASE Cancel(c) BY <2>3, ControlInv DEF Cancel
  <2> QED BY <1>5, <2>1, <2>2, <2>3
<1>6. ASSUME NEW u \in Waiters, WaitCall(u) \/ WaitNext(u) PROVE RebalanceInv'
  BY <1>6, WaitInv DEF WaitCall, WaitNext, WaitTest, WaitSleep
<1>7. CASE UNCHANGED vars
  BY <1>7 DEF RebalanceInv, vars, TypeOK, IdleIsIdle, OneLauncher, MovesCounted, FullPlanOnly, callVars
<1> QED BY <1>1, <1>2, <1>3, <1>4, <1>5, <1>6, <1>7 DEF Next, StartRequest, ControlRequest

(* The inductive invariant of start_plan, run_loop, pause, resume and      *)
(* cancel.                                                                 *)
THEOREM RebalanceInvariant == Spec => []RebalanceInv
BY InitRebalance, NextRebalance, PTL DEF Spec

(* run_loop edits the ring only when the full plan committed.              *)
THEOREM RingEditedByFullPlan == Spec => []FullPlanOnly
<1>1. RebalanceInv => FullPlanOnly BY DEF RebalanceInv
<1> QED BY RebalanceInvariant, <1>1, PTL

(* state_ is IDLE only when no worker is left, so start_plan finds the     *)
(* ring settled.                                                           *)
THEOREM IdleMeansNoWorker == Spec => []IdleIsIdle
<1>1. RebalanceInv => IdleIsIdle BY DEF RebalanceInv
<1> QED BY RebalanceInvariant, <1>1, PTL

-----------------------------------------------------------------------------
(* MoveSafe for every set of ticks, every number of attempts and every     *)
(* number of failing calls.                                                *)
(*                                                                         *)
(* MoveSafe is about the end of a move.  What makes it true there is what  *)
(* an attempt keeps while it runs: execute_move and the router agree       *)
(* (Phases), rows that were read are on the destination before the commit  *)
(* (Copied), and a tick that asked the router during the attempt, or after *)
(* its commit, is on its way to the destination (Followed).                *)

InAttempt == mpc \in {"select", "copy", "commit", "rollback"}

(* Where execute_move is, its status, and the router's table.              *)
Phases ==
    /\ InAttempt => IF late THEN pmState = "FAILED" /\ ~migrating ELSE pmState = "COPYING" /\ migrating
    /\ mpc = "plan" => pmState = "PENDING" /\ ~migrating
    /\ mpc \in {"again", "end"} => pmState \in {"COMMITTED", "FAILED"} /\ ~migrating
    /\ pmState = "COMMITTED" <=> owner = "to"
    /\ mpc # "plan" => attempts > 0

(* What the source was sent it has.                                        *)
Kept == \A t \in Ticks : w[t].from => data["from"][t] > 0

(* The rows of the SELECT are on the destination before the commit.        *)
Copied == (mpc = "commit" /\ ~late) \/ owner = "to" => \A t \in Ticks : rows[t] > 0 => data["to"][t] > 0

(* A tick that asked the router in the attempt in progress, or in the one   *)
(* that committed, goes to the destination.                                *)
Followed ==
    /\ \A t \in Ticks : w[t].seen <= attempts
    /\ \A t \in Ticks :
         (migrating \/ owner = "to") /\ w[t].pc # "new" /\ w[t].seen = attempts =>
           /\ w[t].pc \in {"dual", "dual2", "done"} \/ (owner = "to" /\ w[t].pc \in {"route", "to"})
           /\ w[t].pc = "done" /\ ~w[t].failed => data["to"][t] > 0

MoveInv == PmTypeOK /\ Phases /\ Kept /\ Copied /\ Followed

-----------------------------------------------------------------------------
LEMMA InitMove == PmInit => MoveInv
<1> SUFFICES ASSUME PmInit PROVE MoveInv
  OBVIOUS
<1> USE DEF PmInit
<1>1. PmTypeOK
  <2>1. [pc |-> "new", from |-> FALSE, to |-> FALSE, failed |-> FALSE, seen |-> 0] \in TickCall
    BY DEF TickCall
  <2>2. None \in Counts BY DEF None, Counts
  <2>3. rows \in Counts /\ data \in [PmNodes -> Counts] /\ w \in [Ticks -> TickCall] BY <2>1, <2>2
  <2>4. attempts \in 0..MaxRetries /\ owner \in PmNodes BY MigrationAssumption DEF PmNodes
  <2> QED BY <2>3, <2>4, Zenon DEF PmTypeOK
<1>2. Phases BY DEF Phases, InAttempt
<1>3. Kept BY DEF Kept
<1>4. Copied BY DEF Copied
<1>5. Followed BY DEF Followed
<1> QED BY <1>1, <1>2, <1>3, <1>4, <1>5 DEF MoveInv

LEMMA LookMove == ASSUME MoveInv, NEW t \in Ticks, Look(t) PROVE MoveInv'
<1> USE DEF MoveInv
<1>1. PmTypeOK'
  <2>1. attempts \in Nat /\ w[t] \in TickCall /\ w \in [Ticks -> TickCall]
    BY MigrationAssumption DEF PmTypeOK
  <2> DEFINE looked == [w[t] EXCEPT !.pc = IF migrating THEN "dual" ELSE "route", !.seen = attempts]
  <2>2. looked \in TickCall BY <2>1, Zenon DEF TickCall
  <2>3. w' = [w EXCEPT ![t] = looked] BY <2>1, Zenon DEF Look
  <2>4. w' \in [Ticks -> TickCall] BY <2>1, <2>2, <2>3
  <2> QED BY <2>4 DEF Look, PmTypeOK, migVars
<1>2. Phases' BY DEF Look, Phases, InAttempt, migVars
<1>3. Kept' /\ Copied' BY DEF Look, Kept, Copied, PmTypeOK, TickCall, migVars
<1>4. Followed'
  BY MigrationAssumption DEF Look, Followed, PmTypeOK, TickCall, migVars, Phases, InAttempt
<1> QED BY <1>1, <1>2, <1>3, <1>4

LEMMA RouteMove == ASSUME MoveInv, NEW t \in Ticks, Route(t) PROVE MoveInv'
<1> USE DEF MoveInv
<1>1. PmTypeOK' BY DEF Route, PmTypeOK, TickCall, migVars, PmNodes
<1>2. Phases' BY DEF Route, Phases, InAttempt, migVars
<1>3. Kept' /\ Copied' BY DEF Route, Kept, Copied, PmTypeOK, TickCall, migVars
<1>4. Followed' BY MigrationAssumption DEF Route, Followed, PmTypeOK, TickCall, migVars, PmNodes
<1> QED BY <1>1, <1>2, <1>3, <1>4

(* What a send does: it stores, or it fails and the call remembers that.    *)
LEMMA SendEffect ==
  ASSUME PmTypeOK, NEW t \in Ticks, NEW n \in PmNodes, NEW at \in {"dual2", "done"}, Send(t, n, at)
  PROVE  /\ data' \in [PmNodes -> Counts] /\ w' \in [Ticks -> TickCall]
         /\ \A m \in PmNodes, u \in Ticks : data'[m][u] >= data[m][u]
         /\ \A u \in Ticks : u # t => w'[u] = w[u]
         /\ w'[t].pc = at /\ w'[t].seen = w[t].seen
         /\ w'[t].from => w[t].from \/ data'["from"][t] > 0
         /\ ~w'[t].failed => ~w[t].failed /\ data'[n][t] > 0
<1>1. w[t] \in TickCall /\ w \in [Ticks -> TickCall] /\ data \in [PmNodes -> Counts]
      /\ data[n] \in Counts
  BY DEF PmTypeOK
<1> DEFINE sent == [w[t] EXCEPT !.pc = at, ![n] = TRUE]
           gone == [w[t] EXCEPT !.pc = at, !.failed = TRUE]
           more == [data EXCEPT ![n][t] = @ + 1]
<1>2. sent \in TickCall /\ sent.pc = at /\ sent.seen = w[t].seen /\ sent.failed = w[t].failed
      /\ (sent.from => w[t].from \/ n = "from") BY <1>1, Zenon DEF TickCall, PmNodes
<1>3. gone \in TickCall /\ gone.pc = at /\ gone.seen = w[t].seen /\ gone.failed /\ gone.from = w[t].from
  BY <1>1, Zenon DEF TickCall
<1>4. /\ more \in [PmNodes -> Counts] /\ more[n][t] > 0
      /\ \A m \in PmNodes, u \in Ticks : more[m][u] >= data[m][u]
  BY <1>1 DEF Counts
<1>5. \A m \in PmNodes, u \in Ticks : data[m][u] >= data[m][u] BY <1>1 DEF Counts
<1> HIDE DEF sent, gone, more
<1>6. \/ data' = more /\ w' = [w EXCEPT ![t] = sent]
      \/ data' \in {data, more} /\ w' = [w EXCEPT ![t] = gone]
  BY <1>1 DEF Send, sent, gone, more
<1> QED BY <1>1, <1>2, <1>3, <1>4, <1>5, <1>6

LEMMA SendMove ==
  ASSUME MoveInv, NEW t \in Ticks, NEW n \in PmNodes, NEW at \in {"dual2", "done"}, Send(t, n, at),
         \/ w[t].pc = "dual" /\ at = "dual2"
         \/ w[t].pc = "dual2" /\ n = "to"
         \/ w[t].pc = n /\ at = "done"
  PROVE  MoveInv'
<1>1. PmTypeOK BY DEF MoveInv
<1>2. UNCHANGED migVars BY DEF Send
<1>3. PmTypeOK' BY <1>1, <1>2, SendEffect DEF PmTypeOK, migVars
<1>4. Phases' BY <1>2, Zenon DEF MoveInv, Phases, InAttempt, migVars
<1>5. data \in [PmNodes -> Counts] /\ data' \in [PmNodes -> Counts] BY <1>1, <1>3 DEF PmTypeOK
<1>6. \A m \in PmNodes, u \in Ticks : data[m][u] \in Nat /\ data'[m][u] \in Nat
      /\ (data[m][u] > 0 => data'[m][u] > 0)
  <2>1. TAKE m \in PmNodes, u \in Ticks
  <2>2. data[m][u] \in Nat /\ data'[m][u] \in Nat BY <1>5 DEF Counts
  <2>3. data'[m][u] >= data[m][u] BY <1>1, SendEffect, Zenon
  <2>5. data[m][u] > 0 => data'[m][u] > 0 BY <2>2, <2>3
  <2>4. QED BY <2>2, <2>5, Zenon
<1>7. Kept' BY <1>1, <1>6, SendEffect DEF MoveInv, Kept, PmNodes
<1>8. Copied' BY <1>2, <1>6 DEF MoveInv, Copied, PmNodes, migVars
<1>9. Followed' BY <1>1, <1>2, <1>6, SendEffect, ZenonT(30) DEF MoveInv, Followed, PmNodes, migVars
<1> QED BY <1>3, <1>4, <1>7, <1>8, <1>9 DEF MoveInv

LEMMA WriteMove == ASSUME MoveInv, NEW t \in Ticks, WriteNext(t) PROVE MoveInv'
<1>1. CASE SendSingle(t)
  <2>1. PICK n \in PmNodes : w[t].pc = n /\ Send(t, n, "done") BY <1>1 DEF SendSingle
  <2> QED BY <2>1, SendMove
<1>2. CASE SendFrom(t)
  <2>1. w[t].pc = "dual" /\ Send(t, "from", "dual2") /\ "from" \in PmNodes BY <1>2 DEF SendFrom, PmNodes
  <2> QED BY <2>1, SendMove
<1>3. CASE SendTo(t)
  <2>1. w[t].pc = "dual2" /\ Send(t, "to", "done") /\ "to" \in PmNodes BY <1>3 DEF SendTo, PmNodes
  <2> QED BY <2>1, SendMove
<1> QED BY <1>1, <1>2, <1>3 DEF WriteNext
-----------------------------------------------------------------------------
LEMMA BeginMoveMove == ASSUME MoveInv, BeginMove PROVE MoveInv'
<1> USE MigrationAssumption DEF MoveInv, BeginMove
<1>1. PmTypeOK'
  <2>1. attempts' \in 0..MaxRetries BY DEF PmTypeOK
  <2> QED BY <2>1, Zenon DEF PmTypeOK
<1>2. Phases' BY DEF Phases, InAttempt, PmTypeOK
<1>3. Kept' /\ Copied' BY DEF Kept, Copied, Phases
<1>4. Followed'
  <2>1. attempts \in Nat /\ \A t \in Ticks : w[t].seen \in Nat BY DEF PmTypeOK, TickCall
  <2> QED BY <2>1 DEF Followed
<1> QED BY <1>1, <1>2, <1>3, <1>4

LEMMA SelectMove == ASSUME MoveInv, Select PROVE MoveInv'
<1> USE DEF MoveInv, Select
<1>1. PmTypeOK' BY DEF PmTypeOK, PmNodes
<1>2. Phases' BY DEF Phases, InAttempt
<1>3. Kept' BY DEF Kept
<1>4. Copied' BY DEF Copied, None, Phases, InAttempt
<1>5. Followed' BY DEF Followed
<1> QED BY <1>1, <1>2, <1>3, <1>4, <1>5

LEMMA CopyMove == ASSUME MoveInv, Copy PROVE MoveInv'
<1> USE DEF MoveInv
<1>1. data \in [PmNodes -> Counts] /\ rows \in Counts BY DEF PmTypeOK
<1>2. /\ Stored \in [PmNodes -> Counts] /\ Stored["from"] = data["from"]
      /\ \A t \in Ticks : Stored["to"][t] = data["to"][t] + rows[t]
  BY <1>1 DEF Stored, Counts, PmNodes
<1>3. data' \in {data, Stored} /\ (mpc' = "commit" => data' = Stored) BY DEF Copy
<1>4. data' \in [PmNodes -> Counts] BY <1>1, <1>2, <1>3
<1>5. PmTypeOK' BY <1>4 DEF Copy, PmTypeOK
<1>6. Phases' BY DEF Phases, InAttempt, Copy
<1>7. Kept' BY <1>2, <1>3 DEF Kept, Copy
<1>8. \A t \in Ticks : data["to"][t] \in Nat /\ rows[t] \in Nat BY <1>1 DEF Counts, PmNodes
<1>9. Copied' BY <1>2, <1>3, <1>8 DEF Copied, Phases, InAttempt, Copy
<1>10. Followed' BY <1>2, <1>3, <1>8 DEF Followed, Copy
<1> QED BY <1>5, <1>6, <1>7, <1>9, <1>10

LEMMA TimeoutMove == ASSUME MoveInv, Timeout PROVE MoveInv'
<1> USE DEF MoveInv, Timeout
<1>1. PmTypeOK' BY Zenon DEF PmTypeOK
<1>2. Phases' BY DEF Phases, InAttempt
<1>3. Kept' /\ Copied' BY DEF Kept, Copied
<1>4. Followed' BY DEF Followed
<1> QED BY <1>1, <1>2, <1>3, <1>4

LEMMA LateEndMove == ASSUME MoveInv, LateEnd PROVE MoveInv'
BY DEF MoveInv, LateEnd, PmTypeOK, Phases, InAttempt, Kept, Copied, Followed

LEMMA CommitMove == ASSUME MoveInv, Commit PROVE MoveInv'
<1> USE DEF MoveInv, Commit
<1>1. PmTypeOK' BY Zenon DEF PmTypeOK, PmNodes
<1>2. Phases' BY DEF Phases, InAttempt
<1>3. Kept' /\ Copied' BY DEF Kept, Copied
<1>4. Followed' BY DEF Followed, Phases, InAttempt
<1> QED BY <1>1, <1>2, <1>3, <1>4

LEMMA RollbackMove == ASSUME MoveInv, Rollback PROVE MoveInv'
<1> USE DEF MoveInv
<1> DEFINE wiped == [data EXCEPT !["to"] = None]
<1>1. data \in [PmNodes -> Counts] BY DEF PmTypeOK
<1>2. wiped \in [PmNodes -> Counts] /\ wiped["from"] = data["from"] BY <1>1 DEF Counts, PmNodes, None
<1>3. data' \in {data, wiped} BY DEF Rollback
<1> HIDE DEF wiped
<1>4. PmTypeOK' BY <1>1, <1>2, <1>3, Zenon DEF Rollback, PmTypeOK
<1>5. Phases' BY DEF Phases, InAttempt, Rollback
<1>6. Kept' BY <1>2, <1>3 DEF Kept, Rollback
<1>7. owner = "from" BY DEF Phases, InAttempt, Rollback, PmTypeOK, PmNodes
<1>8. Copied' BY <1>7 DEF Copied, Rollback
<1>9. Followed' BY <1>7 DEF Followed, Rollback
<1> QED BY <1>4, <1>5, <1>6, <1>8, <1>9

LEMMA AgainMove == ASSUME MoveInv, Again PROVE MoveInv'
<1> USE DEF MoveInv, Again
<1>1. PmTypeOK' BY DEF PmTypeOK
<1>2. Phases' BY DEF Phases, InAttempt
<1>3. Kept' /\ Copied' BY DEF Kept, Copied
<1>4. Followed' BY DEF Followed
<1> QED BY <1>1, <1>2, <1>3, <1>4

LEMMA NextMove == MoveInv /\ [PmNext]_pmVars => MoveInv'
<1> SUFFICES ASSUME MoveInv, [PmNext]_pmVars PROVE MoveInv'
  OBVIOUS
<1>1. CASE MoveNext
  BY <1>1, BeginMoveMove, SelectMove, CopyMove, TimeoutMove, LateEndMove, CommitMove, RollbackMove,
     AgainMove DEF MoveNext
<1>2. ASSUME NEW t \in Ticks, Look(t) \/ Route(t) \/ WriteNext(t) PROVE MoveInv'
  BY <1>2, LookMove, RouteMove, WriteMove
<1>3. CASE UNCHANGED pmVars
  BY <1>3 DEF pmVars, migVars, MoveInv, PmTypeOK, Phases, InAttempt, Kept, Copied, Followed
<1> QED BY <1>1, <1>2, <1>3 DEF PmNext

LEMMA InvImpliesSafe == MoveInv => MoveSafe
<1> SUFFICES ASSUME MoveInv PROVE OwnerHasTicks /\ RouterFollowsMove
  BY DEF MoveSafe
<1>1. RouterFollowsMove BY DEF MoveInv, Phases, InAttempt, RouterFollowsMove, PmTypeOK
<1>2. OwnerHasTicks BY DEF MoveInv, OwnerHasTicks, Kept, Copied, Followed
<1> QED BY <1>1, <1>2

(* A move is safe however many ticks are ingested meanwhile, however often *)
(* execute_move is attempted, and whatever calls of the copy, of the       *)
(* rollback and of ingest_tick fail or time out: when it is over, the node *)
(* that owns the symbol has the ticks that it should, and dual-write is on *)
(* exactly during an attempt.                                              *)
THEOREM MoveIsSafe == PmSpec => []MoveSafe
<1>1. PmInit => MoveInv BY InitMove
<1>2. MoveInv /\ [PmNext]_pmVars => MoveInv' BY NextMove
<1>3. MoveInv => MoveSafe BY InvImpliesSafe
<1> QED BY <1>1, <1>2, <1>3, PTL DEF PmSpec
=============================================================================
