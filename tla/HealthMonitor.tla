---------------------------- MODULE HealthMonitor ----------------------------
(***************************************************************************)
(* The failure detector of one node and the hash ring it maintains.        *)
(*                                                                         *)
(* The UDP and the TCP receive thread call inject_heartbeat, the check     *)
(* thread calls check_timeouts; both decide under state_mutex_, release    *)
(* it, and apply the decision later through transition_state, which sets   *)
(* the state under the lock and runs the callbacks after it.  The callback *)
(* is ClusterNode::on_node_state_change, which edits the router's ring.    *)
(*                                                                         *)
(* The age of the last heartbeat is 0, past suspect_timeout_ms (1) or past *)
(* dead_timeout_ms (2); the miss counter follows from the age, because     *)
(* check_interval divides suspect_timeout_ms by the misses required.       *)
(***************************************************************************)
EXTENDS Naturals, FiniteSets

CONSTANTS HmPeers,       \* the monitored nodes
          Receivers,     \* threads that call inject_heartbeat
          Checker,       \* the check thread
          HmSetups,      \* the configurations to study
          MaxDeaths      \* bound: node failures in a behaviour

\* What is running, and what may go wrong.
HmSetupType ==
    [peers : SUBSET HmPeers,
     seeds : SUBSET HmPeers,        \* registered by start(); others are met by heartbeat
     receivers : SUBSET Receivers,  \* the UDP thread, or also the TCP one
     rejoin : BOOLEAN,              \* enable_dead_rejoin
     reliable : BOOLEAN]            \* tcp_probe reaches every node that is up

ASSUME HealthAssumption ==
    /\ HmPeers # {} /\ IsFiniteSet(Receivers) /\ Checker \notin Receivers
    /\ MaxDeaths \in Nat
    /\ \A c \in HmSetups : c \in HmSetupType /\ c.seeds \subseteq c.peers

VARIABLES hmSetup,   \* the configuration of this behaviour
          hmState,   \* node_states_, "ABSENT" without an entry
          hmAddr,    \* the nodes in node_addresses_
          age,       \* of last_heartbeat_
          hmRing,    \* members of the router's ring
          hmTh,      \* thread -> its call of transition_state / handle_dead_rejoin
          cjob,      \* check_timeouts: changes decided
          cprobe,    \* check_timeouts: nodes to probe
          cpc,
          alive,     \* the nodes that are up
          died,      \* nodes that have failed at some time
          needsync,  \* nodes declared DEAD and not resynchronised since
          deaths

envVars == <<alive, died, deaths>>
checkVars == <<cjob, cprobe, cpc>>
hmVars == <<hmSetup, hmState, hmAddr, age, hmRing, hmTh, checkVars, needsync, envVars>>

HmThreads == Receivers \cup {Checker}
States == {"ABSENT", "JOINING", "ACTIVE", "SUSPECT", "DEAD", "REJOINING"}
HmIdle == [pc |-> "idle", node |-> CHOOSE n \in HmPeers : TRUE, old |-> "ABSENT", new |-> "ABSENT"]

HmInit ==
    /\ hmSetup \in HmSetups
    /\ hmState = [n \in HmPeers |-> IF n \in hmSetup.seeds THEN "JOINING" ELSE "ABSENT"]
    /\ hmAddr = hmSetup.seeds
    /\ age = [n \in HmPeers |-> 0]
    /\ hmRing = hmSetup.seeds
    /\ hmTh = [t \in HmThreads |-> HmIdle]
    /\ cjob = {} /\ cprobe = {} /\ cpc = "sleep"
    /\ alive = HmPeers /\ died = {} /\ needsync = {} /\ deaths = 0

Call(t, n, new) == hmTh' = [hmTh EXCEPT ![t] = [pc |-> "transition", node |-> n, old |-> "ABSENT", new |-> new]]

-----------------------------------------------------------------------------
(* add_peer                                                                *)

AddPeer(n) ==
    /\ n \in hmSetup.peers \ hmAddr
    /\ hmAddr' = hmAddr \cup {n}
    /\ \/ /\ hmState[n] = "ABSENT"
          /\ hmState' = [hmState EXCEPT ![n] = "JOINING"]
          /\ age' = [age EXCEPT ![n] = 0]
       \/ /\ hmState[n] # "ABSENT"
          /\ UNCHANGED <<hmState, age>>
    /\ UNCHANGED <<hmSetup, hmRing, hmTh, checkVars, needsync, envVars>>

-----------------------------------------------------------------------------
(* inject_heartbeat                                                        *)

Heartbeat(t, n) ==
    /\ t \in hmSetup.receivers /\ n \in hmSetup.peers \cap alive /\ hmTh[t].pc = "idle"
    /\ age' = [age EXCEPT ![n] = 0]
    /\ \/ hmState[n] \in {"SUSPECT", "JOINING"}
          /\ Call(t, n, "ACTIVE") /\ UNCHANGED hmState
       \/ hmState[n] = "DEAD" /\ hmSetup.rejoin
          /\ Call(t, n, "REJOINING") /\ UNCHANGED hmState
       \/ hmState[n] = "DEAD" /\ ~hmSetup.rejoin /\ UNCHANGED <<hmState, hmTh>>
       \/ hmState[n] = "ABSENT"
          /\ hmState' = [hmState EXCEPT ![n] = "ACTIVE"] /\ UNCHANGED hmTh
       \/ hmState[n] \in {"ACTIVE", "REJOINING"} /\ UNCHANGED <<hmState, hmTh>>
    /\ UNCHANGED <<hmSetup, hmAddr, hmRing, checkVars, needsync, envVars>>

-----------------------------------------------------------------------------
(* transition_state, its callback, and the rest of handle_dead_rejoin       *)

\* After transition_state(node, REJOINING) comes the rejoin callback.
Continue(t) == IF hmTh[t].new = "REJOINING" THEN "sync" ELSE "idle"

Transition(t) ==
    /\ hmTh[t].pc = "transition"
    /\ LET n == hmTh[t].node
       IN  \/ /\ hmState[n] = hmTh[t].new
              /\ hmTh' = [hmTh EXCEPT ![t].pc = Continue(t)]
              /\ UNCHANGED <<hmState, needsync>>
           \/ /\ hmState[n] # hmTh[t].new
              /\ hmState' = [hmState EXCEPT ![n] = hmTh[t].new]
              /\ hmTh' = [hmTh EXCEPT ![t].pc = "callback", ![t].old = hmState[n]]
              /\ needsync' = IF hmTh[t].new = "DEAD" THEN needsync \cup {n} ELSE needsync
    /\ UNCHANGED <<hmSetup, hmAddr, age, hmRing, checkVars, envVars>>

\* ClusterNode::on_node_state_change
Callback(t) ==
    /\ hmTh[t].pc = "callback"
    /\ LET n == hmTh[t].node
       IN  hmRing' = CASE hmTh[t].new = "DEAD" -> hmRing \ {n}
                     [] hmTh[t].new = "ACTIVE" /\ hmTh[t].old \in {"JOINING", "REJOINING"} -> hmRing \cup {n}
                     [] OTHER -> hmRing
    /\ hmTh' = [hmTh EXCEPT ![t].pc = Continue(t)]
    /\ UNCHANGED <<hmSetup, hmState, hmAddr, age, checkVars, needsync, envVars>>

\* The rejoin callback, and ACTIVE if it succeeds.
Sync(t) ==
    /\ hmTh[t].pc = "sync"
    /\ \/ /\ Call(t, hmTh[t].node, "ACTIVE")
          /\ needsync' = needsync \ {hmTh[t].node}
       \/ /\ hmTh' = [hmTh EXCEPT ![t].pc = "idle"]
          /\ UNCHANGED needsync
    /\ UNCHANGED <<hmSetup, hmState, hmAddr, age, hmRing, checkVars, envVars>>

-----------------------------------------------------------------------------
(* check_timeouts                                                          *)

Silent(n, states, timeout) == hmState[n] \in states /\ age[n] >= timeout

\* A bug: a node that was never heard is not suspected.
CheckDecideActive ==
    /\ cpc = "sleep"
    /\ cjob' = {<<n, "SUSPECT">> : n \in {m \in HmPeers : Silent(m, {"ACTIVE"}, 1)}}
               \cup {<<n, "DEAD">> : n \in {m \in HmPeers \ hmAddr : Silent(m, {"SUSPECT"}, 2)}}
    /\ cprobe' = {n \in hmAddr : Silent(n, {"SUSPECT"}, 2)}
    /\ cpc' = "probe"
    /\ UNCHANGED <<hmSetup, hmState, hmAddr, age, hmRing, hmTh, needsync, envVars>>

\* Decisions, under the lock.  A node without an address cannot be probed and is
\* declared DEAD by its silence alone.
CheckDecide ==
    /\ cpc = "sleep"
    /\ cjob' = {<<n, "SUSPECT">> : n \in {m \in HmPeers : Silent(m, {"ACTIVE", "JOINING"}, 1)}}
               \cup {<<n, "DEAD">> : n \in {m \in HmPeers \ hmAddr : Silent(m, {"SUSPECT"}, 2)}}
    /\ cprobe' = {n \in hmAddr : Silent(n, {"SUSPECT"}, 2)}
    /\ cpc' = "probe"
    /\ UNCHANGED <<hmSetup, hmState, hmAddr, age, hmRing, hmTh, needsync, envVars>>

\* A bug: the probe's answer is ignored.
ProbeIgnored(n) ==
    /\ cpc = "probe" /\ n \in cprobe
    /\ cprobe' = cprobe \ {n}
    /\ cjob' = cjob \cup {<<n, "DEAD">>}
    /\ UNCHANGED <<hmSetup, hmState, hmAddr, age, hmRing, hmTh, cpc, needsync, envVars>>

\* tcp_probe, without the lock.
Probe(n) ==
    /\ cpc = "probe" /\ n \in cprobe
    /\ cprobe' = cprobe \ {n}
    /\ \/ n \in alive /\ UNCHANGED cjob
       \/ (n \notin alive \/ ~hmSetup.reliable) /\ cjob' = cjob \cup {<<n, "DEAD">>}
    /\ UNCHANGED <<hmSetup, hmState, hmAddr, age, hmRing, hmTh, cpc, needsync, envVars>>

\* The decided changes are applied one by one.
CheckApply ==
    /\ cpc = "probe" /\ cprobe = {} /\ hmTh[Checker].pc = "idle"
    /\ \E c \in cjob :
         /\ cjob' = cjob \ {c}
         /\ Call(Checker, c[1], c[2])
    /\ UNCHANGED <<hmSetup, hmState, hmAddr, age, hmRing, cprobe, cpc, needsync, envVars>>

CheckEnd ==
    /\ cpc = "probe" /\ cprobe = {} /\ cjob = {} /\ hmTh[Checker].pc = "idle"
    /\ cpc' = "sleep"
    /\ UNCHANGED <<hmSetup, hmState, hmAddr, age, hmRing, hmTh, cjob, cprobe, needsync, envVars>>

-----------------------------------------------------------------------------
(* Time and failures                                                       *)

\* No heartbeat of n arrived for a timeout.  Transitions and callbacks are short
\* against a timeout; probes are not.
Silence(n) ==
    /\ age[n] < 2 /\ hmState[n] # "ABSENT"
    /\ \A t \in HmThreads : hmTh[t].pc = "idle"
    /\ age' = [age EXCEPT ![n] = @ + 1]
    /\ UNCHANGED <<hmSetup, hmState, hmAddr, hmRing, hmTh, checkVars, needsync, envVars>>

Die(n) ==
    /\ n \in hmSetup.peers \cap alive /\ deaths < MaxDeaths
    /\ alive' = alive \ {n} /\ died' = died \cup {n} /\ deaths' = deaths + 1
    /\ UNCHANGED <<hmSetup, hmState, hmAddr, age, hmRing, hmTh, checkVars, needsync>>

HmRestart(n) ==
    /\ n \notin alive
    /\ alive' = alive \cup {n}
    /\ UNCHANGED <<hmSetup, hmState, hmAddr, age, hmRing, hmTh, checkVars, needsync, died, deaths>>

HmThreadNext(t) == Transition(t) \/ Callback(t) \/ Sync(t)
CheckNext == CheckDecide \/ (\E n \in HmPeers : Probe(n)) \/ CheckApply \/ CheckEnd

HmNext ==
    \/ \E t \in Receivers, n \in HmPeers : Heartbeat(t, n)
    \/ \E t \in HmThreads : HmThreadNext(t)
    \/ CheckNext
    \/ \E n \in HmPeers : AddPeer(n) \/ Silence(n) \/ Die(n) \/ HmRestart(n)

HmSpec == HmInit /\ [][HmNext]_hmVars

\* Threads run, and a node that is down stays silent.  Time passes although Silence
\* waits for the short calls of the threads: strong fairness.
HmFairSpec ==
    /\ HmSpec
    /\ \A t \in HmThreads : WF_hmVars(HmThreadNext(t))
    /\ WF_hmVars(CheckNext)
    /\ \A n \in HmPeers : SF_hmVars(n \notin alive /\ Silence(n))

-----------------------------------------------------------------------------
(* Properties                                                              *)

HmTypeOK ==
    /\ hmSetup \in HmSetups
    /\ hmState \in [HmPeers -> States]
    /\ age \in [HmPeers -> 0..2]
    /\ hmAddr \subseteq HmPeers /\ hmRing \subseteq HmPeers
    /\ hmTh \in [HmThreads -> [pc : {"idle", "transition", "callback", "sync"}, node : HmPeers,
                           old : States, new : States]]
    /\ cjob \subseteq (HmPeers \X {"SUSPECT", "DEAD"})
    /\ cprobe \subseteq HmPeers /\ cpc \in {"sleep", "probe"}
    /\ needsync \subseteq HmPeers

(* Lost UDP heartbeats never bring a node down that start() registered:     *)
(* as long as it has not failed, the TCP probe before SUSPECT -> DEAD keeps *)
(* it in the ring, whatever the three threads interleave, if the probe      *)
(* reaches every node that is up.  A node met by heartbeat has no address   *)
(* to probe, and its silence alone makes it DEAD (check_timeouts).          *)
LossIsNotDeath ==
    hmSetup.reliable => \A n \in hmSetup.seeds \ died : hmState[n] # "DEAD" /\ n \in hmRing

(* Nothing is routed to a node that was declared DEAD before its rejoin     *)
(* synchronisation succeeded, except until the pending callback of that     *)
(* very DEAD transition has removed it from the ring.  Holds with a single  *)
(* receive thread.                                                          *)
ResyncBeforeRouting ==
    Cardinality(hmSetup.receivers) = 1 => \A n \in hmRing \cap needsync :
        \E t \in HmThreads : hmTh[t].pc = "callback" /\ hmTh[t].node = n /\ hmTh[t].new = "DEAD"

(* What the ring of a node may say of its peers: neither lost heartbeats    *)
(* nor an unfinished rejoin is taken for the truth (check_loop,             *)
(* transition_state, handle_dead_rejoin).                                   *)
MembershipSafe == LossIsNotDeath /\ ResyncBeforeRouting

(* A registered node that stays down is eventually taken out of the ring    *)
(* for good, in whatever state its last heartbeat left it.                  *)
DeadLeavesRing == \A n \in HmPeers : (<>[](n \notin alive)) => <>[](n \notin hmRing)

-----------------------------------------------------------------------------
(* What the documentation says and the code does not do                    *)

(* health_monitor.h:5-12: the documented state transitions.                 *)
LegalTransitions ==
    [][\A n \in HmPeers : hmState'[n] # hmState[n] =>
         <<hmState[n], hmState'[n]>> \in
           {<<"ABSENT", "JOINING">>, <<"ABSENT", "ACTIVE">>, <<"JOINING", "ACTIVE">>, <<"JOINING", "SUSPECT">>,
            <<"ACTIVE", "SUSPECT">>, <<"SUSPECT", "ACTIVE">>, <<"SUSPECT", "DEAD">>,
            <<"DEAD", "REJOINING">>, <<"REJOINING", "ACTIVE">>}]_hmVars

(* health_monitor.h:9: a node is declared DEAD after a TCP probe of it has  *)
(* failed; if the probe reaches every node that is up, only a node that has *)
(* failed.                                                                  *)
ProbedBeforeDead == hmSetup.reliable => \A n \in HmPeers \ died : hmState[n] # "DEAD"

(* docs/design/multinode_stability.md:176: a rejoined node is re-added to   *)
(* the router; with no thread in a call every ACTIVE seed is in the ring.   *)
ActiveInRing ==
    (\A t \in HmThreads : hmTh[t].pc = "idle") => \A n \in hmSetup.seeds : hmState[n] = "ACTIVE" => n \in hmRing
=============================================================================
