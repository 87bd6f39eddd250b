---------------------------- MODULE CoordinatorHA ----------------------------
(***************************************************************************)
(* The active and the standby query coordinator: ping-based failover, the  *)
(* leader lease, the fencing epoch and the registry of data nodes.         *)
(*                                                                         *)
(* Each coordinator runs a monitor thread (only when it starts as standby) *)
(* and, with require_lease, the lease thread of its own K8sLease object.   *)
(* That object keeps the holder in its own memory: no holder is shared     *)
(* between the two processes, so try_acquire finds the lease free or its   *)
(* own.  A callback of the lease runs inside try_acquire.                  *)
(***************************************************************************)
EXTENDS Naturals, FiniteSets

CONSTANTS Coords,       \* the two coordinators
          Primary,      \* the one configured ACTIVE
          DataNodes,
          LeaseModes,   \* the values of CoordinatorHAConfig::require_lease to study
          Patience,     \* failed pings that make up failover_after_ms
          MaxLost,      \* bound: pings lost although the peer is up
          MaxCrashes,   \* bound
          MaxCalls      \* bound: calls that register or remove a data node

ASSUME HAAssumption ==
    /\ Primary \in Coords /\ Cardinality(Coords) = 2
    /\ LeaseModes \subseteq BOOLEAN
    /\ Patience \in Nat \ {0}
    /\ MaxLost \in Nat /\ MaxCrashes \in Nat /\ MaxCalls \in Nat

VARIABLES require_lease,
          up,         \* coordinator -> its process runs
          role,       \* role_
          monitor,    \* coordinator -> where its monitor thread is
          missed,     \* coordinator -> pings failed since last_pong
          leader,     \* K8sLease::is_leader_
          epoch,      \* fencing_token_
          promotions, \* promotions_
          became,     \* coordinator -> times its role went from STANDBY to ACTIVE
          endpoints,  \* coordinator -> data nodes its QueryCoordinator knows
          registered, \* registered_nodes_
          call,       \* coordinator -> the register or remove call inside it
          gate,       \* last_seen_ of the data nodes
          term,       \* coordinator -> order in which it last became ACTIVE
          terms,      \* times some coordinator became ACTIVE
          written,    \* latest term of a write the data nodes accepted
          stale,      \* they accepted a write of an earlier term after a later one
          lost, crashes, calls

regVars == <<endpoints, registered, call, calls>>
dataVars == <<gate, written, stale>>
haVars == <<require_lease, up, role, monitor, missed, leader, epoch, promotions, became, regVars, dataVars,
          term, terms, lost, crashes>>

Peer(c) == CHOOSE d \in Coords : d # c
NoCall == [op |-> "none", node |-> CHOOSE n \in DataNodes : TRUE]

HaInit ==
    /\ require_lease \in LeaseModes
    /\ up = [c \in Coords |-> TRUE]
    /\ role = [c \in Coords |-> IF c = Primary THEN "ACTIVE" ELSE "STANDBY"]
    /\ monitor = [c \in Coords |-> IF c = Primary THEN "ended" ELSE "loop"]
    /\ missed = [c \in Coords |-> 0]
    /\ leader = [c \in Coords |-> FALSE]
    /\ epoch = [c \in Coords |-> IF c = Primary THEN 1 ELSE 0]
    /\ promotions = [c \in Coords |-> 0] /\ became = [c \in Coords |-> 0]
    /\ endpoints = [c \in Coords |-> {}] /\ registered = [c \in Coords |-> {}]
    /\ call = [c \in Coords |-> NoCall]
    /\ gate = 0 /\ written = 0 /\ stale = FALSE
    /\ term = [c \in Coords |-> IF c = Primary THEN 1 ELSE 0] /\ terms = 1
    /\ lost = 0 /\ crashes = 0 /\ calls = 0

-----------------------------------------------------------------------------
(* Promotion                                                               *)

\* try_promote after its lease check, run k times in a row by one thread.
PromoteTimes(c, k) ==
    /\ epoch' = [epoch EXCEPT ![c] = @ + k]
    /\ role' = [role EXCEPT ![c] = "ACTIVE"]
    /\ promotions' = [promotions EXCEPT ![c] = @ + k]
    /\ became' = [became EXCEPT ![c] = IF role[c] = "STANDBY" THEN @ + 1 ELSE @]
    /\ endpoints' = [endpoints EXCEPT ![c] = @ \cup registered[c]]
    /\ term' = IF role[c] = "STANDBY" THEN [term EXCEPT ![c] = terms + 1] ELSE term
    /\ terms' = IF role[c] = "STANDBY" THEN terms + 1 ELSE terms

NoPromotion == UNCHANGED <<epoch, role, promotions, became, endpoints, term, terms>>

\* K8sLease::lease_loop; try_acquire always succeeds and on_elected may promote.
LeaseLoop(c) ==
    /\ up[c] /\ require_lease /\ ~leader[c]
    /\ leader' = [leader EXCEPT ![c] = TRUE]
    /\ IF role[c] = "STANDBY" THEN PromoteTimes(c, 1) ELSE NoPromotion
    /\ UNCHANGED <<require_lease, up, monitor, missed, registered, call, calls, dataVars, lost, crashes>>

-----------------------------------------------------------------------------
(* monitor_loop                                                            *)

PingOk(c) ==
    /\ up[c] /\ monitor[c] = "loop" /\ role[c] = "STANDBY" /\ up[Peer(c)]
    /\ missed' = [missed EXCEPT ![c] = 0]
    /\ UNCHANGED <<require_lease, up, role, monitor, leader, epoch, promotions, became, regVars, dataVars,
                   term, terms, lost, crashes>>

\* A bug: the first failed ping starts a promotion.
PingFailsAtOnce(c) ==
    /\ up[c] /\ monitor[c] = "loop" /\ role[c] = "STANDBY"
    /\ \/ ~up[Peer(c)] /\ UNCHANGED lost
       \/ up[Peer(c)] /\ lost < MaxLost /\ lost' = lost + 1
    /\ monitor' = [monitor EXCEPT ![c] = "promote"]
    /\ UNCHANGED <<require_lease, up, role, missed, leader, epoch, promotions, became, regVars, dataVars, term, terms, crashes>>

PingFails(c) ==
    /\ up[c] /\ monitor[c] = "loop" /\ role[c] = "STANDBY"
    /\ \/ ~up[Peer(c)] /\ UNCHANGED lost
       \/ up[Peer(c)] /\ lost < MaxLost /\ lost' = lost + 1
    /\ \/ missed[c] + 1 < Patience
          /\ missed' = [missed EXCEPT ![c] = @ + 1] /\ UNCHANGED monitor
       \/ missed[c] + 1 >= Patience
          /\ monitor' = [monitor EXCEPT ![c] = "promote"] /\ UNCHANGED missed
    /\ UNCHANGED <<require_lease, up, role, leader, epoch, promotions, became, regVars, dataVars, term, terms, crashes>>

\* try_promote.  When it has to acquire the lease itself, on_elected calls try_promote first.
\* It does not look at the role again.
TryPromote(c) ==
    /\ up[c] /\ monitor[c] = "promote"
    /\ PromoteTimes(c, IF require_lease /\ ~leader[c] /\ role[c] = "STANDBY" THEN 2 ELSE 1)
    /\ leader' = [leader EXCEPT ![c] = require_lease]
    /\ monitor' = [monitor EXCEPT ![c] = "ended"]
    /\ UNCHANGED <<require_lease, up, missed, registered, call, calls, dataVars, lost, crashes>>

-----------------------------------------------------------------------------
(* The registry of data nodes                                              *)

\* add_remote_node or remove_node, up to the change of the QueryCoordinator.
RegisterFirst(c, op, n) ==
    /\ up[c] /\ call[c] = NoCall /\ calls < MaxCalls
    /\ endpoints' = [endpoints EXCEPT ![c] = IF op = "add" THEN @ \cup {n} ELSE @ \ {n}]
    /\ call' = [call EXCEPT ![c] = [op |-> op, node |-> n]]
    /\ calls' = calls + 1
    /\ UNCHANGED <<require_lease, up, role, monitor, missed, leader, epoch, promotions, became, registered,
                   dataVars, term, terms, lost, crashes>>

\* and the change of registered_nodes_ under node_mu_.
RegisterSecond(c) ==
    /\ up[c] /\ call[c].op # "none"
    /\ registered' = [registered EXCEPT ![c] = IF call[c].op = "add" THEN @ \cup {call[c].node}
                                                                  ELSE @ \ {call[c].node}]
    /\ call' = [call EXCEPT ![c] = NoCall]
    /\ UNCHANGED <<require_lease, up, role, monitor, missed, leader, epoch, promotions, became, endpoints, calls,
                   dataVars, term, terms, lost, crashes>>

-----------------------------------------------------------------------------
(* Writes and failures                                                     *)

\* The epoch in the header of a write: set_epoch is called on peer_rpc_ only, never on the
\* clients of the endpoints.
HeaderEpoch(c) == 0

\* The active coordinator writes to a data node whose server has a fencing token.
Write(c) ==
    /\ up[c] /\ role[c] = "ACTIVE"
    /\ HeaderEpoch(c) = 0 \/ HeaderEpoch(c) >= gate
    /\ gate' = IF HeaderEpoch(c) > gate THEN HeaderEpoch(c) ELSE gate
    /\ written' = IF term[c] > written THEN term[c] ELSE written
    /\ stale' = (stale \/ term[c] < written)
    /\ UNCHANGED <<require_lease, up, role, monitor, missed, leader, epoch, promotions, became, regVars,
                   term, terms, lost, crashes>>

Crash(c) ==
    /\ up[c] /\ crashes < MaxCrashes
    /\ up' = [up EXCEPT ![c] = FALSE] /\ crashes' = crashes + 1
    /\ UNCHANGED <<require_lease, role, monitor, missed, leader, epoch, promotions, became, regVars, dataVars,
                   term, terms, lost>>

\* init and start: the role is the configured one, nothing else survives.
HaRestart(c) ==
    /\ ~up[c]
    /\ up' = [up EXCEPT ![c] = TRUE]
    /\ role' = [role EXCEPT ![c] = IF c = Primary THEN "ACTIVE" ELSE "STANDBY"]
    /\ monitor' = [monitor EXCEPT ![c] = IF c = Primary THEN "ended" ELSE "loop"]
    /\ missed' = [missed EXCEPT ![c] = 0] /\ leader' = [leader EXCEPT ![c] = FALSE]
    /\ epoch' = [epoch EXCEPT ![c] = IF c = Primary THEN 1 ELSE 0]
    /\ promotions' = [promotions EXCEPT ![c] = 0] /\ became' = [became EXCEPT ![c] = 0]
    /\ endpoints' = [endpoints EXCEPT ![c] = {}] /\ registered' = [registered EXCEPT ![c] = {}]
    /\ call' = [call EXCEPT ![c] = NoCall]
    /\ term' = [term EXCEPT ![c] = IF c = Primary THEN terms + 1 ELSE 0]
    /\ terms' = IF c = Primary THEN terms + 1 ELSE terms
    /\ UNCHANGED <<require_lease, dataVars, lost, crashes, calls>>

HaThreadNext(c) == LeaseLoop(c) \/ PingOk(c) \/ PingFails(c) \/ TryPromote(c)

HaNext == \E c \in Coords :
    \/ HaThreadNext(c)
    \/ \E op \in {"add", "remove"}, n \in DataNodes : RegisterFirst(c, op, n)
    \/ RegisterSecond(c)
    \/ Write(c) \/ Crash(c) \/ HaRestart(c)

HaSpec == HaInit /\ [][HaNext]_haVars
\* The threads of a running coordinator keep running.
HaFairSpec == HaSpec /\ \A c \in Coords : WF_haVars(HaThreadNext(c))

-----------------------------------------------------------------------------
HaTypeOK ==
    /\ require_lease \in LeaseModes
    /\ {role[c] : c \in Coords} \subseteq {"ACTIVE", "STANDBY"}
    /\ up \in [Coords -> BOOLEAN] /\ leader \in [Coords -> BOOLEAN]
    /\ monitor \in [Coords -> {"loop", "promote", "ended"}]
    /\ missed \in [Coords -> 0..(Patience - 1)]
    /\ epoch \in [Coords -> Nat] /\ promotions \in [Coords -> Nat] /\ became \in [Coords -> Nat]
    /\ endpoints \in [Coords -> SUBSET DataNodes] /\ registered \in [Coords -> SUBSET DataNodes]
    /\ call \in [Coords -> [op : {"none", "add", "remove"}, node : DataNodes]]
    /\ term \in [Coords -> 0..terms] /\ written \in 0..terms /\ stale \in BOOLEAN

Active == {c \in Coords : up[c] /\ role[c] = "ACTIVE"}
SomeActive == Active # {}

(* While no coordinator has failed and fewer pings than failover_after_ms  *)
(* covers were lost, only one coordinator is ACTIVE (monitor_loop, without *)
(* require_lease).                                                         *)
LossIsNotFailover ==
    ~require_lease /\ crashes = 0 /\ lost < Patience => Cardinality(Active) = 1

(* When the coordinator that is up is the standby, some coordinator        *)
(* becomes ACTIVE (monitor_loop, lease_loop), unless it goes down as well. *)
Led == SomeActive \/ \A c \in Coords : ~up[c]
FailoverHappens == []<>Led

-----------------------------------------------------------------------------
(* What the documentation says and the code does not do                    *)

(* At most one coordinator is ACTIVE (the purpose of require_lease).       *)
AtMostOneActive == Cardinality(Active) <= 1

(* Once a data node accepted a write of a coordinator that was promoted    *)
(* later, it accepts none of one promoted earlier (FencingToken).          *)
StaleWriterRefused == ~stale

(* promotion_count() is the number of times the coordinator went from      *)
(* STANDBY to ACTIVE (try_promote).                                        *)
PromotionsCounted == \A c \in Coords : promotions[c] = became[c]

(* A data node registered with the ACTIVE coordinator is known to the      *)
(* standby that would replace it, when no registration is under way        *)
(* (add_remote_node, remove_node).                                         *)
RegistryReplicated ==
    (\A c \in Coords : up[c] /\ call[c] = NoCall) =>
        \A c, d \in Coords : registered[c] = registered[d]

(* When no registration is under way, the data nodes a coordinator queries *)
(* are those registered with it: a removed one does not come back with the *)
(* replay of the registry at a promotion (remove_node, try_promote).       *)
RegistryReplayed == \A c \in Coords : call[c] = NoCall => endpoints[c] = registered[c]
=============================================================================
