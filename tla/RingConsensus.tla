---------------------------- MODULE RingConsensus ----------------------------
(***************************************************************************)
(* EpochBroadcastConsensus: how the copies of the partition ring are kept  *)
(* together.                                                               *)
(*                                                                         *)
(* A coordinator edits its own ring under router_mu_, takes an epoch, takes*)
(* a snapshot under router_mu_, and sends it to its peers one after the    *)
(* other under peers_mu_, waiting for each acknowledgement.  A worker      *)
(* thread of the peer validates the epoch first and rebuilds the ring      *)
(* later, under that node's router_mu_.  A node's ring and its pins are    *)
(* rebuilt to exactly those of the snapshot.                               *)
(***************************************************************************)
EXTENDS Integers, FiniteSets

CONSTANTS Nodes,       \* processes that hold a copy of the ring
          RcThreads,   \* threads that call propose_add, _remove or _pin
          Members,     \* node ids that can be in the ring
          Symbols,
          NoNode,
          Initial,     \* members configured at start
          RcSetups     \* the deployments to study

\* Who proposes, and what may go wrong.
RcSetupType ==
    [nodes : SUBSET Nodes,       \* the processes of the cluster
     home : [RcThreads -> Nodes],  \* the node a proposing thread runs on
     lost_acks : BOOLEAN,        \* a connection may break after the update was delivered
     local_edits : BOOLEAN,      \* other nodes follow their own failure detector
     proposals : Nat,            \* bound
     restarts : Nat]             \* bound: restarts of a node with a proposer

ASSUME RingAssumption ==
    /\ Initial \subseteq Members /\ IsFiniteSet(RcThreads)
    /\ NoNode \notin Members /\ NoNode \notin RcThreads /\ NoNode \notin Nodes
    /\ \A c \in RcSetups : c \in RcSetupType /\ \A t \in RcThreads : c.home[t] \in c.nodes

VARIABLES rcSetup,     \* the deployment of this behaviour
          rcRing,      \* node -> its router's members and pins
          rcEpoch,     \* node -> FencingToken::epoch_
          last_seen,   \* node -> FencingToken::last_seen_
          peers_mu,    \* node -> the thread inside the send loop, or NoNode
          rcTh,        \* thread -> its call of propose_*
          rpc,         \* RING_UPDATE calls in the hands of a peer's worker thread
          result,      \* node -> how the broadcast with its highest epoch returned; after a
                       \* restart, none has
          applied,     \* node -> epoch of the snapshot its ring was last rebuilt to
          proposals, restarts

rcVars == <<rcSetup, rcRing, rcEpoch, last_seen, peers_mu, rcTh, rpc, result, applied, proposals, restarts>>

Rings == [nodes : SUBSET Members, pins : [Symbols -> Members \cup {NoNode}]]
NoPins == [s \in Symbols |-> NoNode]
Configured == [nodes |-> Initial, pins |-> NoPins]
RcIdle == [pc |-> "idle", epoch |-> 0, snap |-> Configured, todo |-> {}, peer |-> NoNode, ok |-> TRUE]
Home == rcSetup.home
Coordinators == {Home[t] : t \in RcThreads}
RcPeers(n) == rcSetup.nodes \ {n}

RcInit ==
    /\ rcSetup \in RcSetups
    /\ rcRing = [n \in Nodes |-> Configured]
    /\ rcEpoch = [n \in Nodes |-> 0]
    /\ last_seen = [n \in Nodes |-> 0]
    /\ peers_mu = [n \in Nodes |-> NoNode]
    /\ rcTh = [t \in RcThreads |-> RcIdle]
    /\ rpc = {}
    /\ result = [n \in Nodes |-> [epoch |-> 0, ok |-> TRUE]]
    /\ applied = [n \in Nodes |-> 0]
    /\ proposals = 0 /\ restarts = 0

-----------------------------------------------------------------------------
(* The coordinator                                                         *)

\* remove_node leaves the pins alone.
RingAdd(r, m) == [r EXCEPT !.nodes = @ \cup {m}]
RingRemove(r, m) == [r EXCEPT !.nodes = @ \ {m}]
RingPin(r, s, m) == [r EXCEPT !.pins[s] = m]

Edit(n, new) == rcRing' = [rcRing EXCEPT ![n] = new]

Propose(t) ==
    /\ rcTh[t].pc = "idle" /\ proposals < rcSetup.proposals
    /\ \E m \in Members :
          \/ Edit(Home[t], RingAdd(rcRing[Home[t]], m))
          \/ Edit(Home[t], RingRemove(rcRing[Home[t]], m))
          \/ \E s \in Symbols : Edit(Home[t], RingPin(rcRing[Home[t]], s, m))
    /\ rcTh' = [rcTh EXCEPT ![t] = [RcIdle EXCEPT !.pc = "advance"]]
    /\ proposals' = proposals + 1
    /\ UNCHANGED <<rcSetup, rcEpoch, last_seen, peers_mu, rpc, result, applied, restarts>>

Advance(t) ==
    /\ rcTh[t].pc = "advance"
    /\ rcEpoch' = [rcEpoch EXCEPT ![Home[t]] = @ + 1]
    /\ rcTh' = [rcTh EXCEPT ![t].pc = "snapshot", ![t].epoch = rcEpoch[Home[t]] + 1]
    /\ UNCHANGED <<rcSetup, rcRing, last_seen, peers_mu, rpc, result, applied, proposals, restarts>>

\* A bug: the pins are not part of the snapshot.
SnapshotWithoutPins(t) ==
    /\ rcTh[t].pc = "snapshot"
    /\ rcTh' = [rcTh EXCEPT ![t].pc = "lock", ![t].snap = [rcRing[Home[t]] EXCEPT !.pins = NoPins]]
    /\ UNCHANGED <<rcSetup, rcRing, rcEpoch, last_seen, peers_mu, rpc, result, applied, proposals, restarts>>

TakeSnapshot(t) ==
    /\ rcTh[t].pc = "snapshot"
    /\ rcTh' = [rcTh EXCEPT ![t].pc = "lock", ![t].snap = rcRing[Home[t]]]
    /\ UNCHANGED <<rcSetup, rcRing, rcEpoch, last_seen, peers_mu, rpc, result, applied, proposals, restarts>>

LockPeers(t) ==
    /\ rcTh[t].pc = "lock" /\ peers_mu[Home[t]] = NoNode
    /\ peers_mu' = [peers_mu EXCEPT ![Home[t]] = t]
    /\ rcTh' = [rcTh EXCEPT ![t].pc = "send", ![t].todo = RcPeers(Home[t])]
    /\ UNCHANGED <<rcSetup, rcRing, rcEpoch, last_seen, rpc, result, applied, proposals, restarts>>

\* send_ring_update reaches the peer.
Send(t, p) ==
    /\ rcTh[t].pc = "send" /\ p \in rcTh[t].todo
    /\ rcTh' = [rcTh EXCEPT ![t].pc = "ack", ![t].peer = p, ![t].todo = @ \ {p}]
    /\ rpc' = rpc \cup {[from |-> t, to |-> p, epoch |-> rcTh[t].epoch, snap |-> rcTh[t].snap, pc |-> "validate"]}
    /\ UNCHANGED <<rcSetup, rcRing, rcEpoch, last_seen, peers_mu, result, applied, proposals, restarts>>

\* send_ring_update fails to connect: the peer is skipped, and not tried again.
SendFails(t, p) ==
    /\ rcTh[t].pc = "send" /\ p \in rcTh[t].todo
    /\ rcTh' = [rcTh EXCEPT ![t].todo = @ \ {p}, ![t].ok = FALSE]
    /\ UNCHANGED <<rcSetup, rcRing, rcEpoch, last_seen, peers_mu, rpc, result, applied, proposals, restarts>>

\* The call of thread t that its current peer is working on.
Current(t) == {m \in rpc : m.from = t /\ m.to = rcTh[t].peer /\ m.epoch = rcTh[t].epoch}

\* recv of the acknowledgement, which says nothing of what the peer did.
Ack(t) ==
    /\ rcTh[t].pc = "ack"
    /\ \E m \in Current(t) :
          /\ m.pc = "reply"
          /\ rpc' = rpc \ {m}
    /\ rcTh' = [rcTh EXCEPT ![t].pc = "send"]
    /\ UNCHANGED <<rcSetup, rcRing, rcEpoch, last_seen, peers_mu, result, applied, proposals, restarts>>

\* recv fails: the peer went down, or the connection broke.
AckFails(t) ==
    /\ rcTh[t].pc = "ack"
    /\ rcSetup.lost_acks \/ Current(t) = {}
    /\ rcTh' = [rcTh EXCEPT ![t].pc = "send", ![t].ok = FALSE]
    /\ UNCHANGED <<rcSetup, rcRing, rcEpoch, last_seen, peers_mu, rpc, result, applied, proposals, restarts>>

Return(t) ==
    LET n == Home[t] IN
    /\ rcTh[t].pc = "send" /\ rcTh[t].todo = {}
    /\ peers_mu' = [peers_mu EXCEPT ![n] = NoNode]
    /\ result' = IF rcTh[t].epoch < result[n].epoch THEN result
                 ELSE [result EXCEPT ![n] = [epoch |-> rcTh[t].epoch, ok |-> rcTh[t].ok]]
    /\ rcTh' = [rcTh EXCEPT ![t] = RcIdle]
    /\ UNCHANGED <<rcSetup, rcRing, rcEpoch, last_seen, rpc, applied, proposals, restarts>>

-----------------------------------------------------------------------------
(* The peer: a worker thread of its RPC server runs apply_update            *)

Step(m, pc) == rpc' = (rpc \ {m}) \cup {[m EXCEPT !.pc = pc]}

\* A bug: any epoch is accepted.
ValidateAlways(m) ==
    /\ m.pc = "validate"
    /\ last_seen' = [last_seen EXCEPT ![m.to] = m.epoch] /\ Step(m, "apply")
    /\ UNCHANGED <<rcSetup, rcRing, rcEpoch, peers_mu, rcTh, result, applied, proposals, restarts>>

\* FencingToken::validate
Validate(m) ==
    /\ m.pc = "validate"
    /\ \/ m.epoch >= last_seen[m.to]
          /\ last_seen' = [last_seen EXCEPT ![m.to] = m.epoch] /\ Step(m, "apply")
       \/ m.epoch < last_seen[m.to]
          /\ Step(m, "reply") /\ UNCHANGED last_seen
    /\ UNCHANGED <<rcSetup, rcRing, rcEpoch, peers_mu, rcTh, result, applied, proposals, restarts>>

Apply(m) ==
    /\ m.pc = "apply"
    /\ Edit(m.to, m.snap)
    /\ applied' = [applied EXCEPT ![m.to] = m.epoch]
    /\ Step(m, "reply")
    /\ UNCHANGED <<rcSetup, rcEpoch, last_seen, peers_mu, rcTh, result, proposals, restarts>>

\* The reply to a connection that is gone.
Forget(m) ==
    /\ m.pc = "reply"
    /\ ~\E t \in RcThreads : rcTh[t].pc = "ack" /\ m \in Current(t)
    /\ rpc' = rpc \ {m}
    /\ UNCHANGED <<rcSetup, rcRing, rcEpoch, last_seen, peers_mu, rcTh, result, applied, proposals, restarts>>

-----------------------------------------------------------------------------
(* The rest of the node                                                    *)

\* ClusterNode::on_node_state_change on a node that is not a coordinator.
LocalEdit(n) ==
    /\ rcSetup.local_edits /\ n \in rcSetup.nodes \ Coordinators /\ proposals < rcSetup.proposals
    /\ \E m \in Members : \/ Edit(n, RingAdd(rcRing[n], m))
                          \/ Edit(n, RingRemove(rcRing[n], m))
    /\ proposals' = proposals + 1
    /\ UNCHANGED <<rcSetup, rcEpoch, last_seen, peers_mu, rcTh, rpc, result, applied, restarts>>

\* The process ends and starts again: nothing of the ring is persistent.  It takes longer than
\* a peer needs for the call it has in hand.
RcRestart(n) ==
    /\ \A m \in rpc : Home[m.from] # n
    /\ n \in Coordinators /\ restarts < rcSetup.restarts
    /\ Edit(n, Configured)
    /\ rcEpoch' = [rcEpoch EXCEPT ![n] = 0]
    /\ last_seen' = [last_seen EXCEPT ![n] = 0]
    /\ applied' = [applied EXCEPT ![n] = 0]
    /\ peers_mu' = [peers_mu EXCEPT ![n] = NoNode]
    /\ rcTh' = [t \in RcThreads |-> IF Home[t] = n THEN RcIdle ELSE rcTh[t]]
    /\ result' = [c \in Nodes |-> [epoch |-> 0, ok |-> FALSE]]
    /\ rpc' = {m \in rpc : m.to # n}
    /\ restarts' = restarts + 1
    /\ UNCHANGED <<rcSetup, proposals>>

RcThreadNext(t) ==
    \/ Advance(t) \/ TakeSnapshot(t) \/ LockPeers(t)
    \/ \E p \in Nodes : Send(t, p) \/ SendFails(t, p)
    \/ Ack(t) \/ AckFails(t) \/ Return(t)

WorkerNext == \E m \in rpc : Validate(m) \/ Apply(m) \/ Forget(m)

RcNext ==
    \/ \E t \in RcThreads : Propose(t) \/ RcThreadNext(t)
    \/ WorkerNext
    \/ \E n \in Nodes : LocalEdit(n) \/ RcRestart(n)

RcSpec == RcInit /\ [][RcNext]_rcVars
RcFairSpec == RcSpec /\ WF_rcVars(WorkerNext) /\ \A t \in RcThreads : WF_rcVars(RcThreadNext(t))

-----------------------------------------------------------------------------
RcTypeOK ==
    /\ rcSetup \in RcSetups
    /\ rcRing \in [Nodes -> Rings]
    /\ rcEpoch \in [Nodes -> Nat] /\ last_seen \in [Nodes -> Nat] /\ applied \in [Nodes -> Nat]
    /\ peers_mu \in [Nodes -> RcThreads \cup {NoNode}]
    /\ rcTh \in [RcThreads -> [pc : {"idle", "advance", "snapshot", "lock", "send", "ack"}, epoch : Nat,
                           snap : Rings, todo : SUBSET Nodes, peer : Nodes \cup {NoNode}, ok : BOOLEAN]]
    /\ rpc \subseteq [from : RcThreads, to : Nodes, epoch : Nat, snap : Rings,
                      pc : {"validate", "apply", "reply"}]
    /\ result \in [Nodes -> [epoch : Nat, ok : BOOLEAN]]
    /\ proposals \in 0..rcSetup.proposals /\ restarts \in 0..rcSetup.restarts

Quiet == rpc = {} /\ \A t \in RcThreads : rcTh[t].pc = "idle"

(* When no proposal is under way and each coordinator's broadcast with its *)
(* highest epoch returned true, every node has the same ring and pins:     *)
(* the epoch of a broadcast is taken before its snapshot, so the highest   *)
(* one carries every edit, and apply_update refuses the lower ones that    *)
(* are sent after it (ring_consensus.h, broadcast_ring and apply_update).  *)
(* It takes one coordinator that does not restart, connections that do not *)
(* break and rings that nobody else edits.                                 *)
RingsAgree ==
    /\ Cardinality(Coordinators) = 1 /\ rcSetup.restarts = 0
    /\ ~rcSetup.lost_acks /\ ~rcSetup.local_edits
    /\ Quiet /\ (\A c \in Coordinators : result[c].ok)
    => \A m, n \in rcSetup.nodes : rcRing[m] = rcRing[n]

\* At most one other node sends ring updates to n.
OneSender(n) == \A c, d \in Coordinators \ {n} : c = d

(* A ring is never rebuilt to a snapshot with a lower epoch than the one   *)
(* it was last rebuilt to, unless its node restarted (apply_update), a     *)
(* broken connection left an update behind with its worker thread, or two  *)
(* coordinators send to it: apply_update validates the epoch and rebuilds  *)
(* the ring in two steps, and nothing orders those of two worker threads.  *)
NoStaleApply ==
    [][~rcSetup.lost_acks =>
       \A n \in Nodes : OneSender(n) => applied'[n] >= applied[n] \/ restarts' # restarts]_rcVars

(* Every call of propose_add, propose_remove or propose_pin returns, also  *)
(* when two coordinators send to each other at the same time.              *)
Returned(t) == rcTh[t].pc = "idle"
ProposeReturns == \A t \in RcThreads : []<>Returned(t)
=============================================================================
