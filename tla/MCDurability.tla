---------------------------- MODULE MCDurability ----------------------------
(* Small instances of what keeps a row and the state that leads to it: the  *)
(* partitions in memory beside their flush thread, the snapshot a restart   *)
(* recovers from, the replicas of the write-ahead log and the ring that the *)
(* nodes agree on.  A behaviour is one of one part, the subject; the others *)
(* stay where they start.                                                   *)
EXTENDS PartitionStore, SnapshotStore, RingConsensus, WalReplicator, TLC

CONSTANTS w1, w2, p1, p2, n1, n2, n3, t1, t2, m1, m2

VARIABLE subject

-----------------------------------------------------------------------------
(* PartitionStore and SnapshotStore                                        *)

TwoWriters == {w1, w2}
TwoParts == {p1, p2}

\* Hourly sealing, the WARM tier and a TTL, rows in order.
FlushSetup == [tiered |-> TRUE, parquet |-> FALSE, limit |-> 0, ttl |-> 2, seal |-> 0,
               warm |-> 1, cold |-> 0, drop |-> 0, late |-> FALSE, sql |-> FALSE, rows |-> 3]
\* Late rows, Parquet beside the HDB, the COLD and DROP tiers and ALTER TABLE SET TTL.
LateSetup == [FlushSetup EXCEPT !.warm = 0, !.cold = 1, !.drop = 2, !.parquet = TRUE, !.late = TRUE,
                                 !.sql = TRUE, !.rows = 2]
\* Pure in-memory mode with room for one partition.
LimitSetup == [FlushSetup EXCEPT !.tiered = FALSE, !.limit = 1, !.ttl = 0, !.warm = 0, !.late = TRUE,
                                  !.rows = 4]

AllStoreSetups == {FlushSetup, LateSetup, LimitSetup}

-----------------------------------------------------------------------------
(* RingConsensus                                                           *)

TwoNodes == {n1, n2}
ThreeNodes == {n1, n2, n3}
TwoThreads == {t1, t2}
OneMember == {m1}
TwoMembers == {m1, m2}

\* One coordinator with two proposing threads and nothing wrong but failed connects.
OneCoordinator == [nodes |-> ThreeNodes, home |-> [t \in TwoThreads |-> n1], lost_acks |-> FALSE,
                   local_edits |-> FALSE, proposals |-> 3, restarts |-> 0]
\* Everything goes wrong.
Troubled == [OneCoordinator EXCEPT !.nodes = TwoNodes, !.proposals = 2, !.lost_acks = TRUE, !.local_edits = TRUE,
                                    !.restarts = 1]
\* Two coordinators that send to each other.
TwoCoordinators == [OneCoordinator EXCEPT !.nodes = TwoNodes, !.proposals = 2, !.home = t1 :> n1 @@ t2 :> n2,
                                           !.restarts = 1]

AllRingSetups == {OneCoordinator, Troubled, TwoCoordinators}

-----------------------------------------------------------------------------
(* WalReplicator                                                           *)

TwoProducers == {p1, p2}

\* Callers wait for room and for the flush; every replica has to acknowledge.
Waiting == [callers |-> {p1, p2}, quorum_w |-> 0, backpressure |-> TRUE, sync_mode |-> TRUE, timeouts |-> TRUE,
            faults |-> 2]
\* Nobody waits; one acknowledgement is a quorum.
Dropping == [callers |-> {p1, p2}, quorum_w |-> 1, backpressure |-> FALSE, sync_mode |-> FALSE, timeouts |-> FALSE,
             faults |-> 5]
\* One caller waits for as long as it takes.
Patient == [callers |-> {p1}, quorum_w |-> 0, backpressure |-> TRUE, sync_mode |-> TRUE,
            timeouts |-> FALSE, faults |-> 1]

AllReplConfigs == {Waiting, Dropping, Patient}

-----------------------------------------------------------------------------
allVars == <<stVars, vars, rcVars, wrVars, subject>>

MCInit ==
    /\ StInit /\ Init /\ RcInit /\ WrInit
    /\ subject \in {"store", "snapshot", "ring", "repl"}
    /\ subject = "store" \/ stSetup = FlushSetup
    /\ subject = "ring" \/ rcSetup = Troubled
    /\ subject = "repl" \/ config_ = Patient

MCNext ==
    /\ \/ subject = "store" /\ StNext /\ UNCHANGED <<vars, rcVars, wrVars>>
       \/ subject = "snapshot" /\ Next /\ UNCHANGED <<stVars, rcVars, wrVars>>
       \/ subject = "ring" /\ RcNext /\ UNCHANGED <<stVars, vars, wrVars>>
       \/ subject = "repl" /\ WrNext /\ UNCHANGED <<stVars, vars, rcVars>>
    /\ UNCHANGED subject

OfStore(A) == subject = "store" /\ A /\ UNCHANGED <<vars, rcVars, wrVars, subject>>
OfSnapshot(A) == subject = "snapshot" /\ A /\ UNCHANGED <<stVars, rcVars, wrVars, subject>>
OfRing(A) == subject = "ring" /\ A /\ UNCHANGED <<stVars, vars, wrVars, subject>>
OfRepl(A) == subject = "repl" /\ A /\ UNCHANGED <<stVars, vars, rcVars, subject>>

\* The fairness of the four specifications.  A behaviour has one subject, so one
\* condition can stand for an action of each.
MCFairSpec ==
    /\ MCInit /\ [][MCNext]_allVars
    /\ WF_allVars(OfStore(FlushNext) \/ OfSnapshot(Drain) \/ OfRing(WorkerNext) \/ OfRepl(SendNext))
    /\ WF_allVars(\/ OfSnapshot((phase = "stopping" \/ spc # "idle") /\ SnapshotNext)
                  \/ OfRing(RcThreadNext(t1)) \/ OfRepl(StopNext))
    /\ WF_allVars(OfRing(RcThreadNext(t2)) \/ OfRepl(Unblock(p1)))
    /\ WF_allVars(OfRepl(SyncReturn(p1)))
    /\ WF_allVars(OfRepl(Unblock(p2)))
    /\ WF_allVars(OfRepl(SyncReturn(p2)))
    /\ SF_allVars(OfStore(WriteHdb /\ fwrote'))

-----------------------------------------------------------------------------
(* What is asked for is done: a sealed partition reaches the disk or        *)
(* expires; stop() of the pipeline and of the replicator return; every call *)
(* of propose_add, propose_remove or propose_pin returns, also when two     *)
(* coordinators send to each other; an accepted tick reaches a replica or   *)
(* is counted as given up (flush_loop, ZeptoPipeline::stop, broadcast_ring, *)
(* send_loop).  Each condition holds of a part that is not the subject.     *)
DurabilityProgress ==
    \A t \in RcThreads : []<>(NoneSealed /\ phase # "stopping" /\ Returned(t) /\ Settled)
=============================================================================
