---------------------------- MODULE WalReplicator ----------------------------
(***************************************************************************)
(* Replication of ingested ticks to replica nodes: producers put ticks in  *)
(* a bounded queue, the send thread takes the whole queue as a batch and   *)
(* sends it to each replica in turn, failed batches wait in a bounded      *)
(* retry queue, and stop() flushes what is left in the queue.              *)
(*                                                                         *)
(* A timed wait of the send thread may end at any time; the timed waits of *)
(* a producer end early only where the configuration says so.  A send that *)
(* fails may or may not have reached the replica.                          *)
(***************************************************************************)
EXTENDS Naturals, Sequences, SequencesExt, FiniteSets

CONSTANTS Producers,
          NumReplicas,   \* replicas_.size()
          MaxTicks,      \* bound: the ticks are 1..MaxTicks, in the order they are enqueued
          QueueCapacity, RetryCapacity, MaxRetries,  \* ReplicatorConfig
          Configs        \* the other fields of ReplicatorConfig to study

ConfigType ==
    [callers : SUBSET Producers,
     quorum_w : Nat,     \* 0 for all replicas
     backpressure : BOOLEAN, sync_mode : BOOLEAN,
     timeouts : BOOLEAN, \* sync_timeout_ms and backpressure_timeout_ms may pass
     faults : Nat]       \* bound: calls of replicate_wal that fail

ASSUME ReplicatorAssumption ==
    /\ {NumReplicas, MaxTicks, QueueCapacity, RetryCapacity, MaxRetries} \subseteq Nat /\ IsFiniteSet(Producers)
    /\ \A c \in Configs : c \in ConfigType

VARIABLES config_,
          running,
          queue_,       \* queue_
          retry,       \* retry_queue_: records of a batch and its attempts
          flush,       \* flush_batch in progress: batch, next replica, acks, failures
          pending,     \* process_retry_queue: entries taken from retry_queue_
          failed,      \* process_retry_queue: still_failed
          wspc,         \* the send thread
          stop,        \* the thread that calls stop()
          flush_epoch,
          prod,        \* producer -> its call of enqueue
          next,        \* the next tick
          log,         \* ticks in the order in which enqueue put them in the queue
          returned,    \* ticks whose enqueue returned true
          exhausted,   \* ticks given up and counted in retry_exhausted
          acked,       \* ticks of batches counted in sync_acked
          stored,      \* replica -> ticks it stored, in order
          faults

prodVars == <<prod, next, log, returned>>
sendVars == <<flush, pending, failed, wspc>>
wrVars == <<config_, running, queue_, retry, sendVars, stop, flush_epoch, prodVars, exhausted, acked, stored, faults>>

Ticks == 1..MaxTicks
Replicas == 1..NumReplicas  \* in the order they are tried
NoFlush == [batch |-> <<>>, i |-> 1, acks |-> 0, bad |-> FALSE]
IdleProducer == [pc |-> "idle", tick |-> 0, before |-> 0]
Required == IF config_.quorum_w > 0 THEN config_.quorum_w ELSE NumReplicas

WrInit ==
    /\ config_ \in Configs
    /\ running = TRUE /\ queue_ = <<>> /\ retry = <<>>
    /\ flush = NoFlush /\ pending = <<>> /\ failed = <<>>
    /\ wspc = "wait" /\ stop = "no" /\ flush_epoch = 0
    /\ prod = [p \in Producers |-> IdleProducer]
    /\ next = 1 /\ log = <<>> /\ returned = {} /\ exhausted = {} /\ acked = {}
    /\ stored = [r \in Replicas |-> <<>>]
    /\ faults = 0

-----------------------------------------------------------------------------
(* enqueue                                                                 *)

\* The queue has room: the tick is queued and, in sync mode, its flush awaited.
Push(p, t) ==
    /\ queue_' = Append(queue_, t)
    /\ log' = Append(log, t)
    /\ IF config_.sync_mode
       THEN /\ prod' = [prod EXCEPT ![p] = [pc |-> "sync", tick |-> t, before |-> flush_epoch]]
            /\ UNCHANGED returned
       ELSE /\ prod' = [prod EXCEPT ![p] = IdleProducer]
            /\ returned' = returned \cup {t}

Enqueue(p) ==
    /\ p \in config_.callers /\ prod[p].pc = "idle" /\ next <= MaxTicks
    /\ next' = next + 1
    /\ \/ Len(queue_) < QueueCapacity /\ Push(p, next)
       \/ Len(queue_) >= QueueCapacity /\ config_.backpressure
          /\ prod' = [prod EXCEPT ![p] = [pc |-> "blocked", tick |-> next, before |-> 0]]
          /\ UNCHANGED <<queue_, log, returned>>
       \/ Len(queue_) >= QueueCapacity /\ ~config_.backpressure
          /\ UNCHANGED <<queue_, prod, log, returned>>
    /\ UNCHANGED <<config_, running, retry, sendVars, stop, flush_epoch, exhausted, acked, stored, faults>>

\* The wait for room ends: room, stop() or the timeout.
Unblock(p) ==
    /\ prod[p].pc = "blocked"
    /\ \/ Len(queue_) < QueueCapacity /\ running /\ Push(p, prod[p].tick)
       \/ (~running \/ (config_.timeouts /\ Len(queue_) >= QueueCapacity))
          /\ prod' = [prod EXCEPT ![p] = IdleProducer]
          /\ UNCHANGED <<queue_, log, returned>>
    /\ UNCHANGED <<config_, running, retry, sendVars, stop, flush_epoch, next, exhausted, acked, stored, faults>>

\* enqueue returns true, whether the wait ended with a flush or with the timeout.
SyncReturn(p) ==
    /\ prod[p].pc = "sync"
    /\ flush_epoch > prod[p].before \/ config_.timeouts
    /\ returned' = returned \cup {prod[p].tick}
    /\ prod' = [prod EXCEPT ![p] = IdleProducer]
    /\ UNCHANGED <<config_, running, queue_, retry, sendVars, stop, flush_epoch, next, log, exhausted,
                   acked, stored, faults>>

-----------------------------------------------------------------------------
(* replicate_wal                                                           *)

\* ok: stored and acknowledged.  A failed call may have stored the batch.
Replicate(r, b, ok) ==
    \/ /\ ok /\ stored' = [stored EXCEPT ![r] = @ \o b] /\ UNCHANGED faults
    \/ /\ ~ok /\ faults < config_.faults /\ faults' = faults + 1
       /\ stored' \in {stored, [stored EXCEPT ![r] = @ \o b]}

-----------------------------------------------------------------------------
(* flush_batch, called by the send thread and by stop()                    *)

FlushStep ==
    /\ flush.i \in Replicas
    /\ \E ok \in BOOLEAN :
          /\ Replicate(flush.i, flush.batch, ok)
          /\ flush' = [flush EXCEPT !.i = @ + 1, !.acks = IF ok THEN @ + 1 ELSE @, !.bad = @ \/ ~ok]
    /\ UNCHANGED <<retry, flush_epoch, exhausted, acked>>

\* A bug: a batch that finds the retry queue full is dropped and not counted.
FlushEndSilent ==
    /\ flush.i \notin Replicas
    /\ acked' = IF flush.acks >= Required THEN acked \cup Range(flush.batch) ELSE acked
    /\ retry' = IF flush.bad /\ MaxRetries > 0 /\ Len(retry) < RetryCapacity
                THEN Append(retry, [batch |-> flush.batch, attempts |-> 0]) ELSE retry
    /\ flush_epoch' = flush_epoch + 1
    /\ flush' = NoFlush
    /\ UNCHANGED <<stored, faults, exhausted>>

FlushEnd ==
    /\ flush.i \notin Replicas
    /\ acked' = IF flush.acks >= Required THEN acked \cup Range(flush.batch) ELSE acked
    /\ retry' = IF flush.bad /\ MaxRetries > 0 /\ Len(retry) < RetryCapacity
                THEN Append(retry, [batch |-> flush.batch, attempts |-> 0]) ELSE retry
    /\ exhausted' = IF flush.bad /\ MaxRetries > 0 /\ Len(retry) >= RetryCapacity
                    THEN exhausted \cup Range(flush.batch) ELSE exhausted
    /\ flush_epoch' = flush_epoch + 1
    /\ flush' = NoFlush
    /\ UNCHANGED <<stored, faults>>

-----------------------------------------------------------------------------
(* send_loop                                                               *)

\* A bug: a batch is sent only once the queue is full.
TakeFullBatch ==
    /\ wspc = "wait"
    /\ Len(queue_) >= QueueCapacity \/ retry # <<>>
    /\ flush' = [NoFlush EXCEPT !.batch = queue_]
    /\ queue_' = <<>>
    /\ wspc' = IF queue_ = <<>> THEN "retry" ELSE "flush"
    /\ UNCHANGED <<config_, running, retry, pending, failed, stop, flush_epoch, prodVars, exhausted, acked,
                   stored, faults>>

\* running_ is tested at the head of the loop only: a batch is taken also after stop() cleared it.
TakeBatch ==
    /\ wspc = "wait"
    /\ queue_ # <<>> \/ retry # <<>>
    /\ flush' = [NoFlush EXCEPT !.batch = queue_]
    /\ queue_' = <<>>
    /\ wspc' = IF queue_ = <<>> THEN "retry" ELSE "flush"
    /\ UNCHANGED <<config_, running, retry, pending, failed, stop, flush_epoch, prodVars, exhausted, acked,
                   stored, faults>>

SendFlush ==
    /\ wspc = "flush"
    /\ \/ FlushStep /\ UNCHANGED wspc
       \/ FlushEnd /\ wspc' = "retry"
    /\ UNCHANGED <<config_, running, queue_, pending, failed, stop, prodVars>>

RetryTake ==
    /\ wspc = "retry"
    /\ pending' = retry /\ retry' = <<>> /\ failed' = <<>>
    /\ wspc' = "retrying"
    /\ UNCHANGED <<config_, running, queue_, flush, stop, flush_epoch, prodVars, exhausted, acked, stored, faults>>

\* One attempt of the first entry: replicas are tried in turn until one accepts.
RetryOne ==
    /\ wspc = "retrying" /\ pending # <<>>
    /\ LET e == Head(pending) IN
       \/ /\ flush.i \in Replicas
          /\ Replicate(flush.i, e.batch, TRUE)
          /\ flush' = NoFlush /\ pending' = Tail(pending)
          /\ UNCHANGED <<failed, exhausted>>
       \/ /\ flush.i \in Replicas
          /\ Replicate(flush.i, e.batch, FALSE)
          /\ flush' = [flush EXCEPT !.i = @ + 1]
          /\ UNCHANGED <<pending, failed, exhausted>>
       \/ /\ flush.i \notin Replicas
          /\ flush' = NoFlush /\ pending' = Tail(pending)
          /\ IF e.attempts + 1 < MaxRetries
             THEN failed' = Append(failed, [e EXCEPT !.attempts = @ + 1]) /\ UNCHANGED exhausted
             ELSE exhausted' = exhausted \cup Range(e.batch) /\ UNCHANGED failed
          /\ UNCHANGED <<stored, faults>>
    /\ UNCHANGED <<config_, running, queue_, retry, wspc, stop, flush_epoch, prodVars, acked>>

\* What does not fit is dropped; the send thread alone fills the retry queue, so all fits.
\* Then comes the head of the loop.
RetryEnd ==
    /\ wspc = "retrying" /\ pending = <<>>
    /\ retry' = SubSeq(retry \o failed, 1, IF Len(retry \o failed) > RetryCapacity
                                           THEN RetryCapacity ELSE Len(retry \o failed))
    /\ failed' = <<>> /\ wspc' = IF running THEN "wait" ELSE "exit"
    /\ UNCHANGED <<config_, running, queue_, flush, pending, stop, flush_epoch, prodVars, exhausted, acked,
                   stored, faults>>

\* The head of the loop before the first wait, or after one with nothing to send.
SendExit ==
    /\ wspc = "wait" /\ ~running
    /\ wspc' = "exit"
    /\ UNCHANGED <<config_, running, queue_, retry, flush, pending, failed, stop, flush_epoch, prodVars,
                   exhausted, acked, stored, faults>>

-----------------------------------------------------------------------------
(* stop                                                                    *)

StopBegin ==
    /\ stop = "no"
    /\ running' = FALSE /\ stop' = "join"
    /\ UNCHANGED <<config_, queue_, retry, sendVars, flush_epoch, prodVars, exhausted, acked, stored, faults>>

StopJoin ==
    /\ stop = "join" /\ wspc = "exit"
    /\ flush' = [NoFlush EXCEPT !.batch = queue_]
    /\ queue_' = <<>>
    /\ stop' = IF queue_ = <<>> THEN "done" ELSE "flush"
    /\ UNCHANGED <<config_, running, retry, pending, failed, wspc, flush_epoch, prodVars, exhausted, acked,
                   stored, faults>>

StopFlush ==
    /\ stop = "flush"
    /\ \/ FlushStep /\ UNCHANGED stop
       \/ FlushEnd /\ stop' = "done"
    /\ UNCHANGED <<config_, running, queue_, pending, failed, wspc, prodVars>>

SendNext == TakeBatch \/ SendFlush \/ RetryTake \/ RetryOne \/ RetryEnd \/ SendExit
StopNext == StopJoin \/ StopFlush
WrNext ==
    \/ \E p \in Producers : Enqueue(p) \/ Unblock(p) \/ SyncReturn(p)
    \/ SendNext \/ StopBegin \/ StopNext

WrSpec == WrInit /\ [][WrNext]_wrVars
WrFairSpec ==
    /\ WrSpec /\ WF_wrVars(SendNext) /\ WF_wrVars(StopNext)
    /\ \A p \in Producers : WF_wrVars(Unblock(p)) /\ WF_wrVars(SyncReturn(p))

-----------------------------------------------------------------------------
accepted == Range(log)
Batches == {Range(retry[i].batch) : i \in DOMAIN retry}
           \cup {Range(pending[i].batch) : i \in DOMAIN pending}
           \cup {Range(failed[i].batch) : i \in DOMAIN failed}

\* Ticks in the replicator's hands, and ticks some replica stored.
InHand == Range(queue_) \cup Range(flush.batch) \cup UNION Batches
Somewhere == UNION {Range(stored[r]) : r \in Replicas}

WrTypeOK ==
    /\ config_ \in Configs /\ running \in BOOLEAN
    /\ queue_ \in Seq(Ticks) /\ Len(queue_) <= QueueCapacity
    /\ Len(retry) <= RetryCapacity
    /\ \A i \in DOMAIN retry : retry[i].batch \in Seq(Ticks) /\ retry[i].attempts \in 0..MaxRetries
    /\ flush.i \in 1..(NumReplicas + 1)
    /\ wspc \in {"wait", "flush", "retry", "retrying", "exit"}
    /\ stop \in {"no", "join", "flush", "done"}
    /\ log \in Seq(Ticks) /\ returned \subseteq Ticks
    /\ stored \in [Replicas -> Seq(Ticks)]

(* An accepted tick is in the queue, in a batch being sent, waiting for a  *)
(* retry, on some replica, or counted in retry_exhausted: however sends    *)
(* fail and whatever is full, none disappears without a trace (flush_batch,*)
(* process_retry_queue).  With max_retries = 0 a failed batch is dropped   *)
(* uncounted, and without replicas every batch is.                         *)
Accounted == MaxRetries > 0 /\ NumReplicas > 0 => accepted \subseteq InHand \cup Somewhere \cup exhausted

OnQuorum(t) == Cardinality({r \in Replicas : t \in Range(stored[r])}) >= Required

(* The ticks of a batch counted in sync_acked are on at least quorum_w     *)
(* replicas, or on all with quorum_w = 0 (flush_batch).                    *)
AckedOnQuorum == \A t \in acked : OnQuorum(t)

(* As long as no send fails, each replica stores the ticks once and in the *)
(* order in which they were enqueued (send_loop takes the whole queue).    *)
OrderWithoutFaults == faults = 0 => \A r \in Replicas : IsPrefix(stored[r], log)

(* In sync mode, a single caller whose wait does not time out has its tick *)
(* on the required replicas when enqueue returns true, unless a send       *)
(* failed: the flush that ends its wait is the flush of its own tick, also *)
(* when it is the one of stop() (enqueue, flush_epoch_).  A quorum_w above *)
(* the number of replicas is not met, and enqueue returns true all the same.*)
SyncAlone ==
    /\ config_.sync_mode /\ ~config_.timeouts /\ config_.quorum_w <= NumReplicas
    /\ Cardinality(config_.callers) = 1 /\ faults = 0
    => \A t \in returned : OnQuorum(t)

(* What the replicator may say of a tick: it is somewhere or counted, what *)
(* it counts as acknowledged is on the quorum, and so is what a lone       *)
(* caller waited for (enqueue, flush_batch, process_retry_queue).          *)
ReplicationAccounted == Accounted /\ AckedOnQuorum /\ SyncAlone

(* An accepted tick reaches a replica or is counted as given up, unless    *)
(* stop() is called, and stop() returns (send_loop with its timed wait,    *)
(* which sees running_).                                                   *)
Settled ==
    /\ stop \in {"no", "done"}
    /\ stop = "no" => accepted \subseteq Somewhere \cup exhausted
ReplicationEnds == []<>Settled

-----------------------------------------------------------------------------
(* What the documentation says and the code does not do                    *)

(* When stop() has returned, nothing is left in the queue (stop).          *)
StopLeavesNothing == stop = "done" => queue_ = <<>>

(* In sync mode, when enqueue has returned true the tick is on the         *)
(* replicas that flush_batch requires (enqueue, sync_mode).                *)
SyncMeansReplicated == config_.sync_mode => \A t \in returned : OnQuorum(t)

(* When nothing is in hand and no batch was given up, every accepted tick  *)
(* is on every replica: a batch that failed on one replica is sent to it   *)
(* again (flush_batch, process_retry_queue).                               *)
RetryRepairs == InHand = {} /\ exhausted = {} => \A r \in Replicas : accepted \subseteq Range(stored[r])
=============================================================================
