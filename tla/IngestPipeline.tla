--------------------------- MODULE IngestPipeline ---------------------------
(***************************************************************************)
(* ZeptoPipeline's ingestion path over the tick plant: ingest_tick with    *)
(* its direct-to-storage bypass, the drain threads, and stop().            *)
(*                                                                         *)
(* A drain thread is a consumer of the queue; so is the thread that calls  *)
(* stop(), once it reaches drain_sync.  What store_tick does inside the    *)
(* partition store is PartitionStore's business; here a stored row is the  *)
(* tick and whether it carries the stamps TickPlant::ingest assigns: the   *)
(* bypass stores ingest_tick's own copy of the message, and ingest stamped *)
(* another copy (it takes the message by value).                           *)
(***************************************************************************)
EXTENDS TickPlant

CONSTANTS Stopper,      \* the thread that calls stop(), one of Consumers
          DrainBatch,   \* PipelineConfig::drain_batch_size
          Setups        \* the deployments Init chooses from

ASSUME StopperAssumption == Stopper \in Consumers
ASSUME DrainBatchAssumption == DrainBatch \in Nat \ {0}

Drainers == Consumers \ {Stopper}

\* The threads that call ingest_tick, the drain threads start() makes
\* (PipelineConfig::drain_threads), and a bound on the ticks of a behaviour.
SetupType == [feeds : SUBSET Producers, drain_threads : SUBSET Drainers, ticks : 0..MaxTicks]

ASSUME SetupsAssumption ==
    /\ Setups \subseteq SetupType
    /\ \A s \in Setups : IsFiniteSet(s.feeds) /\ IsFiniteSet(s.drain_threads)

VARIABLES setup,            \* the deployment
          running,          \* running_
          batch,            \* ticks a drain thread took since it looked at running_
          stopping,         \* where stop() is
          stored,           \* rows in the order store_tick appended them
          ticks_ingested    \* PipelineStats::ticks_ingested

pipelineVars == <<setup, running, batch, stopping, stored, ticks_ingested>>
allVars == <<vars, pipelineVars>>

Row(t, stamped) == [tick |-> t, stamped |-> stamped]

\* start(): the drain threads are about to look at running_.
PipelineInit ==
    /\ Init
    /\ setup \in Setups
    /\ running = TRUE
    /\ batch = [d \in Drainers |-> DrainBatch]
    /\ stopping = "no"
    /\ stored = <<>>
    /\ ticks_ingested = 0

-----------------------------------------------------------------------------
(* ingest_tick                                                             *)

\* Callers quiesce the producers before stop() (pipeline.h:245), and the
\* tick plant steps leave the rest of the pipeline alone.
TickIngest(p) ==
    /\ \/ stopping = "no" /\ p \in setup.feeds /\ seq_counter < setup.ticks
       \/ pc[p] # "idle"
    /\ IngestStep(p)
    /\ UNCHANGED pipelineVars

\* tick_plant_.ingest returned true.
IngestQueued(p) ==
    /\ pc[p] = "queued"
    /\ ticks_ingested' = ticks_ingested + 1
    /\ item' = [item EXCEPT ![p] = NoTick]
    /\ Goto(p, "idle")
    /\ UNCHANGED <<seq_counter, queueVars, pos, history, setup, running, batch, stopping, stored>>

\* A bug: the full queue drops the tick.
BypassDrops(p) ==
    /\ pc[p] = "full"
    /\ ticks_ingested' = ticks_ingested + 1
    /\ item' = [item EXCEPT ![p] = NoTick]
    /\ Goto(p, "idle")
    /\ UNCHANGED <<seq_counter, queueVars, pos, history, setup, running, batch, stopping, stored>>

\* It returned false: store_tick(msg) on the caller's thread.
IngestBypass(p) ==
    /\ pc[p] = "full"
    /\ stored' = Append(stored, Row(item[p], FALSE))
    /\ ticks_ingested' = ticks_ingested + 1
    /\ item' = [item EXCEPT ![p] = NoTick]
    /\ Goto(p, "idle")
    /\ UNCHANGED <<seq_counter, queueVars, pos, history, setup, running, batch, stopping>>

-----------------------------------------------------------------------------
(* drain_loop: the outer while tests running_ once per batch.              *)

\* The inner for, up to drain_batch_size.
DrainBusy(d) == pc[d] # "idle" \/ batch[d] < DrainBatch

\* A bug: the loop does not test running_.
DrainOuterForever(d) ==
    /\ pc[d] = "idle"
    /\ batch[d] = DrainBatch
    /\ batch' = [batch EXCEPT ![d] = 0]
    /\ UNCHANGED <<vars, setup, running, stopping, stored, ticks_ingested>>

DrainOuter(d) ==
    /\ pc[d] = "idle"
    /\ batch[d] = DrainBatch
    /\ IF running
         THEN batch' = [batch EXCEPT ![d] = 0] /\ UNCHANGED pc
         ELSE Goto(d, "exited") /\ UNCHANGED batch
    /\ UNCHANGED <<seq_counter, queueVars, pos, item, history,
                   setup, running, stopping, stored, ticks_ingested>>

DrainConsume(d) ==
    /\ DrainBusy(d)
    /\ ConsumeStep(d)
    /\ UNCHANGED pipelineVars

DrainStore(d) ==
    /\ pc[d] = "popped"
    /\ stored' = Append(stored, Row(item[d], TRUE))
    /\ batch' = [batch EXCEPT ![d] = @ + 1]
    /\ item' = [item EXCEPT ![d] = NoTick]
    /\ Goto(d, "idle")
    /\ UNCHANGED <<seq_counter, queueVars, pos, history, setup, running, stopping, ticks_ingested>>

\* nullopt breaks out of the batch.
DrainBreak(d) ==
    /\ pc[d] = "empty"
    /\ batch' = [batch EXCEPT ![d] = DrainBatch]
    /\ Goto(d, "idle")
    /\ UNCHANGED <<seq_counter, queueVars, pos, item, history,
                   setup, running, stopping, stored, ticks_ingested>>

-----------------------------------------------------------------------------
(* stop()                                                                  *)

StopSignal ==
    /\ stopping = "no"
    /\ \A p \in Producers : pc[p] = "idle"
    /\ running' = FALSE
    /\ stopping' = "joining"
    /\ UNCHANGED <<vars, setup, batch, stored, ticks_ingested>>

\* t.join() for every drain thread.
StopJoined ==
    /\ stopping = "joining"
    /\ \A d \in setup.drain_threads : pc[d] = "exited"
    /\ stopping' = "draining"
    /\ UNCHANGED <<vars, setup, running, batch, stored, ticks_ingested>>

DrainSyncConsume ==
    /\ stopping = "draining"
    /\ ConsumeStep(Stopper)
    /\ UNCHANGED pipelineVars

DrainSyncStore ==
    /\ pc[Stopper] = "popped"
    /\ stored' = Append(stored, Row(item[Stopper], TRUE))
    /\ item' = [item EXCEPT ![Stopper] = NoTick]
    /\ Goto(Stopper, "idle")
    /\ UNCHANGED <<seq_counter, queueVars, pos, history, setup, running, batch, stopping, ticks_ingested>>

\* nullopt ends drain_sync, and stop() goes on to the final snapshot.
DrainSyncEnd ==
    /\ pc[Stopper] = "empty"
    /\ stopping' = "stopped"
    /\ Goto(Stopper, "idle")
    /\ UNCHANGED <<seq_counter, queueVars, pos, item, history,
                   setup, running, batch, stored, ticks_ingested>>

-----------------------------------------------------------------------------
ProducerPipelineNext(p) == TickIngest(p) \/ IngestQueued(p) \/ IngestBypass(p)

DrainNext(d) == DrainOuter(d) \/ DrainConsume(d) \/ DrainStore(d) \/ DrainBreak(d)

StopNext ==
    \/ StopSignal
    \/ StopJoined
    \/ DrainSyncConsume
    \/ DrainSyncStore
    \/ DrainSyncEnd

\* stop() has returned: nothing is left to run.
Terminated == stopping = "stopped" /\ UNCHANGED allVars

PipelineNext ==
    \/ \E p \in Producers : ProducerPipelineNext(p)
    \/ \E d \in setup.drain_threads : DrainNext(d)
    \/ StopNext
    \/ Terminated

PipelineSpec == PipelineInit /\ [][PipelineNext]_allVars

\* Every thread of the process keeps being scheduled; stop() need not be called.
FairPipelineSpec ==
    /\ PipelineSpec
    /\ \A p \in Producers : WF_allVars(pc[p] # "idle" /\ ProducerPipelineNext(p))
    /\ \A d \in Drainers : WF_allVars(d \in setup.drain_threads /\ DrainNext(d))
    /\ WF_allVars(StopJoined \/ DrainSyncConsume \/ DrainSyncStore \/ DrainSyncEnd)

-----------------------------------------------------------------------------
(* Properties                                                              *)

StoredTicks == {stored[i].tick : i \in DOMAIN stored}

PipelineTypeOK ==
    /\ setup \in Setups
    /\ running \in BOOLEAN
    /\ batch \in [Drainers -> 0..DrainBatch]
    /\ stopping \in {"no", "joining", "draining", "stopped"}
    /\ stored \in Seq([tick : Ticks, stamped : BOOLEAN])
    /\ ticks_ingested \in 0..MaxTicks

(* Each tick reaches store_tick at most once, over the queue or over the    *)
(* bypass of ingest_tick but never both.                                    *)
StoredOnce == \A i, j \in DOMAIN stored : stored[i].tick = stored[j].tick => i = j

(* Every tick ticks_ingested counts is stored, in a drain thread's hands or *)
(* still in the ring: the bypass of a full queue loses nothing.             *)
IngestedAccounted ==
    LET onTheWay == {item[c] : c \in {d \in Consumers : pc[d] \in {"clear", "popped"}}}
                    \cup {Slot(c).data : c \in {d \in Consumers : pc[d] \in {"advance", "read"}}}
    IN  ticks_ingested <= Cardinality(StoredTicks \cup onTheWay \cup ReadyTicks)

\* One thread feeds the pipeline, and start() made one drain thread.
OneToOne == Cardinality(setup.feeds) = 1 /\ Cardinality(setup.drain_threads) = 1

(* With one feed and one drain thread, and if no push has found the ring    *)
(* full, everything ingested is stored when stop() returns.                 *)
StopDrainsAll ==
    (OneToOne /\ stopping = "stopped" /\ rejected = {}) => StoredTicks = 0..(seq_counter - 1)

(* No tick is lost or stored twice on its way from ingest_tick to           *)
(* store_tick, and a stop() that found no full ring leaves none behind.     *)
PipelineAccounted == StoredOnce /\ IngestedAccounted /\ StopDrainsAll

(* tick_plant.h:7 promises a FIFO queue.  With one feed and one drain       *)
(* thread, and until a push finds the ring full, ticks come out in the      *)
(* order they went in, across the hand-over of the queue to drain_sync.     *)
FifoUntilFull ==
    (OneToOne /\ rejected = {}) =>
        /\ Len(delivered) <= Len(accepted)
        /\ delivered = SubSeq(accepted, 1, Len(delivered))

\* The threads of the deployment, each in its part of the pipeline's life.
PipelineRoles ==
    /\ \A p \in Producers : pc[p] # "idle" => p \in setup.feeds /\ stopping = "no"
    /\ \A c \in Consumers : pc[c] # "idle" => c \in setup.drain_threads \cup {Stopper}
    /\ \A d \in Drainers : pc[d] \notin {"idle", "exited"} => batch[d] < DrainBatch
    /\ pc[Stopper] # "idle" => stopping = "draining" /\ pc[Stopper] # "exited"
    /\ stopping \in {"draining", "stopped"} => \A d \in setup.drain_threads : pc[d] = "exited"
    /\ running <=> stopping = "no"

Returns(p) == pc[p] \in {"queued", "full"}

\* What is stored came out of the queue or was refused by it, and what did is
\* stored unless a thread still has it in hand.
StoredOrigin ==
    /\ StoredTicks \subseteq Range(delivered) \cup rejected
    /\ \A t \in Range(delivered) \ StoredTicks : \E c \in Consumers : Holding(c) /\ Held(c) = t
    /\ \A t \in rejected \ StoredTicks : \E p \in Producers : pc[p] = "full" /\ item[p] = t
    /\ \A c \in Consumers : Holding(c) => Held(c) \notin StoredTicks
    /\ \A p \in Producers : pc[p] = "full" => item[p] \in rejected \ StoredTicks

\* The ticks whose ingest_tick has returned.
Counted == {t \in Range(accepted) \cup rejected :
              \A p \in Producers : Returns(p) => item[p] # t}

\* They are the ones ticks_ingested counts, and every sequence number has an
\* outcome or a producer working on it.
IngestCounted ==
    /\ ticks_ingested = Cardinality(Counted)
    /\ \A p \in Producers : Returns(p) => item[p] \in Range(accepted) \cup rejected
    /\ \A p, q \in Producers : Returns(p) /\ Returns(q) /\ item[p] = item[q] => p = q
    /\ \A t \in 0..(seq_counter - 1) :
          \/ t \in Range(accepted) \cup rejected
          \/ \E p \in Producers : Undecided(p) /\ item[p] = t

Reserved(p) == pc[p] \in {"claim", "write", "publish"}

\* One feed and one reader at a time: the ring holds, in order, what was
\* accepted and not yet delivered, ...
RingHolds ==
    LET a == Len(accepted)
        d == Len(delivered)
    IN /\ d <= a /\ a - d <= Capacity
       /\ \A k \in 1..d : delivered[k] = accepted[k]
       /\ \A k \in (d + 1)..a : /\ slots[IdxOf(k - 1)].state = "READY"
                               /\ slots[IdxOf(k - 1)].data = accepted[k]
       /\ \A i \in Idx : slots[i].state = "READY" => \E k \in (d + 1)..a : i = IdxOf(k - 1)

\* ... write_pos_ is the number of ticks accepted, plus a reserved position, ...
WriterAt ==
    /\ \A p \in Producers : Reserved(p) => pos[p] = Len(accepted) /\ write_pos = Len(accepted) + 1
    /\ (\A p \in Producers : ~Reserved(p)) => write_pos = Len(accepted)

\* ... read_pos_ the number delivered, less a claim that has not advanced it, ...
ReaderAt ==
    /\ \A c \in Consumers : pc[c] = "check" => pos[c] = Len(delivered)
    /\ \A c \in Consumers : pc[c] = "advance" =>
          pos[c] = Len(delivered) - 1 /\ read_pos = Len(delivered) - 1
    /\ (\A c \in Consumers : pc[c] # "advance") => read_pos = Len(delivered)

\* ... and drain_sync ends when they are equal.
SyncDrained ==
    pc[Stopper] = "empty" \/ stopping = "stopped" => Len(accepted) = Len(delivered)

RingInOrder == RingHolds /\ WriterAt /\ ReaderAt /\ SyncDrained

(* The inductive invariant behind PipelineAccounted and FifoUntilFull:      *)
(* which threads may be inside ingest_tick, drain_loop and stop(), where    *)
(* each tick is, and how the ring lies between its two cursors.             *)
PipelineInv ==
    /\ QueueInv
    /\ PipelineTypeOK
    /\ PipelineRoles
    /\ StoredOnce
    /\ StoredOrigin
    /\ IngestCounted
    /\ OneToOne /\ rejected = {} => RingInOrder

(* The comment in try_pop (ring_buffer.h:79-82): checking the slot before   *)
(* advancing read_pos_ means a published slot is never permanently skipped. *)
(* With one feed and one drain thread, and as long as the ring is never     *)
(* full, every accepted tick is delivered.                                  *)
NeverSkipped ==
    (OneToOne /\ [](rejected = {})) =>
        \A t \in Ticks : (t \in Range(accepted)) ~> (t \in Range(delivered))

(* Once called, stop() returns: the drain threads see running_ and leave,   *)
(* and drain_sync ends.                                                     *)
StopReturns == (stopping # "no") ~> (stopping = "stopped")

(* The drain threads go on: no published tick is left behind, and stop()    *)
(* returns (drain_loop, drain_sync).                                        *)
PipelineProgress == NeverSkipped /\ StopReturns

(* Nothing is stored and no slot changes once stop() is past drain_sync and *)
(* writes the final snapshot: it joined the drain threads first.            *)
QuietAfterStop == [][stopping = "stopped" => UNCHANGED <<stored, slots>>]_allVars

-----------------------------------------------------------------------------
(* What the documentation says and the code does not do                    *)

(* pipeline.cpp:767 (a full queue takes the bypass, "slower but no data     *)
(* loss") and pipeline.h:242 (stop drains the queue): every ingested tick   *)
(* is stored when stop() returns.                                           *)
NoDataLoss == stopping = "stopped" => StoredTicks = 0..(seq_counter - 1)

(* tick_plant.h:52: ingestion assigns seq_num and recv_ts automatically, so *)
(* no row is stored without them.                                           *)
RowsStamped == \A i \in DOMAIN stored : stored[i].stamped
=============================================================================
