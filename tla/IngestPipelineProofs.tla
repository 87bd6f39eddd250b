------------------------ MODULE IngestPipelineProofs ------------------------
(***************************************************************************)
(* The ingestion path of ZeptoPipeline for any number of feeds, drain      *)
(* threads and ticks, and any ring and batch size: what ingest_tick        *)
(* accepts is stored once, the ring is FIFO for one feed and one drain     *)
(* thread until it is full, and stop() leaves it quiet.                    *)
(***************************************************************************)
EXTENDS IngestPipeline, TickPlantProofs

USE SMTT(20), ZenonT(20)

-----------------------------------------------------------------------------
(* The pipeline over the queue                                             *)

(* Between two calls of consume a thread goes round its loop or leaves it; *)
(* the queue does not notice (drain_loop, drain_sync).                     *)
LEMMA ThreadMovesOn ==
    ASSUME QueueInv, NEW c \in Consumers, pc[c] \in {"idle", "empty"},
           NEW l \in {"idle", "exited"}, Goto(c, l),
           UNCHANGED <<seq_counter, queueVars, pos, item, history>>
    PROVE  QueueInv'
<1> USE DEF QueueInv, Goto, queueVars, history
<1>1. TypeOK'
  BY DEF TypeOK, Threads, ProducerPC, ConsumerPC
<1>2. ThreadRoles'
  BY ThreadsAssumption DEF TypeOK, ThreadRoles, ProducerPC, ConsumerPC, Threads
<1>3. SlotExclusion'
  BY ThreadsAssumption DEF TypeOK, SlotExclusion, WritersOf, ReadersOf, Threads
<1>4. FreshTicks'
  BY ThreadsAssumption DEF TypeOK, FreshTicks, Undecided, Threads
<1>5. WrittenPayload'
  BY ThreadsAssumption DEF TypeOK, WrittenPayload, Slot, Threads
<1>6. HeldTicks'
  BY ThreadsAssumption DEF TypeOK, HeldTicks, Holding, Held, Slot, Threads
<1>7. Conservation'
  BY DEF Conservation, ReadyTicks
<1> QED BY <1>1, <1>2, <1>3, <1>4, <1>5, <1>6, <1>7

(* store_tick on a tick that came out of the queue.                        *)
StoreStep(c) ==
    /\ pc[c] = "popped"
    /\ stored' = Append(stored, Row(item[c], TRUE))
    /\ item' = [item EXCEPT ![c] = NoTick]
    /\ Goto(c, "idle")
    /\ UNCHANGED <<seq_counter, queueVars, pos, history, setup, running, stopping, ticks_ingested>>

(* A thread that calls consume while it is its turn.                       *)
Turn(c) == c \in setup.drain_threads \/ (c = Stopper /\ stopping = "draining")

(* A thread that leaves a call of consume without a tick.                  *)
MoveStep(c) ==
    /\ pc[c] \in {"idle", "empty"}
    /\ Goto(c, "idle") \/ Goto(c, "exited")
    /\ UNCHANGED <<seq_counter, queueVars, pos, item, history, stored, setup, ticks_ingested>>

(* stop() moves on, or a drain thread starts a batch; no thread is inside  *)
(* a call.                                                                 *)
PhaseStep == UNCHANGED <<vars, setup, stored, ticks_ingested>>

(* Each step of the pipeline is a step of ingest or consume, a store, or a  *)
(* step that leaves queue and store alone.                                  *)
LEMMA PipelineSteps ==
    ASSUME PipelineInv, PipelineNext
    PROVE  \/ \E p \in Producers : \/ IngestStep(p) /\ UNCHANGED pipelineVars
                                   \/ IngestQueued(p) \/ IngestBypass(p)
           \/ \E c \in Consumers : /\ Turn(c)
                                   /\ \/ ConsumeStep(c) /\ UNCHANGED pipelineVars
                                      \/ StoreStep(c) \/ MoveStep(c)
           \/ PhaseStep
<1>1. setup.drain_threads \subseteq Consumers /\ Stopper \in Consumers
  BY StopperAssumption, SetupsAssumption DEF PipelineInv, PipelineTypeOK, SetupType, Drainers
<1>2. pc[Stopper] # "idle" => stopping = "draining"
  BY DEF PipelineInv, PipelineRoles
<1>3. ASSUME NEW p \in Producers, ProducerPipelineNext(p)
      PROVE  (IngestStep(p) /\ UNCHANGED pipelineVars) \/ IngestQueued(p) \/ IngestBypass(p)
  BY <1>3 DEF ProducerPipelineNext, TickIngest
<1>4. ASSUME NEW d \in setup.drain_threads, DrainNext(d)
      PROVE  \/ ConsumeStep(d) /\ UNCHANGED pipelineVars
             \/ StoreStep(d) \/ MoveStep(d) \/ PhaseStep
  <2>1. CASE DrainOuter(d)
    BY <2>1 DEF DrainOuter, MoveStep, PhaseStep, vars
  <2>2. CASE DrainConsume(d)
    BY <2>2 DEF DrainConsume
  <2>3. CASE DrainStore(d)
    BY <2>3 DEF DrainStore, StoreStep
  <2>4. CASE DrainBreak(d)
    BY <2>4 DEF DrainBreak, MoveStep
  <2> QED BY <1>4, <2>1, <2>2, <2>3, <2>4 DEF DrainNext
<1>5. ASSUME StopNext
      PROVE  \/ /\ stopping = "draining"
                /\ \/ ConsumeStep(Stopper) /\ UNCHANGED pipelineVars
                   \/ StoreStep(Stopper) \/ MoveStep(Stopper)
             \/ PhaseStep
  <2>1. CASE StopSignal \/ StopJoined
    BY <2>1 DEF StopSignal, StopJoined, PhaseStep
  <2>2. CASE DrainSyncConsume
    BY <2>2 DEF DrainSyncConsume
  <2>3. CASE DrainSyncStore
    BY <1>2, <2>3 DEF DrainSyncStore, StoreStep
  <2>4. CASE DrainSyncEnd
    BY <1>2, <2>4 DEF DrainSyncEnd, MoveStep
  <2> QED BY <1>5, <2>1, <2>2, <2>3, <2>4 DEF StopNext
<1>6. Terminated => PhaseStep
  BY DEF Terminated, allVars, pipelineVars, PhaseStep
<1> QED BY <1>1, <1>3, <1>4, <1>5, <1>6 DEF PipelineNext, Turn

(* The pipeline keeps the invariant of the queue.                           *)
LEMMA PipelineKeepsQueue ==
    ASSUME PipelineInv, [PipelineNext]_allVars
    PROVE  QueueInv'
<1>1. QueueInv
  BY DEF PipelineInv
<1>2. CASE UNCHANGED allVars
  BY <1>1, <1>2, NextQueueInv DEF allVars
<1>3. CASE PhaseStep
  BY <1>1, <1>3, NextQueueInv DEF PhaseStep
<1>4. ASSUME NEW p \in Producers, IngestStep(p) \/ IngestQueued(p) \/ IngestBypass(p)
      PROVE  QueueInv'
  <2>1. IngestQueued(p) \/ IngestBypass(p) => IngestReturn(p)
    BY Zenon DEF IngestQueued, IngestBypass, IngestReturn
  <2>2. ProducerNext(p)
    BY <1>4, <2>1 DEF ProducerNext
  <2>3. Next
    BY <2>2 DEF Next
  <2> QED BY <1>1, <2>3, NextQueueInv
<1>5. ASSUME NEW c \in Consumers, ConsumeStep(c) \/ StoreStep(c) PROVE QueueInv'
  <2>1. StoreStep(c) => ConsumeReturn(c)
    BY DEF StoreStep, ConsumeReturn
  <2>2. ConsumerNext(c)
    BY <1>5, <2>1 DEF ConsumerNext
  <2>3. Next
    BY <2>2 DEF Next
  <2> QED BY <1>1, <2>3, NextQueueInv
<1>6. ASSUME NEW c \in Consumers, MoveStep(c) PROVE QueueInv'
  BY <1>1, <1>6, ThreadMovesOn DEF MoveStep
<1> QED BY <1>2, <1>3, <1>4, <1>5, <1>6, PipelineSteps

(* A tick in a consumer's hands, or on its way round the full queue, is one *)
(* that went through ingest.                                                *)
LEMMA InHandTicks ==
    ASSUME PipelineInv
    PROVE  /\ \A c \in Consumers : Holding(c) => Held(c) \in Ticks
           /\ \A p \in Producers : pc[p] = "full" => item[p] \in Ticks
<1>1. Range(delivered) \subseteq Ticks /\ rejected \subseteq Ticks
  BY RangeType DEF PipelineInv, QueueInv, TypeOK
<1> QED BY <1>1 DEF PipelineInv, QueueInv, HeldTicks, StoredOrigin

(* store_tick appends one row, of a tick not stored before if it was in     *)
(* nobody else's hands.                                                     *)
LEMMA StoredGrows ==
    ASSUME PipelineTypeOK, NEW t \in Ticks, NEW b \in BOOLEAN, stored' = Append(stored, Row(t, b))
    PROVE  /\ stored' \in Seq([tick : Ticks, stamped : BOOLEAN])
           /\ StoredTicks' = StoredTicks \cup {t}
           /\ StoredOnce /\ t \notin StoredTicks => StoredOnce'
<1> DEFINE R == [tick : Ticks, stamped : BOOLEAN]
           r == Row(t, b)
<1>1. r \in R /\ r.tick = t
  BY DEF Row
<1>2. stored \in Seq(R)
  BY DEF PipelineTypeOK
<1> HIDE DEF R, r
<1>3. /\ stored' \in Seq(R)
      /\ DOMAIN stored = 1..Len(stored) /\ Len(stored) \in Nat
      /\ DOMAIN stored' = 1..(Len(stored) + 1)
      /\ stored'[Len(stored) + 1] = r
      /\ \A i \in 1..Len(stored) : stored'[i] = stored[i]
  BY <1>1, <1>2 DEF r
<1>4. ASSUME NEW x PROVE x \in StoredTicks' <=> x \in StoredTicks \cup {t}
  <2>1. x \in StoredTicks' <=> \E i \in 1..(Len(stored) + 1) : x = stored'[i].tick
    BY <1>3 DEF StoredTicks
  <2>2. x \in StoredTicks <=> \E i \in 1..Len(stored) : x = stored[i].tick
    BY <1>3 DEF StoredTicks
  <2> QED BY <1>1, <1>3, <2>1, <2>2
<1>5. StoredTicks' = StoredTicks \cup {t}
  BY <1>4
<1>6. ASSUME StoredOnce, t \notin StoredTicks PROVE StoredOnce'
  <2>1. \A i \in 1..Len(stored) : stored[i].tick # t
    BY <1>3, <1>6 DEF StoredTicks
  <2> QED BY <1>1, <1>3, <1>6, <2>1 DEF StoredOnce
<1> QED BY <1>3, <1>5, <1>6 DEF R

(* The deployment does not change, rows are ticks, and stop() goes through  *)
(* its stages; ticks_ingested is dealt with below.                          *)
LEMMA PipelineKeepsTypes ==
    ASSUME PipelineInv, [PipelineNext]_allVars
    PROVE  /\ setup' = setup
           /\ running' \in BOOLEAN
           /\ batch' \in [Drainers -> 0..DrainBatch]
           /\ stopping' \in {"no", "joining", "draining", "stopped"}
           /\ stored' \in Seq([tick : Ticks, stamped : BOOLEAN])
<1> DEFINE Goal == /\ setup' = setup
                   /\ running' \in BOOLEAN
                   /\ batch' \in [Drainers -> 0..DrainBatch]
                   /\ stopping' \in {"no", "joining", "draining", "stopped"}
                   /\ stored' \in Seq([tick : Ticks, stamped : BOOLEAN])
<1>1. /\ running \in BOOLEAN
      /\ batch \in [Drainers -> 0..DrainBatch]
      /\ stopping \in {"no", "joining", "draining", "stopped"}
      /\ stored \in Seq([tick : Ticks, stamped : BOOLEAN])
      /\ setup.drain_threads \subseteq Drainers /\ Drainers \subseteq Consumers
  BY SetupsAssumption DEF PipelineInv, PipelineTypeOK, SetupType, Drainers
<1>2. CASE UNCHANGED pipelineVars
  BY <1>1, <1>2 DEF pipelineVars
<1>3. ASSUME NEW p \in Producers, ProducerPipelineNext(p) PROVE Goal
  <2>1. CASE TickIngest(p) \/ IngestQueued(p)
    BY <1>1, <2>1 DEF TickIngest, IngestQueued, pipelineVars
  <2>2. CASE IngestBypass(p)
    <3>1. item[p] \in Ticks
      BY <2>2, InHandTicks DEF IngestBypass
    <3>2. stored' \in Seq([tick : Ticks, stamped : BOOLEAN])
      BY <2>2, <3>1, StoredGrows, Zenon DEF IngestBypass, PipelineInv
    <3> QED BY <1>1, <2>2, <3>2, Zenon DEF IngestBypass
  <2> QED BY <1>3, <2>1, <2>2 DEF ProducerPipelineNext
<1>4. ASSUME NEW c \in Consumers, pc[c] = "popped", stored' = Append(stored, Row(item[c], TRUE))
      PROVE  stored' \in Seq([tick : Ticks, stamped : BOOLEAN])
  <2>1. item[c] \in Ticks
    BY <1>4, InHandTicks DEF Holding, Held
  <2> QED BY <1>4, <2>1, StoredGrows, Zenon DEF PipelineInv
<1>5. ASSUME NEW d \in setup.drain_threads, DrainNext(d) PROVE Goal
  <2>1. CASE DrainOuter(d) \/ DrainConsume(d) \/ DrainBreak(d)
    BY <1>1, <2>1, DrainBatchAssumption DEF DrainOuter, DrainConsume, DrainBreak, pipelineVars
  <2>2. CASE DrainStore(d)
    <3>1. batch[d] < DrainBatch /\ d \in Drainers /\ d \in Consumers
      BY <1>1, <2>2 DEF DrainStore, PipelineInv, PipelineRoles
    <3>2. batch' \in [Drainers -> 0..DrainBatch]
      BY <1>1, <2>2, <3>1, DrainBatchAssumption DEF DrainStore
    <3>3. stored' \in Seq([tick : Ticks, stamped : BOOLEAN])
      BY <1>4, <2>2, <3>1, Zenon DEF DrainStore
    <3> QED BY <1>1, <2>2, <3>2, <3>3, Zenon DEF DrainStore
  <2> QED BY <1>5, <2>1, <2>2 DEF DrainNext
<1>6. ASSUME StopNext PROVE Goal
  <2>1. CASE StopSignal \/ StopJoined \/ DrainSyncConsume \/ DrainSyncEnd
    BY <1>1, <2>1, Zenon DEF StopSignal, StopJoined, DrainSyncConsume, DrainSyncEnd, pipelineVars
  <2>2. CASE DrainSyncStore
    <3>1. stored' \in Seq([tick : Ticks, stamped : BOOLEAN])
      BY <1>4, <2>2, StopperAssumption, Zenon DEF DrainSyncStore
    <3> QED BY <1>1, <2>2, <3>1, Zenon DEF DrainSyncStore
  <2> QED BY <1>6, <2>1, <2>2 DEF StopNext
<1> QED BY <1>2, <1>3, <1>5, <1>6, Zenon DEF PipelineNext, Terminated, allVars

(* A step of ingest is its producer's alone, and so is one of consume its   *)
(* consumer's.                                                              *)
LEMMA OthersStay ==
    ASSUME TypeOK
    PROVE  /\ \A p \in Producers : IngestStep(p) =>
                /\ \A t \in Threads \ {p} : pc'[t] = pc[t] /\ pos'[t] = pos[t] /\ item'[t] = item[t]
                /\ pc'[p] \in ProducerPC \ {"idle"}
           /\ \A c \in Consumers : ConsumeStep(c) =>
                /\ \A t \in Threads \ {c} : pc'[t] = pc[t] /\ pos'[t] = pos[t] /\ item'[t] = item[t]
                /\ pc'[c] \in ConsumerPC \ {"idle", "exited"}
                /\ pc[c] # "exited"
<1>1. ASSUME NEW p \in Producers, IngestStep(p)
      PROVE  /\ \A t \in Threads \ {p} : pc'[t] = pc[t] /\ pos'[t] = pos[t] /\ item'[t] = item[t]
             /\ pc'[p] \in ProducerPC \ {"idle"}
  BY <1>1 DEF IngestStep, IngestStamp, PushReserve, PushClaim, PushFull, PushWrite, PushPublish,
              Goto, TypeOK, Threads, ProducerPC
<1>2. ASSUME NEW c \in Consumers, ConsumeStep(c)
      PROVE  /\ \A t \in Threads \ {c} : pc'[t] = pc[t] /\ pos'[t] = pos[t] /\ item'[t] = item[t]
             /\ pc'[c] \in ConsumerPC \ {"idle", "exited"}
             /\ pc[c] # "exited"
  BY <1>2 DEF ConsumeStep, PopLoad, PopEmpty, PopClaim, PopAdvance, PopRead, PopClear,
              Goto, TypeOK, Threads, ConsumerPC
<1> QED BY <1>1, <1>2

(* Threads stay in their part of the pipeline's life: feeds until stop() is *)
(* called, drain threads until they saw running_ fall, then drain_sync.     *)
LEMMA PipelineKeepsRoles ==
    ASSUME PipelineInv, [PipelineNext]_allVars
    PROVE  PipelineRoles'
<1>1. TypeOK /\ PipelineRoles /\ PipelineTypeOK
  BY DEF PipelineInv, QueueInv
<1>2. /\ setup.drain_threads \subseteq Drainers /\ Drainers \subseteq Consumers
      /\ Stopper \in Consumers /\ Stopper \notin Drainers
      /\ Producers \subseteq Threads /\ Consumers \subseteq Threads
      /\ Producers \cap Consumers = {}
      /\ \A c \in Consumers : c = Stopper \/ c \in Drainers
      /\ pc \in [Threads -> ProducerPC \cup ConsumerPC]
      /\ batch \in [Drainers -> 0..DrainBatch]
  BY <1>1, SetupsAssumption, StopperAssumption, ThreadsAssumption
     DEF PipelineTypeOK, SetupType, Drainers, Threads, TypeOK
<1>3. CASE UNCHANGED allVars
  BY <1>1, <1>3 DEF allVars, vars, pipelineVars, PipelineRoles
<1>4. ASSUME NEW p \in Producers, TickIngest(p) PROVE PipelineRoles'
  <2>1. pc[p] # "idle" \/ (stopping = "no" /\ p \in setup.feeds)
    BY <1>4 DEF TickIngest
  <2>2. \A t \in Threads \ {p} : pc'[t] = pc[t]
    BY <1>1, <1>4, OthersStay DEF TickIngest
  <2> QED BY <1>1, <1>2, <1>4, <2>1, <2>2 DEF TickIngest, pipelineVars, PipelineRoles
<1>5. ASSUME NEW p \in Producers, IngestQueued(p) \/ IngestBypass(p) PROVE PipelineRoles'
  BY <1>1, <1>2, <1>5, Zenon DEF IngestQueued, IngestBypass, Goto, PipelineRoles
<1>6. ASSUME NEW d \in setup.drain_threads, DrainNext(d) PROVE PipelineRoles'
  <2>1. CASE DrainOuter(d)
    BY <1>1, <1>2, <2>1 DEF DrainOuter, Goto, PipelineRoles
  <2>2. CASE DrainConsume(d)
    <3>1. /\ \A t \in Threads \ {d} : pc'[t] = pc[t]
          /\ pc'[d] \in ConsumerPC \ {"idle", "exited"} /\ pc[d] # "exited"
      BY <1>1, <1>2, <2>2, OthersStay DEF DrainConsume
    <3>2. batch[d] < DrainBatch
      BY <1>1, <1>2, <2>2, <3>1 DEF DrainConsume, DrainBusy, PipelineRoles
    <3> QED BY <1>1, <1>2, <2>2, <3>1, <3>2 DEF DrainConsume, pipelineVars, PipelineRoles
  <2>3. CASE DrainStore(d)
    BY <1>1, <1>2, <2>3 DEF DrainStore, Goto, PipelineRoles
  <2>4. CASE DrainBreak(d)
    BY <1>1, <1>2, <2>4 DEF DrainBreak, Goto, PipelineRoles
  <2> QED BY <1>6, <2>1, <2>2, <2>3, <2>4 DEF DrainNext
<1>7. ASSUME StopNext PROVE PipelineRoles'
  <2>1. CASE StopSignal
    BY <1>1, <1>2, <2>1 DEF StopSignal, vars, PipelineRoles
  <2>2. CASE StopJoined
    BY <1>1, <1>2, <2>2 DEF StopJoined, vars, PipelineRoles
  <2>3. CASE DrainSyncConsume
    <3>1. /\ \A t \in Threads \ {Stopper} : pc'[t] = pc[t]
          /\ pc'[Stopper] \in ConsumerPC \ {"idle", "exited"}
      BY <1>1, <1>2, <2>3, OthersStay DEF DrainSyncConsume
    <3> QED BY <1>1, <1>2, <2>3, <3>1 DEF DrainSyncConsume, pipelineVars, PipelineRoles
  <2>4. CASE DrainSyncStore
    BY <1>1, <1>2, <2>4 DEF DrainSyncStore, Goto, PipelineRoles
  <2>5. CASE DrainSyncEnd
    BY <1>1, <1>2, <2>5 DEF DrainSyncEnd, Goto, PipelineRoles
  <2> QED BY <1>7, <2>1, <2>2, <2>3, <2>4, <2>5 DEF StopNext
<1> QED BY <1>3, <1>4, <1>5, <1>6, <1>7 DEF PipelineNext, ProducerPipelineNext, Terminated

(* A consumer's slot is READING from the claim to the release.              *)
LEMMA ReaderSlot ==
    ASSUME QueueInv, NEW c \in Consumers, pc[c] \in {"advance", "read", "clear"}
    PROVE  IdxOf(pos[c]) \in Idx /\ slots[IdxOf(pos[c])].state = "READING"
  BY IdxOfType DEF QueueInv, TypeOK, SlotExclusion, ReadersOf, Threads

(* What a step of ingest changes: at most its own slot, which is EMPTY or   *)
(* WRITING before it, and the histories when the outcome is known.          *)
LEMMA IngestChanges ==
    ASSUME QueueInv, NEW p \in Producers, IngestStep(p)
    PROVE  /\ IdxOf(pos[p]) \in Idx
           /\ \A i \in Idx : slots'[i] # slots[i] =>
                 i = IdxOf(pos[p]) /\ slots[i].state \in {"EMPTY", "WRITING"}
           /\ read_pos' = read_pos /\ delivered' = delivered
           /\ ~Returns(p)
           /\ \/ PushFull(p)
              \/ PushPublish(p)
              \/ UNCHANGED <<accepted, rejected>> /\ Undecided(p)'
<1>1. IdxOf(pos[p]) \in Idx
  BY IdxOfType DEF QueueInv, TypeOK, Threads
<1>2. pc[p] \in {"write", "publish"} => slots[IdxOf(pos[p])].state = "WRITING"
  BY <1>1 DEF QueueInv, SlotExclusion, WritersOf
<1>3. p \in Threads /\ slots \in [Idx -> [state : SlotState, data : Ticks \cup {NoTick}]]
      /\ pc \in [Threads -> ProducerPC \cup ConsumerPC]
  BY DEF QueueInv, TypeOK, Threads
<1>4. CASE IngestStamp(p) \/ PushReserve(p)
  BY <1>1, <1>3, <1>4 DEF IngestStamp, PushReserve, Goto, queueVars, history, Returns, Undecided
<1>5. CASE PushFull(p)
  BY <1>1, <1>3, <1>5 DEF PushFull, Goto, queueVars, history, Returns, Undecided
<1>6. CASE PushClaim(p)
  BY <1>1, <1>3, <1>6 DEF PushClaim, Goto, history, Slot, Returns, Undecided
<1>7. CASE PushWrite(p)
  BY <1>1, <1>2, <1>3, <1>7 DEF PushWrite, Goto, history, Returns, Undecided
<1>8. CASE PushPublish(p)
  BY <1>1, <1>2, <1>3, <1>8 DEF PushPublish, Goto, history, Returns, Undecided
<1> QED BY <1>4, <1>5, <1>6, <1>7, <1>8 DEF IngestStep

(* A step of ingest takes nothing out of a consumer's hands.                *)
LEMMA IngestKeepsHeld ==
    ASSUME QueueInv, NEW p \in Producers, IngestStep(p)
    PROVE  \A c \in Consumers : (Holding(c)' <=> Holding(c)) /\ Held(c)' = Held(c)
<1> SUFFICES ASSUME NEW c \in Consumers
             PROVE  (Holding(c)' <=> Holding(c)) /\ Held(c)' = Held(c)
  OBVIOUS
<1>1. pc'[c] = pc[c] /\ pos'[c] = pos[c] /\ item'[c] = item[c]
  BY OthersStay, ThreadsAssumption DEF QueueInv, Threads
<1>2. CASE pc[c] \in {"advance", "read"}
  <2>1. slots'[IdxOf(pos[c])] = slots[IdxOf(pos[c])]
    BY <1>2, ReaderSlot, IngestChanges
  <2> QED BY <1>1, <1>2, <2>1 DEF Holding, Held, Slot
<1>3. CASE pc[c] \notin {"advance", "read"}
  BY <1>1, <1>3 DEF Holding, Held
<1> QED BY <1>2, <1>3

(* A step of consume takes one published tick, or changes nothing in        *)
(* anybody's hands.                                                         *)
LEMMA ConsumeHeld ==
    ASSUME QueueInv, NEW c \in Consumers, ConsumeStep(c)
    PROVE  /\ UNCHANGED <<seq_counter, write_pos, accepted, rejected>>
           /\ \A d \in Consumers \ {c} : (Holding(d)' <=> Holding(d)) /\ Held(d)' = Held(d)
           /\ \/ PopClaim(c) /\ ~Holding(c) /\ Holding(c)' /\ Held(c)' = Slot(c).data
              \/ /\ delivered' = delivered
                 /\ Holding(c)' <=> Holding(c)
                 /\ Holding(c) => Held(c)' = Held(c)
<1>1. /\ IdxOf(pos[c]) \in Idx /\ c \in Threads
      /\ slots \in [Idx -> [state : SlotState, data : Ticks \cup {NoTick}]]
      /\ pc \in [Threads -> ProducerPC \cup ConsumerPC]
      /\ item \in [Threads -> Ticks \cup {NoTick}]
  BY IdxOfType DEF QueueInv, TypeOK, Threads
<1>2. UNCHANGED <<seq_counter, write_pos, accepted, rejected>>
  BY DEF ConsumeStep, PopLoad, PopEmpty, PopClaim, PopAdvance, PopRead, PopClear, queueVars, history
<1>3. \A i \in Idx \ {IdxOf(pos[c])} : slots'[i] = slots[i]
  BY <1>1 DEF ConsumeStep, PopLoad, PopEmpty, PopClaim, PopAdvance, PopRead, PopClear, queueVars
<1>4. ASSUME NEW d \in Consumers \ {c}
      PROVE  (Holding(d)' <=> Holding(d)) /\ Held(d)' = Held(d)
  <2>1. pc'[d] = pc[d] /\ pos'[d] = pos[d] /\ item'[d] = item[d]
    BY OthersStay DEF QueueInv, Threads
  <2>2. CASE pc[d] \in {"advance", "read"}
    <3>1. IdxOf(pos[d]) \in Idx /\ slots[IdxOf(pos[d])].state = "READING"
      BY <2>2, ReaderSlot
    <3>2. slots'[IdxOf(pos[d])] = slots[IdxOf(pos[d])]
      <4>1. CASE IdxOf(pos[d]) # IdxOf(pos[c])
        BY <1>3, <3>1, <4>1
      <4>2. CASE IdxOf(pos[d]) = IdxOf(pos[c])
        <5>1. pc[c] \notin {"advance", "read", "clear"}
          BY <1>1, <2>2, <4>2 DEF QueueInv, SlotExclusion, ReadersOf
        <5>2. slots' = slots
          BY <3>1, <4>2, <5>1 DEF ConsumeStep, PopLoad, PopEmpty, PopClaim, PopAdvance,
                                  PopRead, PopClear, Slot, queueVars
        <5> QED BY <5>2
      <4> QED BY <4>1, <4>2
    <3> QED BY <2>1, <2>2, <3>2 DEF Holding, Held, Slot
  <2>3. CASE pc[d] \notin {"advance", "read"}
    BY <2>1, <2>3 DEF Holding, Held
  <2> QED BY <2>2, <2>3
<1>5. CASE PopClaim(c)
  BY <1>1, <1>2, <1>4, <1>5 DEF PopClaim, Goto, Holding, Held, Slot
<1>6. CASE PopLoad(c) \/ PopEmpty(c)
  BY <1>1, <1>2, <1>4, <1>6 DEF PopLoad, PopEmpty, Goto, Holding, history
<1>7. CASE PopAdvance(c) \/ PopRead(c)
  BY <1>1, <1>2, <1>4, <1>7 DEF PopAdvance, PopRead, Goto, Holding, Held, Slot, history, queueVars
<1>8. CASE PopClear(c)
  BY <1>1, <1>2, <1>4, <1>8 DEF PopClear, Goto, Holding, Held, history
<1> QED BY <1>5, <1>6, <1>7, <1>8 DEF ConsumeStep

(* Ticks that came out of the queue went into it, and none of them was      *)
(* refused.                                                                 *)
LEMMA DeliveredAccepted ==
    ASSUME QueueInv
    PROVE  Range(delivered) \subseteq Range(accepted) /\ Range(delivered) \cap rejected = {}
  BY DEF QueueInv, Conservation

(* A step of ingest that has no outcome yet, or a good one, leaves what is  *)
(* stored and what is in hand alone; a refusal puts its tick in hand.       *)
LEMMA OriginIngest ==
    ASSUME PipelineInv, NEW p \in Producers, IngestStep(p), UNCHANGED pipelineVars
    PROVE  StoredOnce' /\ StoredOrigin'
<1>1. QueueInv /\ StoredOrigin /\ StoredOnce
  BY DEF PipelineInv
<1>2. stored' = stored /\ StoredTicks' = StoredTicks
  BY DEF pipelineVars, StoredTicks
<1>3. \A c \in Consumers : (Holding(c)' <=> Holding(c)) /\ Held(c)' = Held(c)
  BY <1>1, IngestKeepsHeld
<1>4. /\ delivered' = delivered /\ ~Returns(p)
      /\ \A q \in Producers \ {p} : pc'[q] = pc[q] /\ item'[q] = item[q]
  BY <1>1, IngestChanges, OthersStay DEF QueueInv, Threads
<1>5. StoredOnce'
  BY <1>1, <1>2 DEF StoredOnce
<1>6. CASE PushFull(p)
  <2>1. /\ rejected' = rejected \cup {item[p]} /\ pc'[p] = "full" /\ item'[p] = item[p]
    BY <1>1, <1>6 DEF PushFull, Goto, QueueInv, TypeOK, Threads
  <2>2. item[p] \notin Range(accepted) \cup rejected
    BY <1>1, <1>6 DEF PushFull, QueueInv, FreshTicks, Undecided
  <2>3. item[p] \notin StoredTicks
    BY <1>1, <2>2, DeliveredAccepted DEF StoredOrigin
  <2> QED BY <1>1, <1>2, <1>3, <1>4, <1>5, <2>1, <2>3 DEF StoredOrigin
<1>7. CASE PushPublish(p) \/ (UNCHANGED <<accepted, rejected>> /\ Undecided(p)')
  <2>1. rejected' = rejected /\ pc'[p] # "full" /\ pc[p] # "full"
    BY <1>1, <1>4, <1>7 DEF PushPublish, Goto, Returns, Undecided, QueueInv, TypeOK, Threads
  <2> QED BY <1>1, <1>2, <1>3, <1>4, <1>5, <2>1 DEF StoredOrigin
<1> QED BY <1>1, <1>6, <1>7, IngestChanges

(* ingest_tick returns: a queued tick is the queue's, a refused one goes    *)
(* straight to store_tick.                                                  *)
LEMMA OriginReturn ==
    ASSUME PipelineInv, NEW p \in Producers, IngestQueued(p) \/ IngestBypass(p)
    PROVE  StoredOnce' /\ StoredOrigin'
<1>1. QueueInv /\ StoredOrigin /\ StoredOnce /\ PipelineTypeOK /\ IngestCounted
  BY DEF PipelineInv
<1>2. /\ UNCHANGED <<slots, pos, delivered, rejected, accepted>>
      /\ \A t \in Threads \ {p} : pc'[t] = pc[t] /\ item'[t] = item[t]
      /\ pc'[p] = "idle"
  BY <1>1, Zenon DEF IngestQueued, IngestBypass, Goto, queueVars, history, QueueInv, TypeOK, Threads
<1>3. \A c \in Consumers : (Holding(c)' <=> Holding(c)) /\ Held(c)' = Held(c)
  BY <1>2, ThreadsAssumption DEF Holding, Held, Slot, Threads
<1>4. \A q \in Producers \ {p} : pc'[q] = pc[q] /\ item'[q] = item[q]
  BY <1>2 DEF Threads
<1>5. CASE IngestQueued(p)
  <2>1. StoredTicks' = StoredTicks /\ StoredOnce' /\ pc[p] # "full"
    BY <1>1, <1>5 DEF IngestQueued, StoredTicks, StoredOnce
  <2> QED BY <1>1, <1>2, <1>3, <1>4, <2>1 DEF StoredOrigin
<1>6. CASE IngestBypass(p)
  <2>1. item[p] \in Ticks /\ item[p] \in rejected /\ item[p] \notin StoredTicks /\ pc[p] = "full"
    BY <1>1, <1>6, InHandTicks DEF IngestBypass, StoredOrigin
  <2>2. StoredTicks' = StoredTicks \cup {item[p]} /\ StoredOnce'
    BY <1>1, <1>6, <2>1, StoredGrows, Zenon DEF IngestBypass
  <2>3. \A q \in Producers \ {p} : pc[q] = "full" => item[q] # item[p]
    BY <1>1, <2>1 DEF IngestCounted, Returns
  <2>4. \A c \in Consumers : Holding(c) => Held(c) # item[p]
    BY <1>1, <2>1, DeliveredAccepted DEF QueueInv, HeldTicks
  <2> QED BY <1>1, <1>2, <1>3, <1>4, <2>1, <2>2, <2>3, <2>4 DEF StoredOrigin
<1> QED BY <1>5, <1>6

(* consume takes a tick that is neither stored nor in anybody's hands.      *)
LEMMA OriginConsume ==
    ASSUME PipelineInv, NEW c \in Consumers, ConsumeStep(c), UNCHANGED pipelineVars
    PROVE  StoredOnce' /\ StoredOrigin'
<1>1. QueueInv /\ StoredOrigin /\ StoredOnce
  BY DEF PipelineInv
<1>2. stored' = stored /\ StoredTicks' = StoredTicks
  BY DEF pipelineVars, StoredTicks
<1>3. \A p \in Producers : pc'[p] = pc[p] /\ item'[p] = item[p]
  BY <1>1, OthersStay, ThreadsAssumption DEF QueueInv, Threads
<1>4. /\ rejected' = rejected
      /\ \A d \in Consumers \ {c} : (Holding(d)' <=> Holding(d)) /\ Held(d)' = Held(d)
  BY <1>1, ConsumeHeld
<1>5. StoredOnce'
  BY <1>1, <1>2 DEF StoredOnce
<1>6. CASE PopClaim(c) /\ ~Holding(c) /\ Holding(c)' /\ Held(c)' = Slot(c).data
  <2>1. IdxOf(pos[c]) \in Idx /\ Slot(c).state = "READY" /\ delivered' = Append(delivered, Slot(c).data)
    BY <1>1, <1>6, IdxOfType DEF PopClaim, QueueInv, TypeOK, Threads
  <2>2. Slot(c).data \in Ticks /\ Slot(c).data \in ReadyTicks
    BY <1>1, <2>1, ReadyTick DEF Slot, ReadyTicks
  <2>3. Range(delivered') = Range(delivered) \cup {Slot(c).data}
    BY <1>1, <2>1, <2>2, RangeAppend DEF QueueInv, TypeOK
  <2>4. Slot(c).data \notin StoredTicks
    BY <1>1, <2>2 DEF QueueInv, Conservation, StoredOrigin
  <2>5. StoredTicks' \subseteq Range(delivered') \cup rejected'
    BY <1>1, <1>2, <1>4, <2>3 DEF StoredOrigin
  <2>6. ASSUME NEW t \in Range(delivered') \ StoredTicks' PROVE \E d \in Consumers : Holding(d)' /\ Held(d)' = t
    <3>1. CASE t = Slot(c).data BY <3>1, <1>6
    <3>2. CASE t # Slot(c).data
      <4>1. PICK d \in Consumers : Holding(d) /\ Held(d) = t BY <3>2, <2>6, <2>3, <1>1, <1>2 DEF StoredOrigin
      <4>2. d # c BY <4>1, <1>6
      <4> QED BY <4>1, <4>2, <1>4
    <3> QED BY <3>1, <3>2
  <2>7. \A t \in rejected' \ StoredTicks' : \E p \in Producers : pc'[p] = "full" /\ item'[p] = t
    BY <1>1, <1>2, <1>3, <1>4 DEF StoredOrigin
  <2>8. \A d \in Consumers : Holding(d)' => Held(d)' \notin StoredTicks'
    <3>1. ASSUME NEW d \in Consumers, d # c, Holding(d)' PROVE Held(d)' \notin StoredTicks'
      BY <3>1, <1>1, <1>2, <1>4 DEF StoredOrigin
    <3> QED BY <3>1, <1>2, <1>6, <2>4
  <2>9. \A p \in Producers : pc'[p] = "full" => item'[p] \in rejected' \ StoredTicks'
    BY <1>1, <1>2, <1>3, <1>4 DEF StoredOrigin
  <2> QED BY <1>5, <2>5, <2>6, <2>7, <2>8, <2>9 DEF StoredOrigin
<1>7. CASE delivered' = delivered /\ (Holding(c)' <=> Holding(c)) /\ (Holding(c) => Held(c)' = Held(c))
  BY <1>1, <1>2, <1>3, <1>4, <1>5, <1>7 DEF StoredOrigin
<1> QED BY <1>1, <1>6, <1>7, ConsumeHeld

(* store_tick puts away the tick its thread has in hand.                    *)
LEMMA OriginStore ==
    ASSUME PipelineInv, NEW c \in Consumers, StoreStep(c)
    PROVE  StoredOnce' /\ StoredOrigin'
<1>1. QueueInv /\ StoredOrigin /\ StoredOnce /\ PipelineTypeOK
  BY DEF PipelineInv
<1>2. /\ UNCHANGED <<slots, pos, delivered, rejected>>
      /\ \A t \in Threads \ {c} : pc'[t] = pc[t] /\ item'[t] = item[t]
      /\ pc'[c] = "idle" /\ pc[c] = "popped"
  BY <1>1 DEF StoreStep, Goto, queueVars, history, QueueInv, TypeOK, Threads
<1>3. \A d \in Consumers \ {c} : (Holding(d)' <=> Holding(d)) /\ Held(d)' = Held(d)
  BY <1>2 DEF Holding, Held, Slot, Threads
<1>4. \A p \in Producers : pc'[p] = pc[p] /\ item'[p] = item[p]
  BY <1>2, ThreadsAssumption DEF Threads
<1>5. Holding(c) /\ Held(c) = item[c] /\ ~Holding(c)'
  BY <1>2 DEF Holding, Held
<1>6. item[c] \in Ticks /\ item[c] \notin StoredTicks /\ item[c] \in Range(delivered)
  BY <1>1, <1>5, InHandTicks DEF StoredOrigin, QueueInv, HeldTicks
<1>7. StoredTicks' = StoredTicks \cup {item[c]} /\ StoredOnce'
  BY <1>1, <1>6, StoredGrows, Zenon DEF StoreStep
<1>8. \A d \in Consumers \ {c} : Holding(d) => Held(d) # item[c]
  BY <1>1, <1>5 DEF QueueInv, HeldTicks
<1>9. \A p \in Producers : pc[p] = "full" => item[p] # item[c]
  BY <1>1, <1>6, DeliveredAccepted DEF StoredOrigin
<1> QED BY <1>1, <1>2, <1>3, <1>4, <1>5, <1>6, <1>7, <1>8, <1>9 DEF StoredOrigin

(* A thread that comes back without a tick changes nothing in anybody's     *)
(* hands.                                                                   *)
LEMMA OriginMove ==
    ASSUME PipelineInv, (\E c \in Consumers : MoveStep(c)) \/ PhaseStep
    PROVE  StoredOnce' /\ StoredOrigin'
<1>1. QueueInv /\ StoredOrigin /\ StoredOnce
  BY DEF PipelineInv
<1>2. CASE PhaseStep
  BY <1>1, <1>2 DEF PhaseStep, vars, queueVars, history, StoredOrigin, StoredOnce, StoredTicks,
                    Holding, Held, Slot
<1>3. ASSUME NEW c \in Consumers, MoveStep(c) PROVE StoredOnce' /\ StoredOrigin'
  <2>1. /\ UNCHANGED <<slots, pos, item, delivered, rejected, stored>>
        /\ \A t \in Threads \ {c} : pc'[t] = pc[t]
        /\ pc[c] \in {"idle", "empty"} /\ pc'[c] \in {"idle", "exited"}
    BY <1>1, <1>3 DEF MoveStep, Goto, queueVars, history, QueueInv, TypeOK, Threads
  <2>2. \A d \in Consumers : (Holding(d)' <=> Holding(d)) /\ (Holding(d) => Held(d)' = Held(d))
    BY <2>1 DEF Holding, Held, Slot, Threads
  <2>3. \A p \in Producers : pc'[p] = pc[p]
    BY <2>1, ThreadsAssumption DEF Threads
  <2>4. StoredTicks' = StoredTicks /\ StoredOnce'
    BY <1>1, <2>1 DEF StoredTicks, StoredOnce
  <2> QED BY <1>1, <2>1, <2>2, <2>3, <2>4 DEF StoredOrigin
<1> QED BY <1>2, <1>3

(* Inside ingest nothing is counted yet: a tick whose outcome is known is   *)
(* still in its producer's hands.                                           *)
LEMMA CountIngest ==
    ASSUME PipelineInv, NEW p \in Producers, IngestStep(p), UNCHANGED pipelineVars
    PROVE  IngestCounted' /\ Counted' = Counted
<1>1. QueueInv /\ IngestCounted /\ seq_counter \in Nat /\ ticks_ingested' = ticks_ingested
  BY MaxTicksAssumption DEF PipelineInv, QueueInv, TypeOK, pipelineVars
<1>2. /\ ~Returns(p)
      /\ \A q \in Producers \ {p} : pc'[q] = pc[q] /\ item'[q] = item[q]
  BY <1>1, IngestChanges, OthersStay DEF QueueInv, Threads
<1>3. \A q \in Producers \ {p} : (Returns(q)' <=> Returns(q)) /\ (Undecided(q)' <=> Undecided(q))
  BY <1>2 DEF Returns, Undecided
<1>4. CASE PushFull(p) \/ PushPublish(p)
  <2>1. /\ Returns(p)' /\ item' = item /\ Undecided(p) /\ seq_counter' = seq_counter
        /\ item[p] \in Ticks
    <3>1. Undecided(p)
      BY <1>4 DEF PushFull, PushPublish, Undecided
    <3>2. item[p] \in Ticks
      BY <1>1, <3>1, UndecidedTick
    <3> QED BY <1>1, <1>4, <3>1, <3>2
            DEF PushFull, PushPublish, Goto, Returns, QueueInv, TypeOK, Threads
  <2>2. item[p] \notin Range(accepted) \cup rejected
    BY <1>1, <2>1 DEF QueueInv, FreshTicks
  <2>3. Range(accepted)' \cup rejected' = Range(accepted) \cup rejected \cup {item[p]}
    <3>1. CASE PushFull(p)
      BY <3>1 DEF PushFull
    <3>2. CASE PushPublish(p)
      <4>1. Range(accepted') = Range(accepted) \cup {item[p]}
        BY <1>1, <2>1, <3>2, RangeAppend DEF PushPublish, QueueInv, TypeOK
      <4> QED BY <3>2, <4>1 DEF PushPublish
    <3> QED BY <1>4, <3>1, <3>2
  <2>4. Counted' = Counted
    <3>1. \A t : t \in Counted' <=> /\ t \in Range(accepted) \cup rejected \cup {item[p]}
                                    /\ \A q \in Producers : Returns(q)' => item[q] # t
      BY <2>1, <2>3 DEF Counted
    <3>2. \A t : t \in Counted <=> /\ t \in Range(accepted) \cup rejected
                                   /\ \A q \in Producers : Returns(q) => item[q] # t
      BY DEF Counted
    <3>3. \A t : t \in Counted' <=> t \in Counted
      BY <1>2, <1>3, <2>1, <2>2, <3>1, <3>2
    <3> QED BY <3>3
  <2>5. \A q \in Producers : Returns(q)' => item'[q] \in (Range(accepted) \cup rejected)'
    BY <1>1, <1>3, <2>1, <2>3 DEF IngestCounted
  <2>6. \A q, r \in Producers : Returns(q)' /\ Returns(r)' /\ item'[q] = item'[r] => q = r
    BY <1>1, <1>3, <2>1, <2>2 DEF IngestCounted
  <2>7. \A t \in 0..(seq_counter' - 1) :
          \/ t \in (Range(accepted) \cup rejected)'
          \/ \E q \in Producers : Undecided(q)' /\ item'[q] = t
    BY <1>1, <1>3, <2>1, <2>3 DEF IngestCounted
  <2> QED BY <1>1, <2>4, <2>5, <2>6, <2>7 DEF IngestCounted
<1>5. CASE UNCHANGED <<accepted, rejected>> /\ Undecided(p)'
  <2>1. ~Returns(p)'
    BY <1>5 DEF Returns, Undecided
  <2>2. Counted' = Counted
    <3>1. \A t : (\A q \in Producers : Returns(q)' => item'[q] # t)
                   <=> (\A q \in Producers : Returns(q) => item[q] # t)
      BY <1>2, <1>3, <2>1
    <3> QED BY <1>5, <3>1 DEF Counted
  <2>3. \/ seq_counter' = seq_counter + 1 /\ item'[p] = seq_counter /\ ~Undecided(p)
        \/ seq_counter' = seq_counter /\ item'[p] = item[p] /\ Undecided(p)
    BY <1>1, <1>5 DEF IngestStep, IngestStamp, PushReserve, PushClaim, PushFull, PushWrite,
                 PushPublish, Goto, Undecided, QueueInv, TypeOK, Threads
  <2>4. \A t \in 0..(seq_counter' - 1) :
          \/ t \in (Range(accepted) \cup rejected)'
          \/ \E q \in Producers : Undecided(q)' /\ item'[q] = t
    <3> TAKE t \in 0..(seq_counter' - 1)
    <3>1. CASE t \in 0..(seq_counter - 1)
      <4>1. CASE t \in Range(accepted) \cup rejected
        BY <1>5, <4>1
      <4>2. CASE \E q \in Producers : Undecided(q) /\ item[q] = t
        BY <1>2, <1>3, <1>5, <2>3, <4>2
      <4> QED BY <1>1, <3>1, <4>1, <4>2 DEF IngestCounted
    <3>2. CASE t \notin 0..(seq_counter - 1)
      BY <1>1, <1>5, <2>3, <3>2
    <3> QED BY <3>1, <3>2
  <2>5. \A q \in Producers : Returns(q)' => item'[q] \in (Range(accepted) \cup rejected)'
    BY <1>1, <1>2, <1>3, <1>5, <2>1 DEF IngestCounted
  <2>6. \A q, r \in Producers : Returns(q)' /\ Returns(r)' /\ item'[q] = item'[r] => q = r
    BY <1>1, <1>2, <1>3, <2>1 DEF IngestCounted
  <2> QED BY <1>1, <2>2, <2>4, <2>5, <2>6 DEF IngestCounted
<1> QED BY <1>1, <1>4, <1>5, IngestChanges

(* Ticks with an outcome are ticks, finitely many.                          *)
LEMMA CountedFinite ==
    ASSUME QueueInv
    PROVE  IsFiniteSet(Counted) /\ Cardinality(Counted) \in 0..MaxTicks
<1>1. Range(accepted) \subseteq Ticks /\ rejected \subseteq Ticks
  BY RangeType DEF QueueInv, TypeOK
<1>2. Counted \subseteq Ticks
  BY <1>1 DEF Counted
<1>3. IsFiniteSet(Ticks) /\ Cardinality(Ticks) = MaxTicks
  <2>1. 0 \in Int /\ MaxTicks - 1 \in Int
    BY MaxTicksAssumption
  <2>2. IsFiniteSet(0..(MaxTicks - 1))
    BY <2>1, FS_Interval, Zenon
  <2>3. Cardinality(0..(MaxTicks - 1)) = IF 0 > MaxTicks - 1 THEN 0 ELSE (MaxTicks - 1) - 0 + 1
    BY <2>1, FS_Interval, Zenon
  <2> QED BY <2>2, <2>3, MaxTicksAssumption DEF Ticks
<1>4. IsFiniteSet(Counted) /\ Cardinality(Counted) <= Cardinality(Ticks)
  BY <1>2, <1>3, FS_Subset, Zenon
<1>5. Cardinality(Counted) \in Nat
  BY <1>4, FS_CardinalityType, Zenon
<1> QED BY <1>3, <1>4, <1>5, MaxTicksAssumption

(* ++ticks_ingested happens with the return of ingest_tick.                 *)
LEMMA CountReturn ==
    ASSUME PipelineInv, NEW p \in Producers, IngestQueued(p) \/ IngestBypass(p)
    PROVE  IngestCounted' /\ Counted' = Counted \cup {item[p]}
<1>1. QueueInv /\ IngestCounted
  BY DEF PipelineInv
<1>2. /\ Returns(p) /\ pc'[p] = "idle" /\ ticks_ingested' = ticks_ingested + 1
      /\ UNCHANGED <<accepted, rejected, seq_counter>>
      /\ \A q \in Producers \ {p} : pc'[q] = pc[q] /\ item'[q] = item[q]
  BY <1>1, Zenon DEF IngestQueued, IngestBypass, Goto, queueVars, history, QueueInv, TypeOK, Threads, Returns
<1>3. /\ ~Returns(p)' /\ ~Undecided(p)
      /\ \A q \in Producers \ {p} : (Returns(q)' <=> Returns(q)) /\ (Undecided(q)' <=> Undecided(q))
  BY <1>2 DEF Returns, Undecided
<1>4. item[p] \in Range(accepted) \cup rejected /\ item[p] \notin Counted
  BY <1>1, <1>2 DEF IngestCounted, Counted
<1>5. Counted' = Counted \cup {item[p]}
  <2>1. \A t : t \in Counted' <=> /\ t \in Range(accepted) \cup rejected
                                  /\ \A q \in Producers : Returns(q)' => item'[q] # t
    BY <1>2 DEF Counted
  <2>2. \A t : t \in Counted <=> /\ t \in Range(accepted) \cup rejected
                                 /\ \A q \in Producers : Returns(q) => item[q] # t
    BY DEF Counted
  <2>3. \A q \in Producers \ {p} : Returns(q) => item[q] # item[p]
    BY <1>1, <1>2 DEF IngestCounted
  <2>4. \A t : t \in Counted' <=> t \in Counted \cup {item[p]}
    BY <1>2, <1>3, <1>4, <2>1, <2>2, <2>3
  <2> QED BY <2>4
<1>6. ticks_ingested' = Cardinality(Counted')
  <2>1. Cardinality(Counted \cup {item[p]}) = Cardinality(Counted) + 1
    BY <1>1, <1>4, CountedFinite, FS_AddElement, Zenon
  <2> QED BY <1>1, <1>2, <1>5, <2>1 DEF IngestCounted
<1>7. \A q \in Producers : Returns(q)' => item'[q] \in (Range(accepted) \cup rejected)'
  BY <1>1, <1>2, <1>3 DEF IngestCounted
<1>8. \A q, r \in Producers : Returns(q)' /\ Returns(r)' /\ item'[q] = item'[r] => q = r
  BY <1>1, <1>2, <1>3 DEF IngestCounted
<1>9. \A t \in 0..(seq_counter' - 1) :
        \/ t \in (Range(accepted) \cup rejected)'
        \/ \E q \in Producers : Undecided(q)' /\ item'[q] = t
  BY <1>1, <1>2, <1>3 DEF IngestCounted
<1> QED BY <1>5, <1>6, <1>7, <1>8, <1>9 DEF IngestCounted

(* Nothing else counts.                                                     *)
LEMMA CountStays ==
    ASSUME PipelineInv, UNCHANGED <<accepted, rejected, seq_counter, ticks_ingested>>,
           \A p \in Producers : pc'[p] = pc[p] /\ item'[p] = item[p]
    PROVE  IngestCounted' /\ Counted' = Counted
<1>1. IngestCounted
  BY DEF PipelineInv
<1>2. \A p \in Producers : (Returns(p)' <=> Returns(p)) /\ (Undecided(p)' <=> Undecided(p))
  BY DEF Returns, Undecided
<1>3. Counted' = Counted
  <2>1. \A t : (\A q \in Producers : Returns(q)' => item'[q] # t)
                 <=> (\A q \in Producers : Returns(q) => item[q] # t)
    BY <1>2
  <2> QED BY <2>1 DEF Counted
<1> QED BY <1>1, <1>2, <1>3 DEF IngestCounted

(* ticks_ingested counts the calls of ingest_tick that have returned,       *)
(* whatever the pipeline does.                                              *)
LEMMA PipelineKeepsCount ==
    ASSUME PipelineInv, [PipelineNext]_allVars
    PROVE  IngestCounted' /\ ticks_ingested' \in 0..MaxTicks
<1>1. QueueInv /\ QueueInv' /\ TypeOK
  BY PipelineKeepsQueue DEF PipelineInv, QueueInv
<1>2. ASSUME PhaseStep \/ UNCHANGED allVars PROVE IngestCounted'
  <2>1. UNCHANGED <<accepted, rejected, seq_counter, ticks_ingested>> /\ UNCHANGED <<pc, item>>
    BY <1>2 DEF PhaseStep, allVars, vars, pipelineVars, history, queueVars
  <2> QED BY <2>1, CountStays
<1>3. ASSUME NEW p \in Producers, \/ IngestStep(p) /\ UNCHANGED pipelineVars
                                  \/ IngestQueued(p) \/ IngestBypass(p)
      PROVE  IngestCounted'
  BY <1>3, CountIngest, CountReturn
<1>4. ASSUME NEW c \in Consumers, \/ ConsumeStep(c) /\ UNCHANGED pipelineVars
                                  \/ StoreStep(c) \/ MoveStep(c)
      PROVE  IngestCounted'
  <2>1. CASE ConsumeStep(c) /\ UNCHANGED pipelineVars
    BY <1>1, <2>1, ConsumeHeld, OthersStay, CountStays, ThreadsAssumption DEF pipelineVars, Threads
  <2>2. CASE StoreStep(c) \/ MoveStep(c)
    <3>1. \A p \in Producers : pc'[p] = pc[p] /\ item'[p] = item[p]
      BY <1>1, <2>2, ThreadsAssumption, Zenon DEF StoreStep, MoveStep, Goto, TypeOK, Threads
    <3>2. UNCHANGED <<accepted, rejected, seq_counter, ticks_ingested>>
      BY <2>2, Zenon DEF StoreStep, MoveStep, history
    <3> QED BY <3>1, <3>2, CountStays
  <2> QED BY <1>4, <2>1, <2>2
<1>5. IngestCounted'
  BY <1>2, <1>3, <1>4, PipelineSteps
<1>6. (IsFiniteSet(Counted) /\ Cardinality(Counted) \in 0..MaxTicks)'
  BY <1>1, CountedFinite, PTL
<1> QED BY <1>5, <1>6 DEF IngestCounted

(* Every tick is stored at most once, and what left the queue is stored or  *)
(* in a thread's hands.                                                     *)
LEMMA PipelineKeepsStored ==
    ASSUME PipelineInv, [PipelineNext]_allVars
    PROVE  StoredOnce' /\ StoredOrigin'
<1>1. CASE UNCHANGED allVars
  BY <1>1, OriginMove DEF allVars, pipelineVars, PhaseStep
<1> QED BY <1>1, PipelineSteps, OriginIngest, OriginReturn, OriginConsume, OriginStore, OriginMove

-----------------------------------------------------------------------------
(* Positions round the ring                                                *)

(* Multiples of the capacity are at least a capacity apart.                 *)
LEMMA Multiples ==
    ASSUME NEW q \in Int
    PROVE  /\ q >= 1 => Capacity * q >= Capacity
           /\ q <= 0 => Capacity * q <= 0
           /\ q <= -1 => Capacity * q <= 0 - Capacity
  BY CapacityAssumption

(* A position is a number of rounds and an index.                           *)
LEMMA Rounds ==
    \A x \in Nat : /\ x = Capacity * (x \div Capacity) + IdxOf(x)
                   /\ x \div Capacity \in Nat
                   /\ IdxOf(x) \in 0..(Capacity - 1)
  BY CapacityAssumption DEF IdxOf

(* Positions less than a round apart have different slots.                  *)
LEMMA SlotsDiffer ==
    ASSUME NEW x \in Nat, NEW y \in Nat, x < y, y - x < Capacity
    PROVE  IdxOf(x) # IdxOf(y)
<1> SUFFICES ASSUME IdxOf(x) = IdxOf(y) PROVE FALSE
  OBVIOUS
<1> DEFINE qx == x \div Capacity
           qy == y \div Capacity
<1>1. /\ x = Capacity * qx + IdxOf(x) /\ y = Capacity * qy + IdxOf(y)
      /\ qx \in Nat /\ qy \in Nat /\ IdxOf(x) \in 0..(Capacity - 1)
  BY Rounds, Zenon
<1> HIDE DEF qx, qy
<1>2. y - x = Capacity * (qy - qx)
  BY <1>1, CapacityAssumption
<1> QED BY <1>1, <1>2, Multiples, CapacityAssumption

(* A whole round leads back to the same slot.                               *)
LEMMA RoundReturns ==
    ASSUME NEW x \in Nat
    PROVE  IdxOf(x + Capacity) = IdxOf(x)
<1> DEFINE y == x + Capacity
           qx == x \div Capacity
           qy == y \div Capacity
           rx == IdxOf(x)
           ry == IdxOf(y)
<1>1. /\ x = Capacity * qx + rx /\ y = Capacity * qy + ry
      /\ qx \in Nat /\ qy \in Nat
      /\ rx \in 0..(Capacity - 1) /\ ry \in 0..(Capacity - 1)
  <2>1. y \in Nat
    BY CapacityAssumption
  <2> QED BY <2>1, Rounds, Zenon
<1>2. y = x + Capacity
  OBVIOUS
<1> SUFFICES rx = ry
  OBVIOUS
<1> HIDE DEF qx, qy, rx, ry, y
<1> DEFINE q == qy - qx - 1
<1>3. Capacity * q = rx - ry /\ q \in Int
  BY <1>1, <1>2, CapacityAssumption
<1> HIDE DEF q
<1>4. Capacity * q >= Capacity \/ Capacity * q <= 0 - Capacity \/ q = 0
  BY <1>3, Multiples, CapacityAssumption
<1> QED BY <1>1, <1>3, <1>4, CapacityAssumption

-----------------------------------------------------------------------------
(* One feed, one drain thread                                              *)

(* The feed is one thread, so at most one thread is inside ingest_tick.     *)
LEMMA OneFeed ==
    ASSUME PipelineTypeOK, OneToOne
    PROVE  \E f : setup.feeds = {f}
<1>1. IsFiniteSet(setup.feeds)
  BY SetupsAssumption DEF PipelineTypeOK
<1> QED BY <1>1, FS_Singleton, Zenon DEF OneToOne

(* The reader whose turn it is has the queue to itself: drain_sync starts   *)
(* after the join.                                                          *)
LEMMA SoleReader ==
    ASSUME PipelineTypeOK, PipelineRoles, OneToOne,
           NEW c \in Consumers, Turn(c), pc[c] # "exited"
    PROVE  \A d \in Consumers \ {c} : pc[d] \in {"idle", "exited"}
<1>1. IsFiniteSet(setup.drain_threads)
  BY SetupsAssumption DEF PipelineTypeOK
<1>3. PICK t : setup.drain_threads = {t}
  BY <1>1, FS_Singleton, Zenon DEF OneToOne
<1>5. ASSUME NEW d \in Consumers \ {c}
      PROVE  pc[d] \in {"idle", "exited"}
  <2>1. CASE c = t
    <3>1. pc[Stopper] = "idle"
      BY <1>3, <1>5, <2>1 DEF PipelineRoles
    <3> QED BY <1>3, <1>5, <2>1, <3>1 DEF PipelineRoles
  <2>2. CASE c = Stopper /\ stopping = "draining"
    BY <1>3, <1>5, <2>2 DEF PipelineRoles
  <2> QED BY <1>3, <1>5, <2>1, <2>2 DEF Turn
<1> QED BY <1>5

(* What the arithmetic below needs of the two histories.                    *)
LEMMA HistoryTypes ==
    ASSUME QueueInv
    PROVE  /\ Len(accepted) \in Nat /\ Len(delivered) \in Nat
           /\ accepted \in Seq(Ticks) /\ delivered \in Seq(Ticks)
           /\ slots \in [Idx -> [state : SlotState, data : Ticks \cup {NoTick}]]
           /\ pc \in [Threads -> ProducerPC \cup ConsumerPC]
           /\ pos \in [Threads -> Nat]
           /\ write_pos \in Nat /\ read_pos \in Nat
  BY DEF QueueInv, TypeOK

(* The ring is not disturbed by a change to slots that are not READY.       *)
LEMMA RingFrame ==
    ASSUME QueueInv, RingHolds, UNCHANGED <<accepted, delivered>>,
           \A i \in Idx : slots'[i] = slots[i]
                          \/ (slots[i].state # "READY" /\ slots'[i].state # "READY")
    PROVE  RingHolds'
<1>1. \A k \in Nat : IdxOf(k) \in Idx
  BY IdxOfType
<1>2. Len(accepted) \in Nat /\ Len(delivered) \in Nat
  BY HistoryTypes
<1>3. \A k \in (Len(delivered) + 1)..Len(accepted) : IdxOf(k - 1) \in Idx
  BY <1>1, <1>2
<1> QED BY <1>3, Zenon DEF RingHolds

(* try_push with the ring to itself: the reserved position is the next one  *)
(* to accept, its slot is free, and publishing extends the ring by one.     *)
LEMMA RingIngest ==
    ASSUME PipelineInv, NEW p \in Producers, IngestStep(p), UNCHANGED pipelineVars,
           OneToOne, rejected' = {}, RingInOrder, PipelineRoles'
    PROVE  RingInOrder'
<1>1. QueueInv /\ PipelineRoles /\ TypeOK
  BY DEF PipelineInv, QueueInv
<1>2. /\ \A t \in Threads \ {p} : pc'[t] = pc[t] /\ pos'[t] = pos[t]
      /\ pc'[p] # "idle"
  BY <1>1, OthersStay
<1>3. \A q \in Producers \ {p} : pc[q] = "idle" /\ pc'[q] = "idle"
  <2>1. PICK f : setup.feeds = {f}
    BY OneFeed DEF PipelineInv
  <2>2. setup' = setup
    BY DEF pipelineVars
  <2> QED BY <1>2, <2>1, <2>2 DEF Threads, PipelineRoles
<1>4. \A c \in Consumers : pc'[c] = pc[c] /\ pos'[c] = pos[c]
  BY <1>2, ThreadsAssumption DEF Threads
<1>5. read_pos' = read_pos /\ delivered' = delivered /\ stopping' = stopping
  BY <1>1, IngestChanges DEF pipelineVars
<1>6. ReaderAt'
  BY <1>4, <1>5 DEF RingInOrder, ReaderAt
<1>7. stopping = "no" /\ pc[Stopper] = "idle"
  BY <1>1, <1>2, <1>5 DEF PipelineRoles
<1>8. SyncDrained'
  BY <1>4, <1>5, <1>7, StopperAssumption DEF SyncDrained
<1>9. Len(accepted) \in Nat /\ Len(delivered) \in Nat /\ p \in Threads
  BY <1>1, HistoryTypes DEF Threads
<1>10. CASE IngestStamp(p)
  <2>1. RingHolds'
    BY <1>1, <1>10, RingFrame DEF IngestStamp, queueVars, history, RingInOrder
  <2>2. WriterAt'
    BY <1>1, <1>2, <1>3, <1>9, <1>10, HistoryTypes
       DEF IngestStamp, Goto, queueVars, history, RingInOrder, WriterAt, Reserved
  <2> QED BY <1>6, <1>8, <2>1, <2>2 DEF RingInOrder
<1>11. CASE PushReserve(p)
  <2>1. RingHolds'
    BY <1>1, <1>11, RingFrame DEF PushReserve, history, RingInOrder
  <2>2. WriterAt'
    BY <1>1, <1>2, <1>3, <1>9, <1>11, HistoryTypes
       DEF PushReserve, Goto, history, RingInOrder, WriterAt, Reserved
  <2> QED BY <1>6, <1>8, <2>1, <2>2 DEF RingInOrder
<1>12. CASE PushClaim(p) \/ PushWrite(p)
  <2>0. IdxOf(pos[p]) \in Idx /\ (pc[p] = "write" => Slot(p).state = "WRITING")
    BY <1>1, <1>9, IdxOfType, HistoryTypes DEF QueueInv, SlotExclusion, WritersOf, Slot
  <2>1. RingHolds'
    <3>1. \A i \in Idx : slots'[i] = slots[i]
                         \/ (slots[i].state # "READY" /\ slots'[i].state # "READY")
      BY <1>1, <1>12, <2>0, HistoryTypes DEF PushClaim, PushWrite, Slot
    <3> QED BY <1>1, <1>12, <3>1, RingFrame DEF PushClaim, PushWrite, history, RingInOrder
  <2>2. WriterAt'
    BY <1>1, <1>2, <1>3, <1>9, <1>12, HistoryTypes
       DEF PushClaim, PushWrite, Goto, history, RingInOrder, WriterAt, Reserved
  <2> QED BY <1>6, <1>8, <2>1, <2>2 DEF RingInOrder
<1>13. CASE PushFull(p)
  BY <1>13 DEF PushFull
<1>14. CASE PushPublish(p)
  <2> DEFINE a == Len(accepted)
             d == Len(delivered)
  <2>0. IdxOf(pos[p]) \in Idx /\ Slot(p).state = "WRITING" /\ Slot(p).data = item[p]
    BY <1>1, <1>9, <1>14, IdxOfType, HistoryTypes
       DEF PushPublish, QueueInv, SlotExclusion, WritersOf, WrittenPayload, Slot
  <2>1. pos[p] = a /\ write_pos = a + 1
    BY <1>14 DEF PushPublish, RingInOrder, WriterAt, Reserved
  <2>2. item[p] \in Ticks
    BY <1>1, <1>14, UndecidedTick DEF PushPublish, Undecided
  <2>3. /\ accepted' = Append(accepted, item[p]) /\ Len(accepted') = a + 1
        /\ accepted'[a + 1] = item[p] /\ \A k \in 1..a : accepted'[k] = accepted[k]
    BY <1>1, <1>14, <2>2, HistoryTypes DEF PushPublish
  <2>4. /\ slots'[IdxOf(a)].state = "READY" /\ slots'[IdxOf(a)].data = item[p]
        /\ \A i \in Idx \ {IdxOf(a)} : slots'[i] = slots[i]
        /\ IdxOf(a) \in Idx /\ slots[IdxOf(a)].state = "WRITING"
    BY <1>1, <1>14, <2>0, <2>1, HistoryTypes DEF PushPublish, Slot
  <2>5. /\ d <= a /\ a - d <= Capacity
        /\ \A k \in 1..d : delivered[k] = accepted[k]
        /\ \A k \in (d + 1)..a : /\ slots[IdxOf(k - 1)].state = "READY"
                                /\ slots[IdxOf(k - 1)].data = accepted[k]
        /\ \A i \in Idx : slots[i].state = "READY" => \E k \in (d + 1)..a : i = IdxOf(k - 1)
    BY DEF RingInOrder, RingHolds
  <2> HIDE DEF a, d
  <2>6. a \in Nat /\ d \in Nat
    BY <1>9 DEF a, d
  <2>7. a - d < Capacity
    <3> SUFFICES ASSUME a = d + Capacity PROVE FALSE
      BY <2>5, <2>6, CapacityAssumption
    <3>1. IdxOf(a) = IdxOf(d)
      BY <2>6, RoundReturns
    <3>2. d + 1 \in (d + 1)..a /\ (d + 1) - 1 = d
      BY <2>6, CapacityAssumption
    <3>3. slots[IdxOf(d)].state = "READY"
      BY <2>5, <3>2
    <3> QED BY <2>4, <3>1, <3>3
  <2>8. ASSUME NEW k \in (d + 1)..(a + 1)
        PROVE  slots'[IdxOf(k - 1)].state = "READY" /\ slots'[IdxOf(k - 1)].data = accepted'[k]
    <3>1. CASE k = a + 1
      <4>1. k - 1 = a
        BY <2>6, <3>1
      <4> QED BY <2>3, <2>4, <3>1, <4>1
    <3>2. CASE k # a + 1
      <4>1. k \in (d + 1)..a /\ k - 1 \in Nat /\ k \in 1..a
        BY <2>6, <3>2
      <4>2. IdxOf(k - 1) \in Idx /\ IdxOf(k - 1) # IdxOf(a)
        BY <2>4, <2>5, <4>1, IdxOfType
      <4> QED BY <2>3, <2>4, <2>5, <4>1, <4>2
    <3> QED BY <3>1, <3>2
  <2>9. ASSUME NEW i \in Idx, slots'[i].state = "READY"
        PROVE  \E k \in (d + 1)..(a + 1) : i = IdxOf(k - 1)
    <3>1. CASE i = IdxOf(a)
      <4>1. a + 1 \in (d + 1)..(a + 1) /\ (a + 1) - 1 = a
        BY <2>5, <2>6
      <4> QED BY <3>1, <4>1
    <3>2. CASE i # IdxOf(a)
      <4>1. PICK k \in (d + 1)..a : i = IdxOf(k - 1)
        BY <2>4, <2>5, <2>9, <3>2
      <4>2. k \in (d + 1)..(a + 1)
        BY <2>6
      <4> QED BY <4>1, <4>2
    <3> QED BY <3>1, <3>2
  <2>10. RingHolds'
    <3>1. \A k \in 1..d : delivered[k] = accepted'[k]
      BY <2>3, <2>5, <2>6
    <3>2. d <= a + 1 /\ (a + 1) - d <= Capacity
      BY <2>5, <2>6, <2>7, CapacityAssumption
    <3>3. Len(delivered') = d /\ Len(accepted') = a + 1 /\ delivered' = delivered
      BY <1>5, <2>3 DEF d
    <3> QED BY <2>8, <2>9, <3>1, <3>2, <3>3 DEF RingHolds
  <2>11. WriterAt'
    <3>1. \A q \in Producers : ~Reserved(q)'
      BY <1>1, <1>3, <1>9, <1>14, HistoryTypes DEF PushPublish, Goto, Reserved
    <3> QED BY <1>14, <2>1, <2>3, <3>1 DEF PushPublish, WriterAt
  <2> QED BY <1>6, <1>8, <2>10, <2>11 DEF RingInOrder
<1> QED BY <1>10, <1>11, <1>12, <1>13, <1>14 DEF IngestStep

(* A call of ingest_tick that returns leaves the ring alone.                *)
LEMMA RingReturn ==
    ASSUME PipelineInv, NEW p \in Producers, IngestQueued(p) \/ IngestBypass(p), RingInOrder
    PROVE  RingInOrder'
<1>1. QueueInv /\ p \in Threads
  BY DEF PipelineInv, Threads
<1>2. /\ UNCHANGED <<write_pos, read_pos, slots, pos, accepted, delivered, stopping>>
      /\ pc[p] \in {"queued", "full"} /\ pc'[p] = "idle"
      /\ \A t \in Threads \ {p} : pc'[t] = pc[t]
  BY <1>1, HistoryTypes, Zenon DEF IngestQueued, IngestBypass, Goto, queueVars, history
<1>3. RingHolds'
  BY <1>1, <1>2, RingFrame DEF RingInOrder
<1>4. WriterAt'
  <2>1. \A q \in Producers : Reserved(q)' <=> Reserved(q)
    BY <1>2 DEF Reserved, Threads
  <2> QED BY <1>2, <2>1 DEF RingInOrder, WriterAt
<1>5. \A c \in Consumers : pc'[c] = pc[c]
  BY <1>2, ThreadsAssumption DEF Threads
<1>6. ReaderAt' /\ SyncDrained'
  BY <1>2, <1>5, StopperAssumption DEF RingInOrder, ReaderAt, SyncDrained
<1> QED BY <1>3, <1>4, <1>6 DEF RingInOrder

(* try_pop with the ring to itself: the position it loads is the next one   *)
(* to deliver, so a slot that is READY there holds the oldest tick, and one *)
(* that is not means an empty ring.                                         *)
LEMMA RingConsume ==
    ASSUME PipelineInv, NEW c \in Consumers, Turn(c), ConsumeStep(c), UNCHANGED pipelineVars,
           OneToOne, RingInOrder
    PROVE  RingInOrder'
<1>1. QueueInv /\ PipelineRoles /\ PipelineTypeOK /\ TypeOK
  BY DEF PipelineInv, QueueInv
<1>2. /\ \A t \in Threads \ {c} : pc'[t] = pc[t] /\ pos'[t] = pos[t]
      /\ pc[c] # "exited" /\ c \in Threads
  BY <1>1, OthersStay DEF Threads
<1>3. \A d \in Consumers \ {c} : pc[d] \in {"idle", "exited"} /\ pc'[d] = pc[d]
  BY <1>1, <1>2, SoleReader DEF Threads
<1>4. \A p \in Producers : pc'[p] = pc[p] /\ pos'[p] = pos[p]
  BY <1>2, ThreadsAssumption DEF Threads
<1>5. UNCHANGED <<accepted, write_pos, stopping>>
  BY <1>1, ConsumeHeld DEF pipelineVars
<1>6. WriterAt'
  BY <1>4, <1>5 DEF RingInOrder, WriterAt, Reserved
<1>7. Len(accepted) \in Nat /\ Len(delivered) \in Nat
  BY <1>1, HistoryTypes
<1>8. IdxOf(pos[c]) \in Idx
  BY <1>1, <1>2, HistoryTypes, IdxOfType
<1>9. CASE PopLoad(c)
  <2>1. RingHolds'
    BY <1>1, <1>9, RingFrame DEF PopLoad, queueVars, history, RingInOrder
  <2>2. read_pos = Len(delivered)
    BY <1>3, <1>9 DEF PopLoad, RingInOrder, ReaderAt
  <2>3. ReaderAt'
    BY <1>1, <1>2, <1>3, <1>9, <2>2, HistoryTypes DEF PopLoad, Goto, queueVars, history, ReaderAt
  <2>4. SyncDrained'
    BY <1>1, <1>2, <1>3, <1>5, <1>9, StopperAssumption, HistoryTypes
       DEF PopLoad, Goto, history, RingInOrder, SyncDrained
  <2> QED BY <1>6, <2>1, <2>3, <2>4 DEF RingInOrder
<1>10. CASE PopEmpty(c)
  <2>1. RingHolds'
    BY <1>1, <1>10, RingFrame DEF PopEmpty, queueVars, history, RingInOrder
  <2>2. ReaderAt'
    BY <1>1, <1>2, <1>3, <1>10, HistoryTypes DEF PopEmpty, Goto, queueVars, history, RingInOrder, ReaderAt
  <2>3. Len(accepted) = Len(delivered)
    <3>1. pos[c] = Len(delivered)
      BY <1>10 DEF PopEmpty, RingInOrder, ReaderAt
    <3>2. slots[IdxOf(Len(delivered))].state # "READY"
      BY <1>10, <3>1 DEF PopEmpty, Slot
    <3>3. (Len(delivered) + 1) - 1 = Len(delivered)
      BY <1>7
    <3>4. Len(delivered) + 1 \notin (Len(delivered) + 1)..Len(accepted)
      BY <3>2, <3>3 DEF RingInOrder, RingHolds
    <3> QED BY <1>7, <3>4 DEF RingInOrder, RingHolds
  <2>4. SyncDrained'
    BY <1>5, <1>10, <2>3 DEF PopEmpty, history, SyncDrained
  <2> QED BY <1>6, <2>1, <2>2, <2>4 DEF RingInOrder
<1>11. CASE PopAdvance(c)
  <2>1. RingHolds'
    BY <1>1, <1>11, RingFrame DEF PopAdvance, history, RingInOrder
  <2>2. read_pos = Len(delivered) - 1
    BY <1>11 DEF PopAdvance, RingInOrder, ReaderAt
  <2>3. ReaderAt'
    BY <1>1, <1>2, <1>3, <1>7, <1>11, <2>2, HistoryTypes DEF PopAdvance, Goto, history, RingInOrder, ReaderAt
  <2>4. SyncDrained'
    BY <1>1, <1>2, <1>3, <1>5, <1>11, StopperAssumption, HistoryTypes
       DEF PopAdvance, Goto, history, RingInOrder, SyncDrained
  <2> QED BY <1>6, <2>1, <2>3, <2>4 DEF RingInOrder
<1>12. CASE PopRead(c) \/ PopClear(c)
  <2>1. RingHolds'
    <3>1. pc[c] = "clear" => slots[IdxOf(pos[c])].state = "READING"
      BY <1>1, ReaderSlot
    <3>2. \A i \in Idx : slots'[i] = slots[i]
                         \/ (slots[i].state # "READY" /\ slots'[i].state # "READY")
      BY <1>1, <1>8, <1>12, <3>1, HistoryTypes DEF PopRead, PopClear, queueVars
    <3> QED BY <1>1, <1>12, <3>2, RingFrame DEF PopRead, PopClear, history, RingInOrder
  <2>2. ReaderAt'
    BY <1>1, <1>2, <1>3, <1>12, HistoryTypes, Zenon
       DEF PopRead, PopClear, Goto, queueVars, history, RingInOrder, ReaderAt
  <2>3. SyncDrained'
    BY <1>1, <1>2, <1>3, <1>5, <1>12, StopperAssumption, HistoryTypes
       DEF PopRead, PopClear, Goto, history, RingInOrder, SyncDrained
  <2> QED BY <1>6, <2>1, <2>2, <2>3 DEF RingInOrder
<1>13. CASE PopClaim(c)
  <2> DEFINE a == Len(accepted)
             d == Len(delivered)
  <2>1. pos[c] = d /\ read_pos = d
    BY <1>3, <1>13 DEF PopClaim, RingInOrder, ReaderAt
  <2>2. slots[IdxOf(d)].state = "READY" /\ IdxOf(d) \in Idx
    BY <1>8, <1>13, <2>1 DEF PopClaim, Slot
  <2>3. /\ d <= a /\ a - d <= Capacity
        /\ \A k \in 1..d : delivered[k] = accepted[k]
        /\ \A k \in (d + 1)..a : /\ slots[IdxOf(k - 1)].state = "READY"
                                /\ slots[IdxOf(k - 1)].data = accepted[k]
        /\ \A i \in Idx : slots[i].state = "READY" => \E k \in (d + 1)..a : i = IdxOf(k - 1)
    BY DEF RingInOrder, RingHolds
  <2>4. PICK k0 \in (d + 1)..a : IdxOf(d) = IdxOf(k0 - 1)
    BY <2>2, <2>3
  <2>5. d < a /\ d + 1 \in (d + 1)..a /\ (d + 1) - 1 = d
    BY <1>7, <2>4
  <2>6. slots[IdxOf(d)].data = accepted[d + 1] /\ accepted[d + 1] \in Ticks
    <3>1. slots[IdxOf(d)].data = accepted[d + 1]
      BY <2>3, <2>5
    <3>2. accepted \in Seq(Ticks) /\ d + 1 \in 1..a
      BY <1>1, <1>7, <2>5, HistoryTypes
    <3> QED BY <3>1, <3>2
  <2>7. /\ delivered' = Append(delivered, accepted[d + 1]) /\ Len(delivered') = d + 1
        /\ delivered'[d + 1] = accepted[d + 1] /\ \A k \in 1..d : delivered'[k] = delivered[k]
    BY <1>1, <1>13, <2>1, <2>6, HistoryTypes DEF PopClaim, Slot
  <2>8. /\ slots'[IdxOf(d)].state = "READING"
        /\ \A i \in Idx \ {IdxOf(d)} : slots'[i] = slots[i]
    BY <1>1, <1>13, <2>1, <2>2, HistoryTypes DEF PopClaim
  <2>9. accepted' = accepted /\ read_pos' = read_pos /\ pos' = pos /\ pc'[c] = "advance"
    BY <1>1, <1>2, <1>13, HistoryTypes DEF PopClaim, Goto
  <2>10. SyncDrained'
    BY <1>2, <1>3, <1>5, <2>5, <2>9, StopperAssumption DEF RingInOrder, SyncDrained
  <2>11. ReaderAt'
    BY <1>3, <1>7, <2>1, <2>7, <2>9 DEF ReaderAt
  <2> HIDE DEF a, d
  <2>12. a \in Nat /\ d \in Nat
    BY <1>7 DEF a, d
  <2>13. ASSUME NEW k \in (d + 2)..a
         PROVE  slots'[IdxOf(k - 1)].state = "READY" /\ slots'[IdxOf(k - 1)].data = accepted[k]
    <3>1. k \in (d + 1)..a /\ k - 1 \in Nat /\ d < k - 1 /\ (k - 1) - d < Capacity
      BY <2>3, <2>12, CapacityAssumption
    <3>2. IdxOf(d) # IdxOf(k - 1) /\ IdxOf(k - 1) \in Idx
      BY <2>12, <3>1, SlotsDiffer, IdxOfType
    <3> QED BY <2>3, <2>8, <3>1, <3>2
  <2>14. ASSUME NEW i \in Idx, slots'[i].state = "READY"
         PROVE  \E k \in (d + 2)..a : i = IdxOf(k - 1)
    <3>1. i # IdxOf(d) /\ slots[i].state = "READY"
      BY <2>8, <2>14
    <3>2. PICK k \in (d + 1)..a : i = IdxOf(k - 1)
      BY <2>3, <3>1
    <3>3. k # d + 1
      BY <2>5, <3>1, <3>2
    <3>4. k \in (d + 2)..a
      BY <2>12, <3>3
    <3> QED BY <3>2, <3>4
  <2>15. RingHolds'
    <3>1. \A k \in 1..(d + 1) : delivered'[k] = accepted[k]
      BY <2>3, <2>7, <2>12
    <3>2. d + 1 <= a /\ a - (d + 1) <= Capacity
      BY <2>3, <2>5, <2>12, CapacityAssumption
    <3>3. Len(accepted') = a /\ (d + 1) + 1 = d + 2
      BY <2>9, <2>12 DEF a
    <3> QED BY <2>7, <2>9, <2>13, <2>14, <3>1, <3>2, <3>3 DEF RingHolds
  <2> QED BY <1>6, <2>10, <2>11, <2>15 DEF RingInOrder
<1> QED BY <1>9, <1>10, <1>11, <1>12, <1>13 DEF ConsumeStep

(* stop() gets past drain_sync only when its last consume found the ring    *)
(* empty.                                                                   *)
LEMMA StopsDrained ==
    ASSUME [PipelineNext]_allVars, stopping' = "stopped"
    PROVE  stopping = "stopped" \/ pc[Stopper] = "empty"
  BY Zenon DEF PipelineNext, ProducerPipelineNext, TickIngest, IngestQueued, IngestBypass, DrainNext,
         DrainOuter, DrainConsume, DrainStore, DrainBreak, StopNext, StopSignal, StopJoined,
         DrainSyncConsume, DrainSyncStore, DrainSyncEnd, Terminated, allVars, pipelineVars

(* Between calls of consume the ring does not move.                         *)
LEMMA RingMove ==
    ASSUME PipelineInv, [PipelineNext]_allVars, RingInOrder,
           (\E c \in Consumers : StoreStep(c) \/ MoveStep(c)) \/ PhaseStep
    PROVE  RingInOrder'
<1>1. QueueInv
  BY DEF PipelineInv
<1>2. /\ UNCHANGED <<write_pos, read_pos, slots, pos, accepted, delivered>>
      /\ \A p \in Producers : pc'[p] = pc[p]
      /\ \A c \in Consumers : pc'[c] = pc[c] \/ pc'[c] \in {"idle", "exited"}
      /\ \A c \in Consumers : pc[c] = "advance" => pc'[c] = "advance"
  <2>1. CASE PhaseStep
    BY <2>1 DEF PhaseStep, vars, queueVars, history
  <2>2. ASSUME NEW c \in Consumers, StoreStep(c) \/ MoveStep(c)
        PROVE  /\ UNCHANGED <<write_pos, read_pos, slots, pos, accepted, delivered>>
               /\ pc[c] # "advance" /\ pc'[c] \in {"idle", "exited"}
               /\ \A t \in Threads \ {c} : pc'[t] = pc[t]
    BY <1>1, <2>2, HistoryTypes, Zenon DEF StoreStep, MoveStep, Goto, queueVars, history, Threads
  <2> QED BY <2>1, <2>2, ThreadsAssumption DEF Threads
<1>3. RingHolds'
  BY <1>1, <1>2, RingFrame DEF RingInOrder
<1>4. WriterAt'
  BY <1>2 DEF RingInOrder, WriterAt, Reserved
<1>5. ReaderAt'
  BY <1>2 DEF RingInOrder, ReaderAt
<1>6. SyncDrained'
  BY <1>2, StopsDrained, StopperAssumption DEF RingInOrder, SyncDrained
<1> QED BY <1>3, <1>4, <1>5, <1>6 DEF RingInOrder

-----------------------------------------------------------------------------
(* The theorems of the pipeline                                            *)

(* start() leaves the pipeline in a state that satisfies the invariant.     *)
LEMMA InitPipelineInv ==
    ASSUME PipelineInit
    PROVE  PipelineInv
<1> USE DEF PipelineInit
<1>1. QueueInv
  BY InitQueueInv
<1>2. /\ accepted = <<>> /\ delivered = <<>> /\ rejected = {} /\ stored = <<>>
      /\ seq_counter = 0 /\ write_pos = 0 /\ read_pos = 0
      /\ \A t \in Threads : pc[t] = "idle"
      /\ \A i \in Idx : slots[i].state = "EMPTY"
  BY DEF Init
<1>3. Stopper \in Threads /\ Producers \subseteq Threads /\ Consumers \subseteq Threads
      /\ Drainers \subseteq Consumers
  BY StopperAssumption DEF Threads, Drainers
<1>4. Range(accepted) = {} /\ Range(delivered) = {} /\ StoredTicks = {}
  BY <1>2 DEF Range, StoredTicks
<1>5. Counted = {}
  BY <1>2, <1>4 DEF Counted
<1>6. Cardinality(Counted) = 0
  BY <1>5, FS_EmptySet
<1>7. PipelineTypeOK
  <2>1. batch \in [Drainers -> 0..DrainBatch]
    BY DrainBatchAssumption
  <2>2. stored \in Seq([tick : Ticks, stamped : BOOLEAN])
    BY <1>2
  <2> QED BY <2>1, <2>2, MaxTicksAssumption DEF PipelineTypeOK
<1>8. PipelineRoles
  BY <1>2, <1>3 DEF PipelineRoles
<1>9. StoredOnce /\ StoredOrigin
  BY <1>2, <1>3, <1>4 DEF StoredOnce, StoredOrigin, Holding
<1>10. IngestCounted
  <2>1. 0..(seq_counter - 1) = {}
    BY <1>2
  <2> QED BY <1>2, <1>3, <1>6, <2>1 DEF IngestCounted, Returns
<1>11. RingInOrder
  <2>1. Len(accepted) = 0 /\ Len(delivered) = 0
    BY <1>2
  <2>2. RingHolds
    BY <1>2, <2>1, CapacityAssumption DEF RingHolds
  <2>3. WriterAt /\ ReaderAt /\ SyncDrained
    BY <1>2, <1>3, <2>1 DEF WriterAt, ReaderAt, SyncDrained, Reserved
  <2> QED BY <2>2, <2>3 DEF RingInOrder
<1> QED BY <1>1, <1>7, <1>8, <1>9, <1>10, <1>11 DEF PipelineInv

(* A tick refused once stays refused.                                       *)
LEMMA RefusalsStay ==
    ASSUME PipelineInv, [PipelineNext]_allVars
    PROVE  rejected \subseteq rejected'
<1>1. QueueInv
  BY DEF PipelineInv
<1>2. CASE UNCHANGED allVars \/ PhaseStep
  BY <1>2 DEF allVars, vars, history, PhaseStep
<1>3. ASSUME NEW p \in Producers, IngestStep(p) \/ IngestQueued(p) \/ IngestBypass(p)
      PROVE  rejected \subseteq rejected'
  BY <1>3, Zenon DEF IngestStep, IngestStamp, PushReserve, PushClaim, PushFull, PushWrite, PushPublish,
              IngestQueued, IngestBypass, history
<1>4. ASSUME NEW c \in Consumers, ConsumeStep(c) \/ StoreStep(c) \/ MoveStep(c)
      PROVE  rejected \subseteq rejected'
  BY <1>1, <1>4, ConsumeHeld, Zenon DEF StoreStep, MoveStep, history
<1> QED BY <1>2, <1>3, <1>4, PipelineSteps

(* Every step of the pipeline keeps the invariant.                          *)
LEMMA NextPipelineInv ==
    ASSUME PipelineInv, [PipelineNext]_allVars
    PROVE  PipelineInv'
<1>1. QueueInv' /\ PipelineRoles'
  BY PipelineKeepsQueue, PipelineKeepsRoles
<1>2. IngestCounted' /\ ticks_ingested' \in 0..MaxTicks
  BY PipelineKeepsCount
<1>3. PipelineTypeOK'
  BY <1>2, PipelineKeepsTypes DEF PipelineInv, PipelineTypeOK
<1>4. StoredOnce' /\ StoredOrigin'
  BY PipelineKeepsStored
<1>5. ASSUME OneToOne', rejected' = {} PROVE RingInOrder'
  <2>1. OneToOne /\ rejected = {}
    BY <1>5, PipelineKeepsTypes, RefusalsStay DEF OneToOne
  <2>2. RingInOrder
    BY <2>1 DEF PipelineInv
  <2>3. CASE UNCHANGED allVars
    BY <2>2, <2>3, RingMove DEF PhaseStep, allVars, pipelineVars
  <2>4. CASE \E p \in Producers : \/ IngestStep(p) /\ UNCHANGED pipelineVars
                                  \/ IngestQueued(p) \/ IngestBypass(p)
    BY <1>1, <1>5, <2>1, <2>2, <2>4, RingIngest, RingReturn
  <2>5. CASE \E c \in Consumers : Turn(c) /\ ConsumeStep(c) /\ UNCHANGED pipelineVars
    BY <2>1, <2>2, <2>5, RingConsume
  <2>6. CASE (\E c \in Consumers : StoreStep(c) \/ MoveStep(c)) \/ PhaseStep
    BY <2>2, <2>6, RingMove
  <2> QED BY <2>3, <2>4, <2>5, <2>6, PipelineSteps
<1> QED BY <1>1, <1>2, <1>3, <1>4, <1>5 DEF PipelineInv

(* ZeptoPipeline keeps PipelineInv: ingest_tick with its bypass, the drain  *)
(* threads and stop(), for any deployment.                                  *)
THEOREM PipelineInvariant == PipelineSpec => []PipelineInv
<1>1. PipelineInit => PipelineInv
  BY InitPipelineInv
<1>2. PipelineInv /\ [PipelineNext]_allVars => PipelineInv'
  BY NextPipelineInv
<1> QED BY <1>1, <1>2, PTL DEF PipelineSpec

(* A counted tick is stored, in a thread's hands or in the ring.            *)
LEMMA CountedAccounted ==
    ASSUME PipelineInv
    PROVE  IngestedAccounted
<1> DEFINE onTheWay == {item[c] : c \in {d \in Consumers : pc[d] \in {"clear", "popped"}}}
                       \cup {Slot(c).data : c \in {d \in Consumers : pc[d] \in {"advance", "read"}}}
           All == StoredTicks \cup onTheWay \cup ReadyTicks
<1>1. QueueInv /\ StoredOrigin /\ IngestCounted
  BY DEF PipelineInv
<1>2. Range(accepted) = Range(delivered) \cup ReadyTicks /\ Range(accepted) \subseteq Ticks
      /\ rejected \subseteq Ticks
  BY <1>1, RangeType DEF QueueInv, TypeOK, Conservation
<1>3. \A c \in Consumers : Holding(c) => Held(c) \in onTheWay
  BY DEF Holding, Held
<1>4. \A t \in onTheWay : \E c \in Consumers : Holding(c) /\ t = Held(c)
  BY DEF Holding, Held
<1> HIDE DEF onTheWay
<1>5. All \subseteq Ticks
  <2>1. onTheWay \subseteq Range(delivered)
    BY <1>1, <1>4 DEF QueueInv, HeldTicks
  <2> QED BY <1>1, <1>2, <2>1 DEF StoredOrigin
<1>6. Counted \subseteq All
  <2> SUFFICES ASSUME NEW t \in Counted, t \notin StoredTicks PROVE t \in onTheWay \cup ReadyTicks
    OBVIOUS
  <2>1. t \in Range(accepted) \cup rejected /\ \A p \in Producers : Returns(p) => item[p] # t
    BY DEF Counted
  <2>2. t \notin rejected
    BY <1>1, <2>1 DEF StoredOrigin, Returns
  <2>3. CASE t \in Range(delivered)
    BY <1>1, <1>3, <2>3 DEF StoredOrigin
  <2> QED BY <1>2, <2>1, <2>2, <2>3
<1>7. IsFiniteSet(Ticks)
  <2>1. 0 \in Int /\ MaxTicks - 1 \in Int
    BY MaxTicksAssumption
  <2> QED BY <2>1, FS_Interval, Zenon DEF Ticks
<1>8. IsFiniteSet(All)
  BY <1>5, <1>7, FS_Subset, Zenon
<1>9. Cardinality(Counted) <= Cardinality(All)
  BY <1>6, <1>8, FS_Subset, Zenon
<1> QED BY <1>1, <1>9 DEF IngestedAccounted, IngestCounted, onTheWay

(* Nobody is left inside a call when stop() has returned, and the ring is   *)
(* empty.                                                                   *)
LEMMA StoppedDrained ==
    ASSUME PipelineInv
    PROVE  StopDrainsAll
<1> SUFFICES ASSUME OneToOne, stopping = "stopped", rejected = {}
             PROVE  StoredTicks = 0..(seq_counter - 1)
  BY DEF StopDrainsAll
<1>1. QueueInv /\ PipelineRoles /\ StoredOrigin /\ IngestCounted /\ RingInOrder
  BY DEF PipelineInv
<1>2. \A p \in Producers : pc[p] = "idle"
  BY <1>1 DEF PipelineRoles
<1>3. \A c \in Consumers : pc[c] \in {"idle", "exited"}
  BY <1>1 DEF PipelineRoles
<1>4. Len(accepted) = Len(delivered) /\ Len(accepted) \in Nat
  BY <1>1, HistoryTypes DEF RingInOrder, SyncDrained
<1>5. \A i \in Idx : slots[i].state # "READY"
  BY <1>1, <1>4 DEF RingInOrder, RingHolds
<1>6. ReadyTicks = {}
  BY <1>5 DEF ReadyTicks
<1>7. Range(accepted) = Range(delivered)
  BY <1>1, <1>6 DEF QueueInv, Conservation
<1>8. Range(delivered) \subseteq StoredTicks
  BY <1>1, <1>3 DEF StoredOrigin, Holding
<1>9. 0..(seq_counter - 1) \subseteq Range(accepted)
  BY <1>1, <1>2 DEF IngestCounted, Undecided
<1>10. StoredTicks \subseteq Range(accepted)
  BY <1>1, <1>7 DEF StoredOrigin
<1>11. Range(accepted) \subseteq 0..(seq_counter - 1)
  <2>1. Range(accepted) \subseteq Ticks /\ \A t \in Range(accepted) : t < seq_counter
    BY <1>1, RangeType DEF QueueInv, TypeOK, FreshTicks
  <2>2. seq_counter \in Nat
    BY <1>1, MaxTicksAssumption DEF QueueInv, TypeOK
  <2> QED BY <2>1, <2>2, MaxTicksAssumption DEF Ticks
<1> QED BY <1>7, <1>8, <1>9, <1>10, <1>11, Zenon

(* However the drain threads, the feeds and stop() interleave, no tick is   *)
(* stored twice, none that ticks_ingested counts is lost, and a stop() that *)
(* met no full ring leaves none behind.                                     *)
THEOREM PipelineLosesNothing == PipelineSpec => []PipelineAccounted
<1>1. PipelineInv => PipelineAccounted
  BY CountedAccounted, StoppedDrained DEF PipelineInv, PipelineAccounted
<1> QED BY <1>1, PipelineInvariant, PTL

(* With one feed and one drain thread the ring of tick_plant.h is a FIFO    *)
(* queue until a push finds it full, whatever its capacity.                 *)
THEOREM PipelineFifo == PipelineSpec => []FifoUntilFull
<1>1. PipelineInv => FifoUntilFull
  <2> SUFFICES ASSUME PipelineInv, OneToOne, rejected = {}
               PROVE  /\ Len(delivered) <= Len(accepted)
                      /\ delivered = SubSeq(accepted, 1, Len(delivered))
    BY DEF FifoUntilFull
  <2>1. QueueInv /\ RingHolds
    BY DEF PipelineInv, RingInOrder
  <2>2. /\ accepted \in Seq(Ticks) /\ delivered \in Seq(Ticks)
        /\ Len(accepted) \in Nat /\ Len(delivered) \in Nat
    BY <2>1, HistoryTypes
  <2>3. Len(delivered) <= Len(accepted) /\ \A k \in 1..Len(delivered) : delivered[k] = accepted[k]
    BY <2>1 DEF RingHolds
  <2> QED BY <2>2, <2>3
<1> QED BY <1>1, PipelineInvariant, PTL

(* Once stop() is past drain_sync, no row is added and no slot changes      *)
(* under the final snapshot.                                                *)
THEOREM PipelineQuiet == PipelineSpec => QuietAfterStop
<1>1. PipelineInv /\ [PipelineNext]_allVars =>
        [stopping = "stopped" => UNCHANGED <<stored, slots>>]_allVars
  <2> SUFFICES ASSUME PipelineInv, PipelineNext, stopping = "stopped"
               PROVE  UNCHANGED <<stored, slots>>
    OBVIOUS
  <2>1. TypeOK /\ PipelineRoles /\ setup.drain_threads \subseteq Consumers
    BY SetupsAssumption DEF PipelineInv, QueueInv, PipelineTypeOK, SetupType, Drainers
  <2>2. /\ \A p \in Producers : pc[p] = "idle"
        /\ \A d \in setup.drain_threads : pc[d] = "exited"
        /\ pc[Stopper] = "idle"
    BY <2>1 DEF PipelineRoles
  <2>3. \A p \in Producers : ~ProducerPipelineNext(p)
    BY <2>2, Zenon DEF ProducerPipelineNext, TickIngest, IngestQueued, IngestBypass
  <2>4. \A d \in setup.drain_threads : ~DrainNext(d)
    BY <2>1, <2>2, OthersStay, Zenon DEF DrainNext, DrainOuter, DrainConsume, DrainStore, DrainBreak
  <2>5. ~StopNext
    BY <2>2, Zenon DEF StopNext, StopSignal, StopJoined, DrainSyncConsume, DrainSyncStore, DrainSyncEnd
  <2> QED BY <2>3, <2>4, <2>5 DEF PipelineNext, Terminated, allVars, pipelineVars, vars, queueVars
<1> QED BY <1>1, PipelineInvariant, PTL DEF PipelineSpec, QuietAfterStop

(* The queue inside the running pipeline is still the bounded bag: the      *)
(* bypass, the batches of drain_loop and drain_sync use it only through     *)
(* ingest and consume.                                                      *)
THEOREM PipelineImplementsBag == PipelineSpec => ImplementsQueue
<1>1. PipelineInit => Queue!Empty
  BY DEF PipelineInit, Init, Queue!Empty, ReadyTicks, Range
<1>2. PipelineInv /\ [PipelineNext]_allVars => [Queue!BagNext]_(Queue!bagVars)
  <2> SUFFICES ASSUME PipelineInv, [PipelineNext]_allVars
               PROVE  [Queue!BagNext]_(Queue!bagVars)
    OBVIOUS
  <2>1. QueueInv
    BY DEF PipelineInv
  <2>2. CASE UNCHANGED allVars \/ PhaseStep
    <3>1. UNCHANGED <<slots, history>>
      BY <2>2 DEF allVars, vars, queueVars, PhaseStep
    <3> QED BY <3>1, BagStutter
  <2>3. ASSUME NEW p \in Producers, IngestStep(p) \/ IngestQueued(p) \/ IngestBypass(p)
        PROVE  [Queue!BagNext]_(Queue!bagVars)
    <3>1. IngestQueued(p) \/ IngestBypass(p) => IngestReturn(p)
      BY Zenon DEF IngestQueued, IngestBypass, IngestReturn
    <3>2. ProducerNext(p)
      BY <2>3, <3>1 DEF ProducerNext
    <3> QED BY <2>1, <3>2, ProducerRefines
  <2>4. ASSUME NEW c \in Consumers, ConsumeStep(c) PROVE [Queue!BagNext]_(Queue!bagVars)
    <3>1. ConsumerNext(c)
      BY <2>4 DEF ConsumerNext
    <3> QED BY <2>1, <3>1, ConsumerRefines
  <2>5. ASSUME NEW c \in Consumers, StoreStep(c) \/ MoveStep(c)
        PROVE  [Queue!BagNext]_(Queue!bagVars)
    <3>1. UNCHANGED <<slots, history>>
      BY <2>5, Zenon DEF StoreStep, MoveStep, queueVars
    <3> QED BY <3>1, BagStutter
  <2> QED BY <2>2, <2>3, <2>4, <2>5, PipelineSteps
<1> QED BY <1>1, <1>2, PipelineInvariant, PTL DEF PipelineSpec, ImplementsQueue, Queue!BagSpec
=============================================================================
