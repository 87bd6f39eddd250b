-------------------------- MODULE TickPlantProofs --------------------------
(***************************************************************************)
(* The safety of the ingestion queue for any number of producers and       *)
(* consumers, any ring size and any number of ticks, and that the ring     *)
(* implements the bounded bag of TickQueue.                                *)
(***************************************************************************)
EXTENDS TickPlant, FiniteSetTheorems, TLAPS

USE SMTT(20), ZenonT(20)

-----------------------------------------------------------------------------
(* Sequences as sets                                                       *)

(* Appending adds one element to the range of a sequence (the histories    *)
(* accepted and delivered only grow by Append).                            *)
LEMMA RangeAppend ==
    ASSUME NEW S, NEW s \in Seq(S), NEW x \in S
    PROVE  Range(Append(s, x)) = Range(s) \cup {x}
<1> DEFINE t == Append(s, x)
<1>1. DOMAIN s = 1..Len(s) /\ DOMAIN t = 1..(Len(s) + 1) /\ Len(s) \in Nat
  OBVIOUS
<1>2. t[Len(s) + 1] = x /\ \A i \in 1..Len(s) : t[i] = s[i]
  OBVIOUS
<1> HIDE DEF t
<1>3. ASSUME NEW y \in Range(t) PROVE y \in Range(s) \cup {x}
  <2>1. PICK i \in 1..(Len(s) + 1) : y = t[i]
    BY <1>1, <1>3 DEF Range
  <2> QED BY <1>1, <1>2, <2>1 DEF Range
<1>4. ASSUME NEW y \in Range(s) \cup {x} PROVE y \in Range(t)
  <2>1. CASE y = x
    BY <1>1, <1>2, <2>1 DEF Range
  <2>2. CASE y \in Range(s)
    <3>1. PICK i \in 1..Len(s) : y = s[i]
      BY <1>1, <2>2 DEF Range
    <3> QED BY <1>1, <1>2, <3>1 DEF Range
  <2> QED BY <1>4, <2>1, <2>2
<1> QED BY <1>3, <1>4 DEF t

(* The elements of a sequence over S are in S.                             *)
LEMMA RangeType ==
    ASSUME NEW S, NEW s \in Seq(S)
    PROVE  Range(s) \subseteq S
  BY DEF Range

(* Appending a fresh element keeps a sequence free of repetitions.         *)
LEMMA InjectiveAppend ==
    ASSUME NEW S, NEW s \in Seq(S), NEW x \in S,
           IsInjective(s), x \notin Range(s)
    PROVE  IsInjective(Append(s, x))
  BY DEF Range, IsInjective

-----------------------------------------------------------------------------
(* Positions are mapped into the ring (pos & mask_ in try_push, try_pop).  *)
LEMMA IdxOfType == \A n \in Nat : IdxOf(n) \in Idx
  BY CapacityAssumption DEF IdxOf, Idx

(* The empty queue satisfies the invariant.                                *)
LEMMA InitQueueInv == Init => QueueInv
<1> SUFFICES ASSUME Init PROVE QueueInv
  OBVIOUS
<1> USE DEF Init
<1>1. TypeOK
  BY MaxTicksAssumption DEF TypeOK, SlotState, Ticks, NoTick, ProducerPC
<1>2. ThreadRoles
  BY DEF ThreadRoles, ProducerPC, ConsumerPC, Threads
<1>3. SlotExclusion
  BY DEF SlotExclusion, WritersOf, ReadersOf, Threads
<1>4. FreshTicks /\ WrittenPayload /\ HeldTicks
  BY DEF FreshTicks, WrittenPayload, HeldTicks, Undecided, Holding, Threads, Range
<1>5. Conservation
  BY DEF Conservation, ReadyTicks, Range, IsInjective
<1> QED BY <1>1, <1>2, <1>3, <1>4, <1>5 DEF QueueInv

-----------------------------------------------------------------------------
(* One lemma per step of ingest and consume.                               *)

(* A tick between its stamp and the outcome of try_push is a real tick.    *)
LEMMA UndecidedTick ==
    ASSUME QueueInv, NEW p \in Producers, Undecided(p)
    PROVE  item[p] \in Ticks
  BY MaxTicksAssumption DEF QueueInv, TypeOK, FreshTicks, Ticks, NoTick, Threads

(* A published slot holds an accepted tick.                                *)
LEMMA ReadyTick ==
    ASSUME QueueInv, NEW i \in Idx, slots[i].state = "READY"
    PROVE  slots[i].data \in Ticks
<1>1. slots[i].data \in Range(accepted)
  BY DEF QueueInv, Conservation, ReadyTicks
<1> QED BY <1>1, RangeType DEF QueueInv, TypeOK

(* ingest stamps a fresh sequence number.                                  *)
LEMMA StampStep ==
    ASSUME QueueInv, NEW p \in Producers, IngestStamp(p)
    PROVE  QueueInv'
<1> USE DEF QueueInv, IngestStamp, Goto, queueVars, history
<1>1. TypeOK'
  BY MaxTicksAssumption DEF TypeOK, Ticks, NoTick, Threads, ProducerPC
<1>2. ThreadRoles'
  BY ThreadsAssumption DEF TypeOK, ThreadRoles, ProducerPC, ConsumerPC, Threads
<1>3. SlotExclusion'
  BY ThreadsAssumption DEF TypeOK, SlotExclusion, WritersOf, ReadersOf, Threads
<1>4. FreshTicks'
  <2>1. Range(accepted) \cup rejected \subseteq Ticks
    BY RangeType DEF TypeOK
  <2>2. /\ item'[p] = seq_counter
        /\ \A q \in Producers \ {p} : item'[q] = item[q] /\ pc'[q] = pc[q]
        /\ seq_counter \in Nat /\ seq_counter' = seq_counter + 1
        /\ accepted' = accepted /\ rejected' = rejected
    BY MaxTicksAssumption DEF TypeOK, Threads
  <2>3. \A t \in Range(accepted) \cup rejected : t \in Nat /\ t < seq_counter
    BY <2>1, MaxTicksAssumption DEF FreshTicks, Ticks
  <2>4. \A q \in Producers : Undecided(q) => item[q] < seq_counter /\ item[q] \in Nat
    BY MaxTicksAssumption DEF TypeOK, FreshTicks, Threads, Ticks, NoTick
  <2> QED BY <2>2, <2>3, <2>4 DEF FreshTicks, Undecided
<1>5. WrittenPayload'
  BY ThreadsAssumption DEF TypeOK, WrittenPayload, Slot, Threads
<1>6. HeldTicks'
  BY ThreadsAssumption DEF TypeOK, HeldTicks, Holding, Held, Slot, Threads
<1>7. Conservation'
  BY DEF Conservation, ReadyTicks
<1> QED BY <1>1, <1>2, <1>3, <1>4, <1>5, <1>6, <1>7

(* try_push reserves a position; the slot is not touched yet.              *)
LEMMA ReserveStep ==
    ASSUME QueueInv, NEW p \in Producers, PushReserve(p)
    PROVE  QueueInv'
<1> USE DEF QueueInv, PushReserve, Goto, queueVars, history
<1>1. TypeOK'
  BY MaxTicksAssumption, IdxOfType DEF TypeOK, Ticks, NoTick, Threads, ProducerPC, ConsumerPC, SlotState
<1>2. ThreadRoles'
  BY ThreadsAssumption DEF TypeOK, ThreadRoles, ProducerPC, ConsumerPC, Threads
<1>3. SlotExclusion'
  <2>1. \A i \in Idx : WritersOf(i)' = WritersOf(i)
    BY DEF TypeOK, WritersOf, Threads
  <2>2. \A i \in Idx : ReadersOf(i)' = ReadersOf(i)
    BY ThreadsAssumption DEF TypeOK, ReadersOf, Threads
  <2> QED BY <2>1, <2>2 DEF SlotExclusion
<1>4. FreshTicks'
  BY DEF TypeOK, FreshTicks, Undecided, Threads
<1>5. WrittenPayload'
  BY ThreadsAssumption DEF TypeOK, WrittenPayload, Slot, Threads
<1>6. HeldTicks'
  BY ThreadsAssumption DEF TypeOK, HeldTicks, Holding, Held, Slot, Threads
<1>7. Conservation'
  BY DEF Conservation, ReadyTicks
<1> QED BY <1>1, <1>2, <1>3, <1>4, <1>5, <1>6, <1>7

(* try_push finds the slot taken and reports the tick as not queued.       *)
LEMMA FullStep ==
    ASSUME QueueInv, NEW p \in Producers, PushFull(p)
    PROVE  QueueInv'
<1> USE DEF QueueInv, PushFull, Goto, queueVars, history
<1>1. TypeOK'
  <2>1. item[p] \in Ticks
    BY UndecidedTick DEF Undecided
  <2> QED BY <2>1 DEF TypeOK, Threads, ProducerPC
<1>2. ThreadRoles'
  BY ThreadsAssumption DEF TypeOK, ThreadRoles, ProducerPC, ConsumerPC, Threads
<1>3. SlotExclusion'
  BY ThreadsAssumption DEF TypeOK, SlotExclusion, WritersOf, ReadersOf, Threads
<1>4. FreshTicks'
  BY DEF TypeOK, FreshTicks, Undecided, Threads
<1>5. WrittenPayload'
  BY ThreadsAssumption DEF TypeOK, WrittenPayload, Slot, Threads
<1>6. HeldTicks'
  BY ThreadsAssumption DEF TypeOK, HeldTicks, Holding, Held, Slot, Threads
<1>7. Conservation'
  BY DEF Conservation, ReadyTicks, FreshTicks, Undecided
<1> QED BY <1>1, <1>2, <1>3, <1>4, <1>5, <1>6, <1>7

(* try_push wins the slot.                                                 *)
LEMMA ClaimStep ==
    ASSUME QueueInv, NEW p \in Producers, PushClaim(p)
    PROVE  QueueInv'
<1> USE DEF QueueInv, PushClaim, Goto, queueVars, history
<1> DEFINE i0 == IdxOf(pos[p])
<1>a. /\ i0 \in Idx
      /\ slots'[i0] = [state |-> "WRITING", data |-> slots[i0].data]
      /\ \A i \in Idx \ {i0} : slots'[i] = slots[i]
  BY IdxOfType DEF TypeOK, Threads
<1>1. TypeOK'
  BY MaxTicksAssumption, IdxOfType, Zenon DEF TypeOK, Ticks, NoTick, Threads, ProducerPC, ConsumerPC, SlotState
<1>2. ThreadRoles'
  BY ThreadsAssumption DEF TypeOK, ThreadRoles, ProducerPC, ConsumerPC, Threads
<1>3. SlotExclusion'
  <2>1. \A i \in Idx : ReadersOf(i)' = ReadersOf(i)
    BY ThreadsAssumption DEF TypeOK, ReadersOf, Threads
  <2>2. \A i \in Idx \ {i0} : WritersOf(i)' = WritersOf(i)
    BY <1>a DEF TypeOK, WritersOf, Threads
  <2>3. WritersOf(i0) = {} /\ ReadersOf(i0) = {}
    BY <1>a DEF SlotExclusion, Slot
  <2>4. WritersOf(i0)' = {p}
    BY <2>3 DEF TypeOK, WritersOf, Threads
  <2> QED BY <1>a, <2>1, <2>2, <2>3, <2>4 DEF SlotExclusion
<1>4. FreshTicks'
  BY DEF TypeOK, FreshTicks, Undecided, Threads
<1>5. WrittenPayload'
  BY ThreadsAssumption DEF TypeOK, WrittenPayload, Slot, Threads
<1>6. HeldTicks'
  BY ThreadsAssumption DEF TypeOK, HeldTicks, Holding, Held, Slot, Threads
<1>7. Conservation'
  <2>1. ReadyTicks' = ReadyTicks
    BY <1>a DEF ReadyTicks, Slot
  <2> QED BY <1>a, <2>1 DEF Conservation
<1> QED BY <1>1, <1>2, <1>3, <1>4, <1>5, <1>6, <1>7

(* try_push fills the slot it owns.                                        *)
LEMMA WriteStep ==
    ASSUME QueueInv, NEW p \in Producers, PushWrite(p)
    PROVE  QueueInv'
<1> USE DEF QueueInv, PushWrite, Goto, queueVars, history
<1> DEFINE i0 == IdxOf(pos[p])
<1>a. /\ i0 \in Idx
      /\ slots'[i0] = [state |-> slots[i0].state, data |-> item[p]]
      /\ \A i \in Idx \ {i0} : slots'[i] = slots[i]
  BY IdxOfType DEF TypeOK, Threads
<1>b. slots[i0].state = "WRITING"
  BY <1>a DEF SlotExclusion, WritersOf
<1>1. TypeOK'
  BY MaxTicksAssumption, IdxOfType, Zenon DEF TypeOK, Ticks, NoTick, Threads, ProducerPC, ConsumerPC, SlotState
<1>2. ThreadRoles'
  BY ThreadsAssumption DEF TypeOK, ThreadRoles, ProducerPC, ConsumerPC, Threads
<1>3. SlotExclusion'
  BY ThreadsAssumption DEF TypeOK, SlotExclusion, WritersOf, ReadersOf, Threads
<1>4. FreshTicks'
  BY DEF TypeOK, FreshTicks, Undecided, Threads
<1>5. WrittenPayload'
  <2> SUFFICES ASSUME NEW q \in Producers, pc'[q] = "publish"
               PROVE  slots'[IdxOf(pos[q])].data = item[q]
    BY DEF WrittenPayload, Slot
  <2>1. CASE q = p
    BY <1>a, <2>1
  <2>2. CASE q # p
    <3>1. pc[q] = "publish" /\ IdxOf(pos[q]) \in Idx
      BY <2>2, IdxOfType DEF TypeOK, Threads
    <3>2. IdxOf(pos[q]) # i0
      BY <1>a, <2>2, <3>1 DEF SlotExclusion, WritersOf
    <3> QED BY <1>a, <3>1, <3>2 DEF WrittenPayload, Slot
  <2> QED BY <2>1, <2>2
<1>6. HeldTicks'
  <2>1. \A c \in Consumers : pc'[c] = pc[c]
    BY ThreadsAssumption DEF TypeOK, Threads
  <2>2. ASSUME NEW c \in Consumers, pc[c] \in {"advance", "read"}
        PROVE  slots'[IdxOf(pos[c])] = slots[IdxOf(pos[c])]
    <3>1. IdxOf(pos[c]) \in Idx /\ slots[IdxOf(pos[c])].state = "READING"
      BY <2>2, IdxOfType DEF TypeOK, SlotExclusion, ReadersOf, Threads
    <3> QED BY <1>a, <1>b, <3>1
  <2>3. \A c \in Consumers : Holding(c)' <=> Holding(c)
    BY <2>1 DEF Holding
  <2>4. \A c \in Consumers : Held(c)' = Held(c)
    <3> TAKE c \in Consumers
    <3>1. CASE pc[c] \in {"advance", "read"}
      <4>1. Held(c) = slots[IdxOf(pos[c])].data
        BY <3>1 DEF Held, Slot
      <4>2. Held(c)' = slots'[IdxOf(pos[c])].data
        BY <2>1, <3>1 DEF Held, Slot
      <4> QED BY <2>2, <3>1, <4>1, <4>2, Zenon
    <3>2. CASE pc[c] \notin {"advance", "read"}
      BY <2>1, <3>2 DEF Held
    <3> QED BY <3>1, <3>2
  <2> QED BY <2>3, <2>4 DEF HeldTicks
<1>7. Conservation'
  <2>1. ReadyTicks' = ReadyTicks
    BY <1>a, <1>b DEF ReadyTicks
  <2> QED BY <1>a, <1>b, <2>1 DEF Conservation
<1> QED BY <1>1, <1>2, <1>3, <1>4, <1>5, <1>6, <1>7

(* try_push publishes its tick.                                            *)
LEMMA PublishStep ==
    ASSUME QueueInv, NEW p \in Producers, PushPublish(p)
    PROVE  QueueInv'
<1> USE DEF QueueInv, PushPublish, Goto, queueVars, history
<1> DEFINE i0 == IdxOf(pos[p])
<1>a. /\ i0 \in Idx
      /\ slots'[i0] = [state |-> "READY", data |-> slots[i0].data]
      /\ \A i \in Idx \ {i0} : slots'[i] = slots[i]
  BY IdxOfType DEF TypeOK, Threads
<1>b. /\ slots[i0].state = "WRITING" /\ slots[i0].data = item[p]
      /\ item[p] \in Ticks
  BY <1>a, UndecidedTick DEF SlotExclusion, WritersOf, WrittenPayload, Slot, Undecided
<1>c. Range(accepted') = Range(accepted) \cup {item[p]}
  BY <1>b, RangeAppend DEF TypeOK
<1>1. TypeOK'
  BY <1>a, <1>b DEF TypeOK, Threads, ProducerPC, SlotState
<1>2. ThreadRoles'
  BY ThreadsAssumption DEF TypeOK, ThreadRoles, ProducerPC, ConsumerPC, Threads
<1>3. SlotExclusion'
  BY ThreadsAssumption DEF TypeOK, SlotExclusion, WritersOf, ReadersOf, Threads
<1>4. FreshTicks'
  BY <1>c DEF TypeOK, FreshTicks, Undecided, Threads
<1>5. WrittenPayload'
  BY ThreadsAssumption DEF TypeOK, WrittenPayload, Slot, Threads
<1>6. HeldTicks'
  BY ThreadsAssumption DEF TypeOK, HeldTicks, Holding, Held, Slot, Threads
<1>7. Conservation'
  <2>1. ReadyTicks' = ReadyTicks \cup {item[p]}
    BY <1>a, <1>b DEF ReadyTicks
  <2>2. item[p] \notin Range(accepted) \cup rejected
    BY DEF FreshTicks, Undecided
  <2>3. IsInjective(accepted')
    BY <1>b, <2>2, InjectiveAppend DEF TypeOK, Conservation
  <2>4. \A i \in Idx : slots[i].state = "READY" => slots[i].data # item[p]
    BY <2>2 DEF Conservation, ReadyTicks
  <2> QED BY <1>a, <1>b, <1>c, <2>1, <2>2, <2>3, <2>4 DEF Conservation
<1> QED BY <1>1, <1>2, <1>3, <1>4, <1>5, <1>6, <1>7

(* ingest returns to its caller.                                           *)
LEMMA IngestReturnStep ==
    ASSUME QueueInv, NEW p \in Producers, IngestReturn(p)
    PROVE  QueueInv'
<1> USE DEF QueueInv, IngestReturn, Goto, queueVars, history
<1>1. TypeOK'
  BY MaxTicksAssumption, IdxOfType DEF TypeOK, Ticks, NoTick, Threads, ProducerPC, ConsumerPC, SlotState
<1>2. ThreadRoles'
  BY ThreadsAssumption DEF TypeOK, ThreadRoles, ProducerPC, ConsumerPC, Threads
<1>3. SlotExclusion'
  BY ThreadsAssumption DEF TypeOK, SlotExclusion, WritersOf, ReadersOf, Threads
<1>4. FreshTicks'
  BY DEF TypeOK, FreshTicks, Undecided, Threads
<1>5. WrittenPayload'
  BY ThreadsAssumption DEF TypeOK, WrittenPayload, Slot, Threads
<1>6. HeldTicks'
  BY ThreadsAssumption DEF TypeOK, HeldTicks, Holding, Held, Slot, Threads
<1>7. Conservation'
  BY DEF Conservation, ReadyTicks
<1> QED BY <1>1, <1>2, <1>3, <1>4, <1>5, <1>6, <1>7

(* try_pop reads the read position.                                        *)
LEMMA PopLoadStep ==
    ASSUME QueueInv, NEW c \in Consumers, PopLoad(c)
    PROVE  QueueInv'
<1> USE DEF QueueInv, PopLoad, Goto, queueVars, history
<1>1. TypeOK'
  BY MaxTicksAssumption, IdxOfType DEF TypeOK, Ticks, NoTick, Threads, ProducerPC, ConsumerPC, SlotState
<1>2. ThreadRoles'
  BY ThreadsAssumption DEF TypeOK, ThreadRoles, ProducerPC, ConsumerPC, Threads
<1>3. SlotExclusion'
  BY ThreadsAssumption DEF TypeOK, SlotExclusion, WritersOf, ReadersOf, Threads
<1>4. FreshTicks'
  BY DEF TypeOK, FreshTicks, Undecided, Threads
<1>5. WrittenPayload'
  BY ThreadsAssumption DEF TypeOK, WrittenPayload, Slot, Threads
<1>6. HeldTicks'
  BY ThreadsAssumption DEF TypeOK, HeldTicks, Holding, Held, Slot, Threads
<1>7. Conservation'
  BY DEF Conservation, ReadyTicks
<1> QED BY <1>1, <1>2, <1>3, <1>4, <1>5, <1>6, <1>7

(* try_pop finds nothing to read.                                          *)
LEMMA PopEmptyStep ==
    ASSUME QueueInv, NEW c \in Consumers, PopEmpty(c)
    PROVE  QueueInv'
<1> USE DEF QueueInv, PopEmpty, Goto, queueVars, history
<1>1. TypeOK'
  BY MaxTicksAssumption, IdxOfType DEF TypeOK, Ticks, NoTick, Threads, ProducerPC, ConsumerPC, SlotState
<1>2. ThreadRoles'
  BY ThreadsAssumption DEF TypeOK, ThreadRoles, ProducerPC, ConsumerPC, Threads
<1>3. SlotExclusion'
  BY ThreadsAssumption DEF TypeOK, SlotExclusion, WritersOf, ReadersOf, Threads
<1>4. FreshTicks'
  BY DEF TypeOK, FreshTicks, Undecided, Threads
<1>5. WrittenPayload'
  BY ThreadsAssumption DEF TypeOK, WrittenPayload, Slot, Threads
<1>6. HeldTicks'
  BY ThreadsAssumption DEF TypeOK, HeldTicks, Holding, Held, Slot, Threads
<1>7. Conservation'
  BY DEF Conservation, ReadyTicks
<1> QED BY <1>1, <1>2, <1>3, <1>4, <1>5, <1>6, <1>7

(* try_pop wins a published slot.                                          *)
LEMMA PopClaimStep ==
    ASSUME QueueInv, NEW c \in Consumers, PopClaim(c)
    PROVE  QueueInv'
<1> USE DEF QueueInv, PopClaim, Goto, queueVars, history
<1> DEFINE i0 == IdxOf(pos[c])
<1>a. /\ i0 \in Idx
      /\ slots'[i0] = [state |-> "READING", data |-> slots[i0].data]
      /\ \A i \in Idx \ {i0} : slots'[i] = slots[i]
  BY IdxOfType DEF TypeOK, Threads
<1>b. slots[i0].state = "READY" /\ slots[i0].data \in Ticks
  BY <1>a, ReadyTick DEF Slot
<1>c. Range(delivered') = Range(delivered) \cup {slots[i0].data}
  BY <1>b, RangeAppend DEF TypeOK, Slot
<1>d. slots[i0].data \notin Range(delivered)
  BY <1>a, <1>b DEF Conservation, ReadyTicks
<1>1. TypeOK'
  BY <1>a, <1>b DEF TypeOK, Threads, ConsumerPC, SlotState, Slot
<1>2. ThreadRoles'
  BY ThreadsAssumption DEF TypeOK, ThreadRoles, ProducerPC, ConsumerPC, Threads
<1>3. SlotExclusion'
  <2>1. \A i \in Idx : WritersOf(i)' = WritersOf(i)
    BY ThreadsAssumption DEF TypeOK, WritersOf, Threads
  <2>2. \A i \in Idx \ {i0} : ReadersOf(i)' = ReadersOf(i)
    BY <1>a DEF TypeOK, ReadersOf, Threads
  <2>3. WritersOf(i0) = {} /\ ReadersOf(i0) = {}
    BY <1>a, <1>b DEF SlotExclusion
  <2>4. ReadersOf(i0)' = {c}
    BY <2>3 DEF TypeOK, ReadersOf, Threads
  <2> QED BY <1>a, <2>1, <2>2, <2>3, <2>4 DEF SlotExclusion
<1>4. FreshTicks'
  BY DEF TypeOK, FreshTicks, Undecided, Threads
<1>5. WrittenPayload'
  BY ThreadsAssumption DEF TypeOK, WrittenPayload, Slot, Threads
<1>6. HeldTicks'
  <2>1. Holding(c)' /\ Held(c)' = slots[i0].data /\ ~ Holding(c)
    BY <1>a DEF TypeOK, Holding, Held, Slot, Threads
  <2>2. \A d \in Consumers \ {c} : Holding(d)' = Holding(d)
    BY DEF TypeOK, Holding, Threads
  <2>3. ASSUME NEW d \in Consumers \ {c}, pc[d] \in {"advance", "read"}
        PROVE  slots'[IdxOf(pos[d])] = slots[IdxOf(pos[d])]
    <3>1. IdxOf(pos[d]) \in Idx /\ slots[IdxOf(pos[d])].state = "READING"
      BY <2>3, IdxOfType DEF TypeOK, SlotExclusion, ReadersOf, Threads
    <3> QED BY <1>a, <1>b, <3>1
  <2>4. \A d \in Consumers \ {c} : Held(d)' = Held(d)
    BY <2>3 DEF TypeOK, Held, Slot, Threads
  <2> QED BY <1>c, <1>d, <2>1, <2>2, <2>4 DEF HeldTicks
<1>7. Conservation'
  <2>1. ReadyTicks' = ReadyTicks \ {slots[i0].data}
    BY <1>a, <1>b DEF ReadyTicks, Conservation
  <2>2. slots[i0].data \in ReadyTicks
    BY <1>a, <1>b DEF ReadyTicks
  <2>3. IsInjective(delivered')
    BY <1>b, <1>d, InjectiveAppend DEF TypeOK, Conservation, Slot
  <2> QED BY <1>a, <1>c, <2>1, <2>2, <2>3 DEF Conservation
<1> QED BY <1>1, <1>2, <1>3, <1>4, <1>5, <1>6, <1>7

(* try_pop advances the shared read position.                              *)
LEMMA PopAdvanceStep ==
    ASSUME QueueInv, NEW c \in Consumers, PopAdvance(c)
    PROVE  QueueInv'
<1> USE DEF QueueInv, PopAdvance, Goto, queueVars, history
<1>1. TypeOK'
  BY MaxTicksAssumption, IdxOfType DEF TypeOK, Ticks, NoTick, Threads, ProducerPC, ConsumerPC, SlotState
<1>2. ThreadRoles'
  BY ThreadsAssumption DEF TypeOK, ThreadRoles, ProducerPC, ConsumerPC, Threads
<1>3. SlotExclusion'
  BY ThreadsAssumption DEF TypeOK, SlotExclusion, WritersOf, ReadersOf, Threads
<1>4. FreshTicks'
  BY DEF TypeOK, FreshTicks, Undecided, Threads
<1>5. WrittenPayload'
  BY ThreadsAssumption DEF TypeOK, WrittenPayload, Slot, Threads
<1>6. HeldTicks'
  BY ThreadsAssumption DEF TypeOK, HeldTicks, Holding, Held, Slot, Threads
<1>7. Conservation'
  BY DEF Conservation, ReadyTicks
<1> QED BY <1>1, <1>2, <1>3, <1>4, <1>5, <1>6, <1>7

(* try_pop copies the tick out of the slot it owns.                        *)
LEMMA PopReadStep ==
    ASSUME QueueInv, NEW c \in Consumers, PopRead(c)
    PROVE  QueueInv'
<1> USE DEF QueueInv, PopRead, Goto, queueVars, history
<1>1. TypeOK'
  <2>1. Slot(c).data \in Ticks \cup {NoTick}
    BY IdxOfType DEF TypeOK, Slot, Threads
  <2> QED BY <2>1 DEF TypeOK, Threads, ConsumerPC
<1>2. ThreadRoles'
  BY ThreadsAssumption DEF TypeOK, ThreadRoles, ProducerPC, ConsumerPC, Threads
<1>3. SlotExclusion'
  BY ThreadsAssumption DEF TypeOK, SlotExclusion, WritersOf, ReadersOf, Threads
<1>4. FreshTicks'
  BY DEF TypeOK, FreshTicks, Undecided, Threads
<1>5. WrittenPayload'
  BY ThreadsAssumption DEF TypeOK, WrittenPayload, Slot, Threads
<1>6. HeldTicks'
  BY ThreadsAssumption DEF TypeOK, HeldTicks, Holding, Held, Slot, Threads
<1>7. Conservation'
  BY DEF Conservation, ReadyTicks
<1> QED BY <1>1, <1>2, <1>3, <1>4, <1>5, <1>6, <1>7

(* try_pop gives the slot back.                                            *)
LEMMA PopClearStep ==
    ASSUME QueueInv, NEW c \in Consumers, PopClear(c)
    PROVE  QueueInv'
<1> USE DEF QueueInv, PopClear, Goto, queueVars, history
<1> DEFINE i0 == IdxOf(pos[c])
<1>a. /\ i0 \in Idx
      /\ slots'[i0] = [state |-> "EMPTY", data |-> slots[i0].data]
      /\ \A i \in Idx \ {i0} : slots'[i] = slots[i]
  BY IdxOfType DEF TypeOK, Threads
<1>1. TypeOK'
  BY MaxTicksAssumption, IdxOfType, Zenon DEF TypeOK, Ticks, NoTick, Threads, ProducerPC, ConsumerPC, SlotState
<1>2. ThreadRoles'
  BY ThreadsAssumption DEF TypeOK, ThreadRoles, ProducerPC, ConsumerPC, Threads
<1>3. SlotExclusion'
  BY ThreadsAssumption DEF TypeOK, SlotExclusion, WritersOf, ReadersOf, Threads
<1>4. FreshTicks'
  BY DEF TypeOK, FreshTicks, Undecided, Threads
<1>5. WrittenPayload'
  BY ThreadsAssumption DEF TypeOK, WrittenPayload, Slot, Threads
<1>6. HeldTicks'
  BY ThreadsAssumption DEF TypeOK, HeldTicks, Holding, Held, Slot, Threads
<1>7. Conservation'
  <2>1. slots[i0].state = "READING"
    BY <1>a DEF SlotExclusion, ReadersOf
  <2>2. ReadyTicks' = ReadyTicks
    BY <1>a, <2>1 DEF ReadyTicks
  <2> QED BY <1>a, <2>1, <2>2 DEF Conservation
<1> QED BY <1>1, <1>2, <1>3, <1>4, <1>5, <1>6, <1>7

(* consume returns to its caller.                                          *)
LEMMA ConsumeReturnStep ==
    ASSUME QueueInv, NEW c \in Consumers, ConsumeReturn(c)
    PROVE  QueueInv'
<1> USE DEF QueueInv, ConsumeReturn, Goto, queueVars, history
<1>1. TypeOK'
  BY MaxTicksAssumption, IdxOfType DEF TypeOK, Ticks, NoTick, Threads, ProducerPC, ConsumerPC, SlotState
<1>2. ThreadRoles'
  BY ThreadsAssumption DEF TypeOK, ThreadRoles, ProducerPC, ConsumerPC, Threads
<1>3. SlotExclusion'
  BY ThreadsAssumption DEF TypeOK, SlotExclusion, WritersOf, ReadersOf, Threads
<1>4. FreshTicks'
  BY DEF TypeOK, FreshTicks, Undecided, Threads
<1>5. WrittenPayload'
  BY ThreadsAssumption DEF TypeOK, WrittenPayload, Slot, Threads
<1>6. HeldTicks'
  BY ThreadsAssumption DEF TypeOK, HeldTicks, Holding, Held, Slot, Threads
<1>7. Conservation'
  BY DEF Conservation, ReadyTicks
<1> QED BY <1>1, <1>2, <1>3, <1>4, <1>5, <1>6, <1>7

-----------------------------------------------------------------------------
(* Every step of ingest and consume preserves the invariant.               *)
LEMMA NextQueueInv == QueueInv /\ [Next]_vars => QueueInv'
<1> SUFFICES ASSUME QueueInv, [Next]_vars PROVE QueueInv'
  OBVIOUS
<1>1. CASE UNCHANGED vars
  BY <1>1 DEF vars, queueVars, history, QueueInv, TypeOK, ThreadRoles, SlotExclusion,
              WritersOf, ReadersOf, FreshTicks, Undecided, WrittenPayload, HeldTicks,
              Holding, Held, Slot, Conservation, ReadyTicks
<1>2. ASSUME NEW p \in Producers, ProducerNext(p) PROVE QueueInv'
  BY <1>2, StampStep, ReserveStep, ClaimStep, FullStep, WriteStep, PublishStep,
     IngestReturnStep DEF ProducerNext, IngestStep
<1>3. ASSUME NEW c \in Consumers, ConsumerNext(c) PROVE QueueInv'
  BY <1>3, PopLoadStep, PopEmptyStep, PopClaimStep, PopAdvanceStep, PopReadStep,
     PopClearStep, ConsumeReturnStep DEF ConsumerNext, ConsumeStep
<1> QED BY <1>1, <1>2, <1>3 DEF Next

(* The invariant of the queue holds in every execution of ingest and        *)
(* consume by any number of threads.                                        *)
THEOREM QueueInvariant == Spec => []QueueInv
  BY InitQueueInv, NextQueueInv, PTL DEF Spec

(* The ring, its cursors and the calls of ingest and consume keep their     *)
(* types.                                                                   *)
THEOREM QueueTypes == Spec => []TypeOK
<1>1. QueueInv => TypeOK
  BY DEF QueueInv
<1> QED BY <1>1, QueueInvariant, PTL

(* A slot's payload is never touched by two threads at once: the four slot  *)
(* states of MPMCRingBufferDynamic work as a lock per slot.                 *)
THEOREM SlotsExclusive == Spec => []SlotExclusion
<1>1. QueueInv => SlotExclusion
  BY DEF QueueInv
<1> QED BY <1>1, QueueInvariant, PTL

(* try_push / try_pop neither lose nor duplicate a tick that was accepted.  *)
THEOREM QueueConservation == Spec => []Conservation
<1>1. QueueInv => Conservation
  BY DEF QueueInv
<1> QED BY <1>1, QueueInvariant, PTL

-----------------------------------------------------------------------------
(* The lock-free ring implements the bounded bag of TickQueue.             *)

(* A slot that is not READY leaves room: the ticks in the other slots are   *)
(* fewer than the slots of the ring.                                        *)
LEMMA RoomForOne ==
    ASSUME QueueInv, NEW i0 \in Idx, slots[i0].state # "READY"
    PROVE  Cardinality(ReadyTicks) < Capacity
<1> DEFINE R == {j \in Idx : slots[j].state = "READY"}
           f == [j \in R |-> slots[j].data]
<1>1. IsFiniteSet(Idx) /\ Cardinality(Idx) = Capacity
  BY CapacityAssumption, FS_Interval, 0 \in Int, Capacity - 1 \in Int DEF Idx
<1>2. IsFiniteSet(Idx \ {i0}) /\ Cardinality(Idx \ {i0}) = Capacity - 1
  BY <1>1, FS_RemoveElement
<1>3. R \in SUBSET (Idx \ {i0})
  OBVIOUS
<1>4. IsFiniteSet(R) /\ Cardinality(R) <= Capacity - 1
  BY <1>2, <1>3, FS_Subset
<1>5. f \in Surjection(R, ReadyTicks)
  BY DEF Surjection, ReadyTicks
<1>6. Cardinality(ReadyTicks) <= Cardinality(R) /\ IsFiniteSet(ReadyTicks)
  BY <1>4, <1>5, FS_Surjection
<1>7. Cardinality(R) \in Nat /\ Cardinality(ReadyTicks) \in Nat
  BY <1>4, <1>6, FS_CardinalityType
<1> QED BY <1>4, <1>6, <1>7, CapacityAssumption

(* A step that touches neither slots nor histories is a stutter of the bag. *)
LEMMA BagStutter ==
    ASSUME UNCHANGED <<slots, history>>
    PROVE  UNCHANGED Queue!bagVars
  BY DEF Queue!bagVars, ReadyTicks, history

(* The fate of a tick between its stamp and the outcome of try_push is open *)
(* in the bag.                                                              *)
LEMMA OpenFate ==
    ASSUME QueueInv, NEW p \in Producers, Undecided(p)
    PROVE  Queue!Undecided(item[p])
  BY DEF QueueInv, FreshTicks, Conservation, Queue!Undecided

(* PushPublish accepts the tick of its producer.                            *)
LEMMA PublishAccepts ==
    ASSUME QueueInv, NEW p \in Producers, PushPublish(p)
    PROVE  Queue!Accept(item[p])
<1> DEFINE i0 == IdxOf(pos[p])
<1>1. i0 \in Idx /\ pos[p] \in Nat
  BY IdxOfType DEF QueueInv, TypeOK, Threads
<1>2. slots[i0].state = "WRITING" /\ slots[i0].data = item[p]
  BY <1>1 DEF QueueInv, SlotExclusion, WritersOf, WrittenPayload, PushPublish, Slot
<1>3. Queue!Undecided(item[p])
  BY OpenFate DEF Undecided, PushPublish
<1>4. Cardinality(ReadyTicks) < Capacity
  BY <1>1, <1>2, RoomForOne
<1>5. \A j \in Idx : /\ slots'[j].state = IF j = i0 THEN "READY" ELSE slots[j].state
                     /\ slots'[j].data = slots[j].data
  BY <1>1 DEF PushPublish, QueueInv, TypeOK
<1>6. ReadyTicks' = ReadyTicks \cup {item[p]}
  BY <1>1, <1>2, <1>5 DEF ReadyTicks
<1>7. Range(delivered)' = Range(delivered) /\ rejected' = rejected
  BY DEF PushPublish
<1>8. Queue!Cardinality(ReadyTicks) = Cardinality(ReadyTicks)
  BY DEF Queue!Cardinality, Cardinality
<1> QED BY <1>3, <1>4, <1>6, <1>7, <1>8 DEF Queue!Accept

(* PopClaim takes the tick of the slot it claims.                           *)
LEMMA ClaimTakes ==
    ASSUME QueueInv, NEW c \in Consumers, PopClaim(c)
    PROVE  Slot(c).data \in Ticks /\ Queue!Take(Slot(c).data)
<1> DEFINE i0 == IdxOf(pos[c])
<1>1. i0 \in Idx /\ pos[c] \in Nat
  BY IdxOfType DEF QueueInv, TypeOK, Threads
<1>2. slots[i0].state = "READY" /\ slots[i0].data \in Ticks
  BY <1>1, ReadyTick DEF PopClaim, Slot
<1>3. \A j \in Idx : /\ slots'[j].state = IF j = i0 THEN "READING" ELSE slots[j].state
                     /\ slots'[j].data = slots[j].data
  BY <1>1 DEF PopClaim, QueueInv, TypeOK
<1>4. \A j \in Idx : slots[j].state = "READY" /\ slots[j].data = slots[i0].data => j = i0
  BY <1>1, <1>2 DEF QueueInv, Conservation
<1>5. ReadyTicks' = ReadyTicks \ {slots[i0].data}
  BY <1>1, <1>2, <1>3, <1>4 DEF ReadyTicks
<1>6. Range(delivered)' = Range(delivered) \cup {slots[i0].data}
  BY <1>2, RangeAppend DEF PopClaim, Slot, QueueInv, TypeOK
<1>7. slots[i0].data \in ReadyTicks /\ rejected' = rejected
  BY <1>1, <1>2 DEF ReadyTicks, PopClaim
<1> QED BY <1>2, <1>5, <1>6, <1>7 DEF Queue!Take, Slot

(* PushFull refuses the tick of its producer.                               *)
LEMMA FullRefuses ==
    ASSUME QueueInv, NEW p \in Producers, PushFull(p)
    PROVE  Queue!Refuse(item[p])
<1>1. Queue!Undecided(item[p])
  BY OpenFate DEF Undecided, PushFull
<1>2. UNCHANGED <<ReadyTicks, Range(delivered)>>
  BY DEF PushFull, queueVars, ReadyTicks
<1> QED BY <1>1, <1>2 DEF Queue!Refuse, PushFull

(* What happens to a slot on its way from EMPTY to READY, and from READING  *)
(* to EMPTY, does not show in the bag.                                      *)
LEMMA SlotWorkStutters ==
    ASSUME NEW i0 \in Idx, UNCHANGED history,
           slots[i0].state # "READY", slots'[i0].state # "READY",
           \A j \in Idx \ {i0} : slots'[j] = slots[j]
    PROVE  UNCHANGED Queue!bagVars
<1>1. UNCHANGED ReadyTicks
  BY DEF ReadyTicks
<1> QED BY <1>1 DEF Queue!bagVars, history

(* Each step of a producer is a step of the bag or a stutter.               *)
LEMMA ProducerRefines ==
    ASSUME QueueInv, NEW p \in Producers, ProducerNext(p)
    PROVE  [Queue!BagNext]_(Queue!bagVars)
<1>1. IdxOf(pos[p]) \in Idx /\ p \in Threads
  BY IdxOfType DEF QueueInv, TypeOK, Threads
<1>2. CASE IngestStamp(p) \/ PushReserve(p) \/ IngestReturn(p)
  BY <1>2, BagStutter DEF IngestStamp, PushReserve, IngestReturn, queueVars
<1>3. CASE PushClaim(p)
  <2>1. slots[IdxOf(pos[p])].state # "READY" /\ UNCHANGED history
    BY <1>3 DEF PushClaim, Slot
  <2>2. /\ slots'[IdxOf(pos[p])].state # "READY"
        /\ \A j \in Idx \ {IdxOf(pos[p])} : slots'[j] = slots[j]
    BY <1>1, <1>3 DEF PushClaim, QueueInv, TypeOK
  <2> QED BY <1>1, <2>1, <2>2, SlotWorkStutters
<1>4. CASE PushWrite(p)
  <2>1. slots[IdxOf(pos[p])].state = "WRITING" /\ UNCHANGED history
    BY <1>1, <1>4 DEF PushWrite, QueueInv, SlotExclusion, WritersOf
  <2>2. /\ slots'[IdxOf(pos[p])].state = slots[IdxOf(pos[p])].state
        /\ \A j \in Idx \ {IdxOf(pos[p])} : slots'[j] = slots[j]
    BY <1>1, <1>4 DEF PushWrite, QueueInv, TypeOK
  <2> QED BY <1>1, <2>1, <2>2, SlotWorkStutters
<1>5. CASE PushFull(p)
  <2>1. item[p] \in Ticks
    BY <1>5, UndecidedTick DEF PushFull, Undecided
  <2> QED BY <1>5, <2>1, FullRefuses DEF Queue!BagNext
<1>6. CASE PushPublish(p)
  <2>1. item[p] \in Ticks
    BY <1>6, UndecidedTick DEF PushPublish, Undecided
  <2> QED BY <1>6, <2>1, PublishAccepts DEF Queue!BagNext
<1> QED BY <1>2, <1>3, <1>4, <1>5, <1>6 DEF ProducerNext, IngestStep

(* Each step of a consumer is a step of the bag or a stutter.               *)
LEMMA ConsumerRefines ==
    ASSUME QueueInv, NEW c \in Consumers, ConsumerNext(c)
    PROVE  [Queue!BagNext]_(Queue!bagVars)
<1>1. IdxOf(pos[c]) \in Idx /\ c \in Threads
  BY IdxOfType DEF QueueInv, TypeOK, Threads
<1>2. CASE PopLoad(c) \/ PopEmpty(c) \/ PopAdvance(c) \/ PopRead(c) \/ ConsumeReturn(c)
  BY <1>2, BagStutter DEF PopLoad, PopEmpty, PopAdvance, PopRead, ConsumeReturn, queueVars
<1>3. CASE PopClaim(c)
  BY <1>3, ClaimTakes DEF Queue!BagNext
<1>4. CASE PopClear(c)
  <2>1. slots[IdxOf(pos[c])].state = "READING" /\ UNCHANGED history
    BY <1>1, <1>4 DEF PopClear, QueueInv, SlotExclusion, ReadersOf
  <2>2. /\ slots'[IdxOf(pos[c])].state = "EMPTY"
        /\ \A j \in Idx \ {IdxOf(pos[c])} : slots'[j] = slots[j]
    BY <1>1, <1>4 DEF PopClear, QueueInv, TypeOK
  <2> QED BY <1>1, <2>1, <2>2, SlotWorkStutters
<1> QED BY <1>2, <1>3, <1>4 DEF ConsumerNext, ConsumeStep

(* The ring of any power-of-two capacity, under any number of threads in    *)
(* ingest and consume, is a bounded bag of ticks: every tick is accepted or *)
(* refused once, and an accepted one taken at most once.                    *)
THEOREM QueueImplementsBag == Spec => ImplementsQueue
<1>1. Init => Queue!Empty
  BY DEF Init, Queue!Empty, ReadyTicks, Range
<1>2. QueueInv /\ [Next]_vars => [Queue!BagNext]_(Queue!bagVars)
  <2> SUFFICES ASSUME QueueInv, [Next]_vars PROVE [Queue!BagNext]_(Queue!bagVars)
    OBVIOUS
  <2>1. CASE UNCHANGED vars
    BY <2>1, BagStutter DEF vars, queueVars
  <2> QED BY <2>1, ProducerRefines, ConsumerRefines DEF Next
<1> QED BY <1>1, <1>2, QueueInvariant, PTL DEF Spec, ImplementsQueue, Queue!BagSpec
=============================================================================
