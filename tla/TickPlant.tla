----------------------------- MODULE TickPlant -----------------------------
(***************************************************************************)
(* The ingestion queue: TickPlant::ingest / TickPlant::consume over the    *)
(* lock-free MPMCRingBufferDynamic.  Every atomic instruction of try_push  *)
(* and try_pop is a step of its own, so any number of producers and        *)
(* consumers interleave between the reservation of a position and the      *)
(* publication of the slot.                                                *)
(*                                                                         *)
(* A tick is identified by its seq_num.  `accepted' holds the ticks whose  *)
(* try_push went on to publish, in publication order; `rejected' those     *)
(* whose try_push returned false; `delivered' the ticks try_pop returned,  *)
(* in the order their slots were claimed for reading.                      *)
(***************************************************************************)
EXTENDS Naturals, Sequences, FiniteSets, Functions

CONSTANTS Producers,    \* threads that call ingest
          Consumers,    \* threads that call consume
          Capacity,     \* number of slots
          MaxTicks      \* bound: calls of ingest in a behaviour

ASSUME CapacityAssumption ==
    Capacity \in Nat \ {0} /\ \E k \in 0..Capacity : Capacity = 2^k
ASSUME MaxTicksAssumption == MaxTicks \in Nat
ASSUME ThreadsAssumption == Producers \cap Consumers = {}

VARIABLES seq_counter, write_pos, read_pos, slots, pc, pos, item,
          accepted, rejected, delivered

queueVars == <<write_pos, read_pos, slots>>
history == <<accepted, rejected, delivered>>
vars == <<seq_counter, queueVars, pc, pos, item, history>>

Threads == Producers \cup Consumers
Idx == 0..(Capacity - 1)
Ticks == 0..(MaxTicks - 1)
NoTick == MaxTicks                  \* the default-constructed slot payload
SlotState == {"EMPTY", "WRITING", "READY", "READING"}

\* pos & (Capacity - 1), Capacity being a power of two
IdxOf(p) == p % Capacity
Slot(t) == slots[IdxOf(pos[t])]

Init ==
    /\ seq_counter = 0
    /\ write_pos = 0
    /\ read_pos = 0
    /\ slots = [i \in Idx |-> [state |-> "EMPTY", data |-> NoTick]]
    /\ pc = [t \in Threads |-> "idle"]
    /\ pos = [t \in Threads |-> 0]
    /\ item = [t \in Threads |-> NoTick]
    /\ accepted = <<>>
    /\ rejected = {}
    /\ delivered = <<>>

Goto(t, label) == pc' = [pc EXCEPT ![t] = label]

-----------------------------------------------------------------------------
(* Producer: TickPlant::ingest                                             *)

\* Stamp the message with the global sequence number.
IngestStamp(p) ==
    /\ pc[p] = "idle"
    /\ seq_counter < MaxTicks
    /\ item' = [item EXCEPT ![p] = seq_counter]
    /\ seq_counter' = seq_counter + 1
    /\ Goto(p, "reserve")
    /\ UNCHANGED <<queueVars, pos, history>>

\* write_pos_.fetch_add(1): the position is consumed even if the push fails.
PushReserve(p) ==
    /\ pc[p] = "reserve"
    /\ pos' = [pos EXCEPT ![p] = write_pos]
    /\ write_pos' = write_pos + 1
    /\ Goto(p, "claim")
    /\ UNCHANGED <<seq_counter, read_pos, slots, item, history>>

\* compare_exchange EMPTY -> WRITING succeeds.
PushClaim(p) ==
    /\ pc[p] = "claim"
    /\ Slot(p).state = "EMPTY"
    /\ slots' = [slots EXCEPT ![IdxOf(pos[p])].state = "WRITING"]
    /\ Goto(p, "write")
    /\ UNCHANGED <<seq_counter, write_pos, read_pos, pos, item, history>>

\* compare_exchange fails: try_push, and ingest, return false.
PushFull(p) ==
    /\ pc[p] = "claim"
    /\ Slot(p).state # "EMPTY"
    /\ rejected' = rejected \cup {item[p]}
    /\ Goto(p, "full")
    /\ UNCHANGED <<seq_counter, queueVars, pos, item, accepted, delivered>>

\* slot.data = item
PushWrite(p) ==
    /\ pc[p] = "write"
    /\ slots' = [slots EXCEPT ![IdxOf(pos[p])].data = item[p]]
    /\ Goto(p, "publish")
    /\ UNCHANGED <<seq_counter, write_pos, read_pos, pos, item, history>>

\* slot.state.store(READY); try_push returns true.
PushPublish(p) ==
    /\ pc[p] = "publish"
    /\ slots' = [slots EXCEPT ![IdxOf(pos[p])].state = "READY"]
    /\ accepted' = Append(accepted, item[p])
    /\ Goto(p, "queued")
    /\ UNCHANGED <<seq_counter, write_pos, read_pos, pos, item, rejected, delivered>>

\* The caller of ingest takes the result and may call again.
IngestReturn(p) ==
    /\ pc[p] \in {"full", "queued"}
    /\ item' = [item EXCEPT ![p] = NoTick]
    /\ Goto(p, "idle")
    /\ UNCHANGED <<seq_counter, queueVars, pos, history>>

-----------------------------------------------------------------------------
(* Consumer: TickPlant::consume                                            *)

\* read_pos_.load()
PopLoad(c) ==
    /\ pc[c] = "idle"
    /\ pos' = [pos EXCEPT ![c] = read_pos]
    /\ Goto(c, "check")
    /\ UNCHANGED <<seq_counter, queueVars, item, history>>

\* compare_exchange READY -> READING fails: nullopt.
PopEmpty(c) ==
    /\ pc[c] = "check"
    /\ Slot(c).state # "READY"
    /\ Goto(c, "empty")
    /\ UNCHANGED <<seq_counter, queueVars, pos, item, history>>

\* A bug: the state is not checked before the claim.
PopClaimUnchecked(c) ==
    /\ pc[c] = "check"
    /\ slots' = [slots EXCEPT ![IdxOf(pos[c])].state = "READING"]
    /\ delivered' = Append(delivered, Slot(c).data)
    /\ Goto(c, "advance")
    /\ UNCHANGED <<seq_counter, write_pos, read_pos, pos, item, accepted, rejected>>

\* compare_exchange READY -> READING succeeds.
PopClaim(c) ==
    /\ pc[c] = "check"
    /\ Slot(c).state = "READY"
    /\ slots' = [slots EXCEPT ![IdxOf(pos[c])].state = "READING"]
    /\ delivered' = Append(delivered, Slot(c).data)
    /\ Goto(c, "advance")
    /\ UNCHANGED <<seq_counter, write_pos, read_pos, pos, item, accepted, rejected>>

\* read_pos_.fetch_add(1), whatever position the claimed slot had.
PopAdvance(c) ==
    /\ pc[c] = "advance"
    /\ read_pos' = read_pos + 1
    /\ Goto(c, "read")
    /\ UNCHANGED <<seq_counter, write_pos, slots, pos, item, history>>

\* A bug: the slot is looked up again, after read_pos_ has moved.
PopReadReloaded(c) ==
    /\ pc[c] = "read"
    /\ item' = [item EXCEPT ![c] = slots[IdxOf(read_pos)].data]
    /\ Goto(c, "clear")
    /\ UNCHANGED <<seq_counter, queueVars, pos, history>>

\* T item = slot.data
PopRead(c) ==
    /\ pc[c] = "read"
    /\ item' = [item EXCEPT ![c] = Slot(c).data]
    /\ Goto(c, "clear")
    /\ UNCHANGED <<seq_counter, queueVars, pos, history>>

\* A bug: the slot stays published.
PopClearForgotten(c) ==
    /\ pc[c] = "clear"
    /\ slots' = [slots EXCEPT ![IdxOf(pos[c])].state = "READY"]
    /\ Goto(c, "popped")
    /\ UNCHANGED <<seq_counter, write_pos, read_pos, pos, item, history>>

\* slot.state.store(EMPTY); try_pop returns the item.
PopClear(c) ==
    /\ pc[c] = "clear"
    /\ slots' = [slots EXCEPT ![IdxOf(pos[c])].state = "EMPTY"]
    /\ Goto(c, "popped")
    /\ UNCHANGED <<seq_counter, write_pos, read_pos, pos, item, history>>

\* The caller of consume takes the result and may call again.
ConsumeReturn(c) ==
    /\ pc[c] \in {"popped", "empty"}
    /\ item' = [item EXCEPT ![c] = NoTick]
    /\ Goto(c, "idle")
    /\ UNCHANGED <<seq_counter, queueVars, pos, history>>

-----------------------------------------------------------------------------
\* The steps inside ingest and inside consume, shared with IngestPipeline.
IngestStep(p) ==
    \/ IngestStamp(p)
    \/ PushReserve(p)
    \/ PushClaim(p)
    \/ PushFull(p)
    \/ PushWrite(p)
    \/ PushPublish(p)

ConsumeStep(c) ==
    \/ PopLoad(c)
    \/ PopEmpty(c)
    \/ PopClaim(c)
    \/ PopAdvance(c)
    \/ PopRead(c)
    \/ PopClear(c)

ProducerNext(p) == IngestStep(p) \/ IngestReturn(p)
ConsumerNext(c) == ConsumeStep(c) \/ ConsumeReturn(c)

Next == (\E p \in Producers : ProducerNext(p)) \/ (\E c \in Consumers : ConsumerNext(c))

Spec == Init /\ [][Next]_vars

-----------------------------------------------------------------------------
(* Properties                                                              *)

ProducerPC == {"idle", "reserve", "claim", "write", "publish", "full", "queued"}
\* A drain thread of the pipeline leaves for good ("exited").
ConsumerPC == {"idle", "check", "empty", "advance", "read", "clear", "popped", "exited"}

TypeOK ==
    /\ seq_counter \in 0..MaxTicks
    /\ write_pos \in Nat
    /\ read_pos \in Nat
    /\ slots \in [Idx -> [state : SlotState, data : Ticks \cup {NoTick}]]
    /\ pc \in [Threads -> ProducerPC \cup ConsumerPC]
    /\ pos \in [Threads -> Nat]
    /\ item \in [Threads -> Ticks \cup {NoTick}]
    /\ accepted \in Seq(Ticks)
    /\ rejected \subseteq Ticks
    /\ delivered \in Seq(Ticks)

WritersOf(i) == {p \in Producers : pc[p] \in {"write", "publish"} /\ IdxOf(pos[p]) = i}
ReadersOf(i) == {c \in Consumers : pc[c] \in {"advance", "read", "clear"} /\ IdxOf(pos[c]) = i}

(* The four slot states are a lock on the payload: a slot is being written  *)
(* by exactly one producer while WRITING, read by exactly one consumer      *)
(* while READING, and touched by nobody while EMPTY or READY, however       *)
(* producers lap the ring (try_push / try_pop compare_exchange).            *)
SlotExclusion ==
    \A i \in Idx :
        /\ slots[i].state = "WRITING" <=> WritersOf(i) # {}
        /\ slots[i].state = "READING" <=> ReadersOf(i) # {}
        /\ \A p, q \in WritersOf(i) : p = q
        /\ \A c, d \in ReadersOf(i) : c = d

ReadyTicks == {slots[i].data : i \in {j \in Idx : slots[j].state = "READY"}}

(* No tick is lost or duplicated inside the queue: a tick whose try_push    *)
(* returned true is either waiting in exactly one READY slot or has been    *)
(* handed to exactly one consumer, and a rejected one is in neither place.  *)
Conservation ==
    /\ IsInjective(accepted)
    /\ IsInjective(delivered)
    /\ \A i, j \in Idx :
          (slots[i].state = "READY" /\ slots[j].state = "READY"
             /\ slots[i].data = slots[j].data) => i = j
    /\ Range(accepted) = Range(delivered) \cup ReadyTicks
    /\ Range(delivered) \cap ReadyTicks = {}
    /\ Range(accepted) \cap rejected = {}

Undecided(p) == pc[p] \in {"reserve", "claim", "write", "publish"}
Holding(c) == pc[c] \in {"advance", "read", "clear", "popped"}
Held(c) == IF pc[c] \in {"advance", "read"} THEN Slot(c).data ELSE item[c]

\* Each thread is inside the function it calls.
ThreadRoles ==
    /\ \A p \in Producers : pc[p] \in ProducerPC
    /\ \A c \in Consumers : pc[c] \in ConsumerPC

\* A sequence number belongs to one call of ingest until its fate is decided.
FreshTicks ==
    /\ \A t \in Range(accepted) \cup rejected : t < seq_counter
    /\ \A p \in Producers : Undecided(p) =>
          /\ item[p] < seq_counter
          /\ item[p] \notin Range(accepted) \cup rejected
          /\ \A q \in Producers : Undecided(q) /\ item[p] = item[q] => p = q

\* What a publishing producer is about to expose is its own tick.
WrittenPayload == \A p \in Producers : pc[p] = "publish" => Slot(p).data = item[p]

\* From the claim on, a consumer owns a delivered tick nobody else owns.
HeldTicks ==
    \A c \in Consumers : Holding(c) =>
        /\ Held(c) \in Range(delivered)
        /\ \A d \in Consumers : Holding(d) /\ Held(c) = Held(d) => c = d

(* The inductive invariant behind SlotExclusion and Conservation: seq_num   *)
(* uniqueness in ingest, the payload of a slot about to be published, and   *)
(* the ticks in the hands of consumers: try_pop copies slot.data after it   *)
(* has advanced read_pos_, when producers may already be heading for the    *)
(* slot again, and the copy is still the tick that was claimed.             *)
QueueInv ==
    /\ TypeOK
    /\ ThreadRoles
    /\ SlotExclusion
    /\ FreshTicks
    /\ WrittenPayload
    /\ HeldTicks
    /\ Conservation

\* A READY slot holds a tick that is in the queue.
Queue == INSTANCE TickQueue WITH
    waiting <- ReadyTicks, taken <- Range(delivered), refused <- rejected

(* The lock-free ring is a bounded bag: seen through its READY slots and    *)
(* the returned ticks, each step of ingest and consume accepts, refuses or  *)
(* takes one tick or changes nothing (try_push, try_pop).                   *)
ImplementsQueue == Queue!BagSpec
=============================================================================
