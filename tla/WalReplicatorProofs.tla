------------------------ MODULE WalReplicatorProofs -------------------------
(***************************************************************************)
(* ReplicationAccounted for every number of producers, replicas and ticks, *)
(* every capacity of the two queues and every configuration.               *)
(*                                                                         *)
(* None of its conjuncts is inductive.  A flush counts its batch as        *)
(* acknowledged because of the replicas it has been through (Sent); a      *)
(* batch that fails again finds room in the retry queue because the send   *)
(* thread took at most what that queue held (Turns); and the flush a lone  *)
(* caller waits for is that of its own tick because nothing else is in the *)
(* queue or in a batch while it waits (Awaited).                           *)
(***************************************************************************)
EXTENDS WalReplicator, SequenceTheorems, FiniteSetTheorems, TLAPS

USE SMTT(20), ZenonT(20)

Entry == [batch : Seq(Ticks), attempts : Nat]
FlushType == [batch : Seq(Ticks), i : 1..(NumReplicas + 1), acks : Nat, bad : BOOLEAN]
CallType == [pc : {"idle", "blocked", "sync"}, tick : Nat, before : Nat]

(* Types, and a producer in a call has a tick.                             *)
WrShape ==
    /\ config_ \in Configs
    /\ queue_ \in Seq(Ticks) /\ log \in Seq(Ticks)
    /\ retry \in Seq(Entry) /\ pending \in Seq(Entry) /\ failed \in Seq(Entry)
    /\ flush \in FlushType /\ flush_epoch \in Nat /\ faults \in Nat
    /\ wspc \in {"wait", "flush", "retry", "retrying", "exit"}
    /\ stop \in {"no", "join", "flush", "done"}
    /\ prod \in [Producers -> CallType]
       /\ \A p \in Producers : prod[p].pc # "idle" => prod[p].tick \in Ticks
    /\ next \in Nat \ {0} /\ acked \subseteq Ticks /\ returned \subseteq Ticks
    /\ stored \in [Replicas -> Seq(Ticks)]

(* The send thread and stop() take turns: a batch is in hand exactly while *)
(* one of them flushes it, the retry queue is empty while its entries are  *)
(* tried again, and what is held for retries never exceeds its capacity.   *)
Flushing == wspc = "flush" \/ stop = "flush"
Turns ==
    /\ stop \in {"flush", "done"} => wspc = "exit"
    /\ Flushing <=> flush.batch # <<>>
    /\ IF wspc = "retrying" THEN retry = <<>> ELSE pending = <<>> /\ failed = <<>>
    /\ Len(retry) + Len(pending) + Len(failed) <= RetryCapacity

(* The replicas the flush in progress has been through: all of them have   *)
(* the batch if none failed, and as many as acknowledged have it.          *)
Keeps(r, b) == Range(b) \subseteq Range(stored[r])
Sent ==
    /\ ~flush.bad => \A r \in 1..(flush.i - 1) : Keeps(r, flush.batch)
    /\ \E S \in SUBSET (1..(flush.i - 1)) : Cardinality(S) = flush.acks
       /\ \A r \in S : Keeps(r, flush.batch)

(* A tick in some batch of the retry queue s.                              *)
HeldIn(s, t) == \E i \in DOMAIN s : t \in Range(s[i].batch)

(* Where a tick that was queued is.                                        *)
Traced(t) ==
    \/ t \in Range(queue_) \cup Range(flush.batch) \cup exhausted
    \/ HeldIn(retry, t) \/ HeldIn(pending, t) \/ HeldIn(failed, t)
    \/ \E r \in Replicas : t \in Range(stored[r])
AllTraced == MaxRetries > 0 /\ NumReplicas > 0 => \A t \in Range(log) : Traced(t)

(* A lone caller in sync mode, while no send has failed.  Its tick alone   *)
(* is queued or being sent until the flush it waits for is over, and then  *)
(* the tick is on the quorum.                                              *)
LoneCaller ==
    /\ config_.sync_mode /\ ~config_.timeouts /\ config_.quorum_w <= NumReplicas
    /\ Cardinality(config_.callers) = 1 /\ faults = 0
Awaited ==
    LoneCaller =>
        /\ ~flush.bad /\ retry = <<>> /\ pending = <<>> /\ failed = <<>>
        /\ \A t \in returned : OnQuorum(t)
        /\ \A p \in Producers \ config_.callers : prod[p].pc = "idle"
        /\ \A p \in config_.callers :
             IF prod[p].pc = "sync" /\ prod[p].before = flush_epoch
             THEN \/ queue_ = <<prod[p].tick>> /\ flush.batch = <<>>
                  \/ queue_ = <<>> /\ flush.batch = <<prod[p].tick>>
             ELSE /\ queue_ = <<>> /\ flush.batch = <<>>
                  /\ prod[p].pc = "sync" => prod[p].before < flush_epoch /\ OnQuorum(prod[p].tick)

WrInv == WrShape /\ Turns /\ Sent /\ AllTraced /\ AckedOnQuorum /\ Awaited

LEMMA RangeAppend ==
  ASSUME NEW S, NEW s \in Seq(S), NEW x \in S
  PROVE  Append(s, x) \in Seq(S) /\ Range(Append(s, x)) = Range(s) \cup {x}
<1>1. Append(s, x) \in Seq(S) /\ Len(Append(s, x)) = Len(s) + 1 /\ Len(s) \in Nat
      /\ \A i \in 1..Len(s) : Append(s, x)[i] = s[i]
      /\ Append(s, x)[Len(s) + 1] = x
  OBVIOUS
<1>2. Range(s) = {s[i] : i \in 1..Len(s)} BY RangeEquality
<1>3. Range(Append(s, x)) = {Append(s, x)[i] : i \in 1..(Len(s) + 1)} BY <1>1, RangeEquality, Zenon
<1>4. \A i \in 1..(Len(s) + 1) : i \in 1..Len(s) \/ i = Len(s) + 1 BY <1>1
<1>5. ASSUME NEW y PROVE y \in Range(Append(s, x)) <=> y \in Range(s) \cup {x}
  <2>1. y \in Range(Append(s, x)) <=> \E i \in 1..(Len(s) + 1) : y = Append(s, x)[i] BY <1>3
  <2>2. y \in Range(s) <=> \E i \in 1..Len(s) : y = s[i] BY <1>2
  <2> QED BY <2>1, <2>2, <1>1, <1>4
<1> QED BY <1>1, <1>5

LEMMA RangeEmpty == Range(<<>>) = {}
BY DEF Range

LEMMA HeldEmpty == \A t : ~HeldIn(<<>>, t)
BY DEF HeldIn

LEMMA HeldAppend ==
  ASSUME NEW s \in Seq(Entry), NEW e \in Entry
  PROVE  Append(s, e) \in Seq(Entry) /\ \A t : HeldIn(Append(s, e), t) <=> HeldIn(s, t)
         \/ t \in Range(e.batch)
<1>1. Append(s, e) \in Seq(Entry) /\ Len(Append(s, e)) = Len(s) + 1 /\ Len(s) \in Nat
      /\ DOMAIN s = 1..Len(s) /\ DOMAIN Append(s, e) = 1..(Len(s) + 1)
      /\ \A i \in 1..Len(s) : Append(s, e)[i] = s[i]
      /\ Append(s, e)[Len(s) + 1] = e
  OBVIOUS
<1>2. \A i \in 1..(Len(s) + 1) : i \in 1..Len(s) \/ i = Len(s) + 1 BY <1>1
<1>3. 1..Len(s) \subseteq 1..(Len(s) + 1) /\ Len(s) + 1 \in 1..(Len(s) + 1) BY <1>1
<1> QED BY <1>1, <1>2, <1>3 DEF HeldIn

LEMMA HeldTail ==
  ASSUME NEW s \in Seq(Entry), s # <<>>
  PROVE  /\ Tail(s) \in Seq(Entry) /\ Head(s) \in Entry /\ Len(Tail(s)) = Len(s) - 1
         /\ \A t : HeldIn(s, t) => t \in Range(Head(s).batch) \/ HeldIn(Tail(s), t)
<1>1. /\ Tail(s) \in Seq(Entry) /\ Head(s) = s[1] /\ Head(s) \in Entry /\ Len(s) \in Nat \ {0}
         /\ Len(Tail(s)) = Len(s) - 1
      /\ DOMAIN s = 1..Len(s) /\ DOMAIN Tail(s) = 1..(Len(s) - 1)
      /\ \A i \in 1..(Len(s) - 1) : Tail(s)[i] = s[i + 1]
  OBVIOUS
<1>2. ASSUME NEW t, NEW i \in 1..Len(s), i # 1, t \in Range(s[i].batch) PROVE HeldIn(Tail(s), t)
  <2>1. i - 1 \in 1..(Len(s) - 1) /\ Tail(s)[i - 1] = s[i] BY <1>1, <1>2
  <2> QED BY <2>1, <1>1, <1>2, Zenon DEF HeldIn
<1> QED BY <1>1, <1>2 DEF HeldIn

\* No replica loses a tick.
StoreGrows == stored' \in [Replicas -> Seq(Ticks)]
/\ \A r \in Replicas : Range(stored[r]) \subseteq Range(stored'[r])

LEMMA ReplicateGrows ==
  ASSUME WrShape, NEW r \in Replicas, NEW b \in Seq(Ticks), NEW ok \in BOOLEAN, Replicate(r, b, ok)
  PROVE  /\ StoreGrows /\ faults' \in Nat /\ (faults' = 0 => faults = 0 /\ ok)
         /\ ok => Range(b) \subseteq Range(stored'[r])
<1>1. stored \in [Replicas -> Seq(Ticks)] /\ faults \in Nat BY DEF WrShape
<1>2. stored[r] \o b \in Seq(Ticks) /\ Range(stored[r] \o b) = Range(stored[r]) \cup Range(b)
  BY <1>1, ConcatProperties, RangeConcatenation
<1>3. stored' \in {stored, [stored EXCEPT ![r] = stored[r] \o b]} BY DEF Replicate
<1>4. StoreGrows BY <1>1, <1>2, <1>3, Zenon DEF StoreGrows
<1>5. faults' \in Nat /\ (faults' = 0 => faults = 0 /\ ok) BY <1>1 DEF Replicate
<1>6. ok => Range(b) \subseteq Range(stored'[r]) BY <1>1, <1>2, Zenon DEF Replicate
<1> QED BY <1>4, <1>5, <1>6

LEMMA ReplicaSize == NumReplicas \in Nat /\ IsFiniteSet(Replicas) /\ Cardinality(Replicas) = NumReplicas
<1>1. NumReplicas \in Nat BY ReplicatorAssumption
<1> QED BY <1>1, FS_Interval DEF Replicas

LEMMA QuorumType == ASSUME WrShape PROVE config_.quorum_w \in Nat /\ config_.callers \subseteq Producers
BY ReplicatorAssumption DEF WrShape, ConfigType

LEMMA FlushAcks ==
  ASSUME WrShape
  PROVE  flush.acks \in Nat /\ flush.i \in 1..(NumReplicas + 1) /\ flush.batch \in Seq(Ticks)
         /\ flush.bad \in BOOLEAN
BY DEF WrShape, FlushType

LEMMA QuorumGrows ==
  ASSUME WrShape, StoreGrows, config_' = config_, NEW t, OnQuorum(t)
  PROVE  OnQuorum(t)'
<1> DEFINE A == {r \in Replicas : t \in Range(stored[r])}
           B == {r \in Replicas : t \in Range(stored'[r])}
<1>1. A \subseteq B BY DEF StoreGrows
<1>2. IsFiniteSet(B) BY FS_Subset, ReplicaSize
<1>3. Cardinality(A) <= Cardinality(B) BY <1>1, <1>2, FS_Subset
<1>4. Cardinality(A) \in Nat /\ Cardinality(B) \in Nat BY <1>1, <1>2, FS_Subset, FS_CardinalityType
<1>5. Cardinality(A) >= Required BY DEF OnQuorum
<1>6. Required \in Nat /\ Required' = Required BY ReplicaSize, QuorumType DEF Required
<1>7. Cardinality(B) >= Required' BY <1>3, <1>4, <1>5, <1>6
<1> QED BY <1>7 DEF OnQuorum

\* The replicas in S have b, and S has as many members as there were acknowledgements.
LEMMA AckedBatch ==
  ASSUME WrShape, Sent, flush.i \notin Replicas, flush.acks >= Required, NEW t \in Range(flush.batch)
  PROVE  OnQuorum(t)
<1>1. PICK S \in SUBSET (1..(flush.i - 1)) : Cardinality(S) = flush.acks
      /\ \A r \in S : Keeps(r, flush.batch)
  BY DEF Sent
<1> DEFINE A == {r \in Replicas : t \in Range(stored[r])}
<1>2. S \subseteq A
  <2>1. flush.i \in 1..(NumReplicas + 1) /\ NumReplicas \in Nat BY ReplicaSize DEF WrShape, FlushType
  <2>2. 1..(flush.i - 1) \subseteq Replicas BY <2>1 DEF Replicas
  <2> QED BY <2>2, <1>1 DEF Keeps
<1>3. IsFiniteSet(A) BY FS_Subset, ReplicaSize
<1>4. Cardinality(S) <= Cardinality(A) /\ Cardinality(A) \in Nat
  BY <1>2, <1>3, FS_Subset, FS_CardinalityType, Zenon
<1>5. Required \in Nat BY QuorumType, ReplicaSize DEF Required
<1>6. Cardinality(A) >= Required BY <1>1, <1>4, <1>5, FlushAcks
<1> QED BY <1>6 DEF OnQuorum

\* A batch that every replica has is on the quorum, where the quorum is not larger.
LEMMA SentToAll ==
  ASSUME WrShape, Sent, flush.i \notin Replicas, ~flush.bad, config_.quorum_w <= NumReplicas,
         NEW t \in Range(flush.batch)
  PROVE  OnQuorum(t)
<1>1. flush.i = NumReplicas + 1 /\ NumReplicas \in Nat BY ReplicaSize DEF WrShape, FlushType, Replicas
<1>2. \A r \in Replicas : t \in Range(stored[r]) BY <1>1 DEF Sent, Keeps, Replicas
<1>3. {r \in Replicas : t \in Range(stored[r])} = Replicas BY <1>2
<1>4. Required <= NumReplicas /\ Required \in Nat BY QuorumType, ReplicaSize DEF Required
<1> QED BY <1>3, <1>4, ReplicaSize DEF OnQuorum

LEMMA StoreSame == ASSUME WrShape, stored' = stored PROVE StoreGrows
BY DEF WrShape, StoreGrows

LEMMA SentKept ==
  ASSUME WrShape, Sent, StoreGrows, flush' = flush PROVE Sent'
<1>1. 1..(flush.i - 1) \subseteq Replicas BY FlushAcks, ReplicaSize DEF Replicas
<1>2. \A r \in 1..(flush.i - 1) : Keeps(r, flush.batch) => Keeps(r, flush.batch)'
  BY <1>1 DEF Keeps, StoreGrows
<1>3. (~flush.bad => \A r \in 1..(flush.i - 1) : Keeps(r, flush.batch))' BY <1>2 DEF Sent
<1>4. PICK S \in SUBSET (1..(flush.i - 1)) : Cardinality(S) = flush.acks
      /\ \A r \in S : Keeps(r, flush.batch)
  BY DEF Sent
<1>5. \A r \in S : Keeps(r, flush.batch)' BY <1>2, <1>4
<1> QED BY <1>3, <1>4, <1>5 DEF Sent

LEMMA SentFresh == ASSUME flush'.i = 1, flush'.acks = 0 PROVE Sent'
<1>1. 1..(flush'.i - 1) = {} OBVIOUS
<1>2. Cardinality({}) = 0 BY FS_EmptySet
<1>3. {} \in SUBSET (1..(flush'.i - 1)) OBVIOUS
<1>4. \A r \in 1..(flush'.i - 1) : Keeps(r, flush.batch)' BY <1>1
<1>5. \E S \in SUBSET (1..(flush'.i - 1)) : Cardinality(S) = flush'.acks
      /\ \A r \in S : Keeps(r, flush.batch)'
      BY <1>2, <1>3
<1> QED BY <1>4, <1>5 DEF Sent

LEMMA AckedKept ==
  ASSUME WrShape, AckedOnQuorum, StoreGrows, config_' = config_, acked' = acked PROVE AckedOnQuorum'
BY QuorumGrows DEF AckedOnQuorum

LEMMA OneCaller ==
  ASSUME WrShape, LoneCaller, NEW p \in config_.callers PROVE config_.callers = {p}
<1>1. IsFiniteSet(config_.callers) BY QuorumType, ReplicatorAssumption, FS_Subset
<1>2. IsFiniteSet({p}) /\ Cardinality({p}) = 1 BY FS_Singleton
<1>3. {p} \subseteq config_.callers /\ Cardinality(config_.callers) = 1 BY DEF LoneCaller
<1> QED BY <1>1, <1>2, <1>3, FS_Subset

\* A tick enters the queue.
LEMMA PushKeeps ==
  ASSUME WrInv, NEW p \in Producers, prod[p].pc # "sync", LoneCaller => p \in config_.callers,
         NEW t \in Ticks, Push(p, t), next' \in Nat \ {0},
         UNCHANGED <<config_, running, retry, sendVars, stop, flush_epoch, exhausted, acked, stored,
           faults>>
  PROVE  WrInv'
<1> USE DEF WrInv
<1>1. flush' = flush /\ pending' = pending /\ failed' = failed /\ wspc' = wspc BY DEF sendVars
<1>2. StoreGrows BY StoreSame
<1>3. Sent' BY <1>1, <1>2, SentKept
<1>4. AckedOnQuorum' BY <1>2, AckedKept
<1>5. Range(queue_') = Range(queue_) \cup {t} /\ Range(log') = Range(log) \cup {t}
      /\ queue_' \in Seq(Ticks) /\ log' \in Seq(Ticks)
  BY RangeAppend DEF Push, WrShape
<1>6. AllTraced' BY <1>1, <1>5 DEF AllTraced, Traced, HeldIn
<1>7. Turns' BY <1>1 DEF Turns, Flushing
<1>8. t \in Nat /\ flush_epoch \in Nat BY ReplicatorAssumption DEF Ticks, WrShape
<1>9. prod' \in [Producers -> CallType] /\ (prod'[p].pc # "idle" => prod'[p].tick \in Ticks)
      /\ \A u \in Producers : u # p => prod'[u] = prod[u]
  <2> DEFINE c == IF config_.sync_mode THEN [pc |-> "sync", tick |-> t,
      before |-> flush_epoch] ELSE IdleProducer
  <2>1. c \in CallType /\ (c.pc # "idle" => c.tick \in Ticks) BY <1>8 DEF CallType, IdleProducer
  <2>2. prod' = [prod EXCEPT ![p] = c] BY DEF Push
  <2> HIDE DEF c
  <2> QED BY <2>1, <2>2 DEF WrShape
<1>10. returned' \subseteq Ticks BY DEF Push, WrShape
<1>11. WrShape' BY <1>1, <1>5, <1>9, <1>10, Zenon DEF WrShape
<1>12. Awaited'
  <2> SUFFICES ASSUME LoneCaller' PROVE Awaited' BY DEF Awaited
  <2>1. LoneCaller BY DEF LoneCaller
  <2>2. p \in config_.callers /\ config_.callers = {p} BY <2>1, OneCaller
  <2>3. ~flush.bad /\ retry = <<>> /\ pending = <<>> /\ failed = <<>> /\ queue_ = <<>>
        /\ flush.batch = <<>>
        /\ (\A x \in returned : OnQuorum(x))
           /\ \A u \in Producers \ config_.callers : prod[u].pc = "idle"
    BY <2>1, <2>2 DEF Awaited
  <2>4. queue_' = <<t>> BY <2>3 DEF Push
  <2>5. config_.sync_mode BY <2>1 DEF LoneCaller
  <2>6. prod'[p] = [pc |-> "sync", tick |-> t, before |-> flush_epoch] /\ returned' = returned
    BY <2>5 DEF Push, WrShape
  <2>7. \A x \in returned' : OnQuorum(x)' BY <2>3, <2>6, <1>2, QuorumGrows
  <2>8. \A u \in Producers \ config_.callers : prod'[u].pc = "idle" BY <2>2, <2>3, <1>9
  <2>9. \A u \in config_.callers : prod'[u].pc = "sync" /\ prod'[u].before = flush_epoch
        /\ queue_' = <<prod'[u].tick>>
    BY <2>2, <2>4, <2>6
  <2> QED BY <1>1, <2>3, <2>7, <2>8, <2>9 DEF Awaited
<1> QED BY <1>3, <1>4, <1>6, <1>7, <1>11, <1>12

\* A producer blocks, or gives up, and the queue stays as it is.
LEMMA CallKeeps ==
  ASSUME WrInv, NEW p \in Producers, prod[p].pc # "sync", LoneCaller => p \in config_.callers,
         NEW c \in CallType, c.pc # "sync", c.pc # "idle" => c.tick \in Ticks,
         prod' = [prod EXCEPT ![p] = c], next' \in Nat \ {0},
         UNCHANGED <<config_, running, queue_, retry, sendVars, stop, flush_epoch, log, returned,
           exhausted, acked, stored, faults>>
  PROVE  WrInv'
<1> USE DEF WrInv
<1>1. flush' = flush /\ pending' = pending /\ failed' = failed /\ wspc' = wspc BY DEF sendVars
<1>2. StoreGrows BY StoreSame
<1>3. Sent' BY <1>1, <1>2, SentKept
<1>4. AckedOnQuorum' BY <1>2, AckedKept
<1>6. AllTraced' BY <1>1 DEF AllTraced, Traced, HeldIn
<1>7. Turns' BY <1>1 DEF Turns, Flushing
<1>9. prod' \in [Producers -> CallType] /\ prod'[p] = c
      /\ \A u \in Producers : u # p => prod'[u] = prod[u]
  BY DEF WrShape
<1>11. WrShape' BY <1>1, <1>9 DEF WrShape
<1>12. Awaited'
  <2> SUFFICES ASSUME LoneCaller' PROVE Awaited' BY DEF Awaited
  <2>1. LoneCaller BY DEF LoneCaller
  <2>2. p \in config_.callers /\ config_.callers = {p} BY <2>1, OneCaller
  <2>3. ~flush.bad /\ retry = <<>> /\ pending = <<>> /\ failed = <<>> /\ queue_ = <<>>
        /\ flush.batch = <<>>
        /\ (\A x \in returned : OnQuorum(x))
           /\ \A u \in Producers \ config_.callers : prod[u].pc = "idle"
    BY <2>1, <2>2 DEF Awaited
  <2>7. \A x \in returned' : OnQuorum(x)' BY <2>3, <1>2, QuorumGrows
  <2>8. \A u \in Producers \ config_.callers : prod'[u].pc = "idle" BY <2>2, <2>3, <1>9
  <2>9. \A u \in config_.callers : prod'[u].pc # "sync" BY <2>2, <1>9
  <2> QED BY <1>1, <2>3, <2>7, <2>8, <2>9 DEF Awaited
<1> QED BY <1>3, <1>4, <1>6, <1>7, <1>11, <1>12

\* Only a caller of enqueue is at work.
LEMMA CallerAtWork ==
  ASSUME WrInv, NEW p \in Producers, prod[p].pc # "idle", LoneCaller PROVE p \in config_.callers
BY DEF WrInv, Awaited

LEMMA EnqueueKeeps == ASSUME WrInv, NEW p \in Producers, Enqueue(p) PROVE WrInv'
<1>1. next \in Ticks /\ next' = next + 1 /\ next' \in Nat \ {0} /\ next \in Nat
  BY ReplicatorAssumption DEF Enqueue, WrInv, WrShape, Ticks
<1>2. UNCHANGED <<config_, running, retry, sendVars, stop, flush_epoch, exhausted, acked, stored,
        faults>>
  BY DEF Enqueue
<1>3. p \in config_.callers /\ prod[p].pc = "idle" BY DEF Enqueue
<1>4. CASE Push(p, next) BY <1>1, <1>2, <1>3, <1>4, PushKeeps
<1>5. CASE /\ prod' = [prod EXCEPT ![p] = [pc |-> "blocked", tick |-> next, before |-> 0]]
           /\ UNCHANGED <<queue_, log, returned>>
  <2> DEFINE c == [pc |-> "blocked", tick |-> next, before |-> 0]
  <2>1. c \in CallType /\ c.pc # "sync" /\ c.tick \in Ticks BY <1>1 DEF CallType
  <2> HIDE DEF c
  <2>2. prod' = [prod EXCEPT ![p] = c] BY <1>5 DEF c
  <2> QED BY <1>1, <1>2, <1>3, <1>5, <2>1, <2>2, CallKeeps, Zenon
<1>6. CASE UNCHANGED <<queue_, prod, log, returned>>
  <2>1. prod[p] \in CallType /\ prod' = [prod EXCEPT ![p] = prod[p]] BY <1>6 DEF WrInv, WrShape
  <2> QED BY <1>1, <1>2, <1>3, <1>6, <2>1, CallKeeps, Zenon
<1> QED BY <1>4, <1>5, <1>6 DEF Enqueue

LEMMA UnblockKeeps == ASSUME WrInv, NEW p \in Producers, Unblock(p) PROVE WrInv'
<1>1. prod[p].tick \in Ticks /\ next' = next /\ next \in Nat \ {0} /\ prod[p].pc = "blocked"
  BY DEF Unblock, WrInv, WrShape
<1>2. UNCHANGED <<config_, running, retry, sendVars, stop, flush_epoch, exhausted, acked, stored,
        faults>>
  BY DEF Unblock
<1>3. LoneCaller => p \in config_.callers BY <1>1, CallerAtWork
<1>4. CASE Push(p, prod[p].tick) BY <1>1, <1>2, <1>3, <1>4, PushKeeps
<1>5. CASE prod' = [prod EXCEPT ![p] = IdleProducer] /\ UNCHANGED <<queue_, log, returned>>
  <2>1. IdleProducer \in CallType /\ IdleProducer.pc = "idle" BY DEF CallType, IdleProducer
  <2> QED BY <1>1, <1>2, <1>3, <1>5, <2>1, CallKeeps, ZenonT(30)
<1> QED BY <1>4, <1>5 DEF Unblock

LEMMA SyncReturnKeeps == ASSUME WrInv, NEW p \in Producers, SyncReturn(p) PROVE WrInv'
<1> USE DEF WrInv
<1>1. flush' = flush /\ pending' = pending /\ failed' = failed /\ wspc' = wspc
  BY DEF sendVars, SyncReturn
<1>0. UNCHANGED <<config_, running, queue_, retry, stop, flush_epoch, next, log, exhausted, acked,
        stored, faults>>
      /\ prod[p].pc = "sync" /\ returned' = returned \cup {prod[p].tick}
         /\ prod' = [prod EXCEPT ![p] = IdleProducer]
      /\ (flush_epoch > prod[p].before \/ config_.timeouts)
  BY DEF SyncReturn
<1>2. StoreGrows BY <1>0, StoreSame
<1>3. Sent' BY <1>1, <1>2, SentKept
<1>4. AckedOnQuorum' BY <1>0, <1>2, AckedKept
<1>6. AllTraced' BY <1>0, <1>1 DEF AllTraced, Traced, HeldIn
<1>7. Turns' BY <1>0, <1>1 DEF Turns, Flushing
<1>9. prod' \in [Producers -> CallType] /\ prod'[p].pc = "idle"
      /\ \A u \in Producers : u # p => prod'[u] = prod[u]
  BY <1>0 DEF WrShape, CallType, IdleProducer
<1>11. WrShape' BY <1>0, <1>1, <1>9 DEF WrShape
<1>12. Awaited'
  <2> SUFFICES ASSUME LoneCaller' PROVE Awaited' BY DEF Awaited
  <2>1. LoneCaller BY <1>0 DEF LoneCaller
  <2>2. p \in config_.callers /\ config_.callers = {p} BY <2>1, <1>0, CallerAtWork, OneCaller
  <2>4. prod[p].before # flush_epoch
    <3>1. flush_epoch > prod[p].before BY <1>0, <2>1 DEF LoneCaller
    <3> QED BY <3>1 DEF WrShape, CallType
  <2>3. ~flush.bad /\ retry = <<>> /\ pending = <<>> /\ failed = <<>> /\ queue_ = <<>>
        /\ flush.batch = <<>>
        /\ (\A x \in returned : OnQuorum(x))
           /\ (\A u \in Producers \ config_.callers : prod[u].pc = "idle")
        /\ OnQuorum(prod[p].tick)
    BY <2>1, <2>2, <2>4, <1>0 DEF Awaited
  <2>7. \A x \in returned' : OnQuorum(x)' BY <1>0, <2>3, <1>2, QuorumGrows
  <2>8. \A u \in Producers \ config_.callers : prod'[u].pc = "idle" BY <2>2, <2>3, <1>9
  <2>9. \A u \in config_.callers : prod'[u].pc # "sync" BY <2>2, <1>9
  <2> QED BY <1>0, <1>1, <2>3, <2>7, <2>8, <2>9 DEF Awaited
<1> QED BY <1>3, <1>4, <1>6, <1>7, <1>11, <1>12

\* A replica was sent the batch of the flush in progress.
LEMMA FlushStepKeeps ==
  ASSUME WrInv, Flushing, FlushStep, UNCHANGED <<config_, running, queue_, pending, failed, wspc, stop,
         prodVars>>
  PROVE  WrInv'
<1> USE DEF WrInv
<1>1. UNCHANGED <<prod, next, log, returned>> BY DEF prodVars
<1>2. PICK ok \in BOOLEAN : Replicate(flush.i, flush.batch, ok)
                            /\ flush' = [flush EXCEPT !.i = @ + 1, !.acks = IF ok THEN @ + 1 ELSE @,
                               !.bad = @ \/ ~ok]
  BY Zenon DEF FlushStep
<1>3. flush.i \in Replicas /\ UNCHANGED <<retry, flush_epoch, exhausted, acked>> BY DEF FlushStep
<1>4. flush.acks \in Nat /\ flush.i \in Nat \ {0} /\ flush.batch \in Seq(Ticks)
      /\ flush.bad \in BOOLEAN /\ flush.i <= NumReplicas
      /\ NumReplicas \in Nat
  BY <1>3, FlushAcks, ReplicaSize DEF Replicas
<1>5. flush'.i = flush.i + 1 /\ flush'.batch = flush.batch
      /\ flush'.acks = (IF ok THEN flush.acks + 1 ELSE flush.acks)
      /\ flush'.bad = (flush.bad \/ ~ok) /\ flush' \in FlushType
  <2> DEFINE f == [batch |-> flush.batch, i |-> flush.i + 1,
      acks |-> IF ok THEN flush.acks + 1 ELSE flush.acks,
                   bad |-> flush.bad \/ ~ok]
  <2>1. flush' = f BY <1>2, Zenon DEF WrShape, FlushType
  <2>2. flush.i + 1 \in 1..(NumReplicas + 1) BY <1>4
  <2>3. (IF ok THEN flush.acks + 1 ELSE flush.acks) \in Nat BY <1>4
  <2>4. f \in FlushType BY <1>4, <2>2, <2>3 DEF FlushType
  <2> QED BY <2>1, <2>4
<1>6. StoreGrows /\ faults' \in Nat /\ (faults' = 0 => faults = 0 /\ ok)
      /\ (ok => Range(flush.batch) \subseteq Range(stored'[flush.i]))
  BY <1>2, <1>3, <1>4, ReplicateGrows
<1>7. WrShape' BY <1>1, <1>3, <1>5, <1>6 DEF WrShape, StoreGrows
<1>8. Turns' BY <1>3, <1>5 DEF Turns, Flushing
<1>9. AckedOnQuorum' BY <1>3, <1>6, AckedKept
<1>10. AllTraced'
  <2>1. \A r \in Replicas : Range(stored[r]) \subseteq Range(stored'[r]) BY <1>6 DEF StoreGrows
  <2>2. ASSUME NEW t, Traced(t) PROVE Traced(t)' BY <2>1, <2>2, <1>3, <1>5 DEF Traced, HeldIn
  <2> QED BY <1>1, <2>2 DEF AllTraced
<1>11. Sent'
  <2> DEFINE Has(r) == Range(flush.batch) \subseteq Range(stored'[r])
  <2>1. 1..(flush.i - 1) \subseteq Replicas /\ flush.i \notin 1..(flush.i - 1) /\ flush'.i - 1 = flush.i
        /\ 1..flush.i = 1..(flush.i - 1) \cup {flush.i}
    BY <1>4, <1>5 DEF Replicas
  <2>2. \A r \in 1..(flush.i - 1) : Keeps(r, flush.batch) => Has(r) BY <2>1, <1>6 DEF Keeps, StoreGrows
  <2>3. ok => Has(flush.i) BY <1>6
  <2>4. ~flush'.bad => \A r \in 1..flush.i : Has(r)
    <3> SUFFICES ASSUME ~flush'.bad PROVE \A r \in 1..flush.i : Has(r) OBVIOUS
    <3>1. ok /\ ~flush.bad BY <1>5, Zenon
    <3>2. \A r \in 1..(flush.i - 1) : Keeps(r, flush.batch) BY <3>1 DEF Sent
    <3> QED BY <3>1, <3>2, <2>1, <2>2, <2>3
  <2>5. PICK S \in SUBSET (1..(flush.i - 1)) : Cardinality(S) = flush.acks
        /\ \A r \in S : Keeps(r, flush.batch)
    BY DEF Sent
  <2>6. IsFiniteSet(S)
    <3>1. S \subseteq Replicas BY <2>1
    <3> QED BY <3>1, ReplicaSize, FS_Subset, Zenon
  <2>7. Cardinality(S \cup {flush.i}) = flush.acks + 1
    <3>1. flush.i \notin S BY <2>1
    <3> QED BY <3>1, <2>5, <2>6, FS_AddElement
  <2>8. \E T \in SUBSET (1..flush.i) : Cardinality(T) = flush'.acks /\ \A r \in T : Has(r)
    <3>0. \A r \in S : Has(r) BY <2>2, <2>5
    <3>1. CASE ok
      <4>1. S \cup {flush.i} \in SUBSET (1..flush.i) BY <2>1, <2>5, Zenon
      <4>2. Cardinality(S \cup {flush.i}) = flush'.acks BY <3>1, <2>7, <1>5
      <4>3. \A r \in S \cup {flush.i} : Has(r) BY <3>0, <3>1, <2>3
      <4> QED BY <4>1, <4>2, <4>3
    <3>2. CASE ~ok
      <4>1. S \in SUBSET (1..flush.i) BY <2>1, <2>5
      <4>2. Cardinality(S) = flush'.acks BY <3>2, <2>5, <1>5
      <4> QED BY <3>0, <4>1, <4>2
    <3> QED BY <3>1, <3>2
  <2>9. \A r : Has(r) = (Range(flush'.batch) \subseteq Range(stored'[r])) BY <1>5
  <2> HIDE DEF Has
  <2>10. (~flush'.bad => \A r \in 1..(flush'.i - 1) : Range(flush'.batch) \subseteq Range(stored'[r]))
         /\ \E T \in SUBSET (1..(flush'.i - 1)) :
               Cardinality(T) = flush'.acks
               /\ \A r \in T : Range(flush'.batch) \subseteq Range(stored'[r])
    BY <2>1, <2>4, <2>8, <2>9, Zenon
  <2> QED BY <2>10 DEF Sent, Keeps
<1>12. Awaited'
  <2> SUFFICES ASSUME LoneCaller' PROVE Awaited' BY DEF Awaited
  <2>1. LoneCaller /\ ok BY <1>6 DEF LoneCaller
  <2>2. ~flush'.bad BY <2>1, <1>5, Zenon DEF Awaited
  <2>3. \A x : OnQuorum(x) => OnQuorum(x)' BY <1>6, QuorumGrows
  <2> QED BY <1>1, <1>3, <1>5, <2>1, <2>2, <2>3 DEF Awaited
<1> QED BY <1>7, <1>8, <1>9, <1>10, <1>11, <1>12

\* The flush in progress is over.
LEMMA FlushEndKeeps ==
  ASSUME WrInv, FlushEnd, UNCHANGED <<config_, running, queue_, pending, failed, prodVars>>,
         \/ wspc = "flush" /\ wspc' = "retry" /\ stop' = stop
         \/ stop = "flush" /\ stop' = "done" /\ wspc' = wspc
  PROVE  WrInv'
<1> USE DEF WrInv
<1>1. UNCHANGED <<prod, next, log, returned>> BY DEF prodVars
<1>2. UNCHANGED <<stored, faults>> /\ flush' = NoFlush /\ flush_epoch' = flush_epoch + 1
        /\ flush.i \notin Replicas
  BY DEF FlushEnd
<1>3. NoFlush \in FlushType /\ flush'.batch = <<>> /\ flush'.i = 1 /\ flush'.acks = 0
      /\ flush'.bad = FALSE
  BY <1>2, ReplicaSize DEF NoFlush, FlushType
<1>4. StoreGrows BY <1>2, StoreSame
<1>5. Sent' BY <1>3, SentFresh
<1>6. pending = <<>> /\ failed = <<>> /\ flush.batch # <<>> /\ Len(retry) <= RetryCapacity
      /\ ~Flushing' /\ (stop' \in {"flush", "done"} => wspc' = "exit") /\ wspc' # "retrying"
  <2>1. Flushing /\ wspc # "retrying" BY DEF Turns, Flushing
  <2>2. pending = <<>> /\ failed = <<>> /\ flush.batch # <<>> BY <2>1 DEF Turns
  <2>3. Len(retry) + Len(pending) + Len(failed) <= RetryCapacity BY DEF Turns
  <2>4. Len(retry) <= RetryCapacity BY <2>2, <2>3 DEF WrShape
  <2>5. ~Flushing' /\ (stop' \in {"flush", "done"} => wspc' = "exit") /\ wspc' # "retrying"
    BY DEF Turns, Flushing
  <2> QED BY <2>2, <2>4, <2>5
<1>7. flush.batch \in Seq(Ticks) /\ RetryCapacity \in Nat /\ retry \in Seq(Entry)
  BY FlushAcks, ReplicatorAssumption DEF WrShape
<1>8. [batch |-> flush.batch, attempts |-> 0] \in Entry BY <1>7 DEF Entry
<1> DEFINE e == [batch |-> flush.batch, attempts |-> 0]
<1>9. e \in Entry /\ e.batch = flush.batch BY <1>8
<1>10. \/ retry' = retry /\ ~(flush.bad /\ MaxRetries > 0 /\ Len(retry) < RetryCapacity)
       \/ retry' = Append(retry, e) /\ Len(retry) < RetryCapacity /\ flush.bad
  BY DEF FlushEnd
<1> HIDE DEF e
<1>11. retry' \in Seq(Entry) /\ Len(retry') <= RetryCapacity
       /\ (\A t : HeldIn(retry, t) => HeldIn(retry', t))
  <2>1. CASE retry' = retry BY <2>1, <1>6, <1>7
  <2>2. CASE retry' = Append(retry, e) /\ Len(retry) < RetryCapacity
    <3>1. retry' \in Seq(Entry) /\ (\A t : HeldIn(retry, t) => HeldIn(retry', t))
      BY <2>2, <1>7, <1>9, HeldAppend
    <3>2. Len(retry') = Len(retry) + 1 /\ Len(retry) \in Nat BY <2>2, <1>7, <1>9
    <3> QED BY <3>1, <3>2, <2>2, <1>7
  <2> QED BY <2>1, <2>2, <1>10
<1>12. acked' = (IF flush.acks >= Required THEN acked \cup Range(flush.batch) ELSE acked)
  BY DEF FlushEnd
<1>13. Range(flush.batch) \subseteq Ticks BY <1>7, RangeOfSeq
<1>14. WrShape' BY <1>1, <1>2, <1>3, <1>6, <1>11, <1>12, <1>13 DEF WrShape
<1>15. Turns' BY <1>3, <1>6, <1>7, <1>11 DEF Turns
<1>16. AckedOnQuorum'
  <2>1. \A t \in acked' : OnQuorum(t) BY <1>2, <1>12, AckedBatch DEF AckedOnQuorum
  <2> QED BY <2>1, <1>4, QuorumGrows DEF AckedOnQuorum
<1>17. AllTraced'
  <2> SUFFICES ASSUME MaxRetries > 0, NumReplicas > 0, NEW t \in Range(log) PROVE Traced(t)'
    BY <1>1 DEF AllTraced
  <2>1. Traced(t) BY DEF AllTraced
  <2>2. exhausted \subseteq exhausted' BY DEF FlushEnd
  <2>3. CASE t \in Range(flush.batch)
    <3>1. CASE flush.bad /\ Len(retry) < RetryCapacity
      <4>1. retry' = Append(retry, e) BY <3>1, <1>10
      <4> QED BY <4>1, <1>7, <1>9, <2>3, HeldAppend DEF Traced
    <3>2. CASE flush.bad /\ Len(retry) >= RetryCapacity BY <3>2, <2>3 DEF Traced, FlushEnd
    <3>3. CASE ~flush.bad
      <4>1. flush.i = NumReplicas + 1 /\ NumReplicas \in Nat
        BY <1>2, FlushAcks, ReplicaSize DEF Replicas
      <4>2. 1 \in 1..(flush.i - 1) /\ 1 \in Replicas BY <4>1 DEF Replicas
      <4>3. t \in Range(stored[1]) BY <4>2, <3>3, <2>3 DEF Sent, Keeps
      <4> QED BY <4>2, <4>3, <1>2 DEF Traced
    <3>4. Len(retry) \in Nat BY <1>7
    <3> QED BY <3>1, <3>2, <3>3, <3>4, <1>7
  <2>4. CASE t \notin Range(flush.batch)
    BY <2>1, <2>2, <2>4, <1>2, <1>11 DEF Traced
  <2> QED BY <2>3, <2>4
<1>18. Awaited'
  <2> SUFFICES ASSUME LoneCaller' PROVE Awaited' BY DEF Awaited
  <2>1. LoneCaller BY <1>2 DEF LoneCaller
  <2>2. ~flush.bad /\ retry = <<>> /\ (\A x \in returned : OnQuorum(x))
        /\ \A u \in Producers \ config_.callers : prod[u].pc = "idle"
    BY <2>1 DEF Awaited
  <2>3. retry' = <<>> BY <1>10, <2>2
  <2>4. \A x : OnQuorum(x) => OnQuorum(x)' BY <1>4, QuorumGrows
  <2>5. ASSUME NEW p \in config_.callers
        PROVE  queue_ = <<>> /\ prod[p].pc = "sync" /\ prod[p].before < flush_epoch'
               /\ OnQuorum(prod[p].tick)
    <3>1. prod[p].pc = "sync" /\ prod[p].before = flush_epoch /\ queue_ = <<>>
          /\ flush.batch = <<prod[p].tick>>
      BY <1>6, <2>1 DEF Awaited
    <3>2. prod[p].tick \in Range(flush.batch) BY <3>1 DEF Range
    <3>3. OnQuorum(prod[p].tick) BY <3>2, <2>1, <2>2, <1>2, SentToAll DEF LoneCaller
    <3>4. flush_epoch \in Nat BY DEF WrShape
    <3> QED BY <3>1, <3>3, <3>4, <1>2
  <2>6. \A p \in config_.callers : prod[p].before # flush_epoch'
    <3>1. \A p \in config_.callers : prod[p].before \in Nat BY QuorumType DEF WrShape, CallType
    <3> QED BY <3>1, <2>5, <1>2 DEF WrShape
  <2> QED BY <1>1, <1>3, <1>6, <2>2, <2>3, <2>4, <2>5, <2>6 DEF Awaited
<1> QED BY <1>5, <1>14, <1>15, <1>16, <1>17, <1>18

\* The whole queue becomes the batch of a flush (send_loop and stop).
LEMMA TakeKeeps ==
  ASSUME WrInv, flush' = [NoFlush EXCEPT !.batch = queue_], queue_' = <<>>,
         flush.batch = <<>>, wspc # "retrying",
         UNCHANGED <<config_, retry, pending, failed, flush_epoch, prodVars, exhausted, acked, stored,
           faults>>,
         wspc' \in {"wait", "flush", "retry", "exit"}, stop' \in {"no", "join", "flush", "done"},
         stop' \in {"flush", "done"} => wspc' = "exit", Flushing' <=> queue_ # <<>>
  PROVE  WrInv'
<1> USE DEF WrInv
<1>1. UNCHANGED <<prod, next, log, returned>> BY DEF prodVars
<1>2. flush'.batch = queue_ /\ flush'.i = 1 /\ flush'.acks = 0 /\ flush'.bad = FALSE
      /\ flush' \in FlushType
  <2> DEFINE f == [batch |-> queue_, i |-> 1, acks |-> 0, bad |-> FALSE]
  <2>1. flush' = f BY Zenon DEF NoFlush
  <2>2. 1 \in 1..(NumReplicas + 1) BY ReplicaSize
  <2>3. f \in FlushType BY <2>2 DEF FlushType, WrShape
  <2>4. f.batch = queue_ /\ f.i = 1 /\ f.acks = 0 /\ f.bad = FALSE OBVIOUS
  <2> HIDE DEF f
  <2> QED BY <2>1, <2>3, <2>4, Zenon
<1>3. StoreGrows BY StoreSame
<1>4. Sent' BY <1>2, SentFresh
<1>5. WrShape' BY <1>1, <1>2 DEF WrShape
<1>6. Turns' BY <1>2 DEF Turns
<1>7. AckedOnQuorum' BY <1>3, AckedKept
<1>8. AllTraced' BY <1>1, <1>2, RangeEmpty DEF AllTraced, Traced, HeldIn
<1>9. Awaited'
  <2> SUFFICES ASSUME LoneCaller' PROVE Awaited' BY DEF Awaited
  <2>1. LoneCaller BY DEF LoneCaller
  <2>2. \A x : OnQuorum(x) => OnQuorum(x)' BY <1>3, QuorumGrows
  <2> QED BY <1>1, <1>2, <2>1, <2>2 DEF Awaited
<1> QED BY <1>4, <1>5, <1>6, <1>7, <1>8, <1>9

LEMMA TakeBatchKeeps == ASSUME WrInv, TakeBatch PROVE WrInv'
<1>1. wspc = "wait" /\ stop \in {"no", "join"} /\ flush.batch = <<>>
  BY DEF TakeBatch, WrInv, Turns, Flushing, WrShape
<1>2. Flushing' <=> queue_ # <<>> BY <1>1 DEF TakeBatch, Flushing
<1> QED BY <1>1, <1>2, TakeKeeps DEF TakeBatch

LEMMA StopJoinKeeps == ASSUME WrInv, StopJoin PROVE WrInv'
<1>1. wspc = "exit" /\ stop = "join" /\ flush.batch = <<>> BY DEF StopJoin, WrInv, Turns, Flushing
<1>2. Flushing' <=> queue_ # <<>> BY <1>1 DEF StopJoin, Flushing
<1> QED BY <1>1, <1>2, TakeKeeps DEF StopJoin

\* Only the threads' places change.
LEMMA PlaceKeeps ==
  ASSUME WrInv, UNCHANGED <<config_, queue_, retry, flush, pending, failed, flush_epoch, prodVars,
         exhausted, acked, stored, faults>>,
         wspc' \in {"wait", "flush", "retry", "retrying", "exit"},
         wspc' = "retrying" <=> wspc = "retrying",
         stop' \in {"no", "join", "flush", "done"}, stop' \in {"flush", "done"} => wspc' = "exit",
         Flushing' <=> Flushing
  PROVE  WrInv'
<1> USE DEF WrInv
<1>1. UNCHANGED <<prod, next, log, returned>> BY DEF prodVars
<1>2. StoreGrows BY StoreSame
<1>3. Sent' BY <1>2, SentKept
<1>4. WrShape' BY <1>1 DEF WrShape
<1>5. Turns' BY DEF Turns
<1>6. AckedOnQuorum' BY <1>2, AckedKept
<1>7. AllTraced' BY <1>1 DEF AllTraced, Traced, HeldIn
<1>8. Awaited'
  <2>1. \A x : OnQuorum(x) => OnQuorum(x)' BY <1>2, QuorumGrows
  <2>2. LoneCaller' => LoneCaller BY DEF LoneCaller
  <2> QED BY <1>1, <2>1, <2>2 DEF Awaited
<1> QED BY <1>3, <1>4, <1>5, <1>6, <1>7, <1>8


LEMMA RetryTakeKeeps == ASSUME WrInv, RetryTake PROVE WrInv'
<1> USE DEF WrInv
<1>1. UNCHANGED <<prod, next, log, returned>> BY DEF RetryTake, prodVars
<1>2. wspc = "retry" /\ wspc' = "retrying" /\ pending' = retry /\ retry' = <<>> /\ failed' = <<>>
      /\ UNCHANGED <<config_, queue_, flush, stop, flush_epoch, exhausted, acked, stored, faults>>
  BY DEF RetryTake
<1>3. pending = <<>> /\ failed = <<>> BY <1>2 DEF Turns
<1>4. StoreGrows BY <1>2, StoreSame
<1>5. Sent' BY <1>2, <1>4, SentKept
<1>6. WrShape' BY <1>1, <1>2 DEF WrShape
<1>7. Turns'
  <2>1. Len(retry) + Len(pending) + Len(failed) <= RetryCapacity BY DEF Turns
  <2>2. Len(retry) \in Nat /\ Len(<<>>) = 0 BY DEF WrShape
  <2>3. (Len(retry) + Len(pending) + Len(failed) <= RetryCapacity)' BY <1>2, <1>3, <2>1, <2>2
  <2> QED BY <1>2, <2>3 DEF Turns, Flushing
<1>8. AckedOnQuorum' BY <1>2, <1>4, AckedKept
<1>9. AllTraced' BY <1>1, <1>2, <1>3, HeldEmpty DEF AllTraced, Traced
<1>10. Awaited'
  <2>1. \A x : OnQuorum(x) => OnQuorum(x)' BY <1>2, <1>4, QuorumGrows
  <2>2. LoneCaller' => LoneCaller BY <1>2 DEF LoneCaller
  <2> QED BY <1>1, <1>2, <2>1, <2>2 DEF Awaited
<1> QED BY <1>5, <1>6, <1>7, <1>8, <1>9, <1>10

\* process_retry_queue is done with the first entry, or has a replica less to try.
LEMMA RetryOneKeeps == ASSUME WrInv, RetryOne PROVE WrInv'
<1> USE DEF WrInv
<1> DEFINE e == Head(pending)
           more == [batch |-> e.batch, attempts |-> e.attempts + 1]
<1>1. UNCHANGED <<prod, next, log, returned>> BY DEF RetryOne, prodVars
<1>2. wspc = "retrying" /\ pending # <<>>
      /\ UNCHANGED <<config_, queue_, retry, wspc, stop, flush_epoch, acked>>
  BY DEF RetryOne
<1>3. retry = <<>> /\ stop \notin {"flush", "done"} /\ flush.batch = <<>> /\ ~Flushing
  BY <1>2 DEF Turns, Flushing
<1>4. /\ Tail(pending) \in Seq(Entry) /\ e \in Entry /\ Len(Tail(pending)) = Len(pending) - 1
      /\ \A t : HeldIn(pending, t) => t \in Range(e.batch) \/ HeldIn(Tail(pending), t)
      /\ Len(pending) \in Nat \ {0}
  BY <1>2, HeldTail DEF WrShape
<1>5. e.batch \in Seq(Ticks) /\ e.attempts \in Nat /\ more \in Entry /\ more.batch = e.batch
  BY <1>4 DEF Entry
<1>6. [e EXCEPT !.attempts = @ + 1] = more BY <1>4 DEF Entry
<1>7. NoFlush \in FlushType /\ NoFlush.batch = <<>> /\ NoFlush.i = 1 /\ NoFlush.acks = 0
      /\ NoFlush.bad = FALSE
  BY ReplicaSize DEF NoFlush, FlushType
<1>8. \/ /\ flush.i \in Replicas /\ Replicate(flush.i, e.batch, TRUE) /\ flush' = NoFlush
         /\ pending' = Tail(pending)
         /\ UNCHANGED <<failed, exhausted>>
      \/ /\ flush.i \in Replicas /\ Replicate(flush.i, e.batch, FALSE)
         /\ flush' = [flush EXCEPT !.i = @ + 1]
         /\ UNCHANGED <<pending, failed, exhausted>>
      \/ /\ flush' = NoFlush /\ pending' = Tail(pending) /\ UNCHANGED <<stored, faults>>
         /\ failed' = Append(failed, more) /\ UNCHANGED exhausted
      \/ /\ flush' = NoFlush /\ pending' = Tail(pending) /\ UNCHANGED <<stored, faults>>
         /\ exhausted' = exhausted \cup Range(e.batch) /\ UNCHANGED failed
  BY <1>6, Zenon DEF RetryOne
<1> HIDE DEF e, more
<1>9. StoreGrows /\ faults' \in Nat /\ (faults' = 0 => faults = 0)
  <2>1. CASE UNCHANGED <<stored, faults>> BY <2>1, StoreSame DEF WrShape
  <2>2. ASSUME NEW ok \in BOOLEAN, flush.i \in Replicas, Replicate(flush.i, e.batch, ok)
        PROVE  StoreGrows /\ faults' \in Nat /\ (faults' = 0 => faults = 0)
    BY <2>2, <1>5, ReplicateGrows
  <2> QED BY <2>1, <2>2, <1>8, Zenon
<1>10. ASSUME flush.i \in Replicas, flush' = [flush EXCEPT !.i = @ + 1]
       PROVE  flush' \in FlushType /\ flush'.batch = <<>> /\ flush'.i = flush.i + 1
              /\ flush'.acks = flush.acks /\ flush'.bad = flush.bad
  <2>1. flush.i + 1 \in 1..(NumReplicas + 1) BY <1>10, ReplicaSize DEF Replicas
  <2> QED BY <1>10, <2>1, <1>3, Zenon DEF WrShape, FlushType
<1>11. flush' \in FlushType /\ flush'.batch = <<>> BY <1>7, <1>8, <1>10, Zenon
<1>12. failed' \in Seq(Entry) /\ pending' \in Seq(Entry)
       /\ Len(pending') + Len(failed') <= Len(pending) + Len(failed)
  <2>1. failed \in Seq(Entry) /\ pending \in Seq(Entry) BY DEF WrShape
  <2>2. Append(failed, more) \in Seq(Entry) /\ Len(Append(failed, more)) = Len(failed) + 1
        /\ Len(failed) \in Nat
    BY <2>1, <1>5
  <2>3. Tail(pending) \in Seq(Entry) /\ Len(Tail(pending)) = Len(pending) - 1 /\ Len(pending) \in Nat
    BY <1>4
  <2>4. pending' \in {pending, Tail(pending)} /\ failed' \in {failed, Append(failed, more)}
        /\ (failed' = Append(failed, more) => pending' = Tail(pending) \/ failed' = failed)
    BY <1>8, Zenon
  <2>5. failed' \in Seq(Entry) /\ pending' \in Seq(Entry) BY <2>1, <2>2, <2>3, <2>4, Zenon
  <2>6. Len(pending') <= Len(pending) /\ Len(pending') \in Nat BY <2>3, <2>4, <2>5
  <2>7. CASE failed' = failed BY <2>2, <2>3, <2>5, <2>6, <2>7
  <2>8. CASE failed' = Append(failed, more) /\ pending' = Tail(pending)
    <3>1. Len(failed') = Len(failed) + 1 /\ Len(pending') = Len(pending) - 1 BY <2>2, <2>3, <2>8
    <3> QED BY <3>1, <2>2, <2>3, <2>5
  <2> QED BY <2>4, <2>7, <2>8
<1>13. WrShape' BY <1>1, <1>2, <1>9, <1>11, <1>12 DEF WrShape, StoreGrows
<1>14. Turns'
  <2>1. Len(retry) + Len(pending) + Len(failed) <= RetryCapacity BY DEF Turns
  <2>2. {Len(retry), Len(pending), Len(failed), Len(pending'), Len(failed'),
        RetryCapacity} \subseteq Nat
    BY <1>12, ReplicatorAssumption DEF WrShape
  <2>3. Len(retry') + Len(pending') + Len(failed') <= RetryCapacity BY <1>2, <1>12, <2>1, <2>2
  <2> QED BY <1>2, <1>3, <1>11, <2>3 DEF Turns, Flushing
<1>15. Sent'
  <2>1. CASE flush' = NoFlush BY <2>1, <1>7, SentFresh
  <2>2. CASE flush.i \in Replicas /\ flush' = [flush EXCEPT !.i = @ + 1]
    <3>1. flush'.batch = <<>> /\ flush'.i = flush.i + 1 /\ flush'.acks = flush.acks BY <2>2, <1>10
    <3>2. PICK S \in SUBSET (1..(flush.i - 1)) : Cardinality(S) = flush.acks BY DEF Sent
    <3>3. S \in SUBSET (1..(flush'.i - 1)) BY <3>1, FlushAcks, ReplicaSize
    <3>4. \A r : Keeps(r, flush.batch)' BY <3>1, RangeEmpty DEF Keeps
    <3> QED BY <3>1, <3>2, <3>3, <3>4 DEF Sent
  <2> QED BY <2>1, <2>2, <1>8, Zenon
<1>16. AckedOnQuorum' BY <1>2, <1>9, AckedKept
<1>17. AllTraced'
  <2> SUFFICES ASSUME MaxRetries > 0, NumReplicas > 0, NEW t \in Range(log) PROVE Traced(t)'
    BY <1>1 DEF AllTraced
  <2>1. Traced(t) BY DEF AllTraced
  <2>2. exhausted \subseteq exhausted' BY <1>8, Zenon
  <2>3. \A r \in Replicas : Range(stored[r]) \subseteq Range(stored'[r]) BY <1>9 DEF StoreGrows
  <2>4. HeldIn(failed, t) => HeldIn(failed', t)
    <3>1. failed \in Seq(Entry) BY DEF WrShape
    <3> QED BY <3>1, <1>5, <1>8, HeldAppend, Zenon
  <2>5. CASE HeldIn(pending, t) /\ pending' = Tail(pending)
    <3>1. CASE HeldIn(Tail(pending), t) BY <3>1, <2>5 DEF Traced
    <3>2. CASE t \in Range(e.batch)
      <4>1. CASE flush.i \in Replicas /\ Replicate(flush.i, e.batch, TRUE)
        <5>1. Range(e.batch) \subseteq Range(stored'[flush.i]) BY <4>1, <1>5, ReplicateGrows, Zenon
        <5> QED BY <5>1, <4>1, <3>2 DEF Traced
      <4>2. CASE failed' = Append(failed, more)
        <5>1. HeldIn(failed', t) BY <4>2, <3>2, <1>5, HeldAppend DEF WrShape
        <5> QED BY <5>1 DEF Traced
      <4>3. CASE exhausted' = exhausted \cup Range(e.batch) BY <4>3, <3>2 DEF Traced
      <4>4. CASE UNCHANGED pending
        <5>1. \A n \in Nat : n - 1 # n OBVIOUS
        <5>2. Len(Tail(pending)) = Len(pending) - 1 /\ Len(pending) \in Nat BY <1>4
        <5>3. Len(Tail(pending)) # Len(pending) BY <5>1, <5>2
        <5> QED BY <5>3, <4>4, <2>5, ZenonT(30)
      <4> QED BY <4>1, <4>2, <4>3, <4>4, <1>8, Zenon
    <3> QED BY <3>1, <3>2, <2>5, <1>4
  <2>6. CASE HeldIn(pending, t) /\ pending' = pending BY <2>6 DEF Traced
  <2>7. CASE ~HeldIn(pending, t)
    <3>1. CASE t \in Range(queue_) \cup exhausted BY <3>1, <1>2, <2>2 DEF Traced
    <3>2. CASE \E r \in Replicas : t \in Range(stored[r]) BY <3>2, <2>3 DEF Traced
    <3>3. CASE HeldIn(failed, t) BY <3>3, <2>4 DEF Traced
    <3> QED BY <3>1, <3>2, <3>3, <2>1, <2>7, <1>3, HeldEmpty, RangeEmpty DEF Traced
  <2> QED BY <2>5, <2>6, <2>7, <1>8, Zenon
<1>18. Awaited'
  <2> SUFFICES ASSUME LoneCaller' PROVE FALSE BY DEF Awaited
  <2>1. LoneCaller BY <1>2, <1>9 DEF LoneCaller
  <2> QED BY <2>1, <1>2 DEF Awaited
<1> QED BY <1>13, <1>14, <1>15, <1>16, <1>17, <1>18

\* The entries that failed again all fit.
LEMMA RetryEndKeeps == ASSUME WrInv, RetryEnd PROVE WrInv'
<1> USE DEF WrInv
<1>1. UNCHANGED <<prod, next, log, returned>> BY DEF RetryEnd, prodVars
<1>2. wspc = "retrying" /\ wspc' \in {"wait", "exit"} /\ pending = <<>> /\ failed' = <<>>
      /\ UNCHANGED <<config_, queue_, flush, pending, stop, flush_epoch, exhausted, acked, stored,
         faults>>
  BY DEF RetryEnd
<1>3. retry = <<>> /\ stop \notin {"flush", "done"} BY <1>2 DEF Turns
<1>4. failed \in Seq(Entry) /\ Len(failed) \in Nat /\ Len(failed) <= RetryCapacity
      /\ RetryCapacity \in Nat
  <2>1. Len(retry) + Len(pending) + Len(failed) <= RetryCapacity BY DEF Turns
  <2>2. Len(<<>>) = 0 /\ failed \in Seq(Entry) /\ Len(failed) \in Nat BY DEF WrShape
  <2> QED BY <2>1, <2>2, <1>2, <1>3, ReplicatorAssumption
<1>5. retry' = failed
  <2>1. retry \o failed = failed BY <1>3, <1>4, ConcatEmptySeq
  <2>2. retry' = SubSeq(failed, 1, Len(failed)) BY <2>1, <1>4 DEF RetryEnd
  <2> QED BY <2>2, <1>4, SubSeqFull
<1>6. StoreGrows BY <1>2, StoreSame
<1>7. Sent' BY <1>2, <1>6, SentKept
<1>8. WrShape' BY <1>1, <1>2, <1>4, <1>5 DEF WrShape
<1>9. Turns'
  <2>1. Len(<<>>) = 0 OBVIOUS
  <2>2. Len(retry') + Len(pending') + Len(failed') <= RetryCapacity BY <1>2, <1>4, <1>5, <2>1
  <2> QED BY <1>2, <1>3, <2>2 DEF Turns, Flushing
<1>10. AckedOnQuorum' BY <1>2, <1>6, AckedKept
<1>11. AllTraced' BY <1>1, <1>2, <1>3, <1>5, HeldEmpty DEF AllTraced, Traced
<1>12. Awaited'
  <2>1. \A x : OnQuorum(x) => OnQuorum(x)' BY <1>2, <1>6, QuorumGrows
  <2>2. LoneCaller' => LoneCaller BY <1>2 DEF LoneCaller
  <2> QED BY <1>1, <1>2, <1>5, <2>1, <2>2 DEF Awaited
<1> QED BY <1>7, <1>8, <1>9, <1>10, <1>11, <1>12

LEMMA WrNextKeeps == ASSUME WrInv, [WrNext]_wrVars PROVE WrInv'
<1>1. CASE UNCHANGED wrVars
  <2>1. UNCHANGED <<config_, queue_, retry, flush, pending, failed, wspc, stop, flush_epoch, prod,
          next, log, returned,
                    exhausted, acked, stored, faults>>
    BY <1>1 DEF wrVars, sendVars, prodVars
  <2> QED
  BY <2>1, ZenonT(30) DEF WrInv, WrShape, Turns, Flushing, Sent, Keeps, AllTraced, Traced, HeldIn, AckedOnQuorum,
     OnQuorum,
                      Required, Awaited, LoneCaller
<1>2. CASE \E p \in Producers : Enqueue(p) \/ Unblock(p) \/ SyncReturn(p)
  BY <1>2, EnqueueKeeps, UnblockKeeps, SyncReturnKeeps
<1>3. CASE TakeBatch BY <1>3, TakeBatchKeeps
<1>4. CASE SendFlush
  <2>1. wspc = "flush" /\ Flushing /\ stop' = stop
        /\ UNCHANGED <<config_, running, queue_, pending, failed, prodVars>>
    BY <1>4 DEF SendFlush, Flushing
  <2> QED BY <1>4, <2>1, FlushStepKeeps, FlushEndKeeps DEF SendFlush
<1>5. CASE RetryTake BY <1>5, RetryTakeKeeps
<1>6. CASE RetryOne BY <1>6, RetryOneKeeps
<1>7. CASE RetryEnd BY <1>7, RetryEndKeeps
<1>8. CASE SendExit
  <2>1. UNCHANGED <<config_, queue_, retry, flush, pending, failed, flush_epoch, prodVars, exhausted,
          acked, stored, faults>>
        /\ wspc = "wait" /\ wspc' = "exit" /\ stop' = stop BY <1>8 DEF SendExit
  <2>2. stop' \in {"no", "join", "flush", "done"} /\ (Flushing' <=> Flushing)
    BY <2>1 DEF WrInv, WrShape, Flushing
  <2> QED BY <2>1, <2>2, PlaceKeeps
<1>9. CASE StopBegin
  <2>1. UNCHANGED <<config_, queue_, retry, flush, pending, failed, flush_epoch, prodVars, exhausted,
          acked, stored, faults>>
        /\ wspc' = wspc /\ stop = "no" /\ stop' = "join" BY <1>9 DEF StopBegin, sendVars
  <2>2. wspc \in {"wait", "flush", "retry", "retrying", "exit"} /\ (Flushing' <=> Flushing)
    BY <2>1 DEF WrInv, WrShape, Flushing
  <2> QED BY <2>1, <2>2, PlaceKeeps
<1>10. CASE StopJoin BY <1>10, StopJoinKeeps
<1>11. CASE StopFlush
  <2>1. stop = "flush" /\ Flushing /\ wspc' = wspc
        /\ UNCHANGED <<config_, running, queue_, pending, failed, prodVars>>
    BY <1>11 DEF StopFlush, Flushing
  <2> QED BY <1>11, <2>1, FlushStepKeeps, FlushEndKeeps DEF StopFlush
<1> QED BY <1>1, <1>2, <1>3, <1>4, <1>5, <1>6, <1>7, <1>8, <1>9, <1>10, <1>11 DEF WrNext, SendNext,
    StopNext

LEMMA WrInitInv == WrInit => WrInv
<1> SUFFICES ASSUME WrInit PROVE WrInv OBVIOUS
<1> USE DEF WrInit
<1>1. NoFlush \in FlushType /\ NoFlush.batch = <<>> /\ NoFlush.i = 1 /\ NoFlush.acks = 0
      /\ NoFlush.bad = FALSE
  BY ReplicaSize DEF NoFlush, FlushType
<1>2. IdleProducer \in CallType /\ IdleProducer.pc = "idle" BY DEF IdleProducer, CallType
<1>3. WrShape BY <1>1, <1>2 DEF WrShape
<1>4. Turns BY <1>1, ReplicatorAssumption DEF Turns, Flushing
<1>5. Sent
  <2>1. 1..(flush.i - 1) = {} /\ flush.acks = 0 BY <1>1
  <2>2. Cardinality({}) = 0 BY FS_EmptySet
  <2> QED BY <2>1, <2>2 DEF Sent
<1>6. AllTraced BY RangeEmpty DEF AllTraced
<1>7. Awaited BY <1>1, <1>2, QuorumType, <1>3 DEF Awaited
<1> QED BY <1>3, <1>4, <1>5, <1>6, <1>7 DEF WrInv, AckedOnQuorum

LEMMA WrInvSuffices == WrInv => ReplicationAccounted
<1> SUFFICES ASSUME WrInv PROVE ReplicationAccounted OBVIOUS
<1> USE DEF WrInv
<1>1. Accounted
  <2> SUFFICES ASSUME MaxRetries > 0, NumReplicas > 0, NEW t \in Range(log)
               PROVE  t \in InHand \cup Somewhere \cup exhausted
    BY DEF Accounted, accepted
  <2>1. Traced(t) BY DEF AllTraced
  <2>2. CASE t \in Range(queue_) \cup Range(flush.batch) \cup exhausted BY <2>2 DEF InHand
  <2>3. CASE HeldIn(retry, t) BY <2>3 DEF HeldIn, InHand, Batches
  <2>4. CASE HeldIn(pending, t) BY <2>4 DEF HeldIn, InHand, Batches
  <2>5. CASE HeldIn(failed, t) BY <2>5 DEF HeldIn, InHand, Batches
  <2>6. CASE \E r \in Replicas : t \in Range(stored[r]) BY <2>6 DEF Somewhere
  <2> QED BY <2>1, <2>2, <2>3, <2>4, <2>5, <2>6 DEF Traced
<1>2. SyncAlone BY DEF SyncAlone, Awaited, LoneCaller
<1> QED BY <1>1, <1>2 DEF ReplicationAccounted

(* Whatever fails and whatever is full, a queued tick is in the            *)
(* replicator's hands, on a replica or counted as given up; what is        *)
(* counted as acknowledged is on the quorum; and so is the tick a lone     *)
(* caller of enqueue waited for (enqueue, flush_batch,                     *)
(* process_retry_queue, stop).                                             *)
THEOREM TicksAreAccounted == WrSpec => []ReplicationAccounted
<1>1. WrInit => WrInv BY WrInitInv
<1>2. WrInv /\ [WrNext]_wrVars => WrInv' BY WrNextKeeps
<1>3. WrInv => ReplicationAccounted BY WrInvSuffices
<1> QED BY <1>1, <1>2, <1>3, PTL DEF WrSpec

=============================================================================
