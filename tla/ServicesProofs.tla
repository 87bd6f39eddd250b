--------------------------- MODULE ServicesProofs ---------------------------
(***************************************************************************)
(* Broker consumers, sessions and API keys, for every number of messages,  *)
(* sessions, threads, servers and keys.                                    *)
(***************************************************************************)
EXTENDS KeyStore, SessionStore, FeedConsumer, FiniteSetTheorems, TLAPS

USE SMTT(20), ZenonT(20)

-----------------------------------------------------------------------------
(* Broker consumers                                                        *)

FdTypeOK ==
    /\ fdSetup \in FdSetups /\ fdStored \subseteq FdIds /\ fdSeen \subseteq FdIds
    /\ fdMsg \in FdIds \cup {0} /\ fdResult \in {"none", "ok", "failed"}
    /\ fdStats \in [FdCounters -> Nat]

\* What on_message told its caller to have stored is stored.
FdTold == fdMsg # 0 /\ fdResult = "ok" => fdMsg \in fdStored

\* The messages that owe a count: taken, not stored, and not on their way any more.
FdOwed == {m \in fdSeen \ fdStored : m # fdMsg \/ fdResult = "failed"}

FdSum == fdStats["decode_errors"] + fdStats["ingest_failures"]

FdInv ==
    /\ FdTypeOK /\ FdTold
    /\ fdSetup.kind = "kafka" /\ fdCommitted # 0 => fdCommitted \in fdStored
    /\ fdAcked \subseteq fdStored
    /\ fdSetup.wire # "bare" => Cardinality(FdOwed) <= FdSum

LEMMA FdIdsAre ==
    /\ IsFiniteSet(FdIds) /\ FdCap \in Nat /\ 0 \notin FdIds
    /\ \A m \in FdIds : FdMessages[m] \in [good : BOOLEAN, owner : {"local", "peer", "gone"}]
<1>1. PICK n \in Nat : FdIds = 1..n BY FdConstants DEF FdIds
<1>2. IsFiniteSet(1..n) BY <1>1, FS_Interval
<1>3. Cardinality(FdIds) \in Nat BY <1>1, <1>2, FS_CardinalityType
<1>4. 0 \notin FdIds BY <1>1
<1>5. \A m \in FdIds : FdMessages[m] \in [good : BOOLEAN, owner : {"local", "peer", "gone"}]
  <2> DEFINE S == [good : BOOLEAN, owner : {"local", "peer", "gone"}]
  <2>1. FdMessages \in Seq(S) BY FdConstants
  <2> HIDE DEF S
  <2>2. \A m \in FdIds : FdMessages[m] \in S BY <2>1 DEF FdIds
  <2> QED BY <2>2 DEF S
<1> QED BY <1>1, <1>2, <1>3, <1>4, <1>5 DEF FdCap

\* Fewer messages owe a count: the counters still cover them.
LEMMA FdFewer ==
    ASSUME NEW A \in SUBSET FdIds, NEW B \in SUBSET A
    PROVE  Cardinality(B) \in Nat /\ Cardinality(A) \in Nat /\ Cardinality(B) <= Cardinality(A)
<1>1. IsFiniteSet(A) /\ IsFiniteSet(B) BY FdIdsAre, FS_Subset
<1> QED BY <1>1, FS_Subset, FS_CardinalityType

LEMMA FdBumpIs ==
    ASSUME FdTypeOK, NEW c \in FdCounters, fdStats' = FdBump(c)
    PROVE  /\ fdStats' \in [FdCounters -> Nat] /\ fdStats'[c] \in {fdStats[c] + 1, FdCap}
           /\ \A d \in FdCounters : d # c => fdStats'[d] = fdStats[d]
<1> DEFINE x == IF fdStats[c] < FdCap THEN fdStats[c] + 1 ELSE FdCap
<1>1. fdStats[c] \in Nat BY DEF FdTypeOK
<1>2. x \in {fdStats[c] + 1, FdCap} /\ x \in Nat BY <1>1, FdIdsAre
<1>3. fdStats' = [fdStats EXCEPT ![c] = x] BY DEF FdBump
<1> HIDE DEF x
<1> QED BY <1>2, <1>3 DEF FdTypeOK

\* One more message owes a count, and one counter went up or is at its bound.
LEMMA FdOneMore ==
    ASSUME FdTypeOK, NEW A \in SUBSET FdIds, NEW B \in SUBSET FdIds, NEW m, B \subseteq A \cup {m},
           Cardinality(A) <= FdSum, NEW c \in FdCounters, fdStats' = FdBump(c)
    PROVE  Cardinality(B) <= FdSum'
<1>1. IsFiniteSet(A) /\ IsFiniteSet(B) /\ Cardinality(A) \in Nat /\ Cardinality(B) \in Nat
  BY FdIdsAre, FS_Subset, FS_CardinalityType
<1>2. Cardinality(B) <= Cardinality(A) + 1
  <2>1. IsFiniteSet(A \cup {m}) /\ Cardinality(A \cup {m}) \in {Cardinality(A), Cardinality(A) + 1}
    BY <1>1, FS_AddElement
  <2>2. Cardinality(B) <= Cardinality(A \cup {m}) BY <2>1, FS_Subset
  <2> QED BY <2>1, <2>2, <1>1
<1>3. Cardinality(B) <= FdCap BY FdFewer, FdIdsAre DEF FdCap
<1>4. fdStats[c] \in Nat /\ fdStats["decode_errors"] \in Nat /\ fdStats["ingest_failures"] \in Nat
  BY DEF FdTypeOK, FdCounters
<1> DEFINE x == fdStats'[c]
<1>5. x \in {fdStats[c] + 1, FdCap} /\ x \in Nat BY FdBumpIs
<1>7. fdStats' \in [FdCounters -> Nat] BY FdBumpIs
<1>8. fdStats'[c] = x /\ \A d \in FdCounters : d # c => fdStats'[d] = fdStats[d] BY FdBumpIs
<1> HIDE DEF x
<1>9. FdSum' = fdStats'["decode_errors"] + fdStats'["ingest_failures"] BY DEF FdSum
<1>10. CASE c = "decode_errors"
  <2>1. fdStats'["ingest_failures"] = fdStats["ingest_failures"] /\ fdStats'["decode_errors"] = x
    BY <1>8, <1>10 DEF FdCounters
  <2> QED BY <2>1, <1>1, <1>2, <1>3, <1>4, <1>5, <1>7, <1>9, <1>10, FdIdsAre DEF FdSum
<1>11. CASE c = "ingest_failures"
  <2>1. fdStats'["ingest_failures"] = x /\ fdStats'["decode_errors"] = fdStats["decode_errors"]
    BY <1>8, <1>11 DEF FdCounters
  <2> QED BY <2>1, <1>1, <1>2, <1>3, <1>4, <1>5, <1>7, <1>9, <1>11, FdIdsAre DEF FdSum
<1> QED BY <1>10, <1>11 DEF FdCounters

LEMMA FdOwedIs == ASSUME FdTypeOK PROVE FdOwed \in SUBSET FdIds
BY DEF FdTypeOK, FdOwed

LEMMA FdInitInv == FdInit => FdInv
<1> SUFFICES ASSUME FdInit PROVE FdInv OBVIOUS
<1>1. FdTypeOK BY DEF FdInit, FdTypeOK, FdCounters
<1>2. FdOwed = {} BY DEF FdOwed, FdInit
<1>3. Cardinality(FdOwed) = 0 BY <1>2, FS_EmptySet
<1>4. FdSum = 0 BY DEF FdSum, FdInit, FdCounters
<1> QED BY <1>1, <1>3, <1>4 DEF FdInv, FdInit, FdTold

\* A step that leaves what was taken, stored, counted and told alone.
LEMMA FdFrame ==
    ASSUME FdInv, UNCHANGED <<fdSetup, fdStored, fdSeen, fdMsg, fdResult, fdStats, fdAcked>>,
           fdSetup.kind = "kafka" => fdCommitted' = fdCommitted
    PROVE  FdInv'
<1>1. FdOwed' = FdOwed /\ FdSum' = FdSum BY DEF FdOwed, FdSum
<1> QED BY <1>1 DEF FdInv, FdTypeOK, FdTold

LEMMA FdReceiveInv ==
    ASSUME FdInv, NEW m \in FdIds, FdReceive(m)
    PROVE  FdInv'
<1>t. FdTypeOK BY DEF FdInv
<1>0. fdMsg = 0 /\ UNCHANGED <<fdSetup, fdCommitted, fdAcked, fdStored>> BY DEF FdReceive, fdBroker
<1>1. CASE fdSetup.kind = "pulsar" /\ m \in fdAcked
  <2>1. UNCHANGED <<fdMsg, fdResult, fdStats, fdSeen>> BY <1>1 DEF FdReceive, fdCall
  <2> QED BY <2>1, <1>0, FdFrame
<1>2. CASE ~(fdSetup.kind = "pulsar" /\ m \in fdAcked)
  <2>1. FdOnMessage(m) BY <1>2 DEF FdReceive
  <2>2. fdMsg' = m /\ fdSeen' = fdSeen \cup {m} /\ 0 \notin FdIds BY <2>1, FdIdsAre DEF FdOnMessage
  <2>3. FdOwed = fdSeen \ fdStored BY <1>0, <1>t, FdIdsAre DEF FdOwed, FdTypeOK
  <2>4. FdOwed' \subseteq FdOwed \cup {m} /\ FdOwed' \in SUBSET FdIds
    BY <2>2, <2>3, <1>0, <1>t, Zenon DEF FdOwed, FdTypeOK
  <2>5. CASE Decodes(m)
    <3>1. fdResult' = "none" /\ fdStats' = fdStats BY <2>1, <2>5 DEF FdOnMessage
    <3>2. FdOwed' \subseteq FdOwed BY <3>1, <2>2, <2>3, <1>0 DEF FdOwed
    <3>3. fdSetup.wire # "bare" => Cardinality(FdOwed') <= FdSum'
      <4>1. FdSum' = FdSum /\ FdSum \in Nat BY <3>1, <1>t DEF FdSum, FdTypeOK, FdCounters
      <4> QED BY <4>1, <3>2, <1>t, FdOwedIs, FdFewer DEF FdInv
    <3> QED BY <3>1, <3>3, <2>2, <1>0, <1>t DEF FdInv, FdTypeOK, FdTold
  <2>6. CASE ~Decodes(m)
    <3>1. fdResult' = "failed" /\ fdStats' = FdBump("decode_errors") BY <2>1, <2>6 DEF FdOnMessage
    <3>2. "decode_errors" \in FdCounters BY DEF FdCounters
    <3>3. fdSetup.wire # "bare" => Cardinality(FdOwed') <= FdSum'
      BY <3>1, <3>2, <2>4, <1>t, FdOwedIs, FdOneMore DEF FdInv
    <3>4. fdStats' \in [FdCounters -> Nat] BY <3>1, <3>2, <1>t, FdBumpIs
    <3> QED BY <3>1, <3>3, <3>4, <2>2, <1>0, <1>t DEF FdInv, FdTypeOK, FdTold
  <2> QED BY <2>5, <2>6
<1> QED BY <1>1, <1>2

LEMMA FdAcceptInv ==
    ASSUME FdInv, FdAccept
    PROVE  FdInv'
<1>t. FdTypeOK BY DEF FdInv
<1>1. /\ fdMsg # 0 /\ fdStored' = fdStored \cup {fdMsg} /\ fdResult' = "ok"
      /\ UNCHANGED <<fdSetup, fdCommitted, fdAcked, fdMsg, fdStats, fdSeen>>
  BY DEF FdAccept, fdBroker
<1>2. FdOwed' \subseteq FdOwed BY <1>1 DEF FdOwed
<1>3. FdSum' = FdSum /\ FdSum \in Nat BY <1>1, <1>t DEF FdSum, FdTypeOK, FdCounters
<1>4. fdSetup.wire # "bare" => Cardinality(FdOwed') <= FdSum'
  BY <1>2, <1>3, <1>t, FdOwedIs, FdFewer DEF FdInv
<1> QED BY <1>1, <1>4, <1>t DEF FdInv, FdTypeOK, FdTold

\* The call failed and was counted, or goes on.
LEMMA FdFailInv ==
    ASSUME FdInv, fdMsg # 0, fdResult = "none",
           UNCHANGED <<fdSetup, fdCommitted, fdAcked, fdMsg, fdSeen>>,
           fdStored' = fdStored \/ fdStored' = fdStored \cup {fdMsg},
           \/ fdResult' = "none" /\ fdStats' = fdStats
           \/ fdResult' = "failed" /\ fdStats' = FdBump("ingest_failures")
           \/ fdResult' = "failed" /\ fdStats' = fdStats /\ fdSetup.wire = "bare"
    PROVE  FdInv'
<1>t. FdTypeOK BY DEF FdInv
<1>0. "ingest_failures" \in FdCounters BY DEF FdCounters
<1>1. fdStats' \in [FdCounters -> Nat] BY <1>0, <1>t, FdBumpIs DEF FdTypeOK
<1>2. FdOwed' \subseteq FdOwed \cup {fdMsg} /\ FdOwed' \in SUBSET FdIds
  BY <1>t DEF FdOwed, FdTypeOK
<1>3. CASE fdResult' = "none" /\ fdStats' = fdStats
  <2>1. FdOwed' \subseteq FdOwed BY <1>3 DEF FdOwed
  <2>2. FdSum' = FdSum /\ FdSum \in Nat BY <1>3, <1>t DEF FdSum, FdTypeOK, FdCounters
  <2>3. fdSetup.wire # "bare" => Cardinality(FdOwed') <= FdSum'
    BY <2>1, <2>2, <1>t, FdOwedIs, FdFewer DEF FdInv
  <2> QED BY <2>3, <1>1, <1>3, <1>t DEF FdInv, FdTypeOK, FdTold
<1>4. CASE fdResult' = "failed"
  <2>1. fdSetup.wire # "bare" => Cardinality(FdOwed') <= FdSum'
    BY <1>0, <1>2, <1>4, <1>t, FdOwedIs, FdOneMore DEF FdInv
  <2> QED BY <2>1, <1>1, <1>4, <1>t DEF FdInv, FdTypeOK, FdTold
<1> QED BY <1>3, <1>4

\* With a pipeline or a router there is somewhere to send a tick.
LEMMA FdTargetIs ==
    ASSUME FdTypeOK, fdMsg # 0, fdSetup.wire # "bare"
    PROVE  FdTarget(fdMsg) # "nowhere"
<1>1. fdMsg \in FdIds /\ FdMessages[fdMsg].owner \in {"local", "peer", "gone"}
  BY FdIdsAre DEF FdTypeOK
<1> QED BY <1>1 DEF FdTarget

LEMMA FdRefuseInv ==
    ASSUME FdInv, FdRefuse \/ FdDrop
    PROVE  FdInv'
<1>t. FdTypeOK BY DEF FdInv
<1>1. /\ fdMsg # 0 /\ fdResult = "none" /\ UNCHANGED <<fdSetup, fdCommitted, fdAcked, fdMsg, fdSeen>>
      /\ fdStored' = fdStored \/ fdStored' = fdStored \cup {fdMsg}
  BY DEF FdRefuse, FdDrop, fdBroker
<1>2. CASE FdRefuse
  <2>1. \/ fdResult' = "none" /\ fdStats' = fdStats
        \/ fdResult' = "failed" /\ fdStats' = FdBump("ingest_failures")
    BY <1>2 DEF FdRefuse
  <2> QED BY <2>1, <1>1, FdFailInv
<1>3. CASE FdDrop
  <2>1. \/ fdResult' = "failed" /\ fdStats' = FdBump("ingest_failures")
        \/ fdResult' = "failed" /\ fdStats' = fdStats /\ FdTarget(fdMsg) = "nowhere"
    BY <1>3 DEF FdDrop
  <2>2. FdTarget(fdMsg) = "nowhere" => fdSetup.wire = "bare" BY <1>1, <1>t, FdTargetIs
  <2> QED BY <2>1, <2>2, <1>1, FdFailInv
<1> QED BY <1>2, <1>3

LEMMA FdReturnInv ==
    ASSUME FdInv, FdReturn
    PROVE  FdInv'
<1>t. FdTypeOK BY DEF FdInv
<1>1. /\ fdMsg # 0 /\ fdResult # "none" /\ fdMsg' = 0 /\ fdResult' = "none"
      /\ UNCHANGED <<fdSetup, fdStored, fdSeen, fdStats>>
  BY DEF FdReturn, KafkaReturn, PulsarReturn, KinesisReturn, MqttReturn, FdEndCall, fdCount
<1>2. fdAcked' = fdAcked \/ (fdResult = "ok" /\ fdAcked' = fdAcked \cup {fdMsg})
  BY DEF FdReturn, KafkaReturn, PulsarReturn, KinesisReturn, MqttReturn
<1>3. fdSetup.kind = "kafka" => fdCommitted' = fdCommitted \/ (fdResult = "ok" /\ fdCommitted' = fdMsg)
  BY DEF FdReturn, KafkaReturn, PulsarReturn, KinesisReturn, MqttReturn, CommitsWhen
<1>4. fdResult = "ok" => fdMsg \in fdStored BY <1>1 DEF FdInv, FdTold
<1>5. FdOwed' \subseteq FdOwed
  <2>1. fdResult = "ok" \/ fdResult = "failed" BY <1>1, <1>t DEF FdTypeOK
  <2> QED BY <2>1, <1>1, <1>4 DEF FdOwed
<1>6. FdSum' = FdSum /\ FdSum \in Nat BY <1>1, <1>t DEF FdSum, FdTypeOK, FdCounters
<1>7. fdSetup.wire # "bare" => Cardinality(FdOwed') <= FdSum'
  BY <1>5, <1>6, <1>t, FdOwedIs, FdFewer DEF FdInv
<1>8. fdAcked' \subseteq fdStored BY <1>2, <1>4 DEF FdInv
<1>9. fdSetup.kind = "kafka" /\ fdCommitted' # 0 => fdCommitted' \in fdStored BY <1>3, <1>4 DEF FdInv
<1> QED BY <1>1, <1>7, <1>8, <1>9, <1>t DEF FdInv, FdTypeOK, FdTold

LEMMA FdCrashInv ==
    ASSUME FdInv, FdCrash
    PROVE  FdInv'
<1>t. FdTypeOK BY DEF FdInv
<1>1. /\ fdMsg' = 0 /\ fdResult' = "none" /\ fdSeen' = {} /\ fdStats' = [c \in FdCounters |-> 0]
      /\ UNCHANGED <<fdSetup, fdCommitted, fdAcked, fdStored>>
  BY DEF FdCrash, fdBroker
<1>2. FdOwed' = {} BY <1>1 DEF FdOwed
<1>3. Cardinality(FdOwed') = 0 BY <1>2, FS_EmptySet
<1>4. FdSum' = 0 BY <1>1 DEF FdSum, FdCounters
<1> QED BY <1>1, <1>3, <1>4, <1>t DEF FdInv, FdTypeOK, FdTold

LEMMA FdNextInv == FdInv /\ [FdNext]_fdVars => FdInv'
<1> SUFFICES ASSUME FdInv, [FdNext]_fdVars PROVE FdInv' OBVIOUS
<1> DEFINE Kept == /\ UNCHANGED <<fdSetup, fdStored, fdSeen, fdMsg, fdResult, fdStats, fdAcked>>
                   /\ fdSetup.kind = "kafka" => fdCommitted' = fdCommitted
<1>1. CASE FdProduce \/ FdFetch \/ FdAutoCommit \/ FdExpire \/ FdStop
  <2>1. Kept
    BY <1>1 DEF FdProduce, FdFetch, FdAutoCommit, FdExpire, FdStop, fdBroker, fdCall, fdCount
  <2> QED BY <2>1, FdFrame
<1>2. CASE FdStart
  <2>1. \E n : FdRunFrom(n) BY <1>2 DEF FdStart, KafkaStart, PulsarStart, KinesisStart, MqttStart
  <2>2. Kept BY <2>1 DEF FdRunFrom, fdBroker, fdCall, fdCount
  <2> QED BY <2>2, FdFrame
<1>3. CASE FdJoin
  <2>1. FdEnded /\ (fdSetup.kind = "kafka" => fdCommitted' = fdCommitted)
    BY <1>3 DEF FdJoin, KafkaJoin, PulsarJoin, KinesisJoin, MqttJoin
  <2>2. Kept BY <2>1 DEF FdEnded, fdCall, fdCount
  <2> QED BY <2>2, FdFrame
<1>4. CASE UNCHANGED fdVars
  <2>1. Kept BY <1>4 DEF fdVars, fdBroker, fdCall, fdCount
  <2> QED BY <2>1, FdFrame
<1> QED
  BY <1>1, <1>2, <1>3, <1>4, FdReceiveInv, FdAcceptInv, FdRefuseInv, FdReturnInv, FdCrashInv DEF FdNext

(* What KafkaConsumer commits after ingest and what PulsarConsumer         *)
(* acknowledges was accepted by a pipeline, and every message a consumer   *)
(* took and could not place shows in stats(): for any topic, retries and   *)
(* faults.                                                                 *)
THEOREM FeedsAreKept == FdSpec => []FeedKeeps
<1>1. FdInv => FeedKeeps
  <2> SUFFICES ASSUME FdInv PROVE FeedKeeps OBVIOUS
  <2>1. FdGone \subseteq FdOwed BY DEF FdGone, FdOwed
  <2>2. FdSum \in Nat BY DEF FdInv, FdTypeOK, FdSum, FdCounters
  <2>3. fdSetup.wire # "bare" => Cardinality(FdGone) <= FdSum
    BY <2>1, <2>2, FdOwedIs, FdFewer DEF FdInv
  <2>4. fdSetup.kind = "kafka" /\ fdCommitted > 0 => fdCommitted \in fdStored BY DEF FdInv
  <2> QED BY <2>3, <2>4 DEF FdInv, FeedKeeps, FdSum
<1> QED BY <1>1, FdInitInv, FdNextInv, PTL DEF FdSpec

-----------------------------------------------------------------------------
(* Sessions                                                                *)

SeEntries == [there : BOOLEAN, created : Nat, expires : Nat, token : Nat]

SeTypeOK ==
    /\ seLife \in Nat /\ seNow \in Nat /\ seDrawn \in Nat
    /\ seTable \in [SeIds -> SeEntries] /\ seToken \in [SeIds -> Nat]
    /\ seT \in [SeThreads -> [pc : {"idle", "call", "write"}, id : Nat, token : Nat, ok : BOOLEAN]]

\* A session's expiry stays within the lifetime it has from its creation.
SeWithin(e) == e.there /\ seLife > 0 => e.expires <= e.created + seLife

SeInv == SeTypeOK /\ \A i \in SeIds : SeWithin(seTable[i])

\* A table that may follow this one: no session comes back.
SeFollows(table) ==
    /\ table \in [SeIds -> SeEntries]
    /\ \A i \in SeIds : SeWithin(table[i]) /\ (table[i].there /\ ~seTable[i].there => i > seDrawn)

\* No session goes before it expires.
SeNoneLost(table) ==
    \A i \in SeIds : seTable[i].there /\ ~table[i].there => seNow > seTable[i].expires

LEMMA SeAbsentIs == SeAbsent \in SeEntries /\ ~SeAbsent.there
BY DEF SeAbsent, SeEntries

LEMMA SeExpiry ==
    ASSUME SeTypeOK, NEW created \in Nat, NEW now \in Nat
    PROVE  /\ Expiry(created, now) \in Nat
           /\ seLife > 0 => Expiry(created, now) <= created + seLife
<1>1. now + SeTtl \in Nat /\ created + seLife \in Nat BY SeConstants DEF SeTypeOK
<1> QED BY <1>1 DEF Expiry, SeTypeOK

\* What get leaves of a session.
LEMMA SeGot ==
    ASSUME SeInv, NEW i \in SeIds
    PROVE  /\ Got(i) \in SeEntries /\ SeWithin(Got(i))
           /\ Got(i).there => seTable[i].there
           /\ seTable[i].there /\ ~Got(i).there => seNow > seTable[i].expires
<1> DEFINE s == seTable[i]
           e == Expiry(s.created, seNow)
<1>1. s \in SeEntries /\ s.created \in Nat /\ seNow \in Nat /\ SeWithin(s)
  BY DEF SeInv, SeTypeOK, SeEntries
<1>2. e \in Nat /\ (seLife > 0 => e <= s.created + seLife)
  BY <1>1, SeExpiry, Zenon DEF SeInv
<1>3. Got(i) \in {SeAbsent, s, [s EXCEPT !.expires = e]} /\ (Got(i) = SeAbsent \/ s.there)
  BY DEF Got
<1>4. Got(i) = SeAbsent => ~s.there \/ seNow > s.expires \/ Got(i) = s \/ Got(i) = [s EXCEPT !.expires = e]
  BY DEF Got
<1> HIDE DEF s, e
<1>5. /\ [s EXCEPT !.expires = e] \in SeEntries /\ [s EXCEPT !.expires = e].there = s.there
      /\ [s EXCEPT !.expires = e].expires = e /\ [s EXCEPT !.expires = e].created = s.created
  BY <1>1, <1>2 DEF SeEntries
<1>6. Got(i) \in SeEntries /\ SeWithin(Got(i)) /\ (Got(i).there => s.there)
  BY <1>1, <1>2, <1>3, <1>5, SeAbsentIs, Zenon DEF SeWithin
<1>7. s.there /\ ~Got(i).there => seNow > s.expires
  BY <1>1, <1>3, <1>4, <1>5, SeAbsentIs, Zenon
<1> QED BY <1>6, <1>7 DEF s

\* One session is replaced.
LEMMA SeOne ==
    ASSUME SeInv, NEW i \in SeIds, NEW e \in SeEntries, SeWithin(e),
           e.there => seTable[i].there,
           seTable' = [seTable EXCEPT ![i] = e]
    PROVE  /\ SeFollows(seTable') /\ seTable'[i] = e
           /\ \A j \in SeIds : j # i => seTable'[j] = seTable[j]
<1>1. /\ seTable' \in [SeIds -> SeEntries] /\ seTable'[i] = e
      /\ \A j \in SeIds : j # i => seTable'[j] = seTable[j]
  BY DEF SeInv, SeTypeOK
<1> QED BY <1>1 DEF SeInv, SeFollows

LEMMA SeInitInv == SeInit => SeInv
BY SeConstants, SeAbsentIs DEF SeInit, SeInv, SeTypeOK, SeWithin, SeCall

LEMMA SeCreateSafe ==
    ASSUME SeInv, NEW token \in {0, 1}, SeCreate(token)
    PROVE  /\ SeFollows(seTable') /\ SeNoneLost(seTable') /\ seDrawn' \in Nat
<1> DEFINE full == Cardinality(Live) >= SeMax
           kept == [i \in SeIds |-> IF full /\ i \in Reclaimed THEN SeAbsent ELSE seTable[i]]
           id == seDrawn + 1
           e == [there |-> TRUE, created |-> seNow, expires |-> Expiry(seNow, seNow), token |-> token]
           b == Cardinality({i \in SeIds : kept[i].there}) < SeMax
<1>t. SeTypeOK BY DEF SeInv
<1>1. id \in SeIds /\ id \in Nat /\ id > seDrawn BY <1>t DEF SeCreate, SeTypeOK
<1>2. seTable' = (IF b THEN [kept EXCEPT ![id] = e] ELSE kept) /\ seDrawn' = (IF b THEN id ELSE seDrawn)
  BY DEF SeCreate
<1>3. e \in SeEntries /\ e.there /\ SeWithin(e)
  <2>1. seNow \in Nat BY <1>t DEF SeTypeOK
  <2>2. Expiry(seNow, seNow) \in Nat /\ (seLife > 0 => Expiry(seNow, seNow) <= seNow + seLife)
    BY <2>1, <1>t, SeExpiry
  <2>3. e.there = TRUE /\ e.expires = Expiry(seNow, seNow) /\ e.created = seNow OBVIOUS
  <2>4. e \in SeEntries BY <2>1, <2>2 DEF SeEntries
  <2> HIDE DEF e
  <2> QED BY <2>2, <2>3, <2>4 DEF SeWithin
<1>4. /\ kept \in [SeIds -> SeEntries]
      /\ \A i \in SeIds : kept[i] = seTable[i] \/ (kept[i] = SeAbsent /\ i \in Reclaimed)
  <2> HIDE DEF full
  <2>1. \A i \in SeIds : kept[i] = IF full /\ i \in Reclaimed THEN SeAbsent ELSE seTable[i] OBVIOUS
  <2>2. kept \in [SeIds -> SeEntries] BY <1>t, SeAbsentIs DEF SeTypeOK
  <2> QED BY <2>1, <2>2
<1> HIDE DEF full, kept, id, e, b
<1>5. [kept EXCEPT ![id] = e] \in [SeIds -> SeEntries] /\ [kept EXCEPT ![id] = e][id] = e
      /\ \A i \in SeIds : i # id => [kept EXCEPT ![id] = e][i] = kept[i]
  BY <1>1, <1>3, <1>4
<1>6. seTable' \in [SeIds -> SeEntries]
  BY <1>2, <1>4, <1>5
<1>7. \A i \in SeIds : \/ seTable'[i] = seTable[i]
                       \/ seTable'[i] = SeAbsent /\ i \in Reclaimed
                       \/ seTable'[i] = e /\ i > seDrawn
  BY <1>1, <1>2, <1>4, <1>5
<1>8. SeFollows(seTable')
  BY <1>3, <1>6, <1>7, SeAbsentIs DEF SeFollows, SeInv, SeWithin
<1>9. SeNoneLost(seTable')
  BY <1>3, <1>7 DEF SeNoneLost, Reclaimed
<1> QED BY <1>1, <1>2, <1>8, <1>9, <1>t DEF SeTypeOK

LEMMA SeEvictSafe ==
    ASSUME SeInv, SeEvict
    PROVE  SeFollows(seTable') /\ SeNoneLost(seTable')
<1>1. seTable' \in [SeIds -> SeEntries]
  BY SeAbsentIs DEF SeEvict, SeInv, SeTypeOK
<1>2. ASSUME NEW i \in SeIds PROVE seTable'[i] = seTable[i] \/ (seTable'[i] = SeAbsent /\ i \in Reclaimed)
  <2>1. seTable'[i] = IF i \in Reclaimed THEN SeAbsent ELSE seTable[i] BY DEF SeEvict
  <2> QED BY <2>1
<1> QED BY <1>1, <1>2, SeAbsentIs DEF SeFollows, SeNoneLost, SeInv, SeWithin, Reclaimed

LEMMA SeGotSafe ==
    ASSUME SeInv, NEW i \in SeIds, seTable' = [seTable EXCEPT ![i] = Got(i)]
    PROVE  SeFollows(seTable') /\ SeNoneLost(seTable')
<1>1. SeFollows(seTable') /\ seTable'[i] = Got(i) /\ \A j \in SeIds : j # i => seTable'[j] = seTable[j]
  <2> DEFINE e == Got(i)
  <2>1. e \in SeEntries /\ SeWithin(e) /\ (e.there => seTable[i].there) BY SeGot
  <2>2. seTable' = [seTable EXCEPT ![i] = e] OBVIOUS
  <2> HIDE DEF e
  <2>3. SeFollows(seTable') /\ seTable'[i] = e /\ \A j \in SeIds : j # i => seTable'[j] = seTable[j]
    BY <2>1, <2>2, SeOne, Zenon
  <2> QED BY <2>3 DEF e
<1> QED BY <1>1, SeGot DEF SeNoneLost

LEMMA SeLogoutSafe ==
    ASSUME SeInv, NEW i \in SeIds, SeLogout(i)
    PROVE  /\ SeFollows(seTable')
           /\ \A j \in SeIds : j # i => seTable'[j] = seTable[j]
<1>1. SeWithin(SeAbsent) BY SeAbsentIs DEF SeWithin
<1>2. seTable' = [seTable EXCEPT ![i] = SeAbsent] BY DEF SeLogout
<1> QED BY <1>1, <1>2, SeAbsentIs, SeOne, Zenon

LEMMA SeWriteSafe ==
    ASSUME SeInv, NEW t \in SeThreads, SeWrite(t)
    PROVE  /\ SeFollows(seTable')
           /\ \A j \in SeIds : j # seT[t].id => seTable'[j] = seTable[j]
<1> DEFINE c == seT[t]
           s == seTable[c.id]
           n == [s EXCEPT !.there = TRUE, !.token = c.token]
           e == IF ~c.ok THEN SeAbsent ELSE IF StillThere(c.id) THEN n ELSE s
<1>t. SeTypeOK BY DEF SeInv
<1>1. seTable' = [seTable EXCEPT ![c.id] = e] BY DEF SeWrite
<1>2. CASE c.id \in SeIds
  <2>1. s \in SeEntries /\ c.token \in Nat /\ SeWithin(s)
    BY <1>2, <1>t DEF SeInv, SeTypeOK
  <2>2. (StillThere(c.id) <=> s.there) BY DEF StillThere
  <2> HIDE DEF s, c
  <2>3. n \in SeEntries /\ n.expires = s.expires /\ n.created = s.created
    BY <2>1, Zenon DEF SeEntries
  <2> HIDE DEF n
  <2>4. e \in SeEntries /\ SeWithin(e) /\ (e.there => s.there)
    BY <2>1, <2>2, <2>3, SeAbsentIs DEF SeWithin
  <2> HIDE DEF e
  <2>5. e.there => seTable[c.id].there BY <2>4 DEF s
  <2>6. SeFollows(seTable') /\ \A j \in SeIds : j # c.id => seTable'[j] = seTable[j]
    BY <2>4, <2>5, <1>1, <1>2, SeOne, Zenon
  <2> QED BY <2>6 DEF c
<1>3. CASE c.id \notin SeIds
  <2> HIDE DEF e
  <2>1. seTable' = seTable BY <1>1, <1>3, <1>t DEF SeTypeOK
  <2> QED BY <2>1, <1>t DEF SeFollows, SeInv, SeTypeOK
<1> QED BY <1>2, <1>3

\* What SessionsKept says of session i in one step.
SeKept(i) ==
    LET old == seTable[i]
        new == seTable'[i]
    IN
    /\ ~old.there /\ new.there => i > seDrawn
    /\ new.there /\ seLife > 0 => new.expires <= new.created + seLife
    /\ old.there /\ ~new.there /\ seNow <= old.expires
         => SeLogout(i) \/ \E t \in SeThreads : seT[t].id = i /\ SeWrite(t)

LEMMA SeKeptIf ==
    ASSUME SeInv, SeFollows(seTable'), SeNoneLost(seTable')
    PROVE  \A i \in SeIds : SeKept(i)
<1> SUFFICES ASSUME NEW i \in SeIds PROVE SeKept(i) OBVIOUS
<1>1. seTable[i].expires \in Nat /\ seNow \in Nat BY DEF SeInv, SeTypeOK, SeEntries
<1> QED BY <1>1 DEF SeFollows, SeNoneLost, SeWithin, SeKept

\* The calls of /auth/refresh stay well formed.
LEMMA SeCallTypes ==
    ASSUME SeInv, NEW t \in SeThreads,
           (\E i \in SeIds : SeRefresh(t, i)) \/ SeProvider(t) \/ SeWrite(t)
    PROVE  /\ seT' \in [SeThreads -> [pc : {"idle", "call", "write"}, id : Nat, token : Nat, ok : BOOLEAN]]
           /\ seToken' \in [SeIds -> Nat]
<1> DEFINE Calls == [pc : {"idle", "call", "write"}, id : Nat, token : Nat, ok : BOOLEAN]
<1>t. SeTypeOK BY DEF SeInv
<1>0. SeCall \in Calls BY DEF SeCall
<1>1. ASSUME NEW i \in SeIds, SeRefresh(t, i) PROVE seT' \in [SeThreads -> Calls] /\ seToken' = seToken
  <2> DEFINE s == Got(i)
             n == [pc |-> "call", id |-> i, token |-> s.token, ok |-> FALSE]
  <2>1. s.token \in Nat /\ i \in Nat BY SeGot, SeConstants DEF SeEntries
  <2>2. n \in Calls BY <2>1
  <2>3. seT' = [seT EXCEPT ![t] = n] \/ seT' = [seT EXCEPT ![t] = SeCall] BY <1>1, Zenon DEF SeRefresh
  <2>4. seToken' = seToken BY <1>1 DEF SeRefresh
  <2> HIDE DEF n
  <2> QED BY <2>2, <2>3, <2>4, <1>0, <1>t DEF SeTypeOK
<1>2. ASSUME SeProvider(t) PROVE seT' \in [SeThreads -> Calls] /\ seToken' \in [SeIds -> Nat]
  <2> DEFINE c == seT[t]
             k == c.token + 1
             m == [c EXCEPT !.pc = "write", !.ok = TRUE, !.token = k]
             n == [c EXCEPT !.pc = "write"]
  <2>1. c \in Calls BY <1>t DEF SeTypeOK
  <2>2. seToken' = [seToken EXCEPT ![c.id] = @ + 1] \/ seToken' = seToken BY <1>2 DEF SeProvider
  <2>3. seT' = [seT EXCEPT ![t] = m] \/ seT' = [seT EXCEPT ![t] = n] BY <1>2 DEF SeProvider
  <2>4. seToken' \in [SeIds -> Nat] BY <2>2, <1>t DEF SeTypeOK
  <2> HIDE DEF c
  <2>5. k \in Nat BY <2>1
  <2> HIDE DEF k
  <2>6. m \in Calls BY <2>1, <2>5, Zenon
  <2>7. n \in Calls BY <2>1
  <2> HIDE DEF m, n
  <2> QED BY <2>3, <2>4, <2>6, <2>7, <1>t DEF SeTypeOK
<1>3. ASSUME SeWrite(t) PROVE seT' \in [SeThreads -> Calls] /\ seToken' = seToken
  BY <1>3, <1>0, <1>t DEF SeWrite, SeTypeOK
<1> QED BY <1>1, <1>2, <1>3, <1>t DEF SeTypeOK

\* Every step keeps the invariant and does to the sessions what it may.
LEMMA SeNextInv ==
    ASSUME SeInv, SeNext
    PROVE  SeInv' /\ (seTable' # seTable => \A i \in SeIds : SeKept(i))
<1>t. SeTypeOK BY DEF SeInv
<1>0. ASSUME SeFollows(seTable'), seLife' = seLife, seNow' \in Nat, seDrawn' \in Nat,
             seToken' \in [SeIds -> Nat],
             seT' \in [SeThreads -> [pc : {"idle", "call", "write"}, id : Nat, token : Nat, ok : BOOLEAN]]
      PROVE  SeInv'
  BY <1>0, <1>t DEF SeFollows, SeInv, SeTypeOK, SeWithin
<1>u. SeFollows(seTable) BY DEF SeInv, SeTypeOK, SeFollows
<1>1. CASE SeTick
  <2>1. seTable' = seTable /\ seNow' \in Nat /\ UNCHANGED <<seLife, seDrawn, seToken, seT>>
    BY <1>1, <1>t DEF SeTick, SeTypeOK
  <2> QED BY <2>1, <1>0, <1>u, <1>t DEF SeTypeOK
<1>2. ASSUME NEW token \in {0, 1}, SeCreate(token)
      PROVE  SeInv' /\ \A i \in SeIds : SeKept(i)
  <2>1. UNCHANGED <<seLife, seNow, seToken, seT>> BY <1>2 DEF SeCreate
  <2>2. SeFollows(seTable') /\ SeNoneLost(seTable') /\ seDrawn' \in Nat BY <1>2, SeCreateSafe
  <2>3. SeInv' BY <2>1, <2>2, <1>0, <1>t DEF SeTypeOK
  <2> QED BY <2>2, <2>3, SeKeptIf
<1>3. CASE SeEvict
  <2>1. UNCHANGED <<seLife, seNow, seDrawn, seToken, seT>> BY <1>3 DEF SeEvict
  <2>2. SeFollows(seTable') /\ SeNoneLost(seTable') BY <1>3, SeEvictSafe
  <2>3. SeInv' BY <2>1, <2>2, <1>0, <1>t DEF SeTypeOK
  <2> QED BY <2>2, <2>3, SeKeptIf
<1>4. ASSUME NEW i \in SeIds, SeCheck(i)
      PROVE  SeInv' /\ \A j \in SeIds : SeKept(j)
  <2>1. UNCHANGED <<seLife, seNow, seDrawn, seToken, seT>> BY <1>4 DEF SeCheck
  <2>2. SeFollows(seTable') /\ SeNoneLost(seTable') BY <1>4, SeGotSafe, Zenon DEF SeCheck
  <2>3. SeInv' BY <2>1, <2>2, <1>0, <1>t DEF SeTypeOK
  <2> QED BY <2>2, <2>3, SeKeptIf
<1>5. ASSUME NEW i \in SeIds, SeLogout(i)
      PROVE  SeInv' /\ \A j \in SeIds : SeKept(j)
  <2>1. UNCHANGED <<seLife, seNow, seDrawn, seToken, seT>> BY <1>5 DEF SeLogout
  <2>2. SeFollows(seTable') /\ \A j \in SeIds : j # i => seTable'[j] = seTable[j] BY <1>5, SeLogoutSafe
  <2>3. SeInv' BY <2>1, <2>2, <1>0, <1>t DEF SeTypeOK
  <2>4. \A j \in SeIds : SeKept(j) BY <2>2, <1>5 DEF SeKept, SeFollows, SeWithin
  <2> QED BY <2>3, <2>4
<1>6. ASSUME NEW t \in SeThreads, NEW i \in SeIds, SeRefresh(t, i)
      PROVE  SeInv' /\ \A j \in SeIds : SeKept(j)
  <2>1. UNCHANGED <<seLife, seNow, seDrawn>> BY <1>6 DEF SeRefresh
  <2>2. SeFollows(seTable') /\ SeNoneLost(seTable') BY <1>6, SeGotSafe, Zenon DEF SeRefresh
  <2>3. SeInv' BY <2>1, <2>2, <1>0, <1>6, <1>t, SeCallTypes DEF SeTypeOK
  <2> QED BY <2>2, <2>3, SeKeptIf
<1>7. ASSUME NEW t \in SeThreads, SeProvider(t)
      PROVE  SeInv' /\ seTable' = seTable
  <2>1. UNCHANGED <<seLife, seNow, seTable, seDrawn>> BY <1>7 DEF SeProvider
  <2> QED BY <2>1, <1>0, <1>u, <1>7, <1>t, SeCallTypes DEF SeTypeOK
<1>8. ASSUME NEW t \in SeThreads, SeWrite(t)
      PROVE  SeInv' /\ \A j \in SeIds : SeKept(j)
  <2>1. UNCHANGED <<seLife, seNow, seDrawn>> BY <1>8 DEF SeWrite
  <2>2. SeFollows(seTable') /\ \A j \in SeIds : j # seT[t].id => seTable'[j] = seTable[j] BY <1>8, SeWriteSafe
  <2>3. SeInv' BY <2>1, <2>2, <1>0, <1>8, <1>t, SeCallTypes DEF SeTypeOK
  <2>4. \A j \in SeIds : SeKept(j) BY <2>2, <1>8 DEF SeKept, SeFollows, SeWithin
  <2> QED BY <2>3, <2>4
<1> QED BY <1>1, <1>2, <1>3, <1>4, <1>5, <1>6, <1>7, <1>8 DEF SeNext, SeCallback, SeLogin

(* A session that has gone does not come back, whatever refresh was under  *)
(* way; none outlives max_session_lifetime_s; and none goes before it      *)
(* expires but by a logout or a refresh that failed: SessionStore under    *)
(* any number of sessions and concurrent /auth/refresh calls.              *)
THEOREM SessionsAreKept == SeSpec => SessionsKept
<1>1. SeInv /\ [SeNext]_seVars => SeInv'
  <2>1. SeInv /\ UNCHANGED seVars => SeInv' BY DEF seVars, SeInv, SeTypeOK, SeWithin
  <2> QED BY <2>1, SeNextInv
<1>2. SeInv /\ [SeNext]_seVars =>
        [seTable' # seTable => \A i \in SeIds :
           LET old == seTable[i]
               new == seTable'[i]
           IN
           /\ ~old.there /\ new.there => i > seDrawn
           /\ new.there /\ seLife > 0 => new.expires <= new.created + seLife
           /\ old.there /\ ~new.there /\ seNow <= old.expires
                => SeLogout(i) \/ \E t \in SeThreads : seT[t].id = i /\ SeWrite(t)]_seVars
  BY SeNextInv DEF SeKept
<1> QED BY <1>1, <1>2, SeInitInv, PTL DEF SeSpec, SessionsKept

-----------------------------------------------------------------------------
(* API keys                                                                *)

KyValues == {"none", "on", "off"}

KyCalls == [pc : {"save", "put", "index", "list"}, key : KyKeys, old : KyValues, ids : SUBSET KyKeys]

KyTypeOK ==
    /\ kyUp \subseteq KyServers /\ kyAhead \subseteq KyServers /\ kyIndex \subseteq KyKeys
    /\ kyMem \in [KyServers -> [KyKeys -> KyValues]]
    /\ kyFile \in [KyServers -> [KyKeys -> KyValues]]
    /\ kySecret \in [KyKeys -> KyValues]
    /\ kyMay \in [KyServers -> [KyKeys -> SUBSET KyValues]]
    /\ kyOp \in [KyServers -> KyCalls \cup {KyFree}]

\* A server that is down holds no mutex, and a call is about an entry that is there.
KyOpen ==
    \A s \in KyServers :
      /\ s \notin kyUp => kyOp[s].pc = "free"
      /\ kyOp[s].pc # "free" => kyMem[s][kyOp[s].key] # "none"

\* While a call has changed memory and not saved, the file has what memory would be undone to.
KyWritten ==
    \A s \in KyServers \ kyAhead :
      /\ kyOp[s].pc = "save" => kyFile[s] = Undone(s)
      /\ s \in kyUp /\ kyOp[s].pc # "save" => kyFile[s] = kyMem[s]

\* What the last answers allow includes what is on disk: a restart begins there.
KyAllowed ==
    \A s \in KyServers \ kyAhead : \A k \in KyKeys :
      /\ kyFile[s][k] \in kyMay[s][k]
      /\ s \in kyUp => kyMem[s][k] \in kyMay[s][k]

\* Server s has created k in memory, and nobody has heard of it.
KyBegun(s, k) ==
    /\ kySecret[k] = "none" /\ kyMem[s][k] # "none"
    /\ \A t \in KyServers : t # s => kyMem[t][k] = "none" /\ kyFile[t][k] = "none"

\* A key the server has not on disk is one it has never answered for, or one it was creating
\* when it crashed: the Vault cannot bring it back with another value.
KyUnborn ==
    \A s \in KyServers \ kyAhead : \A k \in KyKeys :
      kyFile[s][k] = "none" => kyMay[s][k] = {"none"} \/ KyBegun(s, k)

KyInv == KyTypeOK /\ KyOpen /\ KyWritten /\ KyAllowed /\ KyUnborn

LEMMA KyFreePc == KyFree.pc = "free"
BY DEF KyFree

LEMMA KyInitInv == KyInit => KyInv
BY KyFreePc DEF KyInit, KyInv, KyTypeOK, KyOpen, KyWritten, KyAllowed, KyUnborn, KyNone, KyValues

\* What the call of a server is, if there is one.
LEMMA KyCallOf ==
    ASSUME KyTypeOK, NEW s \in KyServers, kyOp[s].pc # "free"
    PROVE  /\ kyOp[s] \in KyCalls /\ kyOp[s].pc \in {"save", "put", "index", "list"}
           /\ kyOp[s].key \in KyKeys /\ kyOp[s].old \in KyValues
BY KyFreePc DEF KyTypeOK, KyCalls

LEMMA KyUndoneIs ==
    ASSUME KyTypeOK, NEW s \in KyServers, kyOp[s].pc # "free"
    PROVE  /\ Undone(s) \in [KyKeys -> KyValues] /\ Undone(s)[kyOp[s].key] = kyOp[s].old
           /\ \A k \in KyKeys : k # kyOp[s].key => Undone(s)[k] = kyMem[s][k]
BY KyCallOf DEF KyTypeOK, Undone

LEMMA KyMaySet ==
    ASSUME KyTypeOK, NEW s \in KyServers, NEW k \in KyKeys, NEW x \in KyValues,
           kyMay' = [kyMay EXCEPT ![s][k] = {x}]
    PROVE  /\ kyMay' \in [KyServers -> [KyKeys -> SUBSET KyValues]]
           /\ kyMay'[s][k] = {x}
           /\ \A j \in KyKeys : j # k => kyMay'[s][j] = kyMay[s][j]
           /\ \A t \in KyServers : t # s => kyMay'[t] = kyMay[t]
<1> DEFINE y == {x}
<1>1. y \in SUBSET KyValues OBVIOUS
<1>2. kyMay' = [kyMay EXCEPT ![s][k] = y] OBVIOUS
<1>3. y = {x} OBVIOUS
<1> HIDE DEF y
<1> QED BY <1>1, <1>2, <1>3 DEF KyTypeOK

LEMMA KyChangeInv ==
    ASSUME KyInv, NEW s \in KyServers, NEW k \in KyKeys, NEW v \in {"on", "off"},
           KyChange(s, k, v),
           \/ kyMem[s][k] # "none"
           \/ kySecret[k] = "none" /\ \A t \in KyServers : kyMem[t][k] = "none" /\ kyFile[t][k] = "none"
    PROVE  KyInv'
<1> DEFINE op == [pc |-> "save", key |-> k, old |-> kyMem[s][k], ids |-> {}]
<1>t. KyTypeOK BY DEF KyInv
<1>0. /\ op.pc = "save" /\ op.key = k /\ op.old = kyMem[s][k] /\ op \in KyCalls
  <2>1. kyMem[s][k] \in KyValues BY <1>t DEF KyTypeOK
  <2> QED BY <2>1 DEF KyCalls
<1> HIDE DEF op
<1>1. /\ kyOp' = [kyOp EXCEPT ![s] = op] /\ s \in kyUp /\ kyOp[s].pc = "free"
      /\ kyMem' = [kyMem EXCEPT ![s][k] = v] /\ kyMay' = [kyMay EXCEPT ![s][k] = @ \cup {v}]
      /\ UNCHANGED <<kyUp, kyFile, kySecret, kyIndex, kyAhead>>
  BY DEF KyChange, KySet, op, kyShared
<1>2. /\ kyMem'[s][k] = v /\ kyMay'[s][k] = kyMay[s][k] \cup {v}
      /\ \A j \in KyKeys : j # k => kyMem'[s][j] = kyMem[s][j] /\ kyMay'[s][j] = kyMay[s][j]
      /\ \A t \in KyServers : t # s => kyMem'[t] = kyMem[t] /\ kyMay'[t] = kyMay[t]
  BY <1>1, <1>t DEF KyTypeOK
<1>3. kyOp'[s] = op /\ \A t \in KyServers : t # s => kyOp'[t] = kyOp[t]
  BY <1>1, <1>t DEF KyTypeOK
<1>4. KyTypeOK'
  BY <1>0, <1>1, <1>t DEF KyTypeOK, KyValues
<1>5. KyOpen'
  BY <1>0, <1>1, <1>2, <1>3, <1>t, KyCallOf DEF KyInv, KyOpen, KyTypeOK
<1>6. KyWritten'
  <2>1. ASSUME s \notin kyAhead PROVE kyFile[s] = [kyMem'[s] EXCEPT ![k] = kyMem[s][k]]
    <3>1. kyFile[s] = kyMem[s] BY <2>1, <1>1 DEF KyInv, KyWritten
    <3> QED BY <3>1, <1>2, <1>t, <1>4 DEF KyTypeOK
  <2> QED BY <2>1, <1>0, <1>1, <1>2, <1>3 DEF KyInv, KyWritten, Undone
<1>7. KyAllowed'
  BY <1>1, <1>2, <1>t DEF KyInv, KyAllowed, KyTypeOK
<1>8. KyUnborn'
  <2> SUFFICES ASSUME NEW t \in KyServers \ kyAhead, NEW j \in KyKeys, kyFile[t][j] = "none"
               PROVE  kyMay'[t][j] = {"none"} \/ KyBegun(t, j)'
    BY <1>1 DEF KyUnborn
  <2>1. kyMay[t][j] = {"none"} \/ KyBegun(t, j) BY DEF KyInv, KyUnborn
  <2>2. CASE t = s /\ j = k
    <3>1. kyFile[s] = kyMem[s] BY <2>2, <1>1 DEF KyInv, KyWritten
    <3> QED BY <3>1, <2>2, <1>1, <1>2 DEF KyBegun
  <2>3. CASE t # s /\ j = k
    BY <2>1, <2>3, <1>1, <1>2 DEF KyBegun
  <2>4. CASE j # k
    BY <2>1, <2>4, <1>1, <1>2 DEF KyBegun
  <2> QED BY <2>2, <2>3, <2>4
<1> QED BY <1>4, <1>5, <1>6, <1>7, <1>8 DEF KyInv

LEMMA KySaveInv ==
    ASSUME KyInv, NEW s \in KyServers, KySave(s)
    PROVE  KyInv'
<1> DEFINE op == kyOp[s]
<1>t. KyTypeOK BY DEF KyInv
<1>1. /\ s \in kyUp /\ op.pc = "save" /\ kyFile' = [kyFile EXCEPT ![s] = kyMem[s]]
      /\ UNCHANGED <<kyUp, kyMem, kySecret, kyIndex, kyAhead>>
  BY DEF KySave, kyShared
<1>2. op \in KyCalls /\ op.key \in KyKeys /\ kyMem[s][op.key] # "none"
  BY <1>1, <1>t, KyCallOf DEF KyInv, KyOpen
<1>3. PICK new \in KyCalls \cup {KyFree} :
        /\ kyOp' = [kyOp EXCEPT ![s] = new] /\ new.pc # "save" /\ (new.pc # "free" => new.key = op.key)
  <2>1. [op EXCEPT !.pc = "put"] \in KyCalls /\ [op EXCEPT !.pc = "put"].key = op.key
    BY <1>2 DEF KyCalls
  <2>2. [op EXCEPT !.pc = "put"].pc = "put" BY <1>2 DEF KyCalls
  <2> QED BY <2>1, <2>2, KyFreePc, Zenon DEF KySave, KySet
<1>4. /\ kyFile'[s] = kyMem[s] /\ kyOp'[s] = new
      /\ \A t \in KyServers : t # s => kyFile'[t] = kyFile[t] /\ kyOp'[t] = kyOp[t]
  BY <1>1, <1>3, <1>t DEF KyTypeOK
<1>5. /\ kyMay' = kyMay \/ kyMay' = [kyMay EXCEPT ![s][op.key] = {kyMem[s][op.key]}]
  BY DEF KySave, KyAnswer
<1>6. /\ kyMay'[s][op.key] \in {kyMay[s][op.key], {kyMem[s][op.key]}}
      /\ \A j \in KyKeys : j # op.key => kyMay'[s][j] = kyMay[s][j]
      /\ \A t \in KyServers : t # s => kyMay'[t] = kyMay[t]
  BY <1>5, <1>2, <1>t DEF KyTypeOK
<1>7. KyTypeOK'
  <2>1. kyMay' \in [KyServers -> [KyKeys -> SUBSET KyValues]]
    <3>1. kyMem[s][op.key] \in KyValues BY <1>2, <1>t DEF KyTypeOK
    <3> QED BY <3>1, <1>5, <1>2, <1>t, KyMaySet DEF KyTypeOK
  <2> QED BY <2>1, <1>1, <1>3, <1>t DEF KyTypeOK
<1> HIDE DEF op
<1>8. KyOpen'
  <2> SUFFICES ASSUME NEW t \in KyServers
               PROVE  /\ t \notin kyUp => kyOp'[t].pc = "free"
                      /\ kyOp'[t].pc # "free" => kyMem[t][kyOp'[t].key] # "none"
    BY <1>1 DEF KyOpen
  <2>1. CASE t = s BY <2>1, <1>1, <1>2, <1>3, <1>4
  <2>2. CASE t # s BY <2>2, <1>4 DEF KyInv, KyOpen
  <2> QED BY <2>1, <2>2
<1>9. KyWritten'
  BY <1>1, <1>3, <1>4 DEF KyInv, KyWritten, Undone
<1>10. KyAllowed'
  BY <1>1, <1>2, <1>4, <1>6 DEF KyInv, KyAllowed
<1>11. KyUnborn'
  <2> SUFFICES ASSUME NEW t \in KyServers \ kyAhead, NEW j \in KyKeys, kyFile'[t][j] = "none"
               PROVE  kyMay'[t][j] = {"none"} \/ KyBegun(t, j)'
    BY <1>1 DEF KyUnborn
  <2>1. CASE t = s
    <3>1. kyMem[s][j] = "none" /\ j # op.key BY <2>1, <1>2, <1>4
    <3>2. kyFile[s][j] = "none" BY <3>1, <2>1, <1>1, <1>t, KyUndoneIs DEF KyInv, KyWritten, op
    <3> QED BY <3>1, <3>2, <2>1, <1>6 DEF KyInv, KyUnborn, KyBegun
  <2>2. CASE t # s
    BY <2>2, <1>1, <1>4, <1>6 DEF KyInv, KyUnborn, KyBegun
  <2> QED BY <2>1, <2>2
<1> QED BY <1>7, <1>8, <1>9, <1>10, <1>11 DEF KyInv

\* A step of sync_to_vault leaves memory and file alone, and may end the call.
LEMMA KyVaultStep ==
    ASSUME KyInv, NEW s \in KyServers, s \in kyUp, kyOp[s].pc \in {"put", "index", "list"},
           NEW new \in KyCalls \cup {KyFree}, kyOp' = [kyOp EXCEPT ![s] = new],
           new.pc # "save", new.pc # "free" => new.key = kyOp[s].key,
           UNCHANGED <<kyUp, kyMem, kyFile, kyAhead>>, kyIndex' \subseteq KyKeys,
           \/ kyMay' = kyMay
           \/ kyMay' = [kyMay EXCEPT ![s][kyOp[s].key] = {kyMem[s][kyOp[s].key]}],
           \/ kySecret' = kySecret
           \/ kySecret' = [kySecret EXCEPT ![kyOp[s].key] = kyMem[s][kyOp[s].key]]
    PROVE  KyInv'
<1>t. KyTypeOK BY DEF KyInv
<1>k. PICK k \in KyKeys : k = kyOp[s].key BY <1>t, KyCallOf
<1>1. kyMem[s][k] \in KyValues /\ kyMem[s][k] # "none"
  BY <1>t, <1>k DEF KyTypeOK, KyInv, KyOpen
<1>2. s \notin kyAhead => kyFile[s] = kyMem[s] BY DEF KyInv, KyWritten
<1>3. kyOp'[s] = new /\ \A t \in KyServers : t # s => kyOp'[t] = kyOp[t]
  BY <1>t DEF KyTypeOK
<1>4. /\ kyMay' \in [KyServers -> [KyKeys -> SUBSET KyValues]]
      /\ kyMay'[s][k] \in {kyMay[s][k], {kyMem[s][k]}}
      /\ \A j \in KyKeys : j # k => kyMay'[s][j] = kyMay[s][j]
      /\ \A t \in KyServers : t # s => kyMay'[t] = kyMay[t]
  BY <1>t, <1>k, <1>1, KyMaySet DEF KyTypeOK
<1>5. /\ kySecret' \in [KyKeys -> KyValues]
      /\ \A j \in KyKeys : j # k => kySecret'[j] = kySecret[j]
  BY <1>t, <1>k, <1>1 DEF KyTypeOK
<1>6. KyTypeOK'
  BY <1>t, <1>4, <1>5 DEF KyTypeOK
<1>7. KyOpen'
  BY <1>k, <1>1, <1>3 DEF KyInv, KyOpen
<1>8. KyWritten'
  BY <1>2, <1>3 DEF KyInv, KyWritten, Undone
<1>9. KyAllowed'
  BY <1>2, <1>4 DEF KyInv, KyAllowed
<1>10. KyUnborn'
  <2> SUFFICES ASSUME NEW t \in KyServers \ kyAhead, NEW j \in KyKeys, kyFile[t][j] = "none"
               PROVE  kyMay'[t][j] = {"none"} \/ KyBegun(t, j)'
    BY DEF KyUnborn
  <2>1. kyMay[t][j] = {"none"} \/ KyBegun(t, j) BY DEF KyInv, KyUnborn
  <2>2. CASE j = k
    <3>1. t # s BY <2>2, <1>1, <1>2
    <3>2. ~KyBegun(t, j) BY <3>1, <2>2, <1>1 DEF KyBegun
    <3> QED BY <3>1, <3>2, <2>1, <1>4
  <2>3. CASE j # k
    BY <2>1, <2>3, <1>4, <1>5 DEF KyBegun
  <2> QED BY <2>2, <2>3
<1> QED BY <1>6, <1>7, <1>8, <1>9, <1>10 DEF KyInv

LEMMA KyPutInv ==
    ASSUME KyInv, NEW s \in KyServers, KyPut(s) \/ KyReadIndex(s) \/ KyWriteIndex(s)
    PROVE  KyInv'
<1> DEFINE op == kyOp[s]
<1>t. KyTypeOK BY DEF KyInv
<1>1. s \in kyUp /\ op.pc \in {"put", "index", "list"} BY DEF KyPut, KyReadIndex, KyWriteIndex
<1>2. op \in KyCalls BY <1>1, <1>t, KyCallOf
<1>3. UNCHANGED <<kyUp, kyMem, kyFile, kyAhead>>
  BY DEF KyPut, KyReadIndex, KyWriteIndex, kyStores
<1>4. kyMay' = kyMay \/ kyMay' = [kyMay EXCEPT ![s][op.key] = {kyMem[s][op.key]}]
  BY DEF KyPut, KyReadIndex, KyWriteIndex, KyAnswer
<1>5. kySecret' = kySecret \/ kySecret' = [kySecret EXCEPT ![op.key] = kyMem[s][op.key]]
  BY DEF KyPut, KyReadIndex, KyWriteIndex, kyShared
<1>6. kyIndex' \subseteq KyKeys
  <2>1. kyIndex' = kyIndex \/ kyIndex' = op.ids \cup {op.key}
    BY DEF KyPut, KyReadIndex, KyWriteIndex, kyShared
  <2> QED BY <2>1, <1>2, <1>t DEF KyTypeOK, KyCalls
<1>7. PICK new \in KyCalls \cup {KyFree} :
        /\ kyOp' = [kyOp EXCEPT ![s] = new] /\ new.pc # "save" /\ (new.pc # "free" => new.key = op.key)
  <2> DEFINE a == [op EXCEPT !.pc = "index"]
             b(ids) == [op EXCEPT !.pc = "list", !.ids = ids]
  <2>1. a \in KyCalls /\ a.pc = "index" /\ a.key = op.key BY <1>2 DEF KyCalls
  <2>2. ASSUME NEW ids \in SUBSET KyKeys
        PROVE  b(ids) \in KyCalls /\ b(ids).pc = "list" /\ b(ids).key = op.key
    BY <1>2, Zenon DEF KyCalls
  <2>3. \/ kyOp' = [kyOp EXCEPT ![s] = a] \/ kyOp' = [kyOp EXCEPT ![s] = KyFree]
        \/ kyOp' = [kyOp EXCEPT ![s] = b(kyIndex)] \/ kyOp' = [kyOp EXCEPT ![s] = b({})]
    BY DEF KyPut, KyReadIndex, KyWriteIndex, KySet
  <2>4. kyIndex \in SUBSET KyKeys /\ {} \in SUBSET KyKeys BY <1>t DEF KyTypeOK
  <2> HIDE DEF a, b, op
  <2> QED BY <2>1, <2>2, <2>3, <2>4, KyFreePc
<1> QED BY <1>1, <1>3, <1>4, <1>5, <1>6, <1>7, KyVaultStep, Zenon

LEMMA KySaveFailsInv ==
    ASSUME KyInv, NEW s \in KyServers, KySaveFails(s)
    PROVE  KyInv'
<1>t. KyTypeOK BY DEF KyInv
<1>1. /\ s \in kyUp /\ kyOp[s].pc = "save" /\ kyMem' = [kyMem EXCEPT ![s] = Undone(s)]
      /\ kyOp' = [kyOp EXCEPT ![s] = KyFree] /\ kyMay' = [kyMay EXCEPT ![s][kyOp[s].key] = {kyOp[s].old}]
      /\ UNCHANGED <<kyUp, kySecret, kyIndex>>
  BY DEF KySaveFails, KySet, kyShared
<1>2. \/ kyFile' = kyFile /\ kyAhead' = kyAhead
      \/ kyFile' = [kyFile EXCEPT ![s] = kyMem[s]] /\ kyAhead' = kyAhead \cup {s}
  BY DEF KySaveFails
<1>k. PICK k \in KyKeys : k = kyOp[s].key /\ kyOp[s].old \in KyValues BY <1>1, <1>t, KyCallOf
<1>3. /\ Undone(s) \in [KyKeys -> KyValues] /\ Undone(s)[k] = kyOp[s].old
      /\ \A j \in KyKeys : j # k => Undone(s)[j] = kyMem[s][j]
  BY <1>1, <1>t, <1>k, KyUndoneIs
<1>4. /\ kyMem'[s] = Undone(s) /\ kyOp'[s] = KyFree
      /\ \A t \in KyServers : t # s => kyMem'[t] = kyMem[t] /\ kyOp'[t] = kyOp[t] /\ kyFile'[t] = kyFile[t]
      /\ kyFile'[s] = kyFile[s] \/ kyFile'[s] = kyMem[s]
  BY <1>1, <1>2, <1>t DEF KyTypeOK
<1>5. /\ kyMay' \in [KyServers -> [KyKeys -> SUBSET KyValues]]
      /\ kyMay'[s][k] = {kyOp[s].old}
      /\ \A j \in KyKeys : j # k => kyMay'[s][j] = kyMay[s][j]
      /\ \A t \in KyServers : t # s => kyMay'[t] = kyMay[t]
  BY <1>1, <1>k, <1>t, KyMaySet, ZenonT(30)
<1>6. s \notin kyAhead' => kyFile'[s] = Undone(s) /\ s \notin kyAhead
  BY <1>1, <1>2, <1>t DEF KyInv, KyWritten, KyTypeOK
<1>7. kyAhead \subseteq kyAhead' BY <1>2
<1>8. KyTypeOK'
  BY <1>1, <1>2, <1>3, <1>5, <1>t, Zenon DEF KyTypeOK
<1>9. KyOpen'
  BY <1>1, <1>4, KyFreePc DEF KyInv, KyOpen
<1>10. KyWritten'
  BY <1>1, <1>4, <1>6, <1>7, KyFreePc DEF KyInv, KyWritten, Undone
<1>11. KyAllowed'
  <2> SUFFICES ASSUME NEW t \in KyServers \ kyAhead', NEW j \in KyKeys
               PROVE  kyFile'[t][j] \in kyMay'[t][j] /\ (t \in kyUp => kyMem'[t][j] \in kyMay'[t][j])
    BY <1>1 DEF KyAllowed
  <2>1. CASE t = s
    <3>1. j # k => kyMem[s][j] \in kyMay[s][j] BY <2>1, <1>1, <1>6 DEF KyInv, KyAllowed
    <3> QED BY <3>1, <2>1, <1>3, <1>4, <1>5, <1>6, Zenon
  <2>2. CASE t # s
    BY <2>2, <1>1, <1>4, <1>5, <1>7 DEF KyInv, KyAllowed
  <2> QED BY <2>1, <2>2
<1>12. KyUnborn'
  <2> SUFFICES ASSUME NEW t \in KyServers \ kyAhead', NEW j \in KyKeys, kyFile'[t][j] = "none"
               PROVE  kyMay'[t][j] = {"none"} \/ KyBegun(t, j)'
    BY DEF KyUnborn
  <2>1. CASE t = s
    <3>1. CASE j = k BY <3>1, <2>1, <1>3, <1>5, <1>6
    <3>2. CASE j # k
      <4>1. kyMem[s][j] = "none" /\ kyFile[s][j] = "none"
        BY <3>2, <2>1, <1>1, <1>3, <1>6 DEF KyInv, KyWritten
      <4> QED BY <4>1, <3>2, <2>1, <1>5, <1>6 DEF KyInv, KyUnborn, KyBegun
    <3> QED BY <3>1, <3>2
  <2>2. CASE t # s
    <3>1. kyMay[t][j] = {"none"} \/ KyBegun(t, j) BY <2>2, <1>4, <1>7, Zenon DEF KyInv, KyUnborn
    <3>2. ASSUME KyBegun(t, j) PROVE KyBegun(t, j)'
      <4>1. kyMem[s][j] = "none" /\ kyFile[s][j] = "none" /\ j # k
        BY <3>2, <2>2, <1>1, <1>k DEF KyBegun, KyInv, KyOpen
      <4> QED BY <4>1, <3>2, <2>2, <1>1, <1>3, <1>4 DEF KyBegun
    <3> QED BY <3>1, <3>2, <2>2, <1>5
  <2> QED BY <2>1, <2>2
<1> QED BY <1>8, <1>9, <1>10, <1>11, <1>12 DEF KyInv

LEMMA KyCrashInv ==
    ASSUME KyInv, NEW s \in KyServers, KyCrash(s)
    PROVE  KyInv'
<1>t. KyTypeOK BY DEF KyInv
<1>1. /\ kyUp' = kyUp \ {s} /\ kyOp' = [kyOp EXCEPT ![s] = KyFree]
      /\ UNCHANGED <<kyMem, kyFile, kySecret, kyIndex, kyMay, kyAhead>>
  BY DEF KyCrash, KySet, kyStores, kyShared
<1>2. kyOp'[s] = KyFree /\ \A t \in KyServers : t # s => kyOp'[t] = kyOp[t]
  BY <1>1, <1>t DEF KyTypeOK
<1>3. KyTypeOK' BY <1>1, <1>t DEF KyTypeOK
<1>4. KyOpen' BY <1>1, <1>2, KyFreePc DEF KyInv, KyOpen
<1>5. KyWritten' BY <1>1, <1>2, KyFreePc DEF KyInv, KyWritten, Undone
<1>6. KyAllowed' BY <1>1 DEF KyInv, KyAllowed
<1>7. KyUnborn' BY <1>1 DEF KyInv, KyUnborn, KyBegun
<1> QED BY <1>3, <1>4, <1>5, <1>6, <1>7 DEF KyInv

LEMMA KyRestartInv ==
    ASSUME KyInv, NEW s \in KyServers, KyRestart(s)
    PROVE  KyInv'
<1>t. KyTypeOK BY DEF KyInv
<1>1. PICK got \in KyLoadAll :
         LET now == [k \in KyKeys |-> Merged(s, k, got)] IN
         /\ kyMem' = [kyMem EXCEPT ![s] = now] /\ kyFile' = [kyFile EXCEPT ![s] = now]
         /\ kyMay' = [kyMay EXCEPT ![s] = [k \in KyKeys |->
                        IF kyMay[s][k] = {"none"} \/ now[k] \in kyMay[s][k] THEN {now[k]} ELSE kyMay[s][k]]]
  BY Zenon DEF KyRestart
<1>2. s \notin kyUp /\ kyUp' = kyUp \cup {s} /\ UNCHANGED <<kyOp, kySecret, kyIndex, kyAhead>>
  BY DEF KyRestart, kyShared
<1> DEFINE now == [k \in KyKeys |-> Merged(s, k, got)]
           may == [k \in KyKeys |->
                     IF kyMay[s][k] = {"none"} \/ now[k] \in kyMay[s][k] THEN {now[k]} ELSE kyMay[s][k]]
<1>3. now \in [KyKeys -> KyValues] BY <1>t DEF KyTypeOK, Merged
<1>4. \A k \in KyKeys : \/ now[k] = kyFile[s][k]
                        \/ kyFile[s][k] = "none" /\ now[k] = kySecret[k]
  BY DEF Merged
<1>5. may \in [KyKeys -> SUBSET KyValues]
  <2>1. ASSUME NEW k \in KyKeys
        PROVE  (IF kyMay[s][k] = {"none"} \/ now[k] \in kyMay[s][k] THEN {now[k]} ELSE kyMay[s][k]) \in SUBSET KyValues
    <3>1. now[k] \in KyValues /\ kyMay[s][k] \in SUBSET KyValues BY <1>3, <1>t DEF KyTypeOK
    <3> HIDE DEF now
    <3> QED BY <3>1
  <2> HIDE DEF now
  <2> QED BY <2>1
<1>6. \A k \in KyKeys : may[k] = IF kyMay[s][k] = {"none"} \/ now[k] \in kyMay[s][k] THEN {now[k]} ELSE kyMay[s][k]
  OBVIOUS
<1>7. kyMem' = [kyMem EXCEPT ![s] = now] /\ kyFile' = [kyFile EXCEPT ![s] = now] /\ kyMay' = [kyMay EXCEPT ![s] = may]
  BY <1>1
<1> HIDE DEF now, may
<1>8. /\ kyMem'[s] = now /\ kyFile'[s] = now /\ kyMay'[s] = may
      /\ \A t \in KyServers : t # s => kyMem'[t] = kyMem[t] /\ kyFile'[t] = kyFile[t] /\ kyMay'[t] = kyMay[t]
  BY <1>7, <1>t DEF KyTypeOK
<1>9. KyTypeOK' BY <1>2, <1>3, <1>5, <1>7, <1>t DEF KyTypeOK
<1>10. KyOpen' BY <1>2, <1>8 DEF KyInv, KyOpen
<1>11. KyWritten' BY <1>2, <1>8 DEF KyInv, KyOpen, KyWritten, Undone
<1>12. ASSUME s \notin kyAhead, NEW k \in KyKeys PROVE now[k] \in may[k] /\ (now[k] = "none" => may[k] = {"none"})
  <2>1. kyFile[s][k] \in kyMay[s][k] BY <1>12 DEF KyInv, KyAllowed
  <2>2. CASE now[k] = kyFile[s][k] BY <2>1, <2>2, <1>6, Zenon
  <2>3. CASE now[k] # kyFile[s][k]
    <3>1. kyFile[s][k] = "none" /\ now[k] = kySecret[k] /\ kySecret[k] # "none" BY <2>3, <1>4
    <3>2. kyMay[s][k] = {"none"} BY <3>1, <1>12 DEF KyInv, KyUnborn, KyBegun
    <3> QED BY <3>1, <3>2, <1>6, Zenon
  <2> QED BY <2>2, <2>3
<1>13. KyAllowed' BY <1>2, <1>8, <1>12 DEF KyInv, KyAllowed
<1>14. KyUnborn'
  <2> SUFFICES ASSUME NEW t \in KyServers \ kyAhead, NEW j \in KyKeys, kyFile'[t][j] = "none"
               PROVE  kyMay'[t][j] = {"none"} \/ KyBegun(t, j)'
    BY <1>2 DEF KyUnborn
  <2>1. CASE t = s BY <2>1, <1>8, <1>12
  <2>2. CASE t # s
    <3>1. KyBegun(t, j) => now[j] = "none" BY <2>2, <1>4 DEF KyBegun
    <3> QED BY <3>1, <2>2, <1>2, <1>8 DEF KyInv, KyUnborn, KyBegun
  <2> QED BY <2>1, <2>2
<1> QED BY <1>9, <1>10, <1>11, <1>13, <1>14 DEF KyInv

LEMMA KyNextInv == KyInv /\ [KyNext]_kyVars => KyInv'
<1> SUFFICES ASSUME KyInv, [KyNext]_kyVars PROVE KyInv' OBVIOUS
<1>1. ASSUME NEW s \in KyServers, KyPostKey(s) PROVE KyInv'
  BY <1>1, KyChangeInv DEF KyPostKey, KyCreate
<1>2. ASSUME NEW s \in KyServers, KyDeleteKey(s) \/ KyPatchKey(s) PROVE KyInv'
  BY <1>2, KyChangeInv DEF KyDeleteKey, KyPatchKey, KyRevoke, KyUpdate
<1>3. CASE UNCHANGED kyVars
  BY <1>3 DEF kyVars, kyStores, kyShared, KyInv, KyTypeOK, KyOpen, KyWritten, Undone, KyAllowed, KyUnborn, KyBegun
<1> QED
  BY <1>1, <1>2, <1>3, KySaveInv, KySaveFailsInv, KyPutInv, KyCrashInv, KyRestartInv DEF KyNext

(* A server's keys are what it last answered, over failed saves, crashes,  *)
(* restarts and a Vault whose calls fail: ApiKeyStore's order of memory,   *)
(* file and Vault, and its merge at the start, for any number of servers   *)
(* and keys.                                                               *)
THEOREM KeysAreKept == KySpec => []KeysKept
<1>1. KyInv => KeysKept BY DEF KyInv, KyTypeOK, KyWritten, KyAllowed, KeysKept
<1> QED BY <1>1, KyInitInv, KyNextInv, PTL DEF KySpec
=============================================================================
