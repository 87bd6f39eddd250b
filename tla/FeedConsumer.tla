---- MODULE FeedConsumer ----
(***************************************************************************)
(* The broker consumers: KafkaConsumer, PulsarConsumer, KinesisConsumer    *)
(* and MqttConsumer.  Each takes the messages of one topic, decodes them,  *)
(* and hands the tick to the local pipeline or to the node that owns its   *)
(* symbol, with the same bounded retries; they differ in what they tell    *)
(* the broker afterwards, and so in what a restart delivers again.         *)
(*                                                                         *)
(* The broker, the pipeline and the remote node are external: a broker     *)
(* keeps the topic and what the consumer told it, ingest_tick accepts a    *)
(* tick or refuses it, and a remote call may take effect and lose its      *)
(* reply.  "Stored" is the acceptance by a pipeline: what the pipeline     *)
(* then does with the tick is the subject of IngestPipeline.               *)
(***************************************************************************)
EXTENDS Naturals, Sequences, FiniteSets

CONSTANTS
    FdMessages,     \* the topic: a sequence of [good, owner]; owner is "local", "peer" or "gone"
    FdSetups,       \* configurations: [kind, from, wire, table]; from is initial_position,
                    \* auto_offset_reset, the shard iterator, or whether a session persists
    FdRetries,      \* backpressure_retries
    FdMaxBatch,     \* max_records_per_poll
    FdMaxFaults     \* bound: crashes, stops and lost replies

ASSUME FdConstants ==
    /\ FdMessages \in Seq([good : BOOLEAN, owner : {"local", "peer", "gone"}])
    /\ FdRetries \in Nat /\ FdMaxBatch \in Nat \ {0} /\ FdMaxFaults \in Nat
    /\ \A s \in FdSetups :
         /\ s.kind \in {"kafka_auto", "kafka", "pulsar", "kinesis", "mqtt"}
         /\ s.from \in {"resume", "oldest", "latest"}
         /\ s.wire \in {"single", "routed", "bare"} /\ s.table \in {"default", "known", "unknown"}

VARIABLES
    fdSetup,        \* config_, and what set_pipeline and set_routing installed
    fdFirst,        \* the first message of the subscription, 0 before there is one
    fdHead,         \* messages published so far
    fdRun,          \* running_
    fdThread,       \* the poll (or callback) thread: "none", "poll", or "done": ended, not joined
    fdPos, fdEnd,   \* the next message to hand out, and the last of the fetched batch
    fdNacked,       \* messages negatively acknowledged and not yet redelivered
    fdMsg, fdLeft,  \* the message in on_message (0: none) and the attempts left
    fdResult,       \* what on_message returned: "none", "ok", "failed"
    fdStored,       \* the messages some pipeline accepted
    fdCommitted,    \* the broker's offset: every message up to it is consumed
    fdAcked,        \* Pulsar's individual acknowledgements
    fdStats,        \* decode_errors and ingest_failures of stats(); they stop at FdCap
    fdSeen,         \* the messages on_message was called with since the process started
    fdAborted,      \* std::terminate was called
    fdFaults

fdBroker == <<fdHead, fdCommitted, fdAcked>>
fdLoop == <<fdRun, fdThread, fdPos, fdEnd, fdNacked>>
fdCall == <<fdMsg, fdLeft, fdResult>>
fdCount == <<fdStored, fdStats, fdSeen>>
fdVars == <<fdSetup, fdFirst, fdBroker, fdLoop, fdCall, fdCount, fdAborted, fdFaults>>

FdIds == DOMAIN FdMessages
FdCap == Cardinality(FdIds)
FdCounters == {"decode_errors", "ingest_failures"}

FdBump(c) == [fdStats EXCEPT ![c] = IF @ < FdCap THEN @ + 1 ELSE FdCap]

FdInit ==
    /\ fdSetup \in FdSetups
    /\ fdFirst = 0 /\ fdHead = 0
    /\ fdRun = FALSE /\ fdThread = "none" /\ fdPos = 1 /\ fdEnd = 0 /\ fdNacked = {}
    /\ fdMsg = 0 /\ fdLeft = 0 /\ fdResult = "none"
    /\ fdStored = {} /\ fdSeen = {} /\ fdStats = [c \in FdCounters |-> 0]
    /\ fdCommitted = 0 /\ fdAcked = {} /\ fdAborted = FALSE /\ fdFaults = 0

\* The broker takes one more message.
FdProduce ==
    /\ fdHead < Cardinality(FdIds)
    /\ fdHead' = fdHead + 1
    /\ UNCHANGED <<fdSetup, fdFirst, fdCommitted, fdAcked, fdLoop, fdCall, fdCount, fdAborted, fdFaults>>

\* A consumer begins to run at message n.  Assigning poll_thread_ over a thread
\* that ended by itself and was never joined terminates the process.
FdRunFrom(n) ==
    /\ ~fdRun /\ ~fdAborted /\ fdThread # "poll"
    /\ fdAborted' = (fdThread = "done")
    /\ fdRun' = TRUE /\ fdThread' = "poll"
    /\ fdPos' = n /\ fdEnd' = n - 1 /\ fdNacked' = {}
    /\ fdFirst' = IF fdFirst = 0 THEN n ELSE fdFirst
    /\ UNCHANGED <<fdSetup, fdBroker, fdCall, fdCount, fdFaults>>

\* Where a consumer begins for which the broker keeps nothing.
FdInitial == IF fdSetup.from = "oldest" THEN 1 ELSE fdHead + 1

\* KafkaConsumer::start() resumes at the offset the broker keeps for the group;
\* as long as there is none, auto.offset.reset says where.  A start that fails to
\* subscribe leaves running_ cleared and changes nothing.
KafkaStart ==
    /\ fdSetup.kind \in {"kafka", "kafka_auto"}
    /\ FdRunFrom(IF fdCommitted = 0 THEN FdInitial ELSE fdCommitted + 1)

\* PulsarConsumer::start(): initial_position places a new subscription, which then
\* offers all it has not acknowledged.
PulsarStart == fdSetup.kind = "pulsar" /\ FdRunFrom(IF fdFirst = 0 THEN FdInitial ELSE fdFirst)

\* KinesisConsumer::start() asks for the configured shard iterator: nothing is
\* checkpointed, so TRIM_HORIZON reads all again and LATEST skips what passed.
KinesisStart == fdSetup.kind = "kinesis" /\ FdRunFrom(FdInitial)

\* MqttConsumer::start(): a persistent session resumes where the broker stopped,
\* a clean or a new one sees what is published from now on.
MqttStart ==
    /\ fdSetup.kind = "mqtt"
    /\ FdRunFrom(CASE fdSetup.from # "resume" \/ fdFirst = 0 -> fdHead + 1
                   [] OTHER -> IF fdCommitted < fdFirst THEN fdFirst ELSE fdCommitted + 1)

FdStart == KafkaStart \/ PulsarStart \/ KinesisStart \/ MqttStart

\* One GetRecords call: a batch of the shard from the iterator on.
FdFetch ==
    /\ fdSetup.kind = "kinesis" /\ fdThread = "poll" /\ fdRun /\ ~fdAborted
    /\ fdMsg = 0 /\ fdPos = fdEnd + 1 /\ fdPos <= fdHead
    /\ \E n \in 1..FdMaxBatch :
         /\ fdEnd + n <= fdHead
         /\ fdEnd' = fdEnd + n
    /\ UNCHANGED <<fdSetup, fdFirst, fdBroker, fdRun, fdThread, fdPos, fdNacked, fdCall, fdCount,
                   fdAborted, fdFaults>>

\* The messages the client library may hand out now.  The Kinesis loop ends the
\* batch it fetched even when stop() was called meanwhile, and the MQTT callback
\* looks at nothing; the other two look at running_ before every message.
FdNextMessages ==
    CASE fdSetup.kind = "kinesis" -> {m \in {fdPos} : m <= fdEnd}
      [] fdSetup.kind = "mqtt" -> {m \in {fdPos} : m <= fdHead}
      [] fdSetup.kind = "pulsar" ->
           IF fdRun THEN {m \in {fdPos} : m <= fdHead} \cup fdNacked ELSE {}
      [] OTHER -> IF fdRun THEN {m \in {fdPos} : m <= fdHead} ELSE {}

\* decode_json, decode_binary and decode_json_human: a tick, or nothing.
Decodes(m) == FdMessages[m].good

\* on_message: the counter of a decode failure, or the start of the attempts.
FdOnMessage(m) ==
    /\ fdMsg' = m /\ fdSeen' = fdSeen \cup {m}
    /\ fdLeft' = FdRetries + 1
    /\ fdResult' = IF Decodes(m) THEN "none" ELSE "failed"
    /\ fdStats' = IF Decodes(m) THEN fdStats ELSE FdBump("decode_errors")

\* The loop, or the callback, takes a message.  The broker does not redeliver a
\* message the Pulsar subscription acknowledged.
FdReceive(m) ==
    /\ fdThread = "poll" /\ ~fdAborted /\ fdMsg = 0 /\ m \in FdNextMessages
    /\ fdPos' = IF m = fdPos THEN m + 1 ELSE fdPos
    /\ fdNacked' = fdNacked \ {m}
    /\ IF fdSetup.kind = "pulsar" /\ m \in fdAcked
         THEN UNCHANGED <<fdCall, fdStats, fdSeen>>
         ELSE FdOnMessage(m)
    /\ UNCHANGED <<fdSetup, fdFirst, fdBroker, fdRun, fdThread, fdEnd, fdStored, fdAborted, fdFaults>>

\* Where ingest_decoded sends a tick: "refuse" is a failure it counts without an
\* attempt, "nowhere" the last line, reached with no pipeline and no router.
FdTarget(m) ==
    CASE fdSetup.table = "unknown" -> "refuse"
      [] fdSetup.wire = "bare" -> "nowhere"
      [] fdSetup.wire = "single" -> "local"
      [] OTHER -> IF FdMessages[m].owner = "gone" THEN "refuse" ELSE FdMessages[m].owner

\* The attempt took the tick, and its caller was told.
FdAccept ==
    /\ fdMsg # 0 /\ fdResult = "none" /\ ~fdAborted
    /\ FdTarget(fdMsg) \in {"local", "peer"} /\ fdLeft > 0
    /\ fdStored' = fdStored \cup {fdMsg}
    /\ fdResult' = "ok"
    /\ UNCHANGED <<fdSetup, fdFirst, fdBroker, fdLoop, fdMsg, fdLeft, fdStats, fdSeen, fdAborted, fdFaults>>

\* The attempt was refused (queue full, node unreachable), or its reply was lost.
FdRefuse ==
    /\ fdMsg # 0 /\ fdResult = "none" /\ ~fdAborted
    /\ FdTarget(fdMsg) \in {"local", "peer"} /\ fdLeft > 0
    /\ \/ UNCHANGED <<fdStored, fdFaults>>
       \/ /\ FdTarget(fdMsg) = "peer" /\ fdFaults < FdMaxFaults
          /\ fdStored' = fdStored \cup {fdMsg} /\ fdFaults' = fdFaults + 1
    /\ fdLeft' = fdLeft - 1
    /\ fdResult' = IF fdLeft = 1 THEN "failed" ELSE "none"
    /\ fdStats' = IF fdLeft = 1 THEN FdBump("ingest_failures") ELSE fdStats
    /\ UNCHANGED <<fdSetup, fdFirst, fdBroker, fdLoop, fdMsg, fdSeen, fdAborted>>

\* ingest_decoded has nowhere to send the tick.
FdDrop ==
    /\ fdMsg # 0 /\ fdResult = "none" /\ ~fdAborted
    /\ FdTarget(fdMsg) \in {"refuse", "nowhere"}
    /\ fdResult' = "failed"
    /\ fdStats' = IF FdTarget(fdMsg) = "refuse" THEN FdBump("ingest_failures") ELSE fdStats
    /\ UNCHANGED <<fdSetup, fdFirst, fdBroker, fdLoop, fdMsg, fdLeft, fdStored, fdSeen, fdAborted, fdFaults>>

\* A bug: the offset is committed whatever on_message returned.
CommitAlways(ok) == TRUE

\* The result of on_message decides whether the offset advances (AFTER_INGEST).
CommitsWhen(ok) == ok

\* A bug: a failed Pulsar message is left without any acknowledgement.
NotNacked(m) == {}

\* What negativeAcknowledge puts back for redelivery.
Nacked(m) == {m}

\* The call is over, and the loop tells the broker what it tells it.
FdEndCall ==
    /\ fdMsg # 0 /\ fdResult # "none" /\ ~fdAborted
    /\ fdMsg' = 0 /\ fdLeft' = 0 /\ fdResult' = "none"
    /\ UNCHANGED <<fdSetup, fdFirst, fdHead, fdRun, fdThread, fdPos, fdEnd, fdCount, fdAborted, fdFaults>>

\* KafkaConsumer::poll_loop commits the offset when commit_mode is AFTER_INGEST;
\* commitAsync may fail or be cut off, and then the broker keeps what it knew.
KafkaReturn ==
    /\ fdSetup.kind \in {"kafka", "kafka_auto"} /\ FdEndCall
    /\ \/ /\ fdSetup.kind = "kafka" /\ CommitsWhen(fdResult = "ok")
          /\ fdCommitted' = fdMsg
       \/ UNCHANGED fdCommitted
    /\ UNCHANGED <<fdAcked, fdNacked>>

\* PulsarConsumer::poll_loop acknowledges, and the acknowledgement may fail, or
\* asks for the redelivery.
PulsarReturn ==
    /\ fdSetup.kind = "pulsar" /\ FdEndCall
    /\ \/ fdResult = "ok" /\ fdAcked' = fdAcked \cup {fdMsg} /\ UNCHANGED fdNacked
       \/ fdResult = "ok" /\ UNCHANGED <<fdAcked, fdNacked>>
       \/ fdResult = "failed" /\ fdNacked' = fdNacked \cup Nacked(fdMsg) /\ UNCHANGED fdAcked
    /\ UNCHANGED fdCommitted

\* KinesisConsumer::poll_loop drops on_record's result.
KinesisReturn == fdSetup.kind = "kinesis" /\ FdEndCall /\ UNCHANGED <<fdCommitted, fdAcked, fdNacked>>

\* The MQTT client library acknowledges a message once its callback returned.
MqttReturn ==
    /\ fdSetup.kind = "mqtt" /\ FdEndCall
    /\ fdCommitted' = fdMsg /\ UNCHANGED <<fdAcked, fdNacked>>

FdReturn == KafkaReturn \/ PulsarReturn \/ KinesisReturn \/ MqttReturn

\* librdkafka commits what consume() returned, from time to time and on close.
FdConsumed == fdPos - 1 \in fdSeen
FdAutoCommit ==
    /\ fdSetup.kind = "kafka_auto" /\ fdThread = "poll" /\ FdConsumed /\ fdCommitted # fdPos - 1
    /\ fdCommitted' = fdPos - 1
    /\ UNCHANGED <<fdSetup, fdFirst, fdHead, fdAcked, fdLoop, fdCall, fdCount, fdAborted, fdFaults>>

\* The shard ended or its iterator expired: the loop clears running_ and returns.
FdExpire ==
    /\ fdSetup.kind = "kinesis" /\ fdThread = "poll" /\ fdRun /\ ~fdAborted
    /\ fdMsg = 0 /\ fdPos = fdEnd + 1 /\ fdFaults < FdMaxFaults
    /\ fdRun' = FALSE /\ fdThread' = "done" /\ fdFaults' = fdFaults + 1
    /\ UNCHANGED <<fdSetup, fdFirst, fdBroker, fdPos, fdEnd, fdNacked, fdCall, fdCount, fdAborted>>

\* stop() clears running_; it then waits for the thread.
FdStop ==
    /\ fdRun /\ ~fdAborted /\ fdFaults < FdMaxFaults
    /\ fdRun' = FALSE /\ fdFaults' = fdFaults + 1
    /\ UNCHANGED <<fdSetup, fdFirst, fdBroker, fdThread, fdPos, fdEnd, fdNacked, fdCall, fdCount, fdAborted>>

\* The consumer's thread is joined, or its client disconnected and quiesced.
FdEnded ==
    /\ ~fdRun /\ ~fdAborted /\ fdMsg = 0
    /\ fdThread' = "none" /\ fdNacked' = {}
    /\ UNCHANGED <<fdSetup, fdFirst, fdHead, fdAcked, fdRun, fdPos, fdEnd, fdCall, fdCount, fdAborted,
                   fdFaults>>

\* KafkaConsumer::stop(): poll_loop closed the consumer, and automatic commits
\* then include the position.
KafkaJoin ==
    /\ fdSetup.kind \in {"kafka", "kafka_auto"} /\ fdThread = "poll" /\ FdEnded
    /\ fdCommitted' = IF fdSetup.kind = "kafka_auto" /\ FdConsumed THEN fdPos - 1 ELSE fdCommitted

\* PulsarConsumer::stop(): what was nacked is redelivered to the next consumer.
PulsarJoin == fdSetup.kind = "pulsar" /\ fdThread = "poll" /\ FdEnded /\ UNCHANGED fdCommitted

\* KinesisConsumer::stop() joins a thread that ended by itself too.
KinesisJoin ==
    /\ fdSetup.kind = "kinesis" /\ FdEnded /\ UNCHANGED fdCommitted
    /\ fdThread = "done" \/ (fdThread = "poll" /\ fdPos = fdEnd + 1)

\* MqttConsumer::stop(): disconnect waits for the callback in progress.
MqttJoin == fdSetup.kind = "mqtt" /\ fdThread = "poll" /\ FdEnded /\ UNCHANGED fdCommitted

FdJoin == KafkaJoin \/ PulsarJoin \/ KinesisJoin \/ MqttJoin

\* The consumer's process dies; its counters start at zero again.
FdCrash ==
    /\ fdThread # "none" /\ fdFaults < FdMaxFaults
    /\ fdRun' = FALSE /\ fdThread' = "none" /\ fdNacked' = {}
    /\ fdMsg' = 0 /\ fdLeft' = 0 /\ fdResult' = "none"
    /\ fdStats' = [c \in FdCounters |-> 0] /\ fdSeen' = {}
    /\ fdAborted' = FALSE /\ fdFaults' = fdFaults + 1
    /\ UNCHANGED <<fdSetup, fdFirst, fdBroker, fdPos, fdEnd, fdStored>>

FdNext ==
    \/ FdProduce \/ FdStart \/ FdFetch \/ FdAccept \/ FdRefuse \/ FdDrop \/ FdReturn
    \/ FdAutoCommit \/ FdExpire \/ FdStop \/ FdJoin \/ FdCrash
    \/ \E m \in FdIds : FdReceive(m)

FdSpec == FdInit /\ [][FdNext]_fdVars

\* The threads run, a stopped consumer is started again, every waiting Pulsar
\* message is redelivered, and a pipeline that keeps being asked has room again;
\* acknowledgements are not lost for ever.
FdFairness ==
    /\ WF_fdVars(FdStart) /\ WF_fdVars(FdDrop) /\ WF_fdVars(FdRefuse)
    /\ WF_fdVars(FdReturn) /\ WF_fdVars(FdJoin) /\ SF_fdVars(FdAccept)
    /\ \A m \in FdIds : SF_fdVars(FdReceive(m))

(***************************************************************************)
(* What the consumers promise.                                             *)
(***************************************************************************)

FdGone == {m \in fdSeen \ {fdMsg} : m \notin fdStored}

\* No message leaves the broker's care unnoticed.  What KafkaConsumer commits
\* after ingest and what PulsarConsumer acknowledges was accepted by a pipeline,
\* whatever failed, crashed or was retried on the way; and every message a
\* consumer took and could not place shows in decode_errors or ingest_failures.
FeedKeeps ==
    /\ fdSetup.kind = "kafka" /\ fdCommitted > 0 => fdCommitted \in fdStored
    /\ fdAcked \subseteq fdStored
    /\ fdSetup.wire # "bare" =>
         Cardinality(FdGone) <= fdStats["decode_errors"] + fdStats["ingest_failures"]

\* A Pulsar message of the subscription (all but what was published before the
\* first start, when initial_position is Latest) that decodes and has a
\* destination is stored in the end: it is negatively acknowledged and redelivered
\* until a pipeline takes it, over refusals, stops, crashes and lost
\* acknowledgements.
FdDelivered ==
    fdSetup.kind = "pulsar" /\ fdFirst # 0 =>
      \A m \in fdFirst..fdHead :
         FdMessages[m].good /\ FdTarget(m) \in {"local", "peer"} => m \in fdStored
PulsarDelivers == []<>FdDelivered

\* KafkaConsumer with AFTER_INGEST "guarantees at-least-once delivery: on
\* restart, un-ingested messages are re-delivered from the last committed
\* offset" (kafka_consumer.h): from the first message it was offered to the
\* committed offset, no message that decodes is missing from the store.
AtLeastOnce ==
    fdSetup.kind = "kafka" /\ fdFirst # 0 =>
      \A m \in fdFirst..fdCommitted : FdMessages[m].good => m \in fdStored
====
