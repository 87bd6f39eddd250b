---- MODULE SensorFeed ----
(***************************************************************************)
(* The industrial consumers: OpcUaConsumer and Ros2Consumer.  One message  *)
(* carries several values (an array, a structure, a history page, the      *)
(* fields of an IMU or joint-state message, the rows of a typed profile),  *)
(* each of which is decoded, routed and counted by itself, on the library's*)
(* callback thread, on a thread that imports a rosbag2 file and on the     *)
(* callers' own threads at once.  The OPC UA client also keeps a session   *)
(* with its server and rebuilds it when the connection is lost.            *)
(*                                                                         *)
(* A value is abstracted to what decides its fate: whether it names a      *)
(* symbol, converts, carries a good status, and who owns its symbol.  The  *)
(* client libraries and the pipelines are external.                        *)
(***************************************************************************)
EXTENDS Naturals, Sequences, FiniteSets, FiniteSetsExt

CONSTANTS
    SnThreads,      \* threads that deliver messages
    SnSpin,         \* among them, the one the client library calls back on
    SnSetups,       \* configurations: [kind, quality, wire, table]
    SnMessages,     \* messages: [form, val, known, parts]; a part is [sym, conv, good, owner]
    SnBags,         \* bag imports: [msgs, limit, fatal]: the file's messages, each
                    \* [null, known, typed, parts], max_messages, fail_on_unknown_topic
    SnBase,         \* reconnect_interval_ms
    SnMaxMessages, SnMaxLosses  \* bounds

ASSUME SnConstants ==
    /\ SnBase \in Nat \ {0} /\ SnMaxMessages \in Nat /\ SnMaxLosses \in Nat
    /\ "bag" \notin SnThreads /\ SnSpin \in SnThreads
    /\ \A m \in SnMessages : m.val \in {"none", "unsupported", "ok"}
    /\ \A b \in SnBags : b.limit \in Nat /\ b.fatal \in BOOLEAN
    /\ \A s \in SnSetups :
         /\ s.kind \in {"opc", "scalar", "standard", "typed"}
         /\ s.quality \in {"IgnoreBad", "AcceptAll"}
         /\ s.wire \in {"single", "routed", "bare"} /\ s.table \in {"default", "known", "unknown"}

VARIABLES
    snSetup,
    snTodo,         \* per thread: the parts of its message still to handle
    snAt,           \* per thread: "idle", "part" or "ingest"
    snStats,        \* the counters of stats()
    snDue,          \* outcomes owed so far: one per part begun, one per message refused whole
    snAside,        \* failures counted for a history read, not for a part
    snStarted,      \* messages begun (bounded by SnMaxMessages)
    snBag, snBagPos, snBagStats,   \* consume_bag: the file, the next message, its own counters
    snRun, snPc, snSession, snSub, \* the OPC UA loop, its session and its subscription
    snBackoff, snLosses

snParts == <<snTodo, snAt, snStats, snDue, snAside, snStarted>>
snBagVars == <<snBag, snBagPos, snBagStats>>
snLink == <<snRun, snPc, snSession, snSub, snBackoff, snLosses>>
snVars == <<snSetup, snParts, snBagVars, snLink>>

SnAll == SnThreads \cup {"bag"}
SnOpc == snSetup.kind = "opc"

SnInit ==
    /\ snSetup \in SnSetups
    /\ snTodo = [t \in SnAll |-> <<>>] /\ snAt = [t \in SnAll |-> "idle"]
    /\ snStats = [consumed |-> 0, decode |-> 0, rows |-> 0, failed |-> 0, dropped |-> 0]
    /\ snDue = 0 /\ snAside = 0 /\ snStarted = 0
    /\ snBag \in SnBags /\ snBagPos = 1
    /\ snBagStats = [read |-> 0, skipped |-> 0, decode |-> 0, consumed |-> 0, rows |-> 0,
                     end |-> "open"]
    /\ snRun = FALSE /\ snPc = "iterate" /\ snSession = FALSE /\ snSub = FALSE
    /\ snBackoff = SnBase /\ snLosses = 0

(***************************************************************************)
(* Messages and their parts.                                               *)
(***************************************************************************)

\* One message is one decode error as a whole.
SnRefuse(t) ==
    /\ snStats' = [snStats EXCEPT !.decode = @ + 1] /\ snDue' = snDue + 1
    /\ UNCHANGED <<snTodo, snAt>>

\* Its parts are handled one after the other; a profile counts the message first.
SnHandle(t, parts, counted) ==
    /\ snTodo' = [snTodo EXCEPT ![t] = parts]
    /\ snAt' = [snAt EXCEPT ![t] = "part"]
    /\ snStats' = IF counted THEN [snStats EXCEPT !.consumed = @ + 1] ELSE snStats
    /\ UNCHANGED snDue

SnArrives(t, m, forms) ==
    /\ snAt[t] = "idle" /\ snStarted < SnMaxMessages
    /\ m.form \in forms
    /\ snStarted' = snStarted + 1
    /\ UNCHANGED <<snSetup, snAside, snBagVars, snLink>>

\* The client library calls back while the consumer runs: OPC UA's from its
\* loop, as long as there is a subscription.
SnCalledBack(t) == t = SnSpin => snRun /\ (SnOpc => snPc = "iterate" /\ snSub)

\* A notification without a value (hasValue) leaves no trace.
SnIgnore(t) == UNCHANGED <<snTodo, snAt, snStats, snDue>>

\* on_data_change, on_string_change and on_array_change: an unknown node and an
\* empty array are one decode error.
OpcValue(t, m) == IF m.known /\ m.parts # <<>> THEN SnHandle(t, m.parts, FALSE) ELSE SnRefuse(t)

\* handle_data_change, for the library and for read_history, or a caller of those
\* functions.  An element type that is not supported is one decode error.
OpcChange(t, m) ==
    /\ SnOpc /\ SnCalledBack(t) /\ SnArrives(t, m, {"data", "string", "array"})
    /\ CASE m.val = "none" -> SnIgnore(t)
         [] m.val = "unsupported" -> SnRefuse(t)
         [] m.val = "ok" -> OpcValue(t, m)

\* on_structured_change: every field carries its own symbol.
OpcStructured(t, m) ==
    /\ SnOpc /\ t # SnSpin /\ SnArrives(t, m, {"structured"})
    /\ IF m.parts # <<>> THEN SnHandle(t, m.parts, FALSE) ELSE SnRefuse(t)

\* ingest_history, which looks its nodes up one by one.
OpcHistory(t, m) ==
    /\ SnOpc /\ t # SnSpin /\ SnArrives(t, m, {"history"}) /\ SnHandle(t, m.parts, FALSE)

\* on_alarm_event: the severity is the value, its sign whether it is active.
OpcAlarm(t, m) ==
    /\ SnOpc /\ t # SnSpin /\ SnArrives(t, m, {"alarm"}) /\ SnHandle(t, m.parts, FALSE)

\* A scalar topic: handle_live_scalar on the executor's thread, on_scalar_sample
\* on the caller's.
ScalarMessage(t, m) ==
    /\ snSetup.kind = "scalar" /\ SnCalledBack(t) /\ SnArrives(t, m, {"scalar"})
    /\ IF m.known \/ t = SnSpin THEN SnHandle(t, m.parts, FALSE) ELSE SnRefuse(t)

\* append_scalar_if_valid: a field that has a symbol and scales to an integer.
SnFieldKept(p) == p.sym /\ p.conv

\* imu_sample_to_scalars and the other profiles: the fields kept, the others
\* dropped without a counter.
SnScalars(parts) == SelectSeq(parts, SnFieldKept)

\* handle_standard_scalars
StandardMessage(t, m) ==
    /\ snSetup.kind = "standard" /\ t = SnSpin /\ SnCalledBack(t) /\ SnArrives(t, m, {"standard"})
    /\ IF SnScalars(m.parts) = <<>> THEN SnRefuse(t) ELSE SnHandle(t, SnScalars(m.parts), TRUE)

\* imu_typed_rows and the other profiles: a row for the message, for each joint
\* or for each transform, 0 for what it lacks, under the subscription's symbol.
SnTypedRows(parts) ==
    [i \in DOMAIN parts |-> [parts[1] EXCEPT !.sym = TRUE, !.conv = TRUE]]

\* handle_typed_rows; without a pipeline the callback refuses the message.
TypedMessage(t, m) ==
    /\ snSetup.kind = "typed" /\ t = SnSpin /\ SnCalledBack(t) /\ SnArrives(t, m, {"typed"})
    /\ IF m.parts = <<>> \/ snSetup.wire = "bare" THEN SnRefuse(t)
       ELSE SnHandle(t, SnTypedRows(m.parts), TRUE)

\* on_typed_row called with one row by a thread of its own.
TypedRow(t, m) ==
    /\ snSetup.kind = "typed" /\ t # SnSpin /\ SnArrives(t, m, {"typed"}) /\ m.parts # <<>>
    /\ IF m.known THEN SnHandle(t, <<Head(m.parts)>>, FALSE) ELSE SnRefuse(t)

SnNextPart(t) ==
    /\ snTodo' = [snTodo EXCEPT ![t] = Tail(@)]
    /\ snAt' = [snAt EXCEPT ![t] = IF Len(snTodo[t]) = 1 THEN "idle" ELSE "part"]

\* The part is refused: as a decode error, or for want of its table.
SnPartRefused(t) ==
    /\ snStats' = [snStats EXCEPT !.decode = @ + 1]
    /\ SnNextPart(t)

SnPartTaken(t, stats) ==
    /\ snStats' = stats
    /\ snAt' = [snAt EXCEPT ![t] = "ingest"] /\ UNCHANGED snTodo

SnNoTable(t, stats) ==
    /\ snStats' = [stats EXCEPT !.failed = @ + 1, !.dropped = @ + 1]
    /\ SnNextPart(t)

\* coerce_variant_to_int64 and the symbol checks before dispatch_value, and the
\* quality that config_ accepts.
Undecodable(p) == ~p.sym \/ ~p.conv \/ (snSetup.quality = "IgnoreBad" /\ ~p.good)

\* dispatch_value: an unknown table is only seen in ingest_decoded.
OpcPart(t) ==
    /\ SnOpc
    /\ IF Undecodable(Head(snTodo[t])) THEN SnPartRefused(t)
         ELSE SnPartTaken(t, [snStats EXCEPT !.consumed = @ + 1])

\* on_scalar_sample_impl: count_message is set for a scalar topic and for what a
\* bag holds, not for the fields of a live profile.
ScalarPart(t) ==
    /\ snSetup.kind \in {"scalar", "standard"}
    /\ LET seen == IF snSetup.kind = "scalar" \/ t = "bag"
                     THEN [snStats EXCEPT !.consumed = @ + 1] ELSE snStats
       IN CASE ~SnFieldKept(Head(snTodo[t])) -> SnPartRefused(t)
            [] snSetup.table = "unknown" /\ SnFieldKept(Head(snTodo[t])) -> SnNoTable(t, seen)
            [] OTHER -> SnPartTaken(t, seen)

\* on_typed_row up to the routing: a typed row always needs its table.
TypedPart(t) ==
    /\ snSetup.kind = "typed"
    /\ IF snSetup.table = "known" THEN SnPartTaken(t, snStats) ELSE SnNoTable(t, snStats)

SnPart(t) ==
    /\ snAt[t] = "part"
    /\ snDue' = snDue + 1
    /\ OpcPart(t) \/ ScalarPart(t) \/ TypedPart(t)
    /\ UNCHANGED <<snSetup, snAside, snStarted, snBagVars, snLink>>

\* Where a tick goes once it is decoded.
SnTarget(p) ==
    CASE snSetup.wire = "bare" -> "nowhere"
      [] snSetup.wire = "single" -> "local"
      [] OTHER -> p.owner

\* The attempts, bounded by backpressure_retries, succeed or fail.
SnAttempts(p) == IF SnTarget(p) \in {"local", "peer"} THEN BOOLEAN ELSE {FALSE}

SnFailed(drop) == [snStats EXCEPT !.failed = @ + 1, !.dropped = IF drop THEN @ + 1 ELSE @]

\* A bug: a node without a connection is left out of the counters.
GoneUncounted(p) == SnTarget(p) \in {"nowhere", "gone"}

\* The end of OPC UA's ingest_decoded, with no pipeline and no router, returns
\* without a counter.
Uncounted(p) == SnTarget(p) = "nowhere"

\* OpcUaConsumer::ingest_decoded
OpcIngest(p, ok) ==
    CASE snSetup.table = "unknown" -> SnFailed(FALSE)
      [] snSetup.table # "unknown" /\ ok -> [snStats EXCEPT !.rows = @ + 1]
      [] OTHER -> IF Uncounted(p) THEN snStats ELSE SnFailed(FALSE)

\* Ros2Consumer::ingest_decoded
ScalarIngest(p, ok) ==
    IF ok THEN [snStats EXCEPT !.rows = @ + 1] ELSE SnFailed(SnTarget(p) \in {"local", "peer"})

\* on_typed_row from the routing on: a typed row has one attempt at its pipeline.
TypedIngest(p, ok) ==
    IF ok THEN [snStats EXCEPT !.rows = @ + 1] ELSE SnFailed(SnTarget(p) # "nowhere")

SnIngest(t) ==
    /\ snAt[t] = "ingest"
    /\ LET p == Head(snTodo[t]) IN
       \E ok \in SnAttempts(p) :
         /\ snStats' = CASE SnOpc -> OpcIngest(p, ok)
                         [] snSetup.kind = "typed" -> TypedIngest(p, ok)
                         [] OTHER -> ScalarIngest(p, ok)
         /\ snBagStats' = IF t = "bag" /\ ok THEN [snBagStats EXCEPT !.rows = @ + 1] ELSE snBagStats
    /\ SnNextPart(t)
    /\ UNCHANGED <<snSetup, snDue, snAside, snStarted, snBag, snBagPos, snLink>>

\* read_history on a server that refuses: a failure that belongs to no value.
SnHistoryFails ==
    /\ SnOpc /\ snStarted < SnMaxMessages
    /\ snStarted' = snStarted + 1 /\ snAside' = snAside + 1
    /\ snStats' = [snStats EXCEPT !.failed = @ + 1]
    /\ UNCHANGED <<snSetup, snTodo, snAt, snDue, snBagVars, snLink>>

(***************************************************************************)
(* consume_bag: import_bag and replay_bag.                                 *)
(***************************************************************************)

SnBagEnd(how) ==
    /\ snBagStats' = [snBagStats EXCEPT !.end = how]
    /\ UNCHANGED <<snSetup, snParts, snBag, snBagPos, snLink>>

SnBagLoop == ~SnOpc /\ snBagStats.end = "open" /\ snAt["bag"] = "idle"

SnBagMore ==
    /\ snBagPos <= Len(snBag.msgs)
    /\ snBag.limit = 0 \/ snBagStats.read < snBag.limit

SnBagFinish == SnBagLoop /\ ~SnBagMore /\ SnBagEnd("completed")

\* The reader throws.
SnBagThrows == SnBagLoop /\ SnBagMore /\ SnBagEnd("error")

\* decode_rosbag_scalar_value: the value, or nothing when it does not deserialise.
SnBagScalar(m) == SelectSeq(<<Head(m.parts)>>, LAMBDA p : p.conv)

\* What a message of the file carries, nothing when its type differs from the
\* subscription's: a scalar, or what the decoders of the profiles make of it.
SnBagParts(m) ==
    CASE m.null \/ ~m.typed -> <<>>
      [] m.typed /\ snSetup.kind = "scalar" -> SnBagScalar(m)
      [] m.typed /\ snSetup.kind = "standard" -> SnScalars(m.parts)
      [] OTHER -> IF snSetup.wire = "bare" THEN <<>> ELSE SnTypedRows(m.parts)

\* A message of an unknown topic is skipped, or ends the import.
SnBagUnknown(read) ==
    /\ snBagStats' = IF snBag.fatal THEN [read EXCEPT !.end = "unknown topic"]
                                    ELSE [read EXCEPT !.skipped = @ + 1]
    /\ UNCHANGED <<snTodo, snAt, snStats, snDue>>

\* One message of the file: counted as read, then skipped, refused or dispatched.
SnBagRead ==
    /\ SnBagLoop /\ SnBagMore
    /\ LET m == snBag.msgs[snBagPos]
           read == [snBagStats EXCEPT !.read = @ + 1]
       IN CASE ~m.null /\ ~m.known -> SnBagUnknown(read)
            [] (m.null \/ m.known) /\ SnBagParts(m) = <<>> ->
                 snBagStats' = [read EXCEPT !.decode = @ + 1] /\ SnRefuse("bag")
            [] OTHER -> /\ snBagStats' = [read EXCEPT !.consumed = @ + 1]
                        /\ SnHandle("bag", SnBagParts(m), snSetup.kind = "typed")
    /\ snBagPos' = snBagPos + 1
    /\ UNCHANGED <<snSetup, snAside, snStarted, snBag, snLink>>

(***************************************************************************)
(* The OPC UA session: start(), run_iterate_loop() and stop().             *)
(***************************************************************************)

\* start() connects and subscribes, or leaves nothing behind.
SnStart ==
    /\ SnOpc /\ ~snRun /\ snLosses < SnMaxLosses
    /\ snRun' = TRUE /\ snPc' = "iterate" /\ snSession' = TRUE /\ snSub' = TRUE
    /\ snBackoff' = SnBase
    /\ UNCHANGED <<snSetup, snParts, snBagVars, snLosses>>

\* The server closes the connection: session and subscription are gone.
SnLose ==
    /\ SnOpc /\ snRun /\ snSession /\ snLosses < SnMaxLosses
    /\ snSession' = FALSE /\ snSub' = FALSE /\ snLosses' = snLosses + 1
    /\ UNCHANGED <<snSetup, snParts, snBagVars, snRun, snPc, snBackoff>>

\* run_iterate reports the loss; the loop sleeps before it tries again.
SnIterate ==
    /\ SnOpc /\ snRun /\ snPc = "iterate" /\ ~snSession /\ snAt[SnSpin] = "idle"
    /\ snPc' = "connect"
    /\ UNCHANGED <<snSetup, snParts, snBagVars, snRun, snSession, snSub, snBackoff, snLosses>>

\* Where the loop goes on after a refused connection.
AfterRefusal == "iterate"

SnConnect(ok) ==
    /\ snRun /\ snPc = "connect"
    /\ IF ok THEN /\ snSession' = TRUE /\ snBackoff' = SnBase /\ snPc' = "subscribe"
             ELSE /\ snBackoff' = Min({snBackoff * 2, SnBase * 16})
                  /\ snPc' = AfterRefusal /\ UNCHANGED snSession
    /\ UNCHANGED <<snSetup, snParts, snBagVars, snRun, snSub, snLosses>>

\* setup_subscription: a refusal leaves a session without a subscription.
SnSubscribe(ok) ==
    /\ snRun /\ snPc = "subscribe"
    /\ snSub' = (ok /\ snSession) /\ snPc' = "iterate"
    /\ UNCHANGED <<snSetup, snParts, snBagVars, snRun, snSession, snBackoff, snLosses>>

\* stop() joins the loop, which leaves at its next look at running_.
SnStop ==
    /\ SnOpc /\ snRun /\ snLosses < SnMaxLosses /\ snAt[SnSpin] = "idle"
    /\ snRun' = FALSE /\ snPc' = "iterate" /\ snSession' = FALSE /\ snSub' = FALSE
    /\ snLosses' = snLosses + 1
    /\ UNCHANGED <<snSetup, snParts, snBagVars, snBackoff>>

\* Ros2Consumer::start() creates the node, its subscriptions and the spin thread.
RosStart ==
    /\ ~SnOpc /\ ~snRun /\ snLosses < SnMaxLosses
    /\ snRun' = TRUE
    /\ UNCHANGED <<snSetup, snParts, snBagVars, snPc, snSession, snSub, snBackoff, snLosses>>

\* Ros2Consumer::stop() cancels the executor and joins the spin thread, which
\* ends the callback it is in.
RosStop ==
    /\ ~SnOpc /\ snRun /\ snAt[SnSpin] = "idle"
    /\ snRun' = FALSE /\ snLosses' = snLosses + 1
    /\ UNCHANGED <<snSetup, snParts, snBagVars, snPc, snSession, snSub, snBackoff>>

SnMessage(t, m) ==
    \/ OpcChange(t, m) \/ OpcStructured(t, m) \/ OpcHistory(t, m) \/ OpcAlarm(t, m)
    \/ ScalarMessage(t, m) \/ StandardMessage(t, m) \/ TypedMessage(t, m) \/ TypedRow(t, m)

SnNext ==
    \/ \E t \in SnThreads, m \in SnMessages : SnMessage(t, m)
    \/ \E t \in SnAll : SnPart(t) \/ SnIngest(t)
    \/ SnHistoryFails \/ SnBagRead \/ SnBagThrows \/ SnBagFinish
    \/ SnStart \/ SnLose \/ SnIterate \/ SnStop \/ RosStart \/ RosStop
    \/ \E ok \in BOOLEAN : SnConnect(ok) \/ SnSubscribe(ok)

\* The loop thread runs, and a server that is asked again and again answers.
SnFairness ==
    /\ WF_snVars(SnPart(SnSpin)) /\ WF_snVars(SnIngest(SnSpin))
    /\ WF_snVars(SnIterate) /\ WF_snVars(SnConnect(FALSE)) /\ WF_snVars(SnSubscribe(FALSE))
    /\ SF_snVars(SnConnect(TRUE)) /\ SF_snVars(SnSubscribe(TRUE))

(***************************************************************************)
(* What the consumers promise.                                             *)
(***************************************************************************)

SnFlying == {t \in SnAll : snAt[t] = "ingest"}

\* At every moment, whatever threads are in the middle of a message, stats() adds
\* up: each part begun, and each message refused whole, is one decode error, one
\* row or one failure, or is in flight; for OPC UA the values consumed exceed
\* those routed and failed by exactly the ticks in flight.  A notification that
\* brings no value owes nothing.  A consumer without pipeline and router is left
\* out: OPC UA drops its values uncounted.  A bag's messages are read exactly once
\* each, and its rows are rows of the consumer.
SensorStats ==
    /\ snSetup.wire # "bare" =>
         /\ snDue + snAside
              = snStats.decode + snStats.rows + snStats.failed + Cardinality(SnFlying)
         /\ SnOpc => snStats.consumed + snAside
                       = snStats.rows + snStats.failed + Cardinality(SnFlying)
    /\ snBagStats.read = snBagStats.skipped + snBagStats.decode + snBagStats.consumed
                           + (IF snBagStats.end = "unknown topic" THEN 1 ELSE 0)
    /\ snBagStats.end = "completed" => \/ snBagStats.read = Len(snBag.msgs)
                                       \/ snBagStats.read = snBag.limit
    /\ snBagStats.rows <= snStats.rows /\ snBackoff <= 16 * SnBase

\* A lost OPC UA session comes back while the consumer is running, however often
\* the server refuses the connection first.
SnConnected == SnOpc /\ snRun => snSession
SessionReturns == []<>SnConnected

\* "re-subscription failed; will retry" (run_iterate_loop): a consumer that runs
\* has its subscription again in the end.
SubscriptionReturns == []<>(SnOpc /\ snRun => snSub)
====
