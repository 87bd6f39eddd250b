---- MODULE EdgeFleet ----
(***************************************************************************)
(* The edge-to-fleet connector of the HTTP server.  An edge outbox table   *)
(* is copied, event by event, into the fleet's tables: the adapter loads   *)
(* the outbox rows that have no row in the fleet's ACK ledger              *)
(* (EdgeFleetSqlHttpAdapterState), the connector delivers a bounded batch  *)
(* in stream order and remembers and checkpoints what was acknowledged     *)
(* (EdgeFleetFeedConnector), and the runtime runs passes on a worker       *)
(* thread that administrative requests configure, start, stop and clear    *)
(* (EdgeFleetConnectorRuntime and the handlers of                          *)
(* /admin/edge-fleet-connector).  All of the runtime's state is under mu_, *)
(* which a pass holds while it delivers; a request takes it several times. *)
(*                                                                         *)
(* The payload of an event, the text of the statements and the counters    *)
(* are left out.  The statements run on other nodes over HTTP: one may     *)
(* fail, take effect and lose its answer, or take effect after its timeout. *)
(***************************************************************************)
EXTENDS Naturals, Sequences, FiniteSets, FiniteSetsExt, SequencesExt

CONSTANTS
    EfEvents,       \* the stream_seq of each event, in order of arrival in the outbox
    EfSetups,       \* configurations: [worker, ckpt, late, poison]: worker_enabled, checkpoint_path
                    \* set, allow_late_events, an event whose row does not decode (0: none); and
                    \* bounds: [requests, faults]
    EfBatch,        \* min(batch_limit, max_inflight)
    EfRetries,      \* max_retries_per_event
    EfBudget,       \* max_failures_per_pass
    EfPage,         \* outbox_query_limit
    EfMaxRows,      \* max_outbox_bytes, in rows
    EfAdmins, EfWorkers             \* handler threads; thread objects a worker may be

ASSUME EfConstants ==
    /\ \A i, j \in DOMAIN EfEvents : i # j => EfEvents[i] # EfEvents[j]
    /\ \A i \in DOMAIN EfEvents : EfEvents[i] \in Nat \ {0}
    /\ EfSetups \subseteq [worker : BOOLEAN, ckpt : BOOLEAN, late : BOOLEAN,
                           poison : {0} \cup DOMAIN EfEvents, requests : Nat, faults : Nat]
    /\ {EfBatch, EfRetries, EfBudget, EfPage, EfMaxRows} \subseteq Nat \ {0}
    /\ EfWorkers \subseteq Nat \ {0}

VARIABLES
    efSetup,
    efArrived,              \* events in the edge outbox
    efFinal, efLedger,      \* rows per event in the fleet's tables, and in its ACK ledger
    efSlow, efLateAcks,     \* per event, inserts given up that may still land; ACKs that have
    efSaved, efCkpt,        \* the persisted configuration; the checkpoint file
    efPath,                 \* edge_fleet_connector_config_path_ is set
    efUp, efConn, efEnabled, efStop, efHandle,  \* the runtime: connector_, enabled_,
                            \* worker_stop_requested_, worker_ (0: not joinable)
    efHooks, efRows,        \* the adapter is installed; its rows_by_id_
    efAcked,                \* acked_event_ids_
    efW,                    \* the worker threads
    efA,                    \* the requests in progress
    efOverlap, efAborted, efStuck,  \* history: two requests at once, std::terminate, a
                            \* request that failed half way
    efRequests, efFaults

efFleet == <<efFinal, efLedger, efSlow, efLateAcks>>
efDurable == <<efSaved, efCkpt>>
efRuntime == <<efConn, efEnabled, efStop, efHandle, efHooks>>
efHistory == <<efOverlap, efStuck>>
efVars == <<efSetup, efPath, efArrived, efFleet, efDurable, efUp, efRuntime, efRows, efAcked, efW, efA,
            efHistory, efAborted, efRequests, efFaults>>

EfIds == DOMAIN EfEvents
EfNoWorker == [pc |-> "none", mine |-> TRUE, loaded |-> {}, batch |-> <<>>, tries |-> 0,
               fails |-> 0, acks |-> FALSE]
EfIdle == [kind |-> "none", pc |-> "idle", next |-> "idle", fin |-> TRUE, took |-> 0]

EfInit ==
    /\ efSetup \in EfSetups
    /\ efArrived = 0
    /\ efFinal = [e \in EfIds |-> 0] /\ efLedger = [e \in EfIds |-> 0]
    /\ efSlow = [e \in EfIds |-> [final |-> 0, ack |-> 0]] /\ efLateAcks = [e \in EfIds |-> 0]
    /\ efPath = TRUE /\ efSaved = "none" /\ efCkpt = [has |-> FALSE, acked |-> {}]
    /\ efUp = TRUE /\ efConn = FALSE /\ efEnabled = FALSE /\ efStop = FALSE /\ efHandle = 0
    /\ efHooks = FALSE /\ efRows = {} /\ efAcked = {}
    /\ efW = [w \in EfWorkers |-> EfNoWorker] /\ efA = [a \in EfAdmins |-> EfIdle]
    /\ efOverlap = FALSE /\ efAborted = FALSE /\ efStuck = FALSE
    /\ efRequests = 0 /\ efFaults = 0

\* A new row in the edge outbox (external).
EfArrive ==
    /\ efArrived < Len(EfEvents) /\ efArrived' = efArrived + 1
    /\ UNCHANGED <<efSetup, efPath, efFleet, efDurable, efUp, efRuntime, efRows, efAcked, efW, efA,
                   efHistory, efAborted, efRequests, efFaults>>

\* A fault: one of efSetup.faults.
EfFault == efFaults < efSetup.faults /\ efFaults' = efFaults + 1

\* mu_ is free: only a pass in delivery holds it across steps.
EfFree == \A w \in EfWorkers : efW[w].pc # "deliver"

(***************************************************************************)
(* The adapter and the connector.                                          *)
(***************************************************************************)

BySeq(S) == SetToSortSeq(S, LAMBDA d, e : EfEvents[d] < EfEvents[e])
FirstOf(S, n) == LET s == BySeq(S) IN SubSeq(s, 1, Min({n, Len(s)}))

\* A bug: the ACK ledger is not consulted.
NeverLedgered(e) == FALSE

\* isFleetAcked: the ledger has a row with this stream_seq and feed_event_id.
FleetAcked(e) == efLedger[e] > 0

\* loadOutbox reads page after page from the start of the outbox, in stream order,
\* until EfPage events without an ACK are found: what it returns, and the rows it
\* has decoded to find them.
Unacked == FirstOf({e \in 1 .. efArrived : ~FleetAcked(e)}, EfPage)
Scanned == {e \in 1 .. efArrived : Len(Unacked) < EfPage \/ EfEvents[e] <= EfEvents[Last(Unacked)]}

\* rowToOutbox and toFeedEvent: a column that is not a number or an unknown kind of
\* event is an error, and fails the whole load.
RowsDecode == efSetup.poison \notin Scanned
LoadSucceeds == Cardinality(Scanned) <= EfMaxRows /\ RowsDecode

Highest(acked) == IF acked = {} THEN 0 ELSE Max({EfEvents[e] : e \in acked})

\* shouldDeliver on an event that is not a duplicate.
LateOk(e) == efSetup.late \/ EfEvents[e] > Highest(efAcked)

SetW(w, r) == efW' = [efW EXCEPT ![w] = r]

\* workerLoop: the look at the flags at the top of the loop.
EfTop(w) ==
    /\ efUp /\ EfFree /\ efW[w].pc = "top"
    /\ SetW(w, [EfNoWorker EXCEPT !.pc = IF efStop \/ ~efEnabled THEN "done" ELSE "pick"])
    /\ UNCHANGED <<efSetup, efPath, efArrived, efFleet, efDurable, efUp, efRuntime, efRows, efAcked, efA,
                   efHistory, efAborted, efRequests, efFaults>>

\* runOnce: the checks, and the loader it takes.
EfPick(w) ==
    /\ efUp /\ EfFree /\ efW[w].pc = "pick"
    /\ SetW(w, [EfNoWorker EXCEPT !.pc = IF efConn /\ efEnabled /\ efHooks THEN "load" ELSE "wait"])
    /\ UNCHANGED <<efSetup, efPath, efArrived, efFleet, efDurable, efUp, efRuntime, efRows, efAcked, efA,
                   efHistory, efAborted, efRequests, efFaults>>

\* loadOutbox, without mu_; the rows of an adapter replaced meanwhile are its own.
EfLoad(w) ==
    /\ efUp /\ efW[w].pc = "load"
    /\ \/ /\ LoadSucceeds
          /\ SetW(w, [efW[w] EXCEPT !.pc = "pass", !.loaded = ToSet(Unacked)])
          /\ efRows' = IF efW[w].mine THEN ToSet(Unacked) ELSE efRows
          /\ UNCHANGED efFaults
       \/ /\ ~LoadSucceeds
          /\ SetW(w, [efW[w] EXCEPT !.pc = "wait"]) /\ UNCHANGED <<efRows, efFaults>>
       \/ EfFault /\ SetW(w, [efW[w] EXCEPT !.pc = "wait"]) /\ UNCHANGED efRows
    /\ UNCHANGED <<efSetup, efPath, efArrived, efFleet, efDurable, efUp, efRuntime, efAcked, efA, efHistory,
                   efAborted, efRequests>>

\* The start of processOnce: the batch is the first EfBatch deliverable events.
EfPass(w) ==
    /\ efUp /\ EfFree /\ efW[w].pc = "pass"
    /\ IF efEnabled /\ efConn
         THEN SetW(w, [efW[w] EXCEPT !.pc = "deliver", !.loaded = {},
                  !.batch = FirstOf({e \in efW[w].loaded : e \notin efAcked /\ LateOk(e)}, EfBatch)])
         ELSE SetW(w, [efW[w] EXCEPT !.pc = "wait", !.loaded = {}])
    /\ UNCHANGED <<efSetup, efPath, efArrived, efFleet, efDurable, efUp, efRuntime, efRows, efAcked, efA,
                   efHistory, efAborted, efRequests, efFaults>>

\* The three inserts of a delivery, each of which may fail without effect, with it, or
\* before it: a row that records the attempt, the row of the event itself, in the
\* table of its kind, and the ACK.  Only the last two are ever read again.
EfSink(res, final, ack, slow) ==
    [res |-> res, final |-> final, ack |-> ack, slow |-> slow,
     fault |-> IF res \in {"transient", "ack failed"} THEN 1 ELSE 0]
InboxInsertFails == {EfSink("transient", 0, 0, "none")}
ApplyEventFails ==
    {EfSink("transient", n, 0, "none") : n \in 0 .. 1} \cup {EfSink("transient", 0, 0, "final")}
AckInsertFails ==
    {EfSink("ack failed", 1, n, "none") : n \in 0 .. 1} \cup {EfSink("ack failed", 1, 0, "ack")}

\* sink(event), one attempt: the result it returns, the rows it adds to the fleet's
\* tables and to the ledger, and the insert it leaves on its way.  The ledger is read
\* first, and may not answer.
SinkOutcomes(e) ==
    IF e \notin efRows THEN {EfSink("permanent", 0, 0, "none")}
    ELSE {EfSink("transient", 0, 0, "none")} \cup
         IF FleetAcked(e) THEN {EfSink("acked", 0, 0, "none")}
         ELSE {EfSink("acked", 1, 1, "none")} \cup InboxInsertFails \cup ApplyEventFails \cup AckInsertFails

\* The rows an attempt leaves behind.
SinkEffect(e, o) ==
    /\ efFinal' = [efFinal EXCEPT ![e] = @ + o.final]
    /\ efLedger' = [efLedger EXCEPT ![e] = @ + o.ack]
    /\ efSlow' = [efSlow EXCEPT ![e] = [k \in DOMAIN @ |-> @[k] + IF o.slow = k THEN 1 ELSE 0]]
    /\ UNCHANGED efLateAcks

\* An insert whose timeout was reported is executed after all (external).
EfLands(e, k) ==
    /\ efSlow[e][k] > 0 /\ efSlow' = [efSlow EXCEPT ![e][k] = @ - 1]
    /\ IF k = "final" THEN efFinal' = [efFinal EXCEPT ![e] = @ + 1] /\ UNCHANGED <<efLedger, efLateAcks>>
       ELSE /\ efLedger' = [efLedger EXCEPT ![e] = @ + 1]
            /\ efLateAcks' = [efLateAcks EXCEPT ![e] = @ + 1] /\ UNCHANGED efFinal
    /\ UNCHANGED <<efSetup, efPath, efArrived, efDurable, efUp, efRuntime, efRows, efAcked, efW, efA,
                   efHistory, efAborted, efRequests, efFaults>>

\* The batch loop of processOnce after an attempt with result res: a transient
\* failure is tried again, the other failures are not, and the failure budget of the
\* pass ends it.
AfterAttempt(r, res) ==
    LET failed == r.fails + 1
    IN  IF res = "acked" THEN [r EXCEPT !.batch = Tail(@), !.tries = 0, !.acks = TRUE]
        ELSE IF failed >= EfBudget THEN [r EXCEPT !.batch = <<>>, !.fails = failed]
        ELSE IF res = "transient" /\ r.tries + 1 < EfRetries
          THEN [r EXCEPT !.fails = failed, !.tries = @ + 1]
        ELSE [r EXCEPT !.fails = failed, !.tries = 0, !.batch = Tail(@)]

EfDeliver(w) ==
    /\ efUp /\ efW[w].pc = "deliver" /\ efW[w].batch # <<>>
    /\ LET e == Head(efW[w].batch) IN
       \E o \in SinkOutcomes(e) :
         /\ efFaults + o.fault <= efSetup.faults /\ efFaults' = efFaults + o.fault
         /\ SinkEffect(e, o)
         /\ efAcked' = IF o.res = "acked" THEN efAcked \cup {e} ELSE efAcked
         /\ SetW(w, AfterAttempt(efW[w], o.res))
    /\ UNCHANGED <<efSetup, efPath, efArrived, efDurable, efUp, efRuntime, efRows, efA, efHistory, efAborted,
                   efRequests>>

\* saveCheckpoint: a temporary file renamed over the old one; it may fail.
SaveCheckpoint(ok) ==
    IF ~efSetup.ckpt THEN ok /\ UNCHANGED <<efCkpt, efFaults>>
    ELSE IF ok THEN efCkpt' = [has |-> TRUE, acked |-> efAcked] /\ UNCHANGED efFaults
    ELSE EfFault /\ UNCHANGED efCkpt

\* The end of processOnce, which checkpoints when it acknowledged something and
\* ignores a failure to; then the pass observer, whose failure changes nothing else.
EfPassEnd(w) ==
    /\ efUp /\ efW[w].pc = "deliver" /\ efW[w].batch = <<>>
    /\ IF efW[w].acks THEN \E ok \in BOOLEAN : SaveCheckpoint(ok) ELSE UNCHANGED <<efCkpt, efFaults>>
    /\ SetW(w, [EfNoWorker EXCEPT !.pc = "wait"])
    /\ UNCHANGED <<efSetup, efPath, efArrived, efFleet, efSaved, efUp, efRuntime, efRows, efAcked, efA,
                   efHistory, efAborted, efRequests>>

\* worker_cv_.wait_for returns: at the poll interval, or when it is told to stop.
EfWait(w) ==
    /\ efUp /\ EfFree /\ efW[w].pc = "wait"
    /\ SetW(w, [EfNoWorker EXCEPT !.pc = IF efStop \/ ~efEnabled THEN "done" ELSE "top"])
    /\ UNCHANGED <<efSetup, efPath, efArrived, efFleet, efDurable, efUp, efRuntime, efRows, efAcked, efA,
                   efHistory, efAborted, efRequests, efFaults>>

(***************************************************************************)
(* The requests.  "post" and "off" are POST with the SQL adapter, enabled  *)
(* or not; "delete" is DELETE.  Each takes mu_ several times.              *)
(***************************************************************************)

SetA(a, r) == efA' = [efA EXCEPT ![a] = r]
GoA(a, pc) == SetA(a, [efA[a] EXCEPT !.pc = pc])
efOutside == <<efSetup, efPath, efArrived, efFleet, efUp, efAborted, efRequests>>

EfRequest(a, kind) ==
    /\ efUp /\ efA[a] = EfIdle /\ efRequests < efSetup.requests
    /\ efRequests' = efRequests + 1
    /\ efOverlap' = (efOverlap \/ \E b \in EfAdmins \ {a} : efA[b] # EfIdle)
    /\ SetA(a, [EfIdle EXCEPT !.kind = kind, !.pc = "snapshot"])
    /\ UNCHANGED <<efSetup, efPath, efArrived, efFleet, efDurable, efUp, efRuntime, efRows, efAcked, efW,
                   efAborted, efStuck, efFaults>>

\* The look at snapshot().enabled before stop(), in configure() and in the DELETE
\* handler, and the one in clear(), which stops the worker in either case.
EfSnapshot(a) ==
    LET r == efA[a]
        first == r.pc = "snapshot"
        after == IF first THEN IF r.kind = "delete" THEN "clear" ELSE "configure" ELSE "reset"
    IN
    /\ efUp /\ EfFree /\ r.pc \in {"snapshot", "clear"}
    /\ IF first /\ ~efEnabled THEN GoA(a, after)
       ELSE SetA(a, [r EXCEPT !.pc = "flag", !.next = after, !.fin = efEnabled])
    /\ UNCHANGED <<efOutside, efDurable, efRuntime, efRows, efAcked, efW, efHistory, efFaults>>

\* stopWorkerThread: the flag is raised and the thread object taken, then joined.
EfFlag(a) ==
    /\ efUp /\ EfFree /\ efA[a].pc = "flag"
    /\ efStop' = TRUE /\ efHandle' = 0
    /\ SetA(a, [efA[a] EXCEPT !.pc = "join", !.took = efHandle])
    /\ UNCHANGED <<efOutside, efDurable, efConn, efEnabled, efHooks, efRows, efAcked, efW, efHistory,
                   efFaults>>

EfJoin(a) ==
    LET r == efA[a] IN
    /\ efUp /\ r.pc = "join" /\ (r.took # 0 => efW[r.took].pc = "done")
    /\ efW' = [w \in EfWorkers |-> IF w = r.took THEN EfNoWorker ELSE efW[w]]
    /\ SetA(a, [r EXCEPT !.pc = IF r.fin THEN "stop" ELSE r.next, !.took = 0])
    /\ UNCHANGED <<efOutside, efDurable, efRuntime, efRows, efAcked, efHistory, efFaults>>

\* The rest of stop(): an enabled connector saves its checkpoint, and stays enabled
\* when it cannot.  The DELETE handler ignores a failure inside clear().
EfStopped(a) ==
    LET r == efA[a]
        fails == SetA(a, IF r.next = "reset" THEN [r EXCEPT !.pc = "unlink"] ELSE EfIdle)
    IN
    /\ efUp /\ EfFree /\ r.pc = "stop"
    /\ \/ /\ ~efConn /\ fails /\ efStuck' = TRUE
          /\ UNCHANGED <<efEnabled, efCkpt, efFaults>>
       \/ /\ efConn /\ efEnabled
          /\ \E ok \in BOOLEAN :
               /\ SaveCheckpoint(ok)
               /\ IF ok THEN efEnabled' = FALSE /\ GoA(a, r.next) /\ UNCHANGED efStuck
                        ELSE fails /\ efStuck' = TRUE /\ UNCHANGED efEnabled
       \/ /\ efConn /\ ~efEnabled /\ GoA(a, r.next)
          /\ UNCHANGED <<efEnabled, efCkpt, efFaults, efStuck>>
    /\ UNCHANGED <<efOutside, efSaved, efConn, efStop, efHandle, efHooks, efRows, efAcked, efW,
                   efOverlap>>

\* The rest of configure(): a new connector, with nothing acknowledged.
EfConfigure(a) ==
    /\ efUp /\ EfFree /\ efA[a].pc = "configure"
    /\ efConn' = TRUE /\ efEnabled' = FALSE /\ efAcked' = {}
    /\ GoA(a, "hooks")
    /\ UNCHANGED <<efOutside, efDurable, efStop, efHandle, efHooks, efRows, efW, efHistory, efFaults>>

\* ensureEdgeFleetSqlHttpTables: seven CREATE TABLE IF NOT EXISTS, any of which may
\* fail and end the request.
EnsureTablesFails(a) ==
    /\ efUp /\ efA[a].pc = "hooks" /\ EfFault
    /\ SetA(a, EfIdle) /\ efStuck' = TRUE
    /\ UNCHANGED <<efOutside, efDurable, efRuntime, efRows, efAcked, efW, efOverlap>>

\* set_edge_fleet_connector_sql_http_adapter: refused while enabled.
EfSetHooks(a) ==
    /\ efUp /\ EfFree /\ efA[a].pc = "hooks"
    /\ IF efEnabled
         THEN /\ SetA(a, EfIdle) /\ efStuck' = TRUE
              /\ UNCHANGED <<efHooks, efRows, efAcked, efW>>
         ELSE /\ efHooks' = TRUE /\ efRows' = {}
              /\ efAcked' = IF efConn THEN {} ELSE efAcked
              /\ efW' = [w \in EfWorkers |-> [efW[w] EXCEPT !.mine = efW[w].pc # "load"]]
              /\ GoA(a, IF efA[a].kind = "post" THEN "check" ELSE "save")
              /\ UNCHANGED efStuck
    /\ UNCHANGED <<efOutside, efDurable, efConn, efEnabled, efStop, efHandle, efOverlap, efFaults>>

\* config_.worker_enabled, which clear() resets.
WorkerEnabled == efConn /\ efSetup.worker

\* start(): the checks; the checkpoint, when its file exists; the switch.
EfStartCheck(a) ==
    /\ efUp /\ EfFree /\ efA[a].pc = "check"
    /\ IF efConn /\ (WorkerEnabled => efHooks) THEN GoA(a, "load") /\ UNCHANGED efStuck
                                                  ELSE SetA(a, EfIdle) /\ efStuck' = TRUE
    /\ UNCHANGED <<efOutside, efDurable, efRuntime, efRows, efAcked, efW, efOverlap, efFaults>>

EfStartLoad(a) ==
    /\ efUp /\ EfFree /\ efA[a].pc = "load"
    /\ \/ /\ efAcked' = IF efSetup.ckpt /\ efCkpt.has /\ efConn THEN efCkpt.acked ELSE efAcked
          /\ GoA(a, "switch") /\ UNCHANGED <<efStuck, efFaults>>
       \/ /\ efSetup.ckpt /\ efCkpt.has /\ EfFault
          /\ SetA(a, EfIdle) /\ efStuck' = TRUE /\ UNCHANGED efAcked
    /\ UNCHANGED <<efOutside, efDurable, efRuntime, efRows, efW, efOverlap>>

\* Assigning a thread to a worker_ that is still joinable is std::terminate.
EfSwitch(a) ==
    /\ efUp /\ EfFree /\ efA[a].pc = "switch"
    /\ efEnabled' = TRUE /\ efStop' = FALSE
    /\ IF ~WorkerEnabled THEN GoA(a, "save") /\ UNCHANGED <<efW, efHandle, efAborted, efUp>>
       ELSE IF efHandle # 0
         THEN /\ efAborted' = TRUE /\ efUp' = FALSE
              /\ efA' = [b \in EfAdmins |-> EfIdle] /\ UNCHANGED <<efW, efHandle>>
         ELSE \E w \in EfWorkers :
              /\ efW[w] = EfNoWorker /\ \A v \in EfWorkers : v < w => efW[v] # EfNoWorker
              /\ SetW(w, [EfNoWorker EXCEPT !.pc = "top"]) /\ efHandle' = w
              /\ GoA(a, "save") /\ UNCHANGED <<efAborted, efUp>>
    /\ UNCHANGED <<efSetup, efPath, efArrived, efFleet, efDurable, efConn, efHooks, efRows, efAcked, efHistory,
                   efRequests, efFaults>>

\* persist_edge_fleet_connector_config_, after the connector has started.
EfSave(a) ==
    /\ efUp /\ efA[a].pc = "save"
    /\ SetA(a, EfIdle)
    /\ \/ /\ efSaved' = (IF ~efPath THEN efSaved ELSE IF efA[a].kind = "post" THEN "on" ELSE "off")
          /\ UNCHANGED <<efStuck, efFaults>>
       \/ efPath /\ EfFault /\ efStuck' = TRUE /\ UNCHANGED efSaved
    /\ UNCHANGED <<efOutside, efCkpt, efRuntime, efRows, efAcked, efW, efOverlap>>

\* The rest of clear(); the hooks stay.
EfReset(a) ==
    /\ efUp /\ EfFree /\ efA[a].pc = "reset"
    /\ efConn' = FALSE /\ efEnabled' = FALSE /\ efStop' = FALSE /\ efAcked' = {}
    /\ GoA(a, "unlink")
    /\ UNCHANGED <<efOutside, efDurable, efHandle, efHooks, efRows, efW, efHistory, efFaults>>

EfUnlink(a) ==
    /\ efUp /\ efA[a].pc = "unlink"
    /\ SetA(a, EfIdle)
    /\ \/ efSaved' = (IF efPath THEN "none" ELSE efSaved) /\ UNCHANGED <<efStuck, efFaults>>
       \/ efPath /\ EfFault /\ efStuck' = TRUE /\ UNCHANGED efSaved
    /\ UNCHANGED <<efOutside, efCkpt, efRuntime, efRows, efAcked, efW, efOverlap>>

EfAdmin(a) ==
    \/ EfSnapshot(a) \/ EfFlag(a) \/ EfJoin(a) \/ EfStopped(a) \/ EfConfigure(a)
    \/ EnsureTablesFails(a) \/ EfSetHooks(a)
    \/ EfStartCheck(a) \/ EfStartLoad(a) \/ EfSwitch(a) \/ EfSave(a) \/ EfReset(a) \/ EfUnlink(a)

EfWork(w) == EfTop(w) \/ EfPick(w) \/ EfLoad(w) \/ EfPass(w) \/ EfDeliver(w) \/ EfPassEnd(w) \/ EfWait(w)

(***************************************************************************)
(* Crash and restart.                                                      *)
(***************************************************************************)

\* The process dies, maybe inside a delivery, after some of its inserts.
EfCrash ==
    /\ efUp /\ EfFault
    /\ \/ UNCHANGED efFleet
       \/ \E w \in EfWorkers :
            /\ efW[w].pc = "deliver" /\ efW[w].batch # <<>>
            /\ LET e == Head(efW[w].batch) IN \E o \in SinkOutcomes(e) : o.final > 0 /\ SinkEffect(e, o)
    /\ efUp' = FALSE /\ efA' = [a \in EfAdmins |-> EfIdle]
    /\ efStuck' = (efStuck \/ \E a \in EfAdmins : efA[a] # EfIdle)
    /\ UNCHANGED <<efSetup, efPath, efArrived, efDurable, efRuntime, efRows, efAcked, efW, efOverlap,
                   efAborted, efRequests>>

\* What fails when a persisted configuration is loaded: reading it, its tables, or
\* the checkpoint that start() reads.
RestartFailures ==
    IF efSaved = "none" THEN {}
    ELSE {"file", "tables"} \cup IF efSaved = "on" /\ efSetup.ckpt /\ efCkpt.has THEN {"start"} ELSE {}

\* set_edge_fleet_connector_config_persistence: configure, install and, if it was
\* enabled, start what the file says; after a failure the rest is left undone and the
\* path is not set.  It runs before requests are served.
EfRestart ==
    \E failed \in {"none"} \cup RestartFailures :
    LET on == efSaved = "on" /\ failed = "none"
        first == CHOOSE w \in EfWorkers : \A v \in EfWorkers : w <= v
        runs == on /\ efSetup.worker
    IN
    /\ ~efUp /\ efUp' = TRUE
    /\ IF failed = "none" THEN UNCHANGED efFaults ELSE EfFault
    /\ efPath' = (failed = "none")
    /\ efConn' = (efSaved # "none" /\ failed # "file")
    /\ efHooks' = (efSaved # "none" /\ failed \notin {"file", "tables"})
    /\ efEnabled' = on /\ efStop' = FALSE /\ efHandle' = (IF runs THEN first ELSE 0)
    /\ efW' = [w \in EfWorkers |-> [EfNoWorker EXCEPT !.pc = IF runs /\ w = first THEN "top" ELSE "none"]]
    /\ efAcked' = (IF on /\ efSetup.ckpt THEN efCkpt.acked ELSE {}) /\ efRows' = {}
    /\ UNCHANGED <<efSetup, efArrived, efFleet, efDurable, efA, efHistory, efAborted, efRequests>>

EfNext ==
    \/ EfArrive \/ \E e \in EfIds, k \in {"final", "ack"} : EfLands(e, k)
    \/ \E w \in EfWorkers : EfWork(w)
    \/ \E a \in EfAdmins, k \in {"post", "off", "delete"} : EfRequest(a, k)
    \/ \E a \in EfAdmins : EfAdmin(a)
    \/ EfCrash \/ EfRestart

\* Threads that can run do, a thread that waits for mu_ while others take and leave
\* it gets it in the end, and a server that is down is started again.
EfFairness ==
    /\ \A w \in EfWorkers : SF_efVars(EfWork(w))
    /\ \A a \in EfAdmins : SF_efVars(EfAdmin(a))
    /\ WF_efVars(EfRestart)

(***************************************************************************)
(* What the connector promises.                                            *)
(***************************************************************************)

EfLive == {w \in EfWorkers : efW[w].pc \notin {"none", "done"}}
EfQuiet == efUp /\ \A a \in EfAdmins : efA[a] = EfIdle

\* Whatever fails, is retried, crashes or overlaps: an event has as many rows too many
\* in the ACK ledger as ACKs of it were executed after their timeout, and no other; an
\* event the connector or its checkpoint calls acknowledged is in the ledger; an event
\* in the ledger is in the fleet's tables, twice only after a fault.  When requests do
\* not overlap, no thread object is overwritten, at most one worker runs, and between
\* requests, unless one failed half way, a worker runs exactly while the connector is
\* enabled with worker_enabled, and the configuration a restart would load says enabled
\* too if configurations are persisted.
EdgeLedger ==
    /\ \A e \in EfIds : /\ efLedger[e] <= 1 + efLateAcks[e] /\ efLedger[e] <= efFinal[e]
                        /\ efFinal[e] <= 1 + efFaults
    /\ \A e \in efAcked \cup efCkpt.acked : efLedger[e] > 0
    /\ ~efOverlap =>
         /\ ~efAborted /\ Cardinality(EfLive) <= 1
         /\ EfQuiet /\ ~efStuck => /\ EfLive # {} <=> efEnabled /\ efSetup.worker
                                   /\ efPath => (efEnabled <=> efSaved = "on")

EfSteady == efUp /\ efEnabled /\ efConn /\ efHooks /\ EfLive # {}

\* The event's row, and every row read with it, decodes.
EfReadable(e) == efSetup.poison # 0 => EfPage = 1 /\ EfEvents[e] < EfEvents[efSetup.poison]

\* While the connector stays enabled with a worker, allows late events and the outbox
\* is within max_outbox_bytes, every event of the outbox in front of a row that does
\* not decode is acknowledged in the end, whatever failed before it; and a request
\* returns unless another overlapped it.
EfDrained ==
    Len(EfEvents) <= EfMaxRows /\ efSetup.late /\ EfSteady
      => \A e \in 1..efArrived : EfReadable(e) => efLedger[e] > 0
EfReturned(a) == efA[a] = EfIdle \/ efOverlap
EdgeDrains == []<>EfDrained /\ \A a \in EfAdmins : []<>EfReturned(a)

\* "pages past already-ACKed rows to keep bounded loads moving after restarts"
\* (docs/api/HTTP_REFERENCE.md): the events of the outbox are acknowledged in the end
\* also when its acknowledged rows outgrow max_outbox_bytes.
EdgeKeepsMoving ==
    []<>(efSetup.late /\ efSetup.poison = 0 /\ EfSteady => \A e \in 1..efArrived : efLedger[e] > 0)
====
