---- MODULE RpcTransport ----
(***************************************************************************)
(* TcpRpcServer and TcpRpcClient: the request/response transport between   *)
(* nodes.  A server hands each accepted connection to a worker of a fixed  *)
(* pool, which serves it until it is idle for a second, broken, or the     *)
(* server stops; a client keeps idle connections in a pool and runs one    *)
(* request at a time over each.                                            *)
(*                                                                         *)
(* One server and one client, whose threads share its pool.  TCP is        *)
(* external: a connection delivers in order what was sent before either    *)
(* end closed it.  A request is its kind and, for a write, the fencing     *)
(* epoch of the client; "sql" stands for every request with a per-query    *)
(* read timeout (execute_sql, request_binary), "tick" for ingest_tick and  *)
(* ingest_typed_row, "wal" for replicate_wal of a batch of RpBatch ticks,  *)
(* "ping" for ping, request_stats and request_metrics.  Payload size       *)
(* limits and the encoding of results are left out.  The request methods   *)
(* of TcpRpcClient are one exchange written once per message type:         *)
(* acquire, send, read, release.                                           *)
(***************************************************************************)
EXTENDS Naturals, FiniteSets, Sequences, SequencesExt

CONSTANTS
    RpCallers,      \* threads of the client process
    RpConns,        \* connections that can exist at once
    RpWorkers,      \* threads of the server's pool
    RpMaxConns,     \* max_connections_
    RpPoolMax,      \* max_pool_size_
    RpKinds,        \* caller -> the kinds of requests it makes
    RpBatch,        \* ticks of a replicate_wal batch
    RpSecrets,      \* "off", "match" or "differ": the two ends' shared secrets
    RpMaxOps,       \* bound: calls
    RpLosses        \* bound: the server's host may be lost without closing a connection

ASSUME RpConstants ==
    /\ RpKinds \in [RpCallers -> SUBSET {"sql", "tick", "wal", "ping"}]
    /\ RpSecrets \subseteq {"off", "match", "differ"}
    /\ {RpMaxConns, RpPoolMax, RpBatch, RpMaxOps, RpLosses} \subseteq Nat

VARIABLES
    rpSecret,       \* how the security configurations of the two ends relate
    rpConn,         \* connection -> its two ends and what is in transit
    rpPool,         \* pool_ of the client
    rpEpoch,        \* epoch_ of the client
    rpCall,         \* caller -> the call it is in
    rpRunning,      \* running_
    rpStop,         \* how far stop() is
    rpQueue,        \* conn_queue_
    rpActive,       \* active_conns_
    rpWorker,       \* worker -> what it does
    rpSeen,         \* last_seen_ of the fencing token
    rpApplied,      \* request -> ticks of it a callback applied, until its call returns
    rpLost,         \* the server's host is gone
    rpOps

rpClient == <<rpPool, rpEpoch, rpCall>>
rpServer == <<rpRunning, rpStop, rpQueue, rpActive, rpWorker, rpSeen, rpApplied>>
rpVars == <<rpSecret, rpConn, rpClient, rpServer, rpLost, rpOps>>

RpClosed == [cl |-> "closed", sv |-> "closed", in |-> <<>>, out |-> <<>>, timed |-> FALSE]
RpNoCall == [pc |-> "idle", id |-> 0, kind |-> "none", epoch |-> 0, conn |-> 0, ok |-> FALSE, reply |-> 0]
RpFree == [pc |-> "free", conn |-> 0, req |-> [id |-> 0, kind |-> "none", epoch |-> 0], ok |-> FALSE]

RpInit ==
    /\ rpSecret \in RpSecrets
    /\ rpConn = [c \in RpConns |-> RpClosed]
    /\ rpPool = <<>> /\ rpEpoch = 1 /\ rpCall = [t \in RpCallers |-> RpNoCall]
    /\ rpRunning = TRUE /\ rpStop = "no" /\ rpQueue = <<>> /\ rpActive = 0
    /\ rpWorker = [w \in RpWorkers |-> RpFree]
    /\ rpSeen = 0 /\ rpApplied = [i \in 1..RpMaxOps |-> 0]
    /\ rpLost = FALSE /\ rpOps = 0

\* A connection both ends have closed is forgotten.
RpWith(c, r) == [rpConn EXCEPT ![c] = IF r.cl = "closed" /\ r.sv = "closed" THEN RpClosed ELSE r]

(***************************************************************************)
(* The client.                                                             *)
(***************************************************************************)

\* A request method of TcpRpcClient is called; a write carries the client's epoch.
RpBegin(t, k) ==
    /\ k \in RpKinds[t]
    /\ rpCall[t].pc = "idle" /\ rpOps < RpMaxOps /\ rpOps' = rpOps + 1
    /\ rpCall' = [rpCall EXCEPT ![t] = [RpNoCall EXCEPT !.pc = "acquire", !.id = rpOps + 1, !.kind = k,
                                          !.epoch = IF k \in {"tick", "wal"} THEN rpEpoch ELSE 0]]
    /\ UNCHANGED <<rpSecret, rpConn, rpPool, rpEpoch, rpServer, rpLost>>

RpExecuteSql(t) == RpBegin(t, "sql")
RpIngestTick(t) == RpBegin(t, "tick")
RpReplicateWal(t) == RpBegin(t, "wal")
RpPing(t) == RpBegin(t, "ping")

\* set_epoch.
RpSetEpoch ==
    /\ rpEpoch = 1 /\ rpEpoch' = 2
    /\ UNCHANGED <<rpSecret, rpConn, rpPool, rpCall, rpServer, rpLost, rpOps>>

RpAfter(t, pc, c) == rpCall' = [rpCall EXCEPT ![t].pc = pc, ![t].conn = c]

\* acquire() with an idle connection: a probe of the socket tells a closed one, which is
\* dropped, from one that can be used.
RpReuse(t) ==
    LET c == Last(rpPool)
        r == rpConn[c]
    IN /\ rpCall[t].pc = "acquire" /\ rpPool # <<>> /\ rpPool' = Front(rpPool)
       /\ IF r.sv = "closed" /\ r.out = <<>>
          THEN rpConn' = RpWith(c, [r EXCEPT !.cl = "closed"]) /\ UNCHANGED rpCall
          ELSE RpAfter(t, "send", c) /\ UNCHANGED rpConn
       /\ UNCHANGED <<rpSecret, rpEpoch, rpServer, rpLost, rpOps>>

\* The name of a new connection: the first that no connection has.
RpUnused == CHOOSE c \in RpConns : rpConn[c] = RpClosed /\ \A d \in RpConns : rpConn[d] = RpClosed => c <= d

\* acquire() with an empty pool: connect_to_server, which fails when nobody listens or the
\* connect times out.
RpConnect(t) ==
    /\ rpCall[t].pc = "acquire" /\ rpPool = <<>>
    /\ \/ /\ rpRunning /\ ~rpLost /\ \E c \in RpConns : rpConn[c] = RpClosed
          /\ rpConn' = [rpConn EXCEPT ![RpUnused] = [RpClosed EXCEPT !.cl = "open", !.sv = "backlog"]]
          /\ RpAfter(t, IF rpSecret = "off" THEN "send" ELSE "auth", RpUnused)
       \/ /\ ~rpRunning \/ rpLost
          /\ RpAfter(t, "done", 0) /\ UNCHANGED rpConn
    /\ UNCHANGED <<rpSecret, rpPool, rpEpoch, rpServer, rpLost, rpOps>>

\* release(fd, healthy).
Release(c, r, healthy) ==
    IF healthy /\ Len(rpPool) < RpPoolMax
    THEN rpPool' = Append(rpPool, c) /\ rpConn' = [rpConn EXCEPT ![c] = r]
    ELSE rpPool' = rpPool /\ rpConn' = RpWith(c, [r EXCEPT !.cl = "closed"])

RpGone(r) == r.sv = "closed" /\ r.out = <<>>

\* The mutual challenge, as one exchange with the worker that serves the connection: both ends
\* go on when their proofs agree, both close when they do not.  The client's reads are bounded.
RpHandshake(t, w) ==
    LET c == rpCall[t].conn
    IN /\ rpCall[t].pc = "auth" /\ rpWorker[w].pc = "auth" /\ rpWorker[w].conn = c /\ ~rpLost
       /\ IF rpSecret = "match"
          THEN /\ RpAfter(t, "send", c)
               /\ rpConn' = [rpConn EXCEPT ![c].timed = TRUE]
               /\ rpWorker' = [rpWorker EXCEPT ![w].pc = "loop"]
          ELSE /\ RpAfter(t, "done", 0)
               /\ rpConn' = [rpConn EXCEPT ![c].cl = "closed"]
               /\ rpWorker' = [rpWorker EXCEPT ![w].pc = "close"]
       /\ UNCHANGED <<rpSecret, rpPool, rpEpoch, rpRunning, rpStop, rpQueue, rpActive, rpSeen, rpApplied,
                      rpLost, rpOps>>

\* The handshake fails at the client: its reads time out, or the server closed.
RpAuthFails(t) ==
    /\ rpCall[t].pc = "auth" /\ RpAfter(t, "done", 0)
    /\ Release(rpCall[t].conn, rpConn[rpCall[t].conn], FALSE)
    /\ UNCHANGED <<rpSecret, rpEpoch, rpServer, rpLost, rpOps>>

\* The request is sent.  Over a connection the server closed the send may fail, or succeed and
\* reach nobody.
RpSend(t) ==
    LET k == rpCall[t]
        r == rpConn[k.conn]
        req == [id |-> k.id, kind |-> k.kind, epoch |-> k.epoch]
        timed == [r EXCEPT !.timed = @ \/ k.kind = "sql"]
    IN /\ k.pc = "send"
       /\ \/ /\ rpConn' = [rpConn EXCEPT ![k.conn] =
                             IF r.sv = "closed" THEN timed ELSE [timed EXCEPT !.in = Append(@, req)]]
             /\ RpAfter(t, "wait", k.conn) /\ UNCHANGED rpPool
          \/ r.sv = "closed" /\ RpAfter(t, "done", 0) /\ Release(k.conn, timed, FALSE)
       /\ UNCHANGED <<rpSecret, rpEpoch, rpServer, rpLost, rpOps>>

\* A reply arrives.  Its type must be the one the request asks for; its request_id is not
\* compared.
RpReceive(t) ==
    LET k == rpCall[t]
        r == rpConn[k.conn]
        reply == Head(r.out)
    IN /\ k.pc = "wait" /\ r.out # <<>>
       /\ Release(k.conn, [r EXCEPT !.out = Tail(@)], reply.kind = k.kind)
       /\ rpCall' = [rpCall EXCEPT ![t].pc = "done", ![t].conn = 0,
                       ![t].reply = IF reply.kind = k.kind THEN reply.id ELSE 0,
                       ![t].ok = reply.kind = k.kind /\ reply.ok]
       /\ UNCHANGED <<rpSecret, rpEpoch, rpServer, rpLost, rpOps>>

\* What release is told when a read failed or timed out.
\* A bug: a connection whose reply is still to come goes back to the pool.
HealthyAfterTimeout(t) == TRUE
Healthy(t) == FALSE

\* The read fails: the server closed the connection, or the read timeout set by execute_sql,
\* request_binary or the handshake on this socket expired.  ingest_tick, replicate_wal and
\* ping set none.
RpReadFails(t) ==
    LET k == rpCall[t]
        r == rpConn[k.conn]
    IN /\ k.pc = "wait" /\ r.out = <<>>
       /\ RpGone(r) \/ r.timed
       /\ Release(k.conn, r, Healthy(t)) /\ RpAfter(t, "done", 0)
       /\ UNCHANGED <<rpSecret, rpEpoch, rpServer, rpLost, rpOps>>

\* The call returns to its caller.
RpReturn(t) ==
    /\ rpCall[t].pc = "done" /\ rpCall' = [rpCall EXCEPT ![t] = RpNoCall]
    /\ rpApplied' = [rpApplied EXCEPT ![rpCall[t].id] = 0]
    /\ UNCHANGED <<rpSecret, rpConn, rpPool, rpEpoch, rpRunning, rpStop, rpQueue, rpActive, rpWorker, rpSeen,
                   rpLost, rpOps>>

(***************************************************************************)
(* The server.                                                             *)
(***************************************************************************)

\* accept_loop: the connection is queued for a worker, or closed when there are too many.
RpAccept ==
    /\ rpRunning /\ ~rpLost
    /\ \E c \in RpConns :
         /\ rpConn[c].sv = "backlog"
         /\ IF rpActive + 1 > RpMaxConns
            THEN rpConn' = RpWith(c, [rpConn[c] EXCEPT !.sv = "closed"]) /\ UNCHANGED <<rpQueue, rpActive>>
            ELSE /\ rpConn' = [rpConn EXCEPT ![c].sv = "queued"]
                 /\ rpQueue' = Append(rpQueue, c) /\ rpActive' = rpActive + 1
    /\ UNCHANGED <<rpSecret, rpClient, rpRunning, rpStop, rpWorker, rpSeen, rpApplied, rpLost, rpOps>>

RpWork(w, r) == rpWorker' = [rpWorker EXCEPT ![w] = r]

\* worker_loop takes the next connection, or ends after a stop.
RpTake(w) ==
    /\ rpWorker[w].pc = "free" /\ ~rpLost
    /\ IF rpQueue # <<>>
       THEN LET c == Head(rpQueue) IN
            /\ rpQueue' = Tail(rpQueue) /\ rpConn' = [rpConn EXCEPT ![c].sv = "served"]
            /\ RpWork(w, [RpFree EXCEPT !.pc = IF rpSecret = "off" THEN "loop" ELSE "auth", !.conn = c])
       ELSE ~rpRunning /\ RpWork(w, [RpFree EXCEPT !.pc = "ended"]) /\ UNCHANGED <<rpQueue, rpConn>>
    /\ UNCHANGED <<rpSecret, rpClient, rpRunning, rpStop, rpActive, rpSeen, rpApplied, rpLost, rpOps>>

\* When handle_connection gives up on a read: the receive timeout of one second.
\* A bug: the timeout is not set.
NoIdleTimeout(w) == rpConn[rpWorker[w].conn].cl = "closed"
IdleTimeout(w) == TRUE

\* A read of handle_connection fails: the peer is gone, the connection was shut down, or it was
\* idle for a second.  The loop also ends once the server stops.
RpHangUp(w) ==
    LET r == rpConn[rpWorker[w].conn]
    IN /\ rpWorker[w].pc \in {"auth", "loop"} /\ ~rpLost
       /\ \/ r.in = <<>> /\ (IdleTimeout(w) \/ r.sv = "shut")
          \/ rpWorker[w].pc = "loop" /\ (~rpRunning \/ r.sv = "shut")
       /\ rpWorker' = [rpWorker EXCEPT ![w].pc = "close"]
       /\ UNCHANGED <<rpSecret, rpConn, rpClient, rpRunning, rpStop, rpQueue, rpActive, rpSeen, rpApplied,
                      rpLost, rpOps>>

\* FencingToken::validate: an epoch older than the newest seen is refused; zero is not looked at.
RpValid(e) == e = 0 \/ e >= rpSeen

\* A request is read.  A write with a stale epoch is refused without the callback.
RpRead(w) ==
    LET c == rpWorker[w].conn
        req == Head(rpConn[c].in)
    IN /\ rpWorker[w].pc = "loop" /\ rpRunning /\ ~rpLost
       /\ rpConn[c].sv = "served" /\ rpConn[c].in # <<>>
       /\ rpConn' = [rpConn EXCEPT ![c].in = Tail(@)]
       /\ rpSeen' = IF req.epoch # 0 /\ RpValid(req.epoch) THEN req.epoch ELSE rpSeen
       /\ RpWork(w, [RpFree EXCEPT !.pc = IF RpValid(req.epoch) THEN "call" ELSE "reply",
                       !.conn = c, !.req = req])
       /\ UNCHANGED <<rpSecret, rpClient, rpRunning, rpStop, rpQueue, rpActive, rpApplied, rpLost, rpOps>>

\* The callback of a request of kind k accepts n ticks, and the reply says ok.
RpRuns(w, k, n, ok) ==
    LET req == rpWorker[w].req
    IN /\ rpWorker[w].pc = "call" /\ req.kind = k /\ ~rpLost
       /\ rpApplied' = IF \E t \in RpCallers : rpCall[t].id = req.id
                       THEN [rpApplied EXCEPT ![req.id] = @ + n] ELSE rpApplied
       /\ rpWorker' = [rpWorker EXCEPT ![w].pc = "reply", ![w].ok = ok]
       /\ UNCHANGED <<rpSecret, rpConn, rpClient, rpRunning, rpStop, rpQueue, rpActive, rpSeen, rpLost, rpOps>>

\* handle_connection, by the type of the request.  A tick is accepted or not; the acknowledgement
\* of a WAL batch says that at least one of its ticks was.
RpServeSql(w) == RpRuns(w, "sql", 0, TRUE)
RpServeTick(w) == \E n \in 0..1 : RpRuns(w, "tick", n, n > 0)
RpServeWal(w) == \E n \in 0..RpBatch : RpRuns(w, "wal", n, n > 0)
RpServePing(w) == RpRuns(w, "ping", 0, TRUE)
RpCallback(w) == RpServeSql(w) \/ RpServeTick(w) \/ RpServeWal(w) \/ RpServePing(w)

\* The reply is sent; a send to a client that closed fails and ends the connection.
RpReply(w) ==
    LET k == rpWorker[w]
        r == rpConn[k.conn]
        alive == r.cl = "open" /\ r.sv = "served"
    IN /\ k.pc = "reply" /\ ~rpLost
       /\ rpConn' = IF alive
                    THEN [rpConn EXCEPT ![k.conn].out =
                            Append(@, [id |-> k.req.id, kind |-> k.req.kind, ok |-> k.ok])]
                    ELSE rpConn
       /\ RpWork(w, [RpFree EXCEPT !.pc = IF alive THEN "loop" ELSE "close", !.conn = k.conn])
       /\ UNCHANGED <<rpSecret, rpClient, rpRunning, rpStop, rpQueue, rpActive, rpSeen, rpApplied, rpLost, rpOps>>

\* The end of worker_loop's turn with a connection.
RpClose(w) ==
    LET c == rpWorker[w].conn
    IN /\ rpWorker[w].pc = "close" /\ ~rpLost
       /\ rpConn' = RpWith(c, [rpConn[c] EXCEPT !.sv = "closed"])
       /\ rpActive' = rpActive - 1 /\ RpWork(w, RpFree)
       /\ UNCHANGED <<rpSecret, rpClient, rpRunning, rpStop, rpQueue, rpSeen, rpApplied, rpLost, rpOps>>

RpDropped(S) == [c \in RpConns |->
    IF c \in S THEN (IF rpConn[c].cl = "closed" THEN RpClosed ELSE [rpConn[c] EXCEPT !.sv = "closed"])
    ELSE rpConn[c]]

\* stop(): no more connections are accepted, the queued ones are closed, and after the drain
\* timeout those still served are shut down; then the workers are joined.
RpStopStep ==
    /\ ~rpLost
    /\ \/ /\ rpStop = "no" /\ rpStop' = "drain" /\ rpRunning' = FALSE
          /\ rpConn' = RpDropped({c \in RpConns : rpConn[c].sv = "backlog"})
          /\ UNCHANGED <<rpQueue, rpActive>>
       \/ /\ rpStop = "drain" /\ rpStop' = "wait"
          /\ rpConn' = RpDropped(Range(rpQueue))
          /\ rpActive' = rpActive - Len(rpQueue) /\ rpQueue' = <<>> /\ UNCHANGED rpRunning
       \/ /\ rpStop = "wait" /\ rpStop' = "join"
          /\ \/ rpActive = 0 /\ UNCHANGED rpConn
             \/ rpActive > 0 /\ rpConn' = [c \in RpConns |-> IF rpConn[c].sv = "served"
                                             THEN [rpConn[c] EXCEPT !.sv = "shut"] ELSE rpConn[c]]
          /\ UNCHANGED <<rpRunning, rpQueue, rpActive>>
       \/ /\ rpStop = "join" /\ rpStop' = "stopped"
          /\ \A w \in RpWorkers : rpWorker[w].pc = "ended"
          /\ UNCHANGED <<rpRunning, rpConn, rpQueue, rpActive>>
    /\ UNCHANGED <<rpSecret, rpClient, rpWorker, rpSeen, rpApplied, rpLost, rpOps>>

\* The server's host disappears: nothing it holds is closed and nothing is answered any more.
RpLose ==
    /\ RpLosses > 0 /\ ~rpLost /\ rpStop = "no" /\ rpLost' = TRUE
    /\ UNCHANGED <<rpSecret, rpConn, rpClient, rpServer, rpOps>>

RpCaller(t) ==
    \/ RpReuse(t) \/ RpConnect(t) \/ (\E w \in RpWorkers : RpHandshake(t, w)) \/ RpAuthFails(t)
    \/ RpSend(t) \/ RpReceive(t) \/ RpReadFails(t) \/ RpReturn(t)
RpServing(w) == RpTake(w) \/ RpHangUp(w) \/ RpRead(w) \/ RpCallback(w) \/ RpReply(w) \/ RpClose(w)

RpNext ==
    \/ \E t \in RpCallers :
         RpCaller(t) \/ RpExecuteSql(t) \/ RpIngestTick(t) \/ RpReplicateWal(t) \/ RpPing(t)
    \/ \E w \in RpWorkers : RpServing(w)
    \/ RpSetEpoch \/ RpAccept \/ RpStopStep \/ RpLose

\* Every thread runs, callbacks return, timeouts expire; a stop that was begun goes on.
RpFairness ==
    /\ \A t \in RpCallers : WF_rpVars(RpCaller(t))
    /\ \A w \in RpWorkers : WF_rpVars(RpServing(w))
    /\ WF_rpVars(RpAccept) /\ WF_rpVars(rpStop # "no" /\ RpStopStep)

\* A call gets the reply to its own request, although replies are not matched by request_id:
\* a pooled connection has nothing unread and nothing unanswered on it, no connection is in the
\* pool twice or in the pool and in use, and a write that was acknowledged was applied, once.
\* active_conns_ counts the connections that are queued or served.
RepliesMatch ==
    /\ \A t \in RpCallers :
         /\ rpCall[t].reply \in {0, rpCall[t].id}
         /\ rpCall[t].ok /\ rpCall[t].kind \in {"tick", "wal"} => rpApplied[rpCall[t].id] > 0
    /\ \A i \in DOMAIN rpApplied : rpApplied[i] <= RpBatch
    /\ \A k \in DOMAIN rpPool : rpConn[rpPool[k]].in = <<>> /\ rpConn[rpPool[k]].out = <<>>
    /\ Cardinality(Range(rpPool)) = Len(rpPool)
    /\ \A t \in RpCallers : rpCall[t].conn \notin Range(rpPool)
    /\ rpActive = Cardinality({c \in RpConns : rpConn[c].sv \in {"queued", "served", "shut"}})

\* No call waits for ever and stop() returns, while the server's host is there: a worker that
\* holds an idle pooled connection gives it up for the connections that wait in the queue.
RpReturned(t) == (rpCall[t].pc = "idle" \/ rpLost) /\ rpStop \in {"no", "stopped"}
CallsReturn == \A t \in RpCallers : []<>RpReturned(t)

\* The same without the condition: "Ping the remote server.  true = reachable within
\* connect_timeout_ms", and every other request is bounded too.
CallsBounded == \A t \in RpCallers : []<>(rpCall[t].pc = "idle")

\* replicate_wal returns TRUE only when the replica applied the whole batch: "1-byte ack
\* (0x01 = all applied)".
AckMeansAll ==
    \A t \in RpCallers : rpCall[t].ok /\ rpCall[t].kind = "wal" => rpApplied[rpCall[t].id] = RpBatch
====
