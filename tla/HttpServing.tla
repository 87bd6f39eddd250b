---- MODULE HttpServing ----
(***************************************************************************)
(* The life of a SQL request in the HTTP server: who asks and whether they *)
(* may (AuthManager, the pre-routing handler, authorize_sql), the tenant's *)
(* query slot (TenantManager), the entry in the query tracker and its      *)
(* cancellation token, the execution with or without a timeout, and the    *)
(* session of the client's address with its connect and disconnect hooks   *)
(* (run_query_with_tracking, track_session).  A DDL statement that has     *)
(* succeeded is sent on to the other nodes.  The Flight server reads,      *)
(* lists and writes tables for the same tenants beside it.  Administrators *)
(* cancel queries and create and drop tenants, and a timer evicts idle     *)
(* sessions, while requests run.                                           *)
(*                                                                         *)
(* What a statement computes is left to SelectExec and QueryCoordinator: a *)
(* statement ends by itself, or as cancelled once its token is set.        *)
(***************************************************************************)
EXTENDS Naturals, Integers, Sequences, FiniteSets, FiniteSetsExt

CONSTANTS
    HsThreads,      \* request threads of the server, numbered
    HsAddrs,        \* client addresses
    HsTenants,      \* tenant ids; "" is a request without tenant
    HsLimit,        \* max_concurrent_queries of a tenant, 0 for none
    HsNamespace,    \* by tenant: the tables its table_namespace lets it touch
    HsClients,      \* what clients send to identify themselves
    HsStatements,   \* the statements they send
    HsSetups,       \* the configurations of the two servers
    HsMaxListed,    \* bound on the further statements of a Flight listing or stream
    HsMaxRequests, HsMaxAdmin   \* bounds

ASSUME HsConstants ==
    /\ "" \notin HsTenants
    /\ HsLimit \in Nat
    \* timeout, flight: query_timeout_ms_ > 0 of the HTTP and of the Flight server; cluster:
    \* no other node, or others and the distributed SELECT closed or open; puts: allow_non_atomic_put.
    /\ HsSetups \subseteq [timeout : BOOLEAN, flight : BOOLEAN, auth : {"absent", "disabled", "enabled"},
                           cluster : {"none", "closed", "open"}, puts : BOOLEAN]
    /\ {HsMaxListed, HsMaxRequests, HsMaxAdmin} \subseteq Nat

VARIABLES
    hsSetup,        \* the server's configuration
    hsThere,        \* tenants_: the tenants that exist
    hsUsage,        \* usage_: active_queries of those
    hsRecycled,     \* history: tenants dropped while one of their queries held a slot
    hsTracked,      \* active_: the tracked requests, by number
    hsLost,         \* history: requests whose thread could not be started
    hsToken,        \* requests whose cancellation token is set
    hsT,            \* the request threads
    hsDdl,          \* history: DDL requests whose statement took effect (done), that were sent
                    \* to the other nodes (sent), and that timed out (late)
    hsSessions,     \* sessions_: addresses with a session
    hsHook,         \* connects minus disconnects the hooks were told of, by address
    hsEvicted,      \* evicted sessions whose disconnect hook is still to be called, by address
    hsRequests, hsAdmin

hsTenancy == <<hsThere, hsUsage, hsRecycled>>
hsTracking == <<hsTracked, hsLost, hsToken>>
hsConn == <<hsSessions, hsHook, hsEvicted>>
hsVars == <<hsSetup, hsTenancy, hsTracking, hsT, hsDdl, hsConn, hsRequests, hsAdmin>>

\* kind: "select", "ddl" or "other".  Of a Flight call, left: statements it may still run,
\* put: the table it writes, acl: whether its identity's own list admits that table.
HsIdle == [pc |-> "idle", id |-> 0, tenant |-> "", addr |-> CHOOSE a \in HsAddrs : TRUE,
           closing |-> FALSE, flight |-> FALSE, kind |-> "other", left |-> 0, put |-> {}, acl |-> TRUE,
           slot |-> FALSE, running |-> FALSE, out |-> "none", hook |-> 0]

HsInit ==
    /\ hsSetup \in HsSetups
    /\ hsThere = HsTenants /\ hsUsage = [n \in HsTenants |-> 0] /\ hsRecycled = {}
    /\ hsTracked = {} /\ hsLost = {} /\ hsToken = {}
    /\ hsT = [t \in HsThreads |-> HsIdle]
    /\ hsDdl = [done |-> {}, sent |-> {}, late |-> {}]
    /\ hsSessions = {} /\ hsHook = [a \in HsAddrs |-> 0] /\ hsEvicted = hsHook
    /\ hsRequests = 0 /\ hsAdmin = 0

HsStep(t, r) == hsT' = [hsT EXCEPT ![t] = r]

(***************************************************************************)
(* Who asks, and whether they may                                          *)
(*                                                                         *)
(* An identity has a role ("none" for nobody), the tenant it belongs to    *)
(* ("" for none), the tables it is held to ({} for all) and whether it is  *)
(* held to some symbols.  A client sends duplicate headers or not, a       *)
(* bearer token or not, and has the identity each source would give it.    *)
(***************************************************************************)

HsNobody == [role |-> "none", tenant |-> "", tables |-> {}, symbols |-> FALSE]

\* The session cookie counts only without a token; a token is tried as SSO token, as JWT
\* and as API key.  limited: the rate limiter refuses the address or the identity, or the
\* identity's scope is malformed.
HsAuthenticate(c) ==
    LET known == SelectSeq(<<c.sso, c.jwt, c.key>>, LAMBDA i : i.role # "none") IN
    IF hsSetup.auth # "enabled" THEN [HsNobody EXCEPT !.role = "admin"]
    ELSE IF c.limited THEN HsNobody
    ELSE IF ~c.bearer THEN c.cookie
    ELSE IF known = <<>> THEN HsNobody ELSE Head(known)

\* The pre-routing handler.  The tenant a client names counts only while authentication
\* is disabled, and need not exist then.
HsMiddleware(c) ==
    LET i == HsAuthenticate(c) IN
    CASE hsSetup.auth = "absent" -> i
      [] hsSetup.auth # "absent" /\ (c.twice \/ i.tenant \notin hsThere \cup {""}) -> HsNobody
      [] OTHER -> IF hsSetup.auth = "disabled" THEN [i EXCEPT !.tenant = c.asks] ELSE i

HsPermissions(role) ==
    CASE role = "admin"  -> {"READ", "WRITE", "ADMIN"}
      [] role = "writer" -> {"READ", "WRITE"}
      [] role = "reader" -> {"READ"}
      [] OTHER -> {}

HsNeeds(kind) ==
    CASE kind \in {"select", "show", "describe"}   -> "READ"
      [] kind \in {"insert", "update", "delete"}   -> "WRITE"
      [] kind \in {"create", "drop", "alter", "create view", "drop view"} -> "ADMIN"

\* sql_statement_tables: what the statement writes, and the tables its SELECTs name that
\* are not common table expressions; an expression sees only the ones before it.
HsTables(s) ==
    LET names(n) == {s.ctes[k].name : k \in 1..n} IN
    s.target \cup (s.froms \ names(Len(s.ctes)))
      \cup UNION {{s.ctes[k].from} \ names(k - 1) : k \in 1..Len(s.ctes)}

\* TenantManager::can_access_table
HsTenantMay(n, x) == n \in hsThere /\ x \in HsNamespace[n]

\* sql_table_access
HsTableAccess(i, x) ==
    /\ i.tables = {} \/ x \in i.tables
    /\ i.tenant # "" => HsTenantMay(i.tenant, x)

\* authorize_sql: what does not parse is refused, or left to the executor to refuse.
HsAuthorized(i, s) ==
    IF s.kind \in {"unparsed", "empty"} THEN hsSetup.auth # "enabled"
    ELSE /\ ~i.symbols
         /\ hsSetup.auth = "enabled" => HsNeeds(s.kind) \in HsPermissions(i.role)
         /\ \A x \in HsTables(s) : HsTableAccess(i, x)

\* The request has its answer, and only its address and its "closing" matter.
HsAnswered(r) == [HsIdle EXCEPT !.pc = "log", !.addr = r.addr, !.closing = r.closing]

\* A request comes in: it goes on with its tenant's slot, or is only logged.  Idle threads
\* are alike, so the first one takes it.
HsArrives(t, r, goesOn) ==
    /\ hsT[t].pc = "idle" /\ hsRequests < HsMaxRequests /\ hsRequests' = hsRequests + 1
    /\ \A u \in HsThreads : u < t => hsT[u].pc # "idle"
    /\ HsStep(t, IF goesOn THEN [r EXCEPT !.id = hsRequests + 1,
                                   !.pc = IF r.tenant = "" THEN "register" ELSE "acquire"]
                 ELSE HsAnswered(r))
    /\ UNCHANGED <<hsSetup, hsTenancy, hsTracking, hsDdl, hsConn, hsAdmin>>

\* What is kept of the statement before it is moved into the execution.
HsKind(s) == CASE s.kind = "select" -> "select"
               [] s.kind \in {"create", "drop", "alter"} -> "ddl"
               [] OTHER -> "other"

\* closing: the request says "Connection: close".
HsFrom(i, s, a, closing) ==
    [HsIdle EXCEPT !.tenant = i.tenant, !.addr = a, !.closing = closing, !.kind = HsKind(s)]

\* POST /
HsPost(t) ==
    \E c \in HsClients, s \in HsStatements, a \in HsAddrs, closing \in BOOLEAN :
      LET i == HsMiddleware(c) IN
      HsArrives(t, HsFrom(i, s, a, closing), i.role # "none" /\ HsAuthorized(i, s) /\ s.kind # "empty")

\* GET /: reads only; without a query it answers at once.
HsGet(t) ==
    \E c \in HsClients, s \in HsStatements, a \in HsAddrs, closing \in BOOLEAN :
      LET i == HsMiddleware(c) IN
      HsArrives(t, HsFrom(i, s, a, closing),
                /\ i.role # "none" /\ s.kind \in {"select", "show", "describe"} /\ HsAuthorized(i, s))

\* The Flight server's authenticate: no cookies, and the call's permission.
HsFlightIdentity(c) == HsAuthenticate([c EXCEPT !.cookie = HsNobody])
HsFlightMay(c, permission) ==
    LET i == HsFlightIdentity(c) IN
    /\ hsSetup.auth # "absent" => ~c.twice
    /\ hsSetup.auth = "enabled" =>
         permission \in HsPermissions(i.role) /\ ~i.symbols /\ i.tenant \in hsThere \cup {""}

\* authorize_read_sql: reads only.  SHOW TABLES passes, its answer is filtered.
HsFlightReads(c, s) ==
    /\ HsFlightMay(c, "READ") /\ s.kind \in {"select", "show", "describe"}
    /\ hsSetup.auth = "enabled" /\ s.kind # "show" =>
         \A x \in HsTables(s) : HsTableAccess(HsFlightIdentity(c), x)

\* A call that is refused leaves no trace.
HsFlightCall(t, c, r) == HsArrives(t, [r EXCEPT !.flight = TRUE, !.tenant = HsFlightIdentity(c).tenant], TRUE)

\* GetFlightInfo and DoGet
HsFlight(t) ==
    \E c \in HsClients, s \in HsStatements :
      HsFlightReads(c, s) /\ HsFlightCall(t, c, [HsIdle EXCEPT !.kind = HsKind(s)])

\* ListFlights: SHOW TABLES, then the count of each table the caller may see.
HsFlightList(t) ==
    \E c \in HsClients :
      HsFlightMay(c, "READ") /\ HsFlightCall(t, c, [HsIdle EXCEPT !.left = HsMaxListed])

\* DoPut: an INSERT for each row of the stream.  The table is looked at with the slot held.
HsFlightPut(t) ==
    \E c \in HsClients, x \in UNION {s.target : s \in HsStatements} :
      LET i == HsFlightIdentity(c) IN
      /\ HsFlightMay(c, "WRITE") /\ hsSetup.puts
      /\ HsFlightCall(t, c, [HsIdle EXCEPT !.left = HsMaxListed, !.put = {x},
                                          !.acl = i.tables = {} \/ x \in i.tables])

(***************************************************************************)
(* The request runs                                                        *)
(***************************************************************************)

\* The query's result goes back to its route.  An exception skips the route's answer.
HsOver(r) ==
    IF r.flight THEN HsIdle
    ELSE IF r.out = "thrown" THEN HsAnswered(r)
    ELSE [r EXCEPT !.pc = "reply", !.slot = FALSE, !.tenant = ""]

\* acquire_query_slot
HsAcquire(t) ==
    LET r == hsT[t]
        free == r.tenant \in hsThere /\ (HsLimit = 0 \/ hsUsage[r.tenant] < HsLimit)
    IN
    /\ r.pc = "acquire"
    /\ hsUsage' = IF free THEN [hsUsage EXCEPT ![r.tenant] = @ + 1] ELSE hsUsage
    /\ HsStep(t, IF free THEN [r EXCEPT !.pc = "register", !.slot = TRUE]
                 ELSE HsOver([r EXCEPT !.out = "error"]))
    /\ UNCHANGED <<hsSetup, hsThere, hsRecycled, hsTracking, hsDdl, hsConn, hsRequests, hsAdmin>>

\* A SELECT for the coordinator, which does not look at the token.
HsDistributed(r) == r.kind = "select" /\ ~r.flight /\ hsSetup.cluster # "none"

\* register_query, then the start of the execution: inline, in a thread of its own
\* under a timeout, or not at all for a distributed SELECT while those are disabled.
\* The thread may fail to start (std::async throws), which leaves the tracker's entry.
HsRegister(t) ==
    LET r == hsT[t]
        disabled == HsDistributed(r) /\ hsSetup.cluster = "closed"
    IN
    /\ r.pc = "register" /\ ~r.flight
    /\ hsTracked' = hsTracked \cup {r.id}
    /\ \/ ~disabled /\ HsStep(t, [r EXCEPT !.pc = "exec", !.running = TRUE]) /\ UNCHANGED hsLost
       \/ disabled /\ HsStep(t, [r EXCEPT !.pc = "complete", !.out = "disabled"]) /\ UNCHANGED hsLost
       \/ ~disabled /\ hsSetup.timeout /\ HsStep(t, [r EXCEPT !.pc = "release", !.out = "thrown"])
                    /\ hsLost' = hsLost \cup {r.id}
    /\ UNCHANGED <<hsSetup, hsTenancy, hsToken, hsDdl, hsConn, hsRequests, hsAdmin>>

\* What a statement of r runs under: a put's rows have no timeout and no token.
HsTimed(r) == IF r.flight THEN hsSetup.flight /\ r.put = {} ELSE hsSetup.timeout

\* The next statement of a Flight call: nothing is registered.  A put may find that its
\* identity, or its tenant, may not touch the table.
HsFlightStart(t) ==
    LET r == hsT[t]
        refused == \E x \in r.put : ~r.acl \/ (r.tenant # "" /\ ~HsTenantMay(r.tenant, x))
    IN
    /\ r.pc = "register" /\ r.flight
    /\ \/ ~refused /\ HsStep(t, [r EXCEPT !.pc = "exec", !.running = TRUE])
       \/ refused /\ HsStep(t, [r EXCEPT !.pc = "release", !.out = "error"])
       \/ HsTimed(r) /\ HsStep(t, [r EXCEPT !.pc = "release", !.out = "thrown"])
    /\ UNCHANGED <<hsSetup, hsTenancy, hsTracking, hsDdl, hsConn, hsRequests, hsAdmin>>

\* The statement ends: with its result, or cancelled when its token is set.
HsFinish(t) ==
    LET r == hsT[t]
        stops == r.id \in hsToken /\ ~HsDistributed(r)
    IN
    /\ r.pc \in {"exec", "drain"} /\ r.running
    /\ \E out \in IF stops THEN {"ok", "error", "cancelled"} ELSE {"ok", "error"} :
         /\ HsStep(t, [r EXCEPT !.running = FALSE, !.out = IF r.pc = "drain" THEN @ ELSE out])
         /\ hsDdl' = [hsDdl EXCEPT !.done = IF r.kind = "ddl" /\ out = "ok" THEN @ \cup {r.id} ELSE @]
    /\ UNCHANGED <<hsSetup, hsTenancy, hsTracking, hsConn, hsRequests, hsAdmin>>

\* The wait for the future times out: cancel, then wait for the end.
HsTimesOut(t) ==
    LET r == hsT[t] IN
    /\ r.pc = "exec" /\ r.running /\ HsTimed(r)
    /\ hsToken' = hsToken \cup {r.id} /\ hsDdl' = [hsDdl EXCEPT !.late = IF r.kind = "ddl" THEN @ \cup {r.id} ELSE @]
    /\ HsStep(t, [r EXCEPT !.pc = "drain", !.out = "timed out"])
    /\ UNCHANGED <<hsSetup, hsTenancy, hsTracked, hsLost, hsConn, hsRequests, hsAdmin>>

HsEnded(r) == r.pc \in {"exec", "drain"} /\ ~r.running

HsJoin(t) ==
    /\ HsEnded(hsT[t]) /\ ~hsT[t].flight /\ HsStep(t, [hsT[t] EXCEPT !.pc = "complete"])
    /\ UNCHANGED <<hsSetup, hsTenancy, hsTracking, hsDdl, hsConn, hsRequests, hsAdmin>>

\* The Flight call has a statement's result, within its limits or not; the token goes with
\* the statement.  It goes on with its next one, or has run the last.
HsFlightJoin(t) ==
    LET r == hsT[t] IN
    /\ HsEnded(r) /\ r.flight
    /\ \/ HsStep(t, [r EXCEPT !.pc = "release"])
       \/ /\ r.out = "ok" /\ r.left > 0
          /\ HsStep(t, [r EXCEPT !.pc = "register", !.left = @ - 1, !.out = "none"])
    /\ hsToken' = hsToken \ {r.id}
    /\ UNCHANGED <<hsSetup, hsTenancy, hsTracked, hsLost, hsDdl, hsConn, hsRequests, hsAdmin>>

\* query_tracker_.complete; the token goes with the tracker's entry.
HsComplete(t) ==
    LET r == hsT[t] IN
    /\ r.pc = "complete" /\ hsTracked' = hsTracked \ {r.id} /\ hsToken' = hsToken \ {r.id}
    /\ HsStep(t, [r EXCEPT !.pc = "release"])
    /\ UNCHANGED <<hsSetup, hsTenancy, hsLost, hsDdl, hsConn, hsRequests, hsAdmin>>

\* A bug: the slot is not given back when the query failed.
ReleasedIfOk(r) == IF r.slot /\ r.out \in {"ok", "disabled"} THEN 1 ELSE 0

\* The slots the guard's destructor gives back.
Released(r) == IF r.slot THEN 1 ELSE 0

\* ~TenantSlotGuard: release_query_slot, of whatever tenant has the id by now.
HsRelease(t) ==
    LET r == hsT[t] IN
    /\ r.pc = "release"
    /\ hsUsage' = IF r.tenant \in hsThere
                    THEN [hsUsage EXCEPT ![r.tenant] = Max({0, @ - Released(r)})] ELSE hsUsage
    /\ HsStep(t, HsOver(r))
    /\ UNCHANGED <<hsSetup, hsThere, hsRecycled, hsTracking, hsDdl, hsConn, hsRequests, hsAdmin>>

\* forward_ddl_to_remotes is called for DDL that succeeded, with a coordinator.
HsSends(r) == r.kind = "ddl" /\ r.out = "ok" /\ hsSetup.cluster # "none"

\* The rest of the route: DDL is sent on, and the result becomes the answer.
HsReply(t) ==
    LET r == hsT[t] IN
    /\ r.pc = "reply"
    /\ hsDdl' = [hsDdl EXCEPT !.sent = IF HsSends(r) THEN @ \cup {r.id} ELSE @]
    /\ HsStep(t, HsAnswered(r))
    /\ UNCHANGED <<hsSetup, hsTenancy, hsTracking, hsConn, hsRequests, hsAdmin>>

\* The logger, after the response: track_session.  The first request of an address
\* opens its session, even if it closes the connection; the hook runs after the lock
\* is released.
HsTrack(t) ==
    LET r == hsT[t]
        new == r.addr \notin hsSessions
    IN
    /\ r.pc = "log"
    /\ hsSessions' = IF new THEN hsSessions \cup {r.addr}
                     ELSE IF r.closing THEN hsSessions \ {r.addr} ELSE hsSessions
    /\ HsStep(t, [r EXCEPT !.pc = "hook", !.hook = IF new THEN 1 ELSE IF r.closing THEN -1 ELSE 0])
    /\ UNCHANGED <<hsSetup, hsTenancy, hsTracking, hsDdl, hsHook, hsEvicted, hsRequests, hsAdmin>>

HsCallHook(t) ==
    LET r == hsT[t] IN
    /\ r.pc = "hook" /\ hsHook' = [hsHook EXCEPT ![r.addr] = @ + r.hook]
    /\ HsStep(t, HsIdle)
    /\ UNCHANGED <<hsSetup, hsTenancy, hsTracking, hsDdl, hsSessions, hsEvicted, hsRequests, hsAdmin>>

(***************************************************************************)
(* Administrators and the eviction of idle sessions                        *)
(***************************************************************************)

HsAct == hsAdmin < HsMaxAdmin /\ hsAdmin' = hsAdmin + 1

\* DELETE /admin/queries/:id
HsCancel(id) ==
    /\ HsAct /\ id \in hsTracked /\ hsToken' = hsToken \cup {id}
    /\ UNCHANGED <<hsSetup, hsTenancy, hsTracked, hsLost, hsT, hsDdl, hsConn, hsRequests>>

\* Threads that hold a slot of tenant n.
Holding(n) == {t \in HsThreads : hsT[t].slot /\ hsT[t].tenant = n}

\* POST /admin/tenants, DELETE /admin/tenants/:id
HsCreateTenant(n) ==
    /\ HsAct /\ n \notin hsThere
    /\ hsThere' = hsThere \cup {n} /\ hsUsage' = [hsUsage EXCEPT ![n] = 0]
    /\ UNCHANGED <<hsSetup, hsRecycled, hsTracking, hsT, hsDdl, hsConn, hsRequests>>

HsDropTenant(n) ==
    /\ HsAct /\ n \in hsThere
    /\ hsThere' = hsThere \ {n} /\ hsUsage' = [hsUsage EXCEPT ![n] = 0]
    /\ hsRecycled' = hsRecycled \cup (IF Holding(n) # {} THEN {n} ELSE {})
    /\ UNCHANGED <<hsSetup, hsTracking, hsT, hsDdl, hsConn, hsRequests>>

\* evict_idle_sessions; the hook of each session removed is called after the lock is released.
HsEvict(S) ==
    /\ HsAct /\ S # {} /\ S \subseteq hsSessions
    /\ hsSessions' = hsSessions \ S
    /\ hsEvicted' = [a \in HsAddrs |-> hsEvicted[a] + (IF a \in S THEN 1 ELSE 0)]
    /\ UNCHANGED <<hsSetup, hsTenancy, hsTracking, hsT, hsDdl, hsHook, hsRequests>>

HsEvictHook(a) ==
    /\ hsEvicted[a] > 0
    /\ hsEvicted' = [hsEvicted EXCEPT ![a] = @ - 1] /\ hsHook' = [hsHook EXCEPT ![a] = @ - 1]
    /\ UNCHANGED <<hsSetup, hsTenancy, hsTracking, hsT, hsDdl, hsSessions, hsRequests, hsAdmin>>

HsServe(t) ==
    \/ HsAcquire(t) \/ HsRegister(t) \/ HsFlightStart(t) \/ HsFinish(t) \/ HsTimesOut(t)
    \/ HsJoin(t) \/ HsFlightJoin(t) \/ HsComplete(t) \/ HsRelease(t) \/ HsReply(t) \/ HsTrack(t) \/ HsCallHook(t)

HsNext ==
    \/ \E t \in HsThreads : HsPost(t) \/ HsGet(t) \/ HsServe(t)
       \/ HsFlight(t) \/ HsFlightList(t) \/ HsFlightPut(t)
    \/ \E id \in hsTracked : HsCancel(id)
    \/ \E n \in HsTenants : HsCreateTenant(n) \/ HsDropTenant(n)
    \/ \E S \in SUBSET hsSessions : HsEvict(S)
    \/ \E a \in HsAddrs : HsEvictHook(a)

(***************************************************************************)
(* Properties                                                              *)
(***************************************************************************)

HsQueries == {t \in HsThreads : ~hsT[t].flight /\ hsT[t].pc \in {"exec", "drain", "complete"}}

\* What the server keeps about its requests agrees with the requests, whatever is
\* cancelled, times out or is refused.  (a) The tracker lists the requests between
\* register_query and complete, and those whose thread could not be started.  (b) A
\* tenant's active_queries counts the slots its HTTP and Flight queries hold, which are no
\* more than its limit, unless the tenant was dropped while queries ran.  (c) No statement is still running
\* when its request is over, after a timeout either.  (d) Once the hooks under way have
\* run, the hooks know of exactly the sessions there are.  (e) The other nodes are sent only
\* DDL that took effect here, and are sent all of it that is not still under way, except what
\* took effect after its request had timed out.
RequestsAccounted ==
    /\ hsTracked = {hsT[t].id : t \in HsQueries} \cup hsLost
    /\ \A n \in hsThere \ hsRecycled :
         /\ hsUsage[n] = Cardinality(Holding(n))
         /\ HsLimit > 0 => Cardinality(Holding(n)) <= HsLimit
    /\ \A t \in HsThreads : hsT[t].running => hsT[t].pc \in {"exec", "drain"}
    /\ \A a \in HsAddrs :
         hsHook[a] - hsEvicted[a] + MapThenSumSet(LAMBDA t : hsT[t].hook, {t \in HsThreads : hsT[t].addr = a})
           = (IF a \in hsSessions THEN 1 ELSE 0)
    /\ hsDdl.sent \subseteq hsDdl.done
    /\ hsSetup.cluster # "none" => \A id \in hsDdl.done \ (hsDdl.sent \cup hsDdl.late) :
         \E t \in HsThreads : hsT[t].id = id /\ hsT[t].pc \in {"exec", "complete", "release", "reply"}

\* A tenant never runs more queries at once than its limit.
TenantLimit == HsLimit > 0 => \A n \in HsTenants : Cardinality(Holding(n)) <= HsLimit

\* The hooks see a client connect before they see it disconnect.
HooksInOrder == \A a \in HsAddrs : hsHook[a] \in {0, 1}
====
