---------------------------- MODULE PartitionRouter ----------------------------
(***************************************************************************)
(* PartitionRouter: the consistent-hash ring, its routing cache, pins and  *)
(* table placements, with route() split at its lock sections, and the      *)
(* failover manager that takes a dead node off the ring.                   *)
(*                                                                         *)
(* Callers of route() hold the cluster's router mutex shared.  The health  *)
(* callback, the ring consensus and the query coordinator edit the ring    *)
(* under the same mutex, exclusively ("held").  RebalanceManager and       *)
(* FailoverManager edit it without ("bare"): only the ring's own mutex     *)
(* orders them with a reader.                                              *)
(***************************************************************************)
EXTENDS Integers, Sequences, FiniteSets, FiniteSetsExt, Functions

CONSTANTS RtNodes,
          RtLayouts,    \* [vn : node -> its virtual node hashes, key : route key -> its hash]
          RtSeeds,      \* the sets of nodes ClusterNode::join_cluster may have put on the ring
          RtTables, RtSymbols,
          RtShift,      \* a route key is symbol + table * RtShift while symbols are below RtShift
          RtReaders,    \* threads inside route()
          RtCacheMax,   \* MAX_CACHE_SIZE
          RtMaxEdits,   \* bound on control-plane operations
          RtDeployments \* FALSE: every edit holds the router mutex; TRUE: bare edits happen too

RtNone == "none"

\* splitmix64 is a bijection of (node, index), so virtual nodes never share a hash.
ASSUME RtConstants ==
    /\ RtShift \in Nat \ {0} /\ RtSymbols \subseteq 0..(RtShift - 1)
    /\ RtTables \subseteq Nat /\ RtCacheMax \in Nat /\ RtMaxEdits \in Nat /\ RtDeployments \subseteq BOOLEAN
    /\ \A l \in RtLayouts : \A m, n \in RtNodes : m # n => l.vn[m] \cap l.vn[n] = {}

VARIABLES rtLayout,
          rtBare,     \* a rebalance or failover manager is attached: bare edits happen
          rtRing,     \* ring_: hash -> node
          rtNodes,    \* node_set_
          rtCache, rtPinned,
          rtPlaced,   \* table_placements_
          rtMoving,   \* migrating_
          rtRecent,   \* recently_migrated_
          rtReader,   \* reader -> [pc, key, got]; it holds the router mutex while pc # "idle"
          rtEdit,     \* the edit that has changed the ring and not yet cleared the cache
          rtStored,   \* node -> the route keys it stores rows of
          rtJob,      \* failover manager: (new primary, new replica) pairs to re-replicate
          rtEdits

rtVars == <<rtLayout, rtBare, rtRing, rtNodes, rtCache, rtPinned, rtPlaced, rtMoving, rtRecent,
            rtReader, rtEdit, rtStored, rtJob, rtEdits>>
rtFixed == <<rtLayout, rtBare>>
rtData == <<rtStored, rtJob>>

-----------------------------------------------------------------------------
(* The ring as data                                                        *)

RtEmpty == [h \in {} |-> RtNone]
RtDrop(f, ks) == [k \in DOMAIN f \ ks |-> f[k]]
RtPut(f, k, v) == [j \in DOMAIN f \cup {k} |-> IF j = k THEN v ELSE f[j]]

\* lower_bound, wrapping to the first virtual node
RtLowerBound(ring, h) ==
    LET above == {p \in DOMAIN ring : p >= h} IN IF above # {} THEN Min(above) ELSE Min(DOMAIN ring)

FindNode(ring, h) == ring[RtLowerBound(ring, h)]

\* The walk after the primary's position to the first other node.
RouteReplica(ring, members, h) ==
    LET primary == FindNode(ring, h)
        others == {p \in DOMAIN ring : ring[p] # primary}
        start == RtLowerBound(ring, h)
        after == {p \in others : p > start} IN
    IF Cardinality(members) < 2 \/ others = {} THEN RtNone
    ELSE ring[IF after # {} THEN Min(after) ELSE Min(others)]

RingWith(ring, n) == [h \in DOMAIN ring \cup rtLayout.vn[n] |-> IF h \in rtLayout.vn[n] THEN n ELSE ring[h]]
RingWithout(ring, n) == RtDrop(ring, rtLayout.vn[n])

TableRouteKey(t, s) == s + t * RtShift

\* The (from, to) pairs of the plans, after deduplicate_moves.
PlanAdd(n) ==
    IF n \in rtNodes \/ DOMAIN rtRing = {} THEN {}
    ELSE {<<FindNode(rtRing, h), n>> : h \in rtLayout.vn[n]}
PlanRemove(n) ==
    IF n \notin rtNodes \/ Cardinality(rtNodes) <= 1 THEN {}
    ELSE {<<n, FindNode(RingWithout(rtRing, n), h)>> : h \in rtLayout.vn[n]}

RtKeys == {TableRouteKey(t, s) : t \in RtTables, s \in RtSymbols}

-----------------------------------------------------------------------------
RtInit ==
    /\ rtLayout \in RtLayouts
    /\ rtNodes \in RtSeeds
    /\ rtRing = [h \in UNION {rtLayout.vn[n] : n \in rtNodes} |->
                    CHOOSE n \in rtNodes : h \in rtLayout.vn[n]]
    /\ rtCache = RtEmpty /\ rtPinned = RtEmpty
    /\ rtPlaced = RtEmpty /\ rtMoving = RtEmpty /\ rtRecent = RtEmpty
    /\ rtReader = [r \in RtReaders |-> [pc |-> "idle", key |-> 0, got |-> RtNone]]
    /\ rtBare \in RtDeployments
    /\ rtEdit = RtNone /\ rtEdits = 0
    /\ rtStored = [n \in RtNodes |-> {}] /\ rtJob = {}

RtReading == {r \in RtReaders : rtReader[r].pc # "idle"}

-----------------------------------------------------------------------------
(* route(table, symbol), under the router mutex shared                     *)

RtMove(r, pc) == rtReader' = [rtReader EXCEPT ![r].pc = pc]
\* The answer, a node or an exception, goes to the caller and out of the model.
RtReturn(r) == rtReader' = [rtReader EXCEPT ![r] = [pc |-> "idle", key |-> 0, got |-> RtNone]]

\* The placement of the table: a pinned table answers at once, HashByTable drops the symbol.
RtBegin(r, t, s) ==
    /\ rtReader[r].pc = "idle"
    /\ rtEdit # "held"
    /\ LET placed == t # 0 /\ t \in DOMAIN rtPlaced IN
       rtReader' = [rtReader EXCEPT ![r] =
           IF placed /\ rtPlaced[t] # "hash" THEN [pc |-> "idle", key |-> 0, got |-> RtNone]
           ELSE [pc |-> "pin", key |-> TableRouteKey(t, IF placed THEN 0 ELSE s), got |-> RtNone]]
    /\ UNCHANGED <<rtFixed, rtRing, rtNodes, rtCache, rtPinned, rtPlaced, rtMoving, rtRecent,
                   rtEdit, rtData, rtEdits>>

\* The pin table, under the cache mutex.
RtCheckPin(r) ==
    /\ rtReader[r].pc = "pin"
    /\ IF rtReader[r].key \in DOMAIN rtPinned THEN RtReturn(r)
       ELSE RtMove(r, "empty")
    /\ UNCHANGED <<rtFixed, rtRing, rtNodes, rtCache, rtPinned, rtPlaced, rtMoving, rtRecent,
                   rtEdit, rtData, rtEdits>>

\* An empty ring throws.
RtCheckEmpty(r) ==
    /\ rtReader[r].pc = "empty" /\ rtEdit = RtNone
    /\ IF DOMAIN rtRing = {} THEN RtReturn(r) ELSE RtMove(r, "cache")
    /\ UNCHANGED <<rtFixed, rtRing, rtNodes, rtCache, rtPinned, rtPlaced, rtMoving, rtRecent,
                   rtEdit, rtData, rtEdits>>

RtCheckCache(r) ==
    /\ rtReader[r].pc = "cache"
    /\ IF rtReader[r].key \in DOMAIN rtCache THEN RtReturn(r)
       ELSE RtMove(r, "find")
    /\ UNCHANGED <<rtFixed, rtRing, rtNodes, rtCache, rtPinned, rtPlaced, rtMoving, rtRecent,
                   rtEdit, rtData, rtEdits>>

\* find_node, under the ring's mutex.  An emptied ring would be dereferenced at its end.
RtFind(r) ==
    /\ rtReader[r].pc = "find" /\ rtEdit = RtNone
    /\ \E n \in IF DOMAIN rtRing = {} THEN RtNodes
                ELSE {FindNode(rtRing, rtLayout.key[rtReader[r].key])} :
         rtReader' = [rtReader EXCEPT ![r] = [@ EXCEPT !.pc = "store", !.got = n]]
    /\ UNCHANGED <<rtFixed, rtRing, rtNodes, rtCache, rtPinned, rtPlaced, rtMoving, rtRecent,
                   rtEdit, rtData, rtEdits>>

\* The answer goes to the cache in a lock section of its own.
RtStore(r) ==
    /\ rtReader[r].pc = "store"
    /\ rtCache' = IF Cardinality(DOMAIN rtCache) < RtCacheMax
                  THEN RtPut(rtCache, rtReader[r].key, rtReader[r].got) ELSE rtCache
    /\ RtReturn(r)
    /\ UNCHANGED <<rtFixed, rtRing, rtNodes, rtPinned, rtPlaced, rtMoving, rtRecent,
                   rtEdit, rtData, rtEdits>>

-----------------------------------------------------------------------------
(* Edits                                                                   *)

\* An edit of the ring starts: exclusively under the router mutex, or bare.
RtMayEdit(how) ==
    /\ rtEdit = RtNone /\ rtEdits < RtMaxEdits /\ rtEdits' = rtEdits + 1
    /\ \/ how = "held" /\ RtReading = {}
       \/ how = "bare" /\ rtBare

AddNode(n, how) ==
    /\ RtMayEdit(how)
    /\ n \notin rtNodes
    /\ rtNodes' = rtNodes \cup {n} /\ rtRing' = RingWith(rtRing, n)
    /\ rtEdit' = how
    /\ UNCHANGED <<rtFixed, rtCache, rtPinned, rtPlaced, rtMoving, rtRecent, rtReader, rtData>>

RemoveNode(n, how) ==
    /\ RtMayEdit(how)
    /\ n \in rtNodes
    /\ rtNodes' = rtNodes \ {n} /\ rtRing' = RingWithout(rtRing, n)
    /\ rtEdit' = how
    /\ UNCHANGED <<rtFixed, rtCache, rtPinned, rtPlaced, rtMoving, rtRecent, rtReader, rtData>>

\* A bug: the cache survives the edit.
KeepCache ==
    /\ rtEdit # RtNone
    /\ rtEdit' = RtNone
    /\ UNCHANGED <<rtFixed, rtRing, rtNodes, rtCache, rtPinned, rtPlaced, rtMoving, rtRecent, rtReader,
                   rtData, rtEdits>>

\* Both edits end by clearing the cache, before they release the ring's mutex.
ClearCache ==
    /\ rtEdit # RtNone
    /\ rtCache' = RtEmpty /\ rtEdit' = RtNone
    /\ UNCHANGED <<rtFixed, rtRing, rtNodes, rtPinned, rtPlaced, rtMoving, rtRecent, rtReader,
                   rtData, rtEdits>>

\* set_table_placement and clear_table_placement, called under the router mutex.
SetTablePlacement(t, p) ==
    /\ RtMayEdit("held")
    /\ rtPlaced' = IF p = RtNone THEN RtDrop(rtPlaced, {t}) ELSE RtPut(rtPlaced, t, p)
    /\ rtCache' = RtEmpty
    /\ UNCHANGED <<rtFixed, rtRing, rtNodes, rtPinned, rtMoving, rtRecent, rtReader, rtEdit, rtData>>

\* pin_symbol and unpin_symbol, called by the ring consensus under the router mutex.
PinSymbol(k, n) ==
    /\ RtMayEdit("held")
    /\ rtPinned' = IF n = RtNone THEN RtDrop(rtPinned, {k}) ELSE RtPut(rtPinned, k, n)
    /\ rtCache' = RtDrop(rtCache, {k})
    /\ UNCHANGED <<rtFixed, rtRing, rtNodes, rtPlaced, rtMoving, rtRecent, rtReader, rtEdit, rtData>>

\* A migration touches its own tables under the cache mutex alone, whatever readers do.
RtMayMigrate == rtEdits < RtMaxEdits /\ rtEdits' = rtEdits + 1

BeginMigration(k, from, to) ==
    /\ RtMayMigrate
    /\ rtMoving' = RtPut(rtMoving, k, <<from, to>>)
    /\ UNCHANGED <<rtFixed, rtRing, rtNodes, rtCache, rtPinned, rtPlaced, rtRecent, rtReader,
                   rtEdit, rtData>>

EndMigration(k) ==
    /\ k \in DOMAIN rtMoving
    /\ rtRecent' = RtPut(rtRecent, k, rtMoving[k]) /\ rtMoving' = RtDrop(rtMoving, {k})
    /\ UNCHANGED <<rtFixed, rtRing, rtNodes, rtCache, rtPinned, rtPlaced, rtReader, rtEdit,
                   rtData, rtEdits>>

CommitMigration(k) ==
    /\ k \in DOMAIN rtMoving
    /\ rtPinned' = RtPut(rtPinned, k, rtMoving[k][2]) /\ rtMoving' = RtDrop(rtMoving, {k})
    /\ rtRecent' = RtDrop(rtRecent, {k}) /\ rtCache' = RtDrop(rtCache, {k})
    /\ UNCHANGED <<rtFixed, rtRing, rtNodes, rtPlaced, rtReader, rtEdit, rtData, rtEdits>>

AbortMigration(k) ==
    /\ k \in DOMAIN rtMoving
    /\ rtMoving' = RtDrop(rtMoving, {k})
    /\ UNCHANGED <<rtFixed, rtRing, rtNodes, rtCache, rtPinned, rtPlaced, rtRecent, rtReader,
                   rtEdit, rtData, rtEdits>>

\* recently_migrated, asked after the grace period.
RecentlyMigrated(k) ==
    /\ k \in DOMAIN rtRecent
    /\ rtRecent' = RtDrop(rtRecent, {k})
    /\ UNCHANGED <<rtFixed, rtRing, rtNodes, rtCache, rtPinned, rtPlaced, rtMoving, rtReader,
                   rtEdit, rtData, rtEdits>>

\* ClusterNode::ingest_tick: a key that is moving is written at both its nodes, another one at
\* the node it is pinned to or that owns it; a replicated write also reaches the replica.
RtWrite(k) ==
    /\ rtEdit = RtNone /\ rtEdits < RtMaxEdits /\ rtEdits' = rtEdits + 1 /\ DOMAIN rtRing # {}
    /\ LET h == rtLayout.key[k]
           owners == IF k \in DOMAIN rtMoving THEN {rtMoving[k][1], rtMoving[k][2]}
                     ELSE IF k \in DOMAIN rtPinned THEN {rtPinned[k]}
                     ELSE {FindNode(rtRing, h), RouteReplica(rtRing, rtNodes, h)} IN
       rtStored' = [n \in RtNodes |-> IF n \in owners THEN rtStored[n] \cup {k} ELSE rtStored[n]]
    /\ UNCHANGED <<rtFixed, rtRing, rtNodes, rtCache, rtPinned, rtPlaced, rtMoving, rtRecent,
                   rtReader, rtEdit, rtJob>>

-----------------------------------------------------------------------------
(* FailoverManager                                                         *)

\* trigger_failover: the plan, the bare edit, and one re-replication target for each node that
\* takes over.  The replica is looked up for the representative symbol of the move (the low bits
\* of a virtual node's hash), which may hash anywhere: any other node of the ring.
\* QueryCoordinator::remove_node then finds the node gone from the ring and edits nothing.
TriggerFailover(n) ==
    /\ RtMayEdit("bare")
    /\ n \in rtNodes /\ rtJob = {}
    /\ rtNodes' = rtNodes \ {n} /\ rtRing' = RingWithout(rtRing, n)
    /\ rtEdit' = "bare"
    /\ \E to \in [{m[2] : m \in PlanRemove(n)} -> RtNodes] :
         /\ \A p \in DOMAIN to : to[p] \in rtNodes'
         /\ rtJob' = IF Cardinality(rtNodes') < 2 THEN {}
                      ELSE {<<p, to[p]>> : p \in {q \in DOMAIN to : to[q] # q}}
    /\ UNCHANGED <<rtFixed, rtCache, rtPinned, rtPlaced, rtMoving, rtRecent, rtReader, rtStored>>

\* run_re_replication: migrate_symbol(0, new_primary, new_replica) for each target; it may fail.
ReReplicate(p, q) ==
    /\ <<p, q>> \in rtJob
    /\ rtJob' = rtJob \ {<<p, q>>}
    /\ rtStored' \in {rtStored, [rtStored EXCEPT ![q] = @ \cup (rtStored[p] \cap {0})]}
    /\ UNCHANGED <<rtFixed, rtRing, rtNodes, rtCache, rtPinned, rtPlaced, rtMoving, rtRecent,
                   rtReader, rtEdit, rtEdits>>

-----------------------------------------------------------------------------
RtRead == \E r \in RtReaders :
    \/ \E t \in RtTables, s \in RtSymbols : RtBegin(r, t, s)
    \/ RtCheckPin(r) \/ RtCheckEmpty(r) \/ RtCheckCache(r) \/ RtFind(r) \/ RtStore(r)

RtControl ==
    \/ \E n \in RtNodes, how \in {"held", "bare"} : AddNode(n, how) \/ RemoveNode(n, how)
    \/ ClearCache
    \/ \E t \in RtTables \ {0}, p \in RtNodes \cup {"hash", RtNone} : SetTablePlacement(t, p)
    \/ \E k \in RtKeys, n \in RtNodes \cup {RtNone} : PinSymbol(k, n)

RtMigrate == \E k \in RtKeys :
    \/ \E m, n \in RtNodes : m # n /\ BeginMigration(k, m, n)
    \/ EndMigration(k) \/ CommitMigration(k) \/ AbortMigration(k) \/ RecentlyMigrated(k)

RtFailover == \/ \E n \in RtNodes : TriggerFailover(n)
              \/ \E p, q \in RtNodes : ReReplicate(p, q)
              \/ \E k \in RtKeys : RtWrite(k)

RtNext == RtRead \/ RtControl \/ RtMigrate \/ RtFailover

-----------------------------------------------------------------------------
(* Properties                                                              *)

RtAgrees == \A k \in DOMAIN rtCache :
    DOMAIN rtRing # {} /\ rtCache[k] = FindNode(rtRing, rtLayout.key[k])

\* While every edit of the ring is made under the router mutex, the routing cache never
\* contradicts the ring once an edit is over, although route() stores its answer in a lock
\* section after the one in which it found it: no reader is sent to a node the ring has left.
CacheFollowsRing == ~rtBare /\ rtEdit = RtNone => RtAgrees

\* "Thread-safe: cache reads/writes protected by cache_mutex_" (route): with the edits of the
\* rebalance and failover managers too, what the cache answers is what the ring says.
RouteFollowsRing == rtEdit = RtNone => RtAgrees

\* A change of membership moves only what it has to: a removed node's keys go to the nodes
\* route_replica named for them, so replicas are promoted; an added node only takes keys for
\* itself; every key that changes owner does so along a (from, to) pair of plan_add or
\* plan_remove, and no other key changes owner.
RingPromotes ==
    rtRing' # rtRing => \A k \in RtKeys :
        LET h == rtLayout.key[k]
            old == FindNode(rtRing, h)
            new == FindNode(rtRing', h) IN
        DOMAIN rtRing # {} /\ DOMAIN rtRing' # {} /\ old # new =>
            \/ \E n \in rtNodes' \ rtNodes : new = n /\ <<old, new>> \in PlanAdd(n)
            \/ \E n \in rtNodes \ rtNodes' :
                 old = n /\ <<old, new>> \in PlanRemove(n) /\ new = RouteReplica(rtRing, rtNodes, h)

\* Routing follows the membership: no step leaves the cache behind the ring, or moves a key
\* where neither the plans nor the replicas are (route, add_node, remove_node).
RoutingFollows == [][CacheFollowsRing' /\ RingPromotes]_rtVars

\* "WAL-based re-replication: copy data from promoted primary to new replica" (FailoverManager):
\* a re-replication that copied something copied every key the promoted primary owns.
ReplicaIsWhole ==
    [][\A m \in rtJob \ rtJob' : rtStored'[m[2]] # rtStored[m[2]] =>
         \A k \in rtStored[m[1]] :
            FindNode(rtRing, rtLayout.key[k]) = m[1] => k \in rtStored'[m[2]]]_rtVars
=============================================================================
