------------------------------ MODULE AgentWal ------------------------------
(***************************************************************************)
(* How the HTTP server makes agent memories durable: the write-ahead log   *)
(* of PREPARE and COMMIT records, its replicas, the snapshot that          *)
(* truncates it, restart, and the adoption of a dead owner's shard by its  *)
(* successor (src/src/server/http_server.cpp, set_agent_memory_persistence *)
(* to handle_agent_memory_replica_append_rpc and the HTTP routes that call *)
(* them).                                                                  *)
(*                                                                         *)
(* One owner serves requests on several threads; AwReplicas are the other  *)
(* nodes of its ring.  A memory or cache entry is an id with a value, 0    *)
(* for absent, and a delete or an eviction tombstone is the value 0, so    *)
(* one action models the put, the store and the delete handlers alike.     *)
(* agent_memory_persist_mu_ is held for one WAL append or one snapshot at  *)
(* a time, never across a request.  Two requests in flight are on          *)
(* different ids, and one that may evict runs alone.                       *)
(***************************************************************************)
EXTENDS Integers, Sequences, FiniteSets, SequencesExt, FiniteSetsExt

CONSTANTS AwIds,        \* memory ids, ordered as eviction ranks them
          AwVals,       \* values, positive
          AwThreads,    \* HTTP and RPC threads, numbered
          AwReplicas,   \* node ids above the owner's
          AwSetups,     \* configurations: [mode, flush, cap], and a bound on requests: ops
          AwMaxFaults   \* bound: failed writes, lost messages, crashes

ASSUME AwConstants ==
    /\ AwIds \cup AwThreads \subseteq Nat /\ AwVals \subseteq Nat \ {0}
    /\ IsFiniteSet(AwReplicas) /\ AwReplicas \subseteq Nat
    /\ AwSetups \subseteq [mode : {"Routed", "Quorum", "Sync"}, flush : Nat, cap : Nat, ops : Nat]
    /\ AwMaxFaults \in Nat

VARIABLES awMode,     \* agent_memory_replication_mode_
          awFlush,    \* agent_memory_flush_every_mutations_
          awCap,      \* eviction_config_.max_memories
          awUp,       \* the owner: "up", "stopping", "down", "refused" to start, "dead"
          awStore,    \* agent_memory_: id -> value
          awDisk,     \* the shard directory: [snap, have, wal]
          awDirty,    \* agent_memory_dirty_mutations_
          awTx,       \* agent_memory_wal_tx_counter_
          awReq,      \* a request per thread
          awLive,     \* the replicas in the router
          awEpoch,    \* ring epoch
          awRep,      \* per replica, its copy of the owner's directory
          awAdopted,  \* what the successor made of it: [state, map]
          awLeft,     \* requests still to come
          awFaults,
          awMay,      \* history: the values a restart may show for an id
          awMayRep,   \* history: the values an adoption may show
          awCut,      \* history: a log was cut under a request, or has diverged from the store
          awTorn      \* history: a crash fell inside a file operation

awPlace == <<awMode, awFlush, awCap>>
awRing == <<awLive, awEpoch>>
awHist == <<awMay, awMayRep, awCut, awTorn>>
awVars == <<awPlace, awUp, awStore, awDisk, awDirty, awTx, awReq, awRing, awRep,
            awAdopted, awLeft, awFaults, awHist>>

Present(map) == {i \in AwIds : map[i] # 0}
AwEmpty == [i \in AwIds |-> 0]
AwIdle == [pc |-> "idle", id |-> 0, prev |-> 0, evs |-> <<>>, muts |-> <<>>,
           tx |-> 0, done |-> 0, self |-> FALSE]
Busy(t) == awReq[t].pc # "idle"
Fault == awFaults < AwMaxFaults /\ awFaults' = awFaults + 1
NoFault == UNCHANGED awFaults
Serving == awUp \in {"up", "stopping"}

(***************************************************************************)
(* Log records.  A mutation is the id and the value it leaves.             *)
(***************************************************************************)
PrepareRecord(tx, m) == [type |-> "prep", tx |-> tx, id |-> m.id, val |-> m.val]
CommitRecord(tx) == [type |-> "commit", tx |-> tx, id |-> 0, val |-> 0]

\* persist_agent_memory_delete_mutation_ and its cache sibling log an absence.
Tombstone(id) == [id |-> id, val |-> 0]

\* append_agent_memory_wal_record_to_dir, at the owner and at a replica.
Logged(dir, rec) == [dir EXCEPT !.wal = Append(@, rec)]

\* The manifest names the epoch of the owner that wrote the directory last.
Manifested(dir, epoch) == [dir EXCEPT !.epoch = epoch]

(***************************************************************************)
(* Replay.                                                                 *)
(***************************************************************************)
\* put_memory of a value, evicting lowest-ranked entries while over the limit;
\* remove_memory, which evicts nothing.
Put(map, id, val, cap) ==
    LET m == [map EXCEPT ![id] = val]
        above(i) == {j \in Present(m) : j > i}
    IN [i \in AwIds |-> IF val = 0 \/ Cardinality(above(i)) < cap THEN m[i] ELSE 0]

\* A bug: replay applies a mutation as soon as it is prepared.
ReplayEager(acc, r) ==
    IF r.type = "commit" THEN acc
    ELSE [acc EXCEPT !.map = Put(acc.map, r.id, r.val, acc.cap)]

\* One record of replay_agent_memory_wal_into_store: a commit applies what its
\* transaction prepared, and is an error when nothing did.
ReplayRecord(acc, r) ==
    LET mine == {p \in acc.prep : p.tx = r.tx}
    IN CASE ~acc.ok -> acc
         [] acc.ok /\ r.type = "prep" ->
              [acc EXCEPT !.prep = (@ \ mine) \cup {r}]
         [] acc.ok /\ r.type = "commit" /\ mine = {} -> [acc EXCEPT !.ok = FALSE]
         [] OTHER -> LET p == CHOOSE p \in mine : TRUE
                     IN [acc EXCEPT !.prep = @ \ mine,
                                    !.map = Put(@, p.id, p.val, acc.cap)]

Replay(map, wal, cap) ==
    FoldLeft(ReplayRecord, [ok |-> TRUE, prep |-> {}, map |-> map, cap |-> cap], wal)

(***************************************************************************)
(* A request.  The store changes first; then every mutation, the request's *)
(* own before the tombstones of what it evicted, is prepared, replicated,  *)
(* committed and counted.                                                  *)
(***************************************************************************)
AwInit ==
    /\ \E c \in AwSetups : awMode = c.mode /\ awFlush = c.flush /\ awCap = c.cap /\ awLeft = c.ops
    /\ awUp = "up" /\ awStore = AwEmpty
    /\ awDisk = [snap |-> AwEmpty, have |-> FALSE, wal |-> <<>>]
    /\ awDirty = 0 /\ awTx = 1
    /\ awReq = [t \in AwThreads |-> AwIdle]
    /\ awLive = AwReplicas /\ awEpoch = 1
    /\ awRep = [r \in AwReplicas |-> [wal |-> <<>>, epoch |-> 0]]
    /\ awAdopted = [state |-> "no", map |-> AwEmpty]
    /\ awFaults = 0
    /\ awMay = [i \in AwIds |-> {0}] /\ awMayRep = [i \in AwIds |-> {0}]
    /\ awCut = FALSE /\ awTorn = FALSE

InFlight == UNION {{m.id : m \in Range(awReq[t].muts)} : t \in AwThreads}

\* A request up to its first append: the previous value, the change in memory,
\* and what it evicted.  Idle threads are alike, so the first one takes it.
AwBegin(t, id, val) ==
    LET after == Put(awStore, id, val, awCap)
        lost == Present(awStore) \ ({id} \cup Present(after))
        evs == [i \in 1..Cardinality(lost) |->
                  LET v == SetToSortSeq(lost, <)[i] IN [id |-> v, val |-> awStore[v]]]
        muts == <<[id |-> id, val |-> after[id]]>>
                \o [i \in DOMAIN evs |-> Tombstone(evs[i].id)]
    IN /\ Serving /\ (\E u \in AwThreads : ~Busy(u))
       /\ t = Min({u \in AwThreads : ~Busy(u)}) /\ awLeft > 0
       /\ id \notin InFlight
       /\ Cardinality(Present(awStore) \cup InFlight \cup {id}) > awCap => InFlight = {}
       /\ awStore' = after
       /\ awReq' = [awReq EXCEPT ![t] =
            [pc |-> "prep", id |-> id, prev |-> awStore[id], evs |-> evs,
             muts |-> muts, tx |-> 0, done |-> 0, self |-> val # after[id]]]
       /\ awLeft' = awLeft - 1
       /\ UNCHANGED <<awPlace, awUp, awDisk, awDirty, awTx, awRing, awRep,
                      awAdopted, awFaults, awHist>>

\* handle_agent_memory_put_rpc and handle_agent_memory_cache_store_rpc
AwPutRpc(t, id) == \E val \in AwVals : AwBegin(t, id, val)

\* handle_agent_memory_delete_rpc and its cache sibling answer false, and write
\* nothing, when the entry is not there.
AwDeleteRpc(t, id) == awStore[id] # 0 /\ AwBegin(t, id, 0)

Mut(t) == awReq[t].muts[awReq[t].done + 1]
\* What a failed step undoes: the request's own mutation and everything it
\* evicted, or, from the tombstones on, the evictions not yet durable.  A put
\* that evicted itself (stored_evicted) has only a tombstone, and is not
\* undone.
Rollback(q, map) ==
    LET from == IF q.done = 0 THEN 1 ELSE q.done
        back == {q.evs[i] : i \in {j \in DOMAIN q.evs : j >= from}}
        own == IF q.done = 0 /\ ~q.self THEN [map EXCEPT ![q.id] = q.prev] ELSE map
    IN [i \in AwIds |-> IF own[i] = 0 /\ \E e \in back : e.id = i
                        THEN (CHOOSE e \in back : e.id = i).val ELSE own[i]]

AwFail(t) ==
    /\ awStore' = Rollback(awReq[t], awStore)
    /\ awReq' = [awReq EXCEPT ![t] = AwIdle]
    /\ UNCHANGED <<awUp, awRing, awRep, awAdopted, awLeft>>

Go(t, pc) == awReq' = [awReq EXCEPT ![t].pc = pc]

\* The local PREPARE.  A put reads its record back from the store first.
AwPrepare(t) ==
    LET q == awReq[t]
        gone == q.done = 0 /\ Mut(t).val # 0 /\ awStore[q.id] = 0
    IN /\ q.pc = "prep"
       /\ UNCHANGED <<awPlace, awDirty, awHist>>
       /\ \/ /\ ~gone /\ NoFault
             /\ awDisk' = Logged(awDisk, PrepareRecord(awTx, Mut(t)))
             /\ awTx' = awTx + 1
             /\ awReq' = [awReq EXCEPT ![t].pc = "rprep", ![t].tx = awTx]
             /\ UNCHANGED <<awUp, awStore, awRing, awRep, awAdopted, awLeft>>
          \/ /\ gone /\ NoFault /\ AwFail(t) /\ UNCHANGED <<awDisk, awTx>>
          \/ /\ ~gone /\ Fault /\ AwFail(t)
             /\ awTx' = awTx + 1 /\ UNCHANGED awDisk

\* AgentMemoryReplicaAppendRecord: what the owner sends of a record.
ReplicaAppend(rec) == [wal |-> rec, epoch |-> awEpoch]

\* handle_agent_memory_replica_append_rpc: into the owner's directory as the
\* replica keeps it, if the manifest there carries the owner's epoch.
Accepts(r) == awRep[r].epoch \in {0, awEpoch}
Stored(msg, got) ==
    [r \in AwReplicas |->
       IF r \in got THEN Manifested(Logged(awRep[r], msg.wal), msg.epoch) ELSE awRep[r]]

\* replicate_agent_memory_wal_record_: every node for Sync, a majority with the
\* owner's own record for Quorum.
EnoughAcks(acked) ==
    Cardinality(acked) >= IF awMode = "Sync" THEN Cardinality(awLive)
                          ELSE (Cardinality(awLive) + 1) \div 2

\* A replica that cannot be reached stores nothing; one whose answer is lost
\* stores the record and is not counted.
AwReplicate(t) ==
    LET q == awReq[t]
        phase == IF q.pc = "rprep" THEN "prep" ELSE "commit"
        rec == IF phase = "prep" THEN PrepareRecord(q.tx, Mut(t)) ELSE CommitRecord(q.tx)
        open == {r \in awLive : Accepts(r)}
        next == IF phase = "prep" THEN "rcommit" ELSE "commit"
        sent(got) == /\ awRep' = Stored(ReplicaAppend(rec), got)
                     /\ awMayRep' = IF phase = "commit" /\ got # {}
                                    THEN [awMayRep EXCEPT ![Mut(t).id] = @ \cup {Mut(t).val}]
                                    ELSE awMayRep
    IN /\ q.pc \in {"rprep", "rcommit"}
       /\ \/ awMode = "Routed" /\ NoFault /\ Go(t, next)
             /\ UNCHANGED <<awRep, awMayRep, awStore>>
          \/ /\ awMode # "Routed"
             /\ \E got \in SUBSET open : \E acked \in SUBSET got :
                  /\ IF acked = open THEN NoFault ELSE Fault
                  /\ sent(got)
                  /\ IF EnoughAcks(acked)
                     THEN Go(t, next) /\ UNCHANGED awStore
                     ELSE /\ awStore' = Rollback(q, awStore)
                          /\ awReq' = [awReq EXCEPT ![t] = AwIdle]
       /\ UNCHANGED <<awPlace, awUp, awDisk, awDirty, awTx, awRing, awAdopted, awLeft,
                      awMay, awCut, awTorn>>

\* The local COMMIT.  What the request evicted may be gone from now on: replay
\* evicts it again when it comes to this record.
AwCommit(t) ==
    /\ awReq[t].pc = "commit"
    /\ \/ /\ NoFault
          /\ awDisk' = Logged(awDisk, CommitRecord(awReq[t].tx))
          /\ awMay' = [i \in AwIds |-> awMay[i] \cup
                          {e.val : e \in {m \in Range(awReq[t].muts) : m.id = i}}]
          /\ Go(t, "dirty")
          /\ UNCHANGED <<awUp, awStore, awTx, awRing, awRep, awAdopted, awLeft>>
       \/ Fault /\ AwFail(t) /\ UNCHANGED <<awDisk, awTx, awMay>>
    /\ UNCHANGED <<awPlace, awDirty, awMayRep, awCut, awTorn>>

\* persist_agent_memory_snapshot_: save the store, write the manifest, drop the
\* log.  Requests between their PREPARE and their COMMIT are not waited for.
Saved == [awDisk EXCEPT !.snap = awStore, !.have = TRUE]
Published == [Saved EXCEPT !.wal = <<>>]
Shown == [i \in AwIds |-> IF i \in InFlight THEN awMay[i] \cup {awStore[i]}
                          ELSE awMay[i]]

\* In a store with a limit, replay evicts for what it finds in the snapshot or puts back for a
\* while, though the store does not hold it any more.
Limited == awCap < Cardinality(AwIds)

\* A snapshot cuts the log under a request, or keeps a write that may yet be undone.
CutsSomeone(but) ==
    \E u \in AwThreads \ but :
        awReq[u].pc \in {"rprep", "rcommit", "commit"} \/ (Limited /\ awReq[u].pc = "prep")

\* The log is about to be replayed over a snapshot or a store that already holds
\* its writes, or holds a write the store has undone.
Diverged == awCut \/ Limited

FlushDue == awFlush # 0 /\ awDirty + 1 >= awFlush

\* mark_agent_memory_dirty_ and what follows it: the next mutation, or the
\* answer.  A snapshot that fails, before or after its files replaced the old
\* ones, fails the request whose commit is on disk.
AwCount(t) ==
    LET q == awReq[t]
        due == FlushDue
        last == q.done + 1 = Len(q.muts)
        acked(may) == [i \in AwIds |->
                         CASE i = q.id -> {q.muts[1].val}
                           [] \E e \in Range(q.evs) : e.id = i -> {0}
                           [] OTHER -> may[i]]
    IN /\ q.pc = "dirty"
       /\ \/ /\ NoFault
             /\ awDisk' = IF due THEN Published ELSE awDisk
             /\ awCut' = (awCut \/ (due /\ CutsSomeone({t})))
             /\ awDirty' = IF due THEN 0 ELSE awDirty + 1
             /\ awReq' = IF last THEN [awReq EXCEPT ![t] = AwIdle]
                         ELSE [awReq EXCEPT ![t].pc = "prep", ![t].done = @ + 1]
             /\ awMay' = LET may == IF due THEN Shown ELSE awMay
                         IN IF last THEN acked(may) ELSE may
             /\ awMayRep' = IF last THEN acked(awMayRep) ELSE awMayRep
             /\ UNCHANGED <<awUp, awStore, awTx, awRing, awRep, awAdopted, awLeft>>
          \/ /\ due /\ Fault /\ AwFail(t)
             /\ awDirty' = awDirty + 1
             /\ \/ UNCHANGED <<awDisk, awMay>>
                \/ awDisk' = Saved /\ awMay' = Shown
             /\ awCut' = Diverged
             /\ UNCHANGED <<awTx, awMayRep>>
       /\ UNCHANGED <<awPlace, awTorn>>

(***************************************************************************)
(* Crash, restart, failover.                                               *)
(***************************************************************************)

\* Files are replaced by remove and rename and appended to in place, so a crash
\* inside one of those leaves a directory that startup turns down.  One that
\* falls after the snapshot's files and before the log's removal leaves both.
AwCrash ==
    /\ Serving /\ Fault
    /\ awUp' = "down"
    /\ awStore' = AwEmpty
    /\ awReq' = [t \in AwThreads |-> AwIdle]
    /\ \E torn \in BOOLEAN :
         /\ torn => \E t \in AwThreads : awReq[t].pc \in {"prep", "commit", "dirty"}
         /\ awTorn' = (awTorn \/ torn)
    /\ \/ UNCHANGED <<awDisk, awMay, awCut>>
       \/ /\ \E t \in AwThreads : awReq[t].pc = "dirty" /\ FlushDue
          /\ awDisk' = Saved /\ awMay' = Shown /\ awCut' = Diverged
    /\ UNCHANGED <<awPlace, awDirty, awTx, awRing, awRep, awAdopted, awLeft, awMayRep>>

\* A forced snapshot outside a request: done, or failed before or after its files replaced
\* the old ones.
Forced ==
    \/ /\ awDisk' = Published /\ awMay' = Shown /\ awDirty' = 0
       /\ awCut' = (awCut \/ CutsSomeone({}))
    \/ UNCHANGED <<awDisk, awMay, awDirty, awCut>>
    \/ awDisk' = Saved /\ awMay' = Shown /\ awCut' = Diverged /\ UNCHANGED awDirty

\* stop(): a last snapshot, whose failure is only logged, while requests still run; then the
\* end of the HTTP threads.
AwStop ==
    /\ awUp = "up" /\ Fault
    /\ Forced /\ awUp' = "stopping"
    /\ UNCHANGED <<awPlace, awStore, awTx, awReq, awRing, awRep, awAdopted, awLeft, awMayRep,
                   awTorn>>

AwStopped ==
    /\ awUp = "stopping" /\ \A t \in AwThreads : ~Busy(t)
    /\ awUp' = "down" /\ awStore' = AwEmpty
    /\ UNCHANGED <<awPlace, awDisk, awDirty, awTx, awReq, awRing, awRep, awAdopted, awLeft,
                   awFaults, awHist>>

\* load_from_directory leaves the store alone when there is no snapshot.
Loaded(map) == IF awDisk.have THEN awDisk.snap ELSE map

\* set_agent_memory_persistence on a fresh process: the transaction counter
\* starts over.
AwRestart ==
    LET r == Replay(Loaded(AwEmpty), awDisk.wal, awCap)
        good == r.ok /\ ~awTorn
    IN /\ awUp = "down"
       /\ awUp' = IF good THEN "up" ELSE "refused"
       /\ awStore' = IF good THEN r.map ELSE AwEmpty
       /\ awDirty' = 0 /\ awTx' = 1
       /\ UNCHANGED <<awPlace, awDisk, awReq, awRing, awRep, awAdopted, awLeft,
                      awFaults, awHist>>

\* handle_agent_memory_owner_failover at this owner for another node: the ring
\* without it under the next epoch, the store loaded again from disk, and a
\* snapshot.  A load that fails leaves the routing as it was, a snapshot that
\* fails leaves the new one.
AwPeerFailover(r) ==
    LET l == Replay(Loaded(awStore), awDisk.wal, awCap)
    IN /\ awUp = "up" /\ awAdopted.state = "no"
       /\ r \in awLive /\ awLive # {r} /\ Fault
       /\ awStore' = l.map
       /\ IF l.ok
          THEN /\ awLive' = awLive \ {r} /\ awEpoch' = awEpoch + 1
               /\ awDirty' = 0
               /\ LET saved == [snap |-> l.map, have |-> TRUE, wal |-> awDisk.wal]
                  IN awDisk' \in {[saved EXCEPT !.wal = <<>>], saved, awDisk}
               /\ awCut' = (\/ IF awDisk.have /\ awDisk'.wal = <<>> THEN awCut ELSE Diverged
                            \/ \E t \in AwThreads : Busy(t))
          ELSE UNCHANGED <<awRing, awDisk, awDirty, awCut>>
       /\ UNCHANGED <<awPlace, awUp, awTx, awReq, awRep, awAdopted, awLeft, awMay,
                      awMayRep, awTorn>>

\* The next node id among the survivors takes the shard over.
Successor(live) == Min(live)

\* adopt_agent_memory_owner_shard at the successor, from its own copy, through
\* a temporary store without limits.
AwAdopt ==
    LET copy == awRep[Successor(awLive)]
        r == Replay(AwEmpty, copy.wal, Cardinality(AwIds))
    IN /\ awUp \in {"down", "refused"}
       /\ awUp' = "dead"
       /\ awAdopted' =
            CASE copy.wal = <<>> -> [state |-> "empty", map |-> AwEmpty]
              [] copy.wal # <<>> /\ copy.epoch = awEpoch /\ r.ok ->
                   [state |-> "adopted", map |-> r.map]
              [] OTHER -> [state |-> "degraded", map |-> AwEmpty]
       /\ UNCHANGED <<awPlace, awStore, awDisk, awDirty, awTx, awReq, awRing, awRep,
                      awLeft, awFaults, awHist>>

AwNext ==
    \/ \E t \in AwThreads :
         \/ \E id \in AwIds : AwPutRpc(t, id) \/ AwDeleteRpc(t, id)
         \/ AwPrepare(t) \/ AwReplicate(t) \/ AwCommit(t) \/ AwCount(t)
    \/ AwCrash \/ AwStop \/ AwStopped \/ AwRestart \/ AwAdopt
    \/ \E r \in AwReplicas : AwPeerFailover(r)

(***************************************************************************)
(* What the log promises.                                                  *)
(***************************************************************************)

\* Whenever no request is running, the store shows for every id the value last
\* acknowledged: after a crash, a restart or a reload, and after a write that
\* failed, was rolled back and left an orphaned PREPARE behind.  Only a write
\* whose COMMIT was on disk when its request died or its snapshot failed, or
\* that another request's snapshot caught in memory, may show either value.
\* And a restart turns its own directory down only when a crash fell inside a
\* file operation.  Set apart from both are a log truncated under a request
\* (RestartAccepts) and, in a store with a limit, one that has diverged from
\* the store (Diverged).
AckedSurvive ==
    ~awCut =>
      /\ Serving /\ (\A t \in AwThreads : ~Busy(t)) =>
           \A i \in AwIds : awStore[i] \in awMay[i]
      /\ awUp = "refused" => awTorn

\* Under Sync the successor of a dead owner finds in its own copy of the log
\* every write that was acknowledged, tombstones included, though the owner's
\* transaction ids start over at every restart.
SyncAdoptsAll ==
    awMode = "Sync" /\ awAdopted.state = "adopted" =>
        \A i \in AwIds : awAdopted.map[i] \in awMayRep[i]

\* A write the server acknowledged outlives the server, on its own disk and on its successor
\* (append_agent_memory_wal_, replay_agent_memory_wal, the replicated log).
AgentDurable == AckedSurvive /\ SyncAdoptsAll

\* What the design says of replay: it applies committed records and ignores
\* trailing prepared ones, so a directory no crash has torn is always loaded.
RestartAccepts == awUp = "refused" => awTorn
=============================================================================
