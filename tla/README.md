# ZeptoDB: TLA+ models, TLC runs and TLAPS proofs

ZeptoDB is an in-memory time-series database in C++. A tick enters over the network, from a
feed or by an embedded call, goes through a lock-free queue into hourly partitions, is flushed
to disk and snapshotted, is queried with SQL, and in a cluster is routed, replicated and moved
between nodes. Around it stand an HTTP server with sessions, keys and tenants, an agent-memory
store, and connectors that run on worker threads. This directory models the parts whose
correctness depends on the order in which threads, messages and crashes happen, and the
algorithms of the SQL engine as functions of their inputs. TLC checks the models on small
instances; TLAPS proves safety properties of thirteen of them for every value of the constants.

Contents: [The system](#the-system) · [Modules](#modules) · [Runs](#runs) ·
[Fairness](#fairness) · [Proofs](#proofs) ·
[Where the code and its documentation disagree](#where-the-code-and-its-documentation-disagree) ·
[Where the SQL engine departs from the statement](#where-the-sql-engine-departs-from-the-statement) ·
[Other departures](#other-departures) · [Abstractions and limits](#abstractions-and-limits) ·
[Not modelled](#not-modelled)

To check everything from this directory:

    tlc -workers 2 -config tick_plant.cfg TickPlant       # and so on, one cfg per run
    tlapm TickPlantProofs.tla                             # and the other *Proofs modules

`PROJECT.json` lists all parts of the repository with their files and status, the lines each
definition stands for, a mutation of the code for every property, and forty hazards, each at the
line where it bites and with the properties that would catch it.

## The system

One node:

    feeds, HTTP, Flight, RPC ──> ingest_tick ──> TickPlant (MPMC ring) ──> drain threads
                                      └── queue full: direct ──┐                │
                                                               └─> store_tick <─┘
                                                                       │
    SQL text ──> parser ──> executor: SELECT, joins, DDL, DML ──> partitions
                                       flush thread: seal, HDB, TTL, tiers; snapshots, CURRENT

A cluster:

    HealthMonitor ──states──> ClusterNode ──edits──> PartitionRouter (ring, pins, migrations)
    RingConsensus: the coordinator's ring, broadcast to every node
    RebalanceManager ──moves──> PartitionMigrator ──dual write──> ClusterNode::ingest_tick
    QueryCoordinator: routes, scatters and merges statements over RpcTransport
    WalReplicator: ticks of a node to its replicas
    CoordinatorHA: which of two coordinators is active; lease; fencing epoch

The HTTP server:

    request ──> session or API key ──> tenant slot ──> tracked query ──> executor
    agent memory: store + ANN index, write-ahead log with replicas, routing over servers
    edge-to-fleet connector, action-outcome supervisor: workers over SQL tables

## Modules

Every module declares its bounds as constants. Most choose one of a few configurations
(`stSetup`, `config_`, ...) in `Init`, so that one run covers several deployments. An operator
introduced by "A bug:" is a plausible mistake in the action that follows it. It is not
part of `Next`; replacing the action by it breaks a property. A name that several modules of
one run would share carries a prefix (`StInit`, `rcSetup`). Each of the eight MC modules puts the components
of a run side by side: a variable `subject` chosen in `Init` says which one moves, so that the
runs are sums of the components' state spaces and not products. Components that interact are
composed inside one module (`IngestPipeline` over `TickPlant`, migration beside ingestion,
router beside failover, coordinator beside catalogs).

### Ingestion and storage

**TickPlant, TickQueue** (`tick_plant.{h,cpp}`, `ring_buffer.h`). `TickPlant` has one action per
atomic instruction of `try_push` and `try_pop`: `PushReserve` (fetch_add), `PushClaim`/`PushFull`
(compare-exchange on the slot), `PushWrite`, `PushPublish`; `PopLoad`, `PopEmpty`/`PopClaim`,
`PopAdvance`, `PopRead`, `PopClear`. A tick is its sequence number. The histories `accepted`,
`rejected` and `delivered` record what calls returned; no guard reads them. `TickQueue` is what the
plant promises: a bounded bag in which a tick is accepted or refused once and taken at
most once. It promises no order, because the ring keeps none once a push has failed.

**IngestPipeline** (`pipeline.cpp`). Extends `TickPlant` with `ingest_tick` (`TickIngest`,
`IngestQueued`, `IngestBypass`), the drain threads (`DrainOuter`, `DrainConsume`, `DrainStore`,
`DrainBreak`) and `stop()` (`StopSignal`, `StopJoined`, `DrainSync*`). A stored row remembers whether
it carries the stamps of `TickPlant::ingest`. `PipelineInv` is the inductive invariant of the proofs.

**PartitionStore** (`partition_manager.*`, `flush_manager.cpp`, `pipeline.cpp`). The partitions of one
symbol. Objects have an identity apart from their hour, because an evicted hour may be created
anew while a thread still holds the old object. Writers: `GetOrCreate`, `AppendRow`, `LimitCheck`,
`LimitEvict`. Flush thread: `SealOld`, `CollectSealed`, `BeginFlush`, `WriteHdb`, `EndFlush`, `TtlEvict`,
`RebuildIndex`, `TierCollect`, `TierOne`, `TierDone`. SQL: `SqlEvict`, `SqlRebuild`. `ClockTick` is the hour.

**SnapshotStore** (`flush_manager.*`, `pipeline.cpp`). `do_snapshot` file by file (`BeginSnapshot`,
`SnapPartition`, `WriteComplete`, `PublishCurrent`, `Cleanup`), `Stop` with its final snapshot,
`Crash` between any two steps, and recovery (`Start`, `RecoverPartition`, `RecoverDone`,
`RecoverError`) with its all-or-nothing totals.

**BatchIngest** (`msgpack_ingest.cpp`, `arrow_ipc.cpp`, `flight_server.cpp`, `http_server.cpp`). MessagePack, Arrow and
Flight batches: the decoder with its depth limit, the conversions of integers and fractions to a narrow int64 (`BiMax`
stands for INT64_MAX, `BiExact` for 2^53), atomic and row-by-row storing, and the limits of Flight reads.

### Cluster

**HealthMonitor** (`health_monitor.h`, `cluster_node.h`). Two receive threads (`Heartbeat`) and the check
thread (`CheckDecide`, `Probe`, `CheckApply`) decide under `state_mutex_` and apply later: `Transition`
sets the state, `Callback` edits the ring, `Sync` is the rejoin callback. `AddPeer` is `add_peer`. A node met by heartbeat
has no address (`hmAddr`) and is not probed. `Silence`, `Die`, `HmRestart` are the environment.

**CoordinatorHA** (`coordinator_ha.*`, `k8s_lease.h`, `query_coordinator.cpp`). `PingOk`, `PingFails`,
`TryPromote` (monitor thread), `LeaseLoop` (lease thread with its callbacks),
`RegisterFirst`/`RegisterSecond` (the two halves of add and remove), `Write` (a data node's
fencing test), `Crash`, `HaRestart`.

**RingConsensus** (`ring_consensus.h`, `tcp_rpc.cpp`). `Propose`, `Advance`, `TakeSnapshot`, `LockPeers`,
`Send`, `Ack`, `Return` are `propose_*` and its broadcast; `Validate` and `Apply` are two steps of
`apply_update` on a peer's worker, as in the code. `SendFails`, `AckFails`, `Forget`, `LocalEdit`,
`RcRestart` are what may go wrong.

**WalReplicator** (`wal_replicator.*`). `Enqueue`, `Unblock`, `SyncReturn` (producer), `TakeBatch`,
`SendFlush`, `RetryTake`, `RetryOne`, `RetryEnd`, `SendExit` (send thread), `StopBegin`, `StopJoin`,
`StopFlush`. A failed send may or may not have stored the batch.

**RebalanceManager** (`rebalance_manager.*`). Callers: `Start`, `StartSwap`, `Launch`, `PolicyStart`, `Pause`,
`Resume`, `Cancel`, `SetStatus`; the worker's `run_loop`: `WorkerNextMove`, `Wake`, `Move`, `ReadAction`,
`Test`, `EditRing`, `Record`, `StoreIdle`, `Notify`; `wait()`: `WaitCall`, `WaitTest`, `WaitSleep`.

**PartitionMigration** (`partition_migrator.cpp`, `cluster_node.h`). The move of one symbol (`BeginMove`,
`Select`, `Copy`, `Timeout`, `LateEnd`, `Commit`, `Rollback`, `Again`) beside `ingest_tick` (`Look`,
`Route`, `SendSingle`, `SendFrom`, `SendTo`).

**PartitionRouter** (`partition_router.h`, `failover_manager.*`). The hash ring with its routing cache, pins
and table placements; `route()` is split at its lock sections; edits hold the router mutex or only the
ring's own; the failover manager removes a dead node and re-replicates.

**RpcTransport** (`tcp_rpc.*`, `rpc_security.*`). One server with its worker pool and connection limit,
one client with its pool of idle connections; requests that time out, connections that break at any
point, the handshake with a shared secret, `stop()`.

**QueryCoordinator** (`query_coordinator.cpp`, `partial_agg.h`). A statement is classified, routed to one
node, broadcast and merged, or its base rows are fetched under a budget; nodes join, leave and fail
between the steps; catalogs of table placements travel with the answers. A distributed sum that leaves 64 bits is an
error (`MergeOverflows`); SHOW TABLES and DELETE have their own rules for nodes that fail.

### SQL

**SqlParser** (`tokenizer.cpp`, `parser.cpp`). From lexemes to tokens to a tree, the errors of both included. The
second half of the module is the reference: the text of a tree with the parentheses SQL's precedence needs and no
others, in two spellings: lower-case keywords, and upper-case ones with a comment, every optional word and quoted names. `ParseRule` ties the mutually recursive functions of the parser together as one table.

**SelectExec** (`executor.cpp`, `partition_manager.h`, `parallel_scan.cpp`). Pruning, the composite use of s#, g# and
p# indexes, scalar and grouped aggregation, HAVING, ORDER BY, OFFSET, LIMIT, and the parallel versions
with the merge of partial states. `DblExact` stands for 2^53, above which serial scalar aggregates and AVG round. From the finished answers: the set operations, and the SELECT over a common
table expression or a FROM subquery (`VtSelect`). The reference is the meaning of the statement over all rows.

**JoinOps** (`executor.cpp` joins, `join_operator.cpp`, `flat_hash_map.h`, `window_function.h`). Equi-joins with
open addressing, ASOF, window join, union and plus joins, and the window functions, as functions of
their inputs beside their definitions.

**SchemaCatalog** (`executor.cpp` DDL and DML, `schema_registry.h`, `pipeline.cpp`). Statements of two threads
over the registry, its file with every write, sync and rename, the partitions and the result cache;
faults and crashes.

### HTTP server

**HttpServing** (`http_server.cpp`, `query_tracker.h`, `tenant_manager.*`, `auth_manager.*`). The life of a
request: authentication, tenant slot, tracker entry, execution with timeout and cancellation, hooks, and the
forwarding of a DDL statement that succeeded. Beside it the Flight server reads, lists and writes tables for the
same tenants (`flight_server.cpp`).

**KeyStore** (`api_key_store.*`, `vault_key_backend.*`) and **SessionStore** (`session_store.*`, handlers of
`/auth/*`): keys in memory, file and Vault with failing writes; sessions with sliding expiry, logout,
and a refresh that calls the provider without the lock.

**AgentStore** (`agent_memory.cpp`, `ann_index.cpp`), **AgentWal** and **AgentRouting** (`http_server.cpp`,
`agent_memory_router.cpp`): the store with its index rebuilt off the lock, eviction and quotas of memories and cached answers;
PREPARE and COMMIT records with replicas, a snapshot that replaces its files before it truncates the log, restart and adoption; requests over several servers.

**ConfigFile** (`http_server.cpp`, `*_config` functions): the field readers and writers of the persisted
connector configuration, character by character where escaping is concerned; the file and, for the supervisor, the
catalog row, with the failures between them.

### Feeds and workers

**FeedConsumer** (`kafka_`, `pulsar_`, `kinesis_`, `mqtt_consumer.cpp`) and **SensorFeed** (`opcua_`,
`ros2_consumer.cpp`): where a consumer begins, decode, route, retry, and what the broker is told; counters under
concurrent callbacks; the OPC UA session with its reconnection.

**EdgeFleet** (`edge_fleet_*.cpp`): the outbox, the ACK ledger, the checkpoint and the worker against
overlapping administrative requests, over statements that fail, lose their answer or land after their timeout (`EfLands`).
**ActionOutcome** (`action_outcome_*.cpp`): the commit ledger, its projections, ownership and lease (`AoOwn` reads,
`AoRenew` renews), configuration in a file and in a catalog. Both start a worker only with `worker_enabled`, which is off by default.

## Runs

Nine runs pass and three show a disagreement with a comment. Sizes are distinct states.

| Run | Instance and why it is enough | What it shows |
|---|---|---|
| `tick_plant` (1,723,392) | 2 producers, 2 consumers, 2 slots, 4 ticks: producers lap the ring, consumers race for a slot | `QueueInv`: the inductive invariant of the proof. The slot states lock the payload, a consumer returns the tick it claimed, and an accepted tick is in one READY slot or was delivered once |
| `pipeline` (139,869) | the ring with 1 feed / 1 drain thread / 5 ticks, 2 feeds / 3 ticks, 2 drain threads / 4 ticks; 2 slots, so pushes fail and take the bypass; 5 ticks are the fewest with which a failed push reorders the ring | `ImplementsQueue`: the ring refines the bounded bag. `PipelineAccounted`: over queue and bypass, no row twice and none that was counted is lost while running; for one feed and one drain thread, until a push finds the ring full, stop() drains all. `FifoUntilFull`. `PipelineProgress` |
| `durability` (813,647) | store: 2 writers, the flush thread, SQL, 3 hours, 4 objects, four deployments; snapshots: 2 partitions, 2 rows, 3 generations, 2 crashes (a crash in the snapshot after a crash in the snapshot); ring: 2 proposing threads and 3 nodes, broken connections, local edits, a restart, two coordinators; replication: 2 producers, 2 replicas, 3 ticks, queue of 2, retry queue of 1, waiting, dropping and patient callers | `StoreSafe`: no live partition is invisible, FLUSHED rows are in the HDB, only expired hours go, no use of an evicted object. `SnapshotRecovers`, `PublishedImmutable`: recovery finds a complete image, prefix-consistent beside ingestion, and a graceful restart loses and doubles nothing. `RingsAgree`, `NoStaleApply`. `ReplicationAccounted`. `DurabilityProgress`: sealed partitions are flushed, proposals, sends and stop() end |
| `membership` (795,743) | both receive threads with a reliable probe; one thread and a second node that is met by heartbeat or added later; one thread and an unreliable probe, with and without `enable_dead_rejoin`; 1 failure with restarts; 2 coordinators, 1 data node, 3 lost pings, 3 crashes, with and without the lease | `MembershipSafe`: losses declare no registered node dead, nothing is routed to a node before it is synchronised. `LossIsNotFailover`. `DownIsReplaced`: a dead node leaves the ring, a dead coordinator is replaced |
| `rebalance` (1,869,486) | 2 callers, 1 waiter, 2 moves, 2 starts, 3 controls; one move with 2 ticks, 3 attempts, 2 failing calls of the mover, 1 failing write, timeouts | `FullPlanOnly`: only a whole plan edits the ring. `MoveSafe`: the owner has the ticks, the router follows the move. `TopologyChangeEnds` |
| `query` (1,810,175) | parser: every production of the grammar in both spellings, and each text cut at every token; SELECT: 3 worker counts, tables with every combination of indexes that the plans distinguish, three inner statements under 28 SELECTs over their rows, every set operation; joins: up to 3 rows a side, colliding hashes, every window function; router: 3 nodes, 2 edits beside a reader; coordinator: 3 nodes, 3 events; DDL/DML: 2 threads, 4 statements, 1 fault; batches with values around every limit | `ParsesBack`: the parser inverts the text of every tree and passes nothing over. `SelectExact`, `JoinExact`: the engine's answer is the statement's meaning, in scope. `RoutingFollows`, `CoordinatorExact`: the cache follows the ring; a merged answer is whole and bounded. `CatalogFollows`: file and result cache follow the tables. `BatchExact` |
| `services` (3,077,639) | agent memory: 2 ids, with and without a limit that evicts, 2 threads, 2 replicas, 2 or 3 operations, 2 faults, among them a crash or a failure inside a snapshot; routing: 3 servers, 3 operations with a crash; requests: 2 threads, 2 requests and 2 administrative calls, a tenant with limit 1, a Flight listing or stream of 2 statements, with and without other nodes; keys: 2 servers, 2 keys, 4 operations, 3 faults; sessions: 3 ids, table of 2, time to 4 | `AgentDurable`: an acknowledged write outlives the server. `AgentReads`: a search sees every server, a point read finds. `RequestsAccounted`: slots, tracker and sessions balance, and a DDL that took effect reaches the other nodes unless it timed out. `KeysKept`, `SessionsKept` |
| `workers` (440,710) | RPC: 2 callers, 2 connections, 1 worker, pool of 1, 1 loss, secrets that match or differ; index: 4 operations on memories (one with a vector of length zero) and cached answers, with quotas, beside two rebuilders; supervisors: 2, with and without ownership, 1 without a worker, 2 faults, crashes | `RepliesMatch`: a call gets the reply to its own request. `AgentStoreSafe`: index, counters and embeddings agree with the rows. `OutcomeOnce`. `WorkersProgress`: calls return, `stop()` comes to its end, rebuilds and proposals are finished |
| `feeds` (388,769) | brokers: 3 messages, good and bad, local and remote, 2 faults with restarts, four consumers that begin at the oldest or at the latest message; sensors: 2 threads, 2 messages of several values or of none, 2 losses; connector: 2 administrators, pages of 1, with and without a worker, 1 to 3 requests and 0 to 2 faults, late statements included; configuration: 2 requests and 1 fault, every kind of field and character, with and without a catalog | `FeedKeeps`, `SensorStats`: what is committed was stored, what was not placed is counted. `EdgeLedger`: no event more often in the ledger than ACKs after their timeout explain, none called acknowledged that is not. `ConfigReloads`. `FeedsProgress` |
| `pipeline_no_loss` | 1 feed, 1 drain thread | violates `NoDataLoss` ("no data loss", `src/core/pipeline.cpp:767`) |
| `rebalance_action` | 2 callers, no controls | violates `EditMatchesPlan` (`src/cluster/rebalance_manager.cpp:131`) |
| `kafka_at_least_once` | the Kafka consumer of `feeds` with AFTER_INGEST | violates `AtLeastOnce` (`include/zeptodb/feeds/kafka_consumer.h:58`) |

Most properties above are conjunctions; the module that defines one states each part with a
comment of its own. Every module also has a type invariant, and a few a further property that
no cfg lists (`StopTerminates`, `OrderWithoutFaults`, and `QuietAfterStop`, which is proved). They hold on the same
instances; add them to the cfg to repeat it.

Deadlock is checked where a system should always have a step (`tick_plant`, `pipeline`, where a
terminated pipeline has the step `Terminated`). The other runs switch it off because their bounds on
rows, proposals, ticks, statements or calls run out, and because a computation that has answered is over.

A property with a condition names the situation in which the code keeps it. Outside that
situation the code does not; the tables of departures below say how.

## Fairness

| Module | Assumption | Why |
|---|---|---|
| IngestPipeline | weak fairness of each thread inside a call, and of `stop()` once called | OS scheduling; nobody has to call `ingest_tick` or `stop()` |
| PartitionStore | weak fairness of the flush thread; strong fairness of a successful HDB write | the thread loops forever; a disk that fails every time flushes nothing |
| SnapshotStore | weak fairness of the drain and of a snapshot in progress or required by `stop()` | they run to their end unless the process crashes |
| HealthMonitor | weak fairness of the threads; strong fairness of the silence of a node that is down | heartbeats of a dead node do not come; time passes although a step of it waits for the short calls |
| RingConsensus | weak fairness of proposing and worker threads | every send either returns or fails with its timeout |
| CoordinatorHA | weak fairness of the threads of a running coordinator | OS scheduling; a crashed one need not restart |
| WalReplicator | weak fairness of the send thread, of `stop()` once called and of waiting producers | the waits are timed or notified |
| RebalanceManager | weak fairness of the worker, of callers and waiters inside a call | OS scheduling |
| PartitionMigration | weak fairness of the move | its calls return; `CallsBounded` below says when they do not |
| RpcTransport | weak fairness of callers inside a call, of the server's threads and of `stop()` once called | OS scheduling |
| AgentStore | weak fairness of the index worker | it waits on a condition variable that a search notifies |
| ActionOutcome | weak fairness of arrivals, of each supervisor's worker and request, of a restart | the worker polls on a timer; an operator restarts what crashed |
| FeedConsumer | weak fairness of the poll loop; strong fairness of receiving each message and of acceptance | a broker that never delivers, or a pipeline that refuses forever, stores nothing |
| SensorFeed | weak fairness of the callback thread; strong fairness of successful connecting and subscribing | a server that stays down is never reconnected |
| EdgeFleet | strong fairness of worker and requests, weak fairness of a restart | both contend for `mu_`; a mutex that is released again and again is obtained in the end |

In a run with several subjects, the fairness conditions of different subjects are joined into one
formula by disjunction. Only one subject ever moves, so each disjunction means the condition of that subject.

## Proofs

The proof modules extend the module they are about. Each theorem holds for every value of
the constants that satisfies the named `ASSUME`s of that module, which say no more than that thread
sets are finite, capacities positive and the like. Every proof follows the same plan: an inductive invariant
made of named conjuncts, one lemma per action, one lemma that combines them over `Next`, and a
temporal step. TLC checked each inductive invariant on the run's instance before it was proved.

**TickPlantProofs** — any sets of producers and consumers that are disjoint, any capacity that
is a power of two, any number of ticks. `Conservation` is not inductive. That a publication
adds a new tick needs the uniqueness of sequence numbers until their fate is decided
(`FreshTicks`) and that the slot holds the producer's own tick (`WrittenPayload`), which needs
that no other producer writes there (`SlotExclusion`). That a copy is intact after `read_pos_` has moved
needs that a claimed tick is owned by one consumer (`HeldTicks`). Their conjunction `QueueInv` is
inductive: one lemma per action, combined in `QueueInvariant`. From it follow `QueueTypes`,
`SlotsExclusive` and `QueueConservation`. The refinement is `QueueImplementsBag`: the ring
implements `TickQueue`. Under the mapping
waiting ← ticks in READY slots, taken ← delivered, refused ← rejected, `PushPublish` is `Accept`,
`PushFull` is `Refuse`, `PopClaim` is `Take`, and everything else is a stutter. The capacity
bound is a counting argument: at a publication the publisher's own slot is WRITING, so the READY
ones are at most Capacity − 1.

**IngestPipelineProofs** — over TickPlantProofs, any finite feeds and drain threads of a deployment, any ring and batch
size. `PipelineSteps` shows that the pipeline touches the queue only through `ingest` and `consume`, so
`QueueInv` and the refinement carry over (`PipelineImplementsBag`). `PipelineInv` adds which threads may be inside a call in each phase
of `stop()` (`PipelineRoles`), that a stored tick came out of the queue or was refused by it and a tick that did is
stored or in somebody's hands (`StoredOrigin`), and that `ticks_ingested` is the number of ticks whose call returned
(`IngestCounted`); from these `PipelineLosesNothing` states `PipelineAccounted`. Its last part and
`PipelineFifo` (`FifoUntilFull`) are about one feed and one drain thread before any push failed; there `RingInOrder`
says that the ring holds the accepted and undelivered ticks in order between the two cursors, which
modular positions keep as long as at most Capacity ticks are in it. `PipelineQuiet`: after `drain_sync`
no row is added under the final snapshot (`QuietAfterStop`).

**PartitionStoreProofs** — any writers, hours, objects and configurations: `StoreIsSafe` states
`StoreSafe`. The index and the map are the easy part. That FLUSHED rows are on disk needs that nobody
appends to them later and that no second object of the hour overwrites their file. The first holds because
a partition leaves ACTIVE only when its hour has passed (`Passed`) and a writer without late rows
appends to the present hour (`Timely`); the second because only past hours are evicted, so that an hour
is never created twice (`OneObject`, from `ExpiredOnly`). That nobody touches an evicted object needs that the
flush thread has emptied its worklist when the TTL evicts, and takes a dropped partition off it
(`Untouched`). `FlushedOnDisk` excludes deployments with a
COLD tier, where the invariant fails (see the disagreements below); the run has such a deployment only
with late rows.

**SnapshotStoreProofs** — any finite set of partitions, any number of rows, generations and
crashes. `CurrentReady` needs that the generation in work is newer than CURRENT (`InWork`), has its
manifest before publication (`Complete`) and is CURRENT when the cleanup runs (`Published`).
Results: `SnapshotInvariant`, `SnapshotTypes`, `PublishedIsReady`, and the action property
`PublishedNeverChanges`. `RestartFindsAll` states `SnapshotRecovers`. Its second
invariant, `RestartInv`, follows a row from memory to the directory and back. The hard part is that
`start()` accepts the totals: the manifest counts partitions and rows in the order in which the snapshot wrote
them, recovery in the order in which it reads them. Both are shown to be the cardinalities of
two sets that depend on the files alone, the partitions with rows and the cells `<<partition, position>>`
(`Tallied`, kept by `TallyAdd`), so no induction over a sum is needed. `Fresh` and `Manifests` carry this through a
snapshot, `Refilled` through a recovery. For the graceful restart, nothing is queued during the final
snapshot (`Quiet`), what it has come to is what memory holds (`Mirrored`), and a snapshot that succeeded
has come to everything and is CURRENT (`Through`, `Outcome`); the image stays on disk until it is in memory
again (`Imaged`).

**ClusterProofs** — how a cluster changes, four components. `MembershipIsSafe` (`MembershipSafe`) for any peers and
any finite set of receive threads: a node that `start()` registered has an address for good, so it is DEAD only after a probe
failed, and a pending decision of any thread must be traced back to such a probe (a node without an address becomes
DEAD by its silence, and the theorem says nothing of it); the ring holds a rejoining node only when its synchronisation
returned. `LossNeedsPatience` (`LossIsNotFailover`) for any coordinators, patience and numbers of
faults: a promotion on lost pings has counted enough of them in a row. For the rebalance manager, any callers,
waiters, nodes and at least one move: `FullPlanOnly` needs how `run_loop` left its loop (`MovesCounted`), which
holds because only the end of a run leaves CANCELLING and only one caller at a time is between its exchange and
the launch (`OneLauncher`). Results: `RebalanceInvariant`, `RingEditedByFullPlan`, `IdleMeansNoWorker`. For the
migration of a symbol, any ticks, retries and faults: `MoveIsSafe` states `MoveSafe`. It needs what the
router says in each phase of the move (`Phases`, `Followed`), that nothing the source had at the SELECT
leaves it before the commit (`Kept`) and that a successful copy put all of it on the destination (`Copied`).

**RingConsensusProofs** — any nodes and any finite set of proposing threads. `UpdatesAreFenced`
(`NoStaleApply`): an update a worker has validated is not older than what its node applied, which
needs that a lone sender's updates are sent one at a time (`Sending`), that a sender waits until its update was
applied (`Waiting`), and that epochs on the way are bounded by the sender's (`Fenced`).
`RingsComeToAgree` (`RingsAgree`): with one coordinator, no local edits and no restarts, a node that no update is on
its way to, and whose last update did not fail, has the coordinator's ring. The invariant
follows every snapshot: its epoch determines its ring (`Whole`), and a node that was sent the last
one has it or is about to (`Delivered`, `Agreed`).

**WalReplicatorProofs** — any replicas, any finite set of producers, any queue limits, retries and
quorum. `TicksAreAccounted` states `ReplicationAccounted`: no accepted tick leaves queue, batch and retry queue
without being on every replica or counted (`AllTraced`); what is counted as acknowledged is on the
quorum (`AckedOnQuorum`); and a lone synchronous caller that was answered has its tick
replicated (`Awaited`). Batches in flight are described by `Sent`, the calling order by `Turns`.

**ServicesProofs** — three components. `FeedsAreKept` (`FeedKeeps`) for any finite sequence of broker messages, any retries
and faults: what is committed or acknowledged was stored because `on_message` reported it stored (`FdTold`), and the messages that
owe a count (`FdOwed`) are never more than the two error counters, by a cardinality argument over each step.
`SessionsAreKept` (`SessionsKept`, an action property) for any sessions, threads and lifetimes: every operation leaves a table that may follow the
one before (`SeFollows`) and loses nothing that has not expired (`SeNoneLost`), the invariant being that an expiry stays
within the lifetime (`SeWithin`). `KeysAreKept` (`KeysKept`) for any servers, keys and failures: while a call has changed memory and not
saved, the file has what memory would be undone to (`KyWritten`); what is on disk is allowed by the last answers
(`KyAllowed`); and a key that a server has not on disk is one it never answered for, so that the Vault
cannot bring it back changed (`KyUnborn`).

Only model-checked:

- all liveness properties and everything with ENABLED, which the prover does not handle;
- the properties of the `query` run: they compare functions computed over sequences, some of them
  RECURSIVE, with reference definitions. For every input they would need induction over data;
- `AgentDurable`, `AgentReads`, `RequestsAccounted`, `RepliesMatch`, `AgentStoreSafe`, `OutcomeOnce`, `SensorStats`,
  `EdgeLedger` and `ConfigReloads`, for which no proof is kept here. Those of AgentWal, AgentStore, AgentRouting
  and ConfigFile compute by folds and recursion over sequences, which is induction over data again, and one part of
  `RequestsAccounted` is a sum over threads; the others are within the prover's reach.

## Where the code and its documentation disagree

Each row is something a comment, a header or a design document says and a model of the code
violates. The last column names the property and the instance on which TLC shows it: add the
property to that cfg (`LegalTransitions`, `WaitReturns` and those marked so as PROPERTY, the others as INVARIANT),
or drop the stated condition from it. Most are definitions of the section "What the
documentation says and the code does not do" at the end of each module. Paths are relative to
the root of the repository.

| Code | What it does, and what is said of it | Shown by |
|---|---|---|
| `include/zeptodb/ingestion/ring_buffer.h:143` | try_push advances write_pos_ before it knows whether the slot is free, so a push that returns false still uses up a position. Once the consumer has drained the ring, the next push lands one slot further than the consumer looks, and later ticks overtake it. include/zeptodb/ingestion/tick_plant.h:7 says "순서 보장 (FIFO + Global Timestamp)" (ordering guaranteed). | `FifoUntilFull` without `rejected = {}`, `pipeline.cfg` |
| `include/zeptodb/ingestion/ring_buffer.h:165` | try_pop loads read_pos_, claims the slot it names and then increments read_pos_ whatever it is by then. A consumer that loaded read_pos_ before another consumer emptied that slot and a producer refilled it claims the newer tick and moves read_pos_ past an unread slot. The comment include/zeptodb/ingestion/ring_buffer.h:81 says of the previous design that it "causes the consumer to permanently skip slots that are" written later; this one still does with two drain threads. | `NeverSkipped` without `OneToOne`, `pipeline.cfg` |
| `src/core/pipeline.cpp:981` | drain_sync stops at the first slot that is not READY. After a push was rejected the ring has a hole, and stop() returns with ticks still queued behind it. src/core/pipeline.cpp:767 says "Queue full — direct-to-storage bypass (slower but no data loss)" and include/zeptodb/core/pipeline.h:242 "Stop drain/flush workers, drain the queue". | `NoDataLoss`, `pipeline_no_loss.cfg` |
| `src/core/pipeline.cpp:768` | ingest takes its message by value, so when the queue is full ingest_tick stores its own copy, which has the caller's seq_num and recv_ts. include/zeptodb/ingestion/tick_plant.h:52 says of ingest "자동으로 seq_num 및 recv_ts 할당" (assigns seq_num and recv_ts automatically). | `RowsStamped`, `pipeline.cfg` |
| `src/storage/partition_manager.cpp:83` | get_or_create returns the partition of the row's hour whatever its state and store_tick appends to it, so a late row lands in a SEALED or FLUSHED partition and is never written to the HDB; docs/devlog/004_hdb_tiered_storage.md:82 says "writes only to ACTIVE partition" and include/zeptodb/storage/partition_manager.h:75 of FLUSHED "HDB 완료, 아레나 회수 가능". | `FlushedOnDisk` without `~stSetup.late`, `durability.cfg` with `LateSetup` and no Parquet |
| `src/storage/flush_manager.cpp:391` | success also holds when parquet_writer_->files_written() > 0, a total over all partitions ever written, so after one Parquet file every failed flush is marked FLUSHED and not retried; include/zeptodb/storage/partition_manager.h:75 says of FLUSHED "HDB 완료, 아레나 회수 가능" and line 405 of flush_manager.cpp restores SEALED on failure. | `FlushedOnDisk` without `~stSetup.parquet`, `durability.cfg` with `FlushSetup` and Parquet |
| `src/core/pipeline.cpp:944` | store_tick evicts the oldest partition with evict_partition and leaves its pointer in partition_index_; docs/devlog/021_ddl_schema_management.md:170 says "any operation that removes partitions from `PartitionManager` must also invalidate this cache". | `IndexLive`, `durability.cfg` |
| `src/core/pipeline.cpp:913` | evict_older_than_ns rebuilds the index from the map while a writer is between get_or_create and its own push_back, so the partition is listed twice and total_stored_rows() adds its rows twice; include/zeptodb/core/pipeline.h:298 says "현재 저장된 총 행 수 (모든 파티션 합산)". | `RowsCountedOnce`, `durability.cfg` |
| `src/sql/executor.cpp:890` | ALTER TABLE SET TTL evicts partitions on the query thread while do_flush_sealed holds their raw pointers and then calls set_state and flush_partition on them; docs/devlog/004_hdb_tiered_storage.md:80 says "SEALED -> FLUSHING -> FLUSHED state transitions (single thread, no locking needed)". | `NoUseAfterEvict` without `~stSetup.sql`, `durability.cfg` with `FlushSetup` and SQL |
| `src/storage/flush_manager.cpp:151` | After a crash inside the first do_snapshot the root holds a generation directory and no CURRENT, and resolve_snapshot answers Invalid, so start() refuses to run; include/zeptodb/storage/flush_manager.h:129 says "`Missing` means no generation has been published yet". | `MissingUnlessPublished`, `durability.cfg` |
| `src/storage/flush_manager.cpp:93` | cleanup_old_generations keeps the other directory with the greatest name, which after a crash is the unpublished partial generation, and removes the previously published one; docs/design/layer1_storage_memory.md:124 says "The previous generation is retained during cleanup." | `PreviousRetained`, `durability.cfg` |
| `include/zeptodb/cluster/health_monitor.h:515` | check_timeouts and inject_heartbeat decide under state_mutex_, release it and apply the decision unconditionally, so ACTIVE -> DEAD and DEAD -> ACTIVE occur; include/zeptodb/cluster/health_monitor.h:9 says "SUSPECT → DEAD (dead_timeout_ms 추가 무응답 + TCP probe 실패)" and include/zeptodb/cluster/health_monitor.h:10 "DEAD → REJOINING (heartbeat 재수신 — rejoin protocol)". | `LegalTransitions`, `membership.cfg` |
| `include/zeptodb/cluster/cluster_node.h:537` | When a heartbeat read SUSPECT before the check thread set DEAD, or the add and remove callbacks run in the opposite order, the node is ACTIVE and not in the ring, and no later event adds it; docs/design/multinode_stability.md:176 says "ClusterNode automatically re-adds to router on REJOINING→ACTIVE transition". | `ActiveInRing`, `membership.cfg` |
| `include/zeptodb/cluster/health_monitor.h:235` | inject_heartbeat does nothing for a node in REJOINING and check_timeouts skips it, so after one failed resynchronisation it stays there; docs/design/multinode_stability.md:172 says "REJOINING → REJOINING (callback returns false → retry on next heartbeat)". | reading of `Heartbeat` and `CheckDecide`: neither has a step for REJOINING |
| `include/zeptodb/cluster/health_monitor.h:230` | A receive thread that saw SUSPECT sets ACTIVE while the other one is between REJOINING and its on_rejoin callback, and the ring takes the node back before it is synchronised; docs/design/multinode_stability.md:171 says "REJOINING → ACTIVE (when on_rejoin callback returns true)". | `ResyncBeforeRouting` without its condition, `membership.cfg` |
| `include/zeptodb/cluster/ring_consensus.h:262` | A restarted coordinator's FencingToken starts at 0, so followers that saw a higher epoch refuse its updates; the RPC server acknowledges every update (src/cluster/tcp_rpc.cpp:676-689), so propose_* returns true; include/zeptodb/cluster/ring_consensus.h:326 says "Wait for RING_ACK (1 byte: 0x01 = applied)". | `RingsAgree` without `rcSetup.restarts = 0`, `durability.cfg` with `OneCoordinator` and one restart |
| `include/zeptodb/cluster/ring_consensus.h:219` | Each node counts its own epochs and validate accepts an equal one, so two coordinators overwrite each other's ring and end with different rings; include/zeptodb/cluster/ring_consensus.h:156 says "FencingToken 재사용으로 split-brain 방지". | `RingsAgree` without `Cardinality(Coordinators) = 1`, `durability.cfg` with `TwoCoordinators` and no restart |
| `include/zeptodb/cluster/cluster_node.h:533` | A node that is not the coordinator edits its ring on its own failure detector's word, and no later update corrects it until the next proposal; docs/design/multinode_stability.md:55 says "Only the Coordinator has ring modification authority". | `RingsAgree` without `~rcSetup.local_edits`, `durability.cfg` with `OneCoordinator` and local edits |
| `include/zeptodb/cluster/ring_consensus.h:219` | apply_update validates the epoch before it takes router_mu_; when the coordinator gave up a connection, the older update may be applied after the newer one; include/zeptodb/cluster/ring_consensus.h:155 says "Follower는 epoch >= last_seen일 때만 적용 (stale 거부)". | `NoStaleApply` without its condition, `durability.cfg` |
| `include/zeptodb/cluster/k8s_lease.h:142` | Every K8sLease object keeps the holder in its own memory, so both coordinators acquire their lease and the standby promotes itself at once; docs/design/multinode_stability.md:62 says "K8sLease-Based Split-Brain Prevention" of it and include/zeptodb/cluster/k8s_lease.h:6 "only one node holds the lease at a time (leader)". | `AtMostOneActive`, `membership.cfg` |
| `src/cluster/query_coordinator.cpp:132` | The clients of the data nodes are created without an epoch and set_epoch is called on peer_rpc_ only, so writes carry epoch 0, which the server does not validate; include/zeptodb/cluster/k8s_lease.h:36 says "A recovers, tries write with epoch=5 → REJECTED (6 > 5)". | `StaleWriterRefused`, `membership.cfg` |
| `src/cluster/coordinator_ha.cpp:125` | try_promote calls try_acquire, whose on_elected callback calls try_promote again while the role is STANDBY; epoch, promotion count and promotion callback run twice; include/zeptodb/cluster/coordinator_ha.h:66 says "Number of promotions (standby → active)". | `PromotionsCounted`, `membership.cfg` |
| `src/cluster/coordinator_ha.cpp:59` | add_remote_node and remove_node change the local registry only; include/zeptodb/cluster/coordinator_ha.h:8 says "Node registry is replicated: add/remove on active are forwarded to standby". | `RegistryReplicated`, `membership.cfg` |
| `src/cluster/coordinator_ha.cpp:73` | remove_node changes the coordinator before the registry, so a promotion in between re-registers the removed node for good; include/zeptodb/cluster/coordinator_ha.h:97 says "Tracked node addresses for standby replay on promotion". | `RegistryReplayed`, `membership.cfg` |
| `src/cluster/wal_replicator.cpp:54` | enqueue reads flush_epoch_ when it queues the tick; the end of a flush that had already taken its batch advances it, and enqueue returns true with the tick still in the queue; include/zeptodb/cluster/wal_replicator.h:34 says "if true, enqueue blocks until replica ACK". | `SyncMeansReplicated`, `durability.cfg` |
| `src/cluster/wal_replicator.cpp:159` | A retry starts with the first replica and ends with the first success, so the replica that failed is not repaired and another one stores the batch twice; include/zeptodb/cluster/wal_replicator.h:40 says "재시도: send 실패 시 retry_queue에 보관 후 재시도" and docs/design/multinode_stability.md:98 "Waits for all replica ACKs". | `RetryRepairs`, `durability.cfg` |
| `src/cluster/wal_replicator.cpp:52` | enqueue does not look at running_ when the queue has room, so a tick queued after stop() swapped the queue is accepted with true and lost; include/zeptodb/cluster/wal_replicator.h:14 says "repl.stop();                 // flushes remaining queue". | `StopLeavesNothing`, `durability.cfg` |
| `src/cluster/rebalance_manager.cpp:37` | start_remove_node and its siblings set action_ before the IDLE -> RUNNING exchange; when a plan is running the call returns false, but the running plan ends with the new action and edits the ring for a node whose partitions were not moved; src/cluster/rebalance_manager.cpp:131 says "Apply and broadcast ring updates only when the full plan committed." | `EditMatchesPlan`, `rebalance_action.cfg` |
| `src/cluster/rebalance_manager.cpp:227` | pause and cancel change state_ first and status_ later, so they overwrite the IDLE the worker recorded in between; include/zeptodb/cluster/rebalance_manager.h:99 says "Current status snapshot." | `StatusSettles`, `rebalance.cfg` |
| `src/cluster/rebalance_manager.cpp:217` | state_ becomes IDLE and done_cv_ is notified without mu_, so the notification may fall between a waiter's test and its sleep; include/zeptodb/cluster/rebalance_manager.h:108 says "Block until rebalance completes." | `WaitReturns`, `rebalance.cfg` |
| `include/zeptodb/cluster/cluster_node.h:289` | ingest_tick asks for the migration and sends afterwards, so a tick decided for the source before begin_migration may arrive there after the SELECT and never reaches the new owner; docs/devlog/054_live_rebalancing_test_plan.md:30 says "No data gap or duplication after migration completes". | `NoGap`, `rebalance.cfg` |
| `src/cluster/partition_migrator.cpp:23` | The SELECT runs with dual-write on, so a tick written to both nodes before it is copied to the destination a second time; docs/devlog/054_live_rebalancing_test_plan.md:30 says "No data gap or duplication after migration completes". | `NoDuplicate`, `rebalance.cfg` |
| `src/cluster/partition_migrator.cpp:114` | ingest_tick returns true when only the destination accepted the tick, and a rollback deletes every row of the symbol there; include/zeptodb/cluster/cluster_node.h:284 says "dual-writes to both source and destination" and line 285 "nodes to prevent data loss.". | `AckedSurvives`, `rebalance.cfg` |
| `src/cluster/partition_migrator.cpp:76` | On a timeout execute_move returns, but the destructor of the std::async future waits for the copy, and replicate_wal reads its answer without a timeout on a new connection that RPC security did not give one; docs/devlog/057_rebalance_hardening.md:29 says "On timeout: move marked FAILED, dual-write ended, descriptive error logged", the solution for "the worker thread would block indefinitely" (line 24). | reading of `Timeout` and `LateEnd`: without fairness of `LateEnd`, `MoveEnds` fails |
| `include/zeptodb/cluster/partition_router.h:185` | An edit of the ring that does not hold the router mutex (rebalance and failover managers) clears the cache while route() is between reading the ring and storing what it read, and the old owner stays cached; include/zeptodb/cluster/partition_router.h:149 says "Thread-safe: cache reads/writes protected by cache_mutex_". | `RouteFollowsRing`, `query.cfg` |
| `src/cluster/failover_manager.cpp:98` | Re-replication calls migrate_symbol with one representative symbol for each pair of nodes; the comment at line 95 says "In practice, we migrate all symbols that new_primary now owns", include/zeptodb/cluster/failover_manager.h:8 "WAL-based re-replication: copy data from promoted primary to new replica". | `ReplicaIsWhole` (PROPERTY), `query.cfg` with `RtMaxEdits = 3` |
| `src/cluster/tcp_rpc.cpp:527` | The acknowledgement of a replicated batch is 1 when at least one tick was applied; include/zeptodb/cluster/rpc_protocol.h:48 says "1-byte ack (0x01 = all applied)". | `AckMeansAll`, `workers.cfg` with `RpBatch = 2` |
| `src/cluster/tcp_rpc.cpp:1212` | A new connection without RPC security has no receive timeout, so a ping to a host that accepts and then vanishes waits for ever; include/zeptodb/cluster/tcp_rpc.h:228 says "Ping the remote server.  true = reachable within connect_timeout_ms." | `CallsBounded` (PROPERTY), `workers.cfg` |
| `src/sql/executor.cpp:1573` | A SELECT that scanned before a write of another thread stores its answer after the invalidation, and statements invalidate before they write; docs/COMPLETED.md:1019 says "Auto-invalidated on INSERT/UPDATE/DELETE." | `CacheFresh`, `query.cfg` |
| `include/zeptodb/storage/schema_registry.h:174` | add_column accepts a name the table already has, and the loader refuses a table with two equal names, so the next start fails; docs/design/layer1_storage_memory.md:249 says "so `table_id` assignments survive process restarts". | `CatalogReloads`, `query.cfg` |
| `src/sql/executor.cpp:735` | An INSERT that took the id of a table whose CREATE or DROP is being undone or done stores rows under that id, and a later CREATE that is given the id shows them; src/sql/executor.cpp:733 says "CREATE has not produced table data yet, so rolling back the in-memory registry is safe". | `NewTableEmpty`, `query.cfg` |
| `src/ai/agent_memory.cpp:1394` | A row added to a clean index does not advance ann_generation_, so when the background worker and rebuild_ann_index() build from the same generation, the second swaps in an index without the rows added after the first; docs/devlog/125_agent_memory_ann_rebuild_path.md:18 says "swap it in only if no newer mutation superseded the snapshot". | `AnnNeverStale`, `workers.cfg` |
| `src/server/http_server.cpp:3236` | A snapshot between the PREPARE and the COMMIT of a write truncates the log, and the replay of a COMMIT without its PREPARE is an error that stops the server from starting; docs/design/agent_memory_layer.md:104 says "Replay applies only committed prepared records and ignores trailing prepared records without a commit marker". | `RestartAccepts`, `services.cfg` |
| `src/server/http_server.cpp:4231` | After a failover a get by the id of the removed node is routed by a key of the id, while the shard went to the successor of the node; docs/design/agent_memory_layer.md:449 says "`get_memory(memory_id)` is a point lookup and routes to the id owner". | `ReadsSurviveFailover`, `services.cfg` |
| `src/server/http_server.cpp:4645` | on_connect and on_disconnect are called after sessions_mu_ was released, so a disconnect may be reported before its connect; docs/design/layer4_transpiler_client.md:522 says "`Connection: close` request header triggers `on_disconnect` (HTTP/1.1 semantics)". | `HooksInOrder`, `services.cfg` |
| `src/auth/tenant_manager.cpp:20` | drop_tenant forgets the usage of a tenant whose queries are running; created anew, it may run more than its limit; docs/api/SECURITY_OPERATIONS_GUIDE.md:364 says "Queries beyond this are rejected (429)" (the code answers 400). | `TenantLimit`, `services.cfg` |
| `src/auth/vault_key_backend.cpp:351` | update_index_add reads the index and writes it back, so two servers that add keys at once lose one; include/zeptodb/auth/vault_key_backend.h:9 calls it "JSON list of all key IDs" and line 24 says "Thread safety: all methods are safe to call from multiple threads." | `VaultListed`, `services.cfg` |
| `src/server/http_server.cpp:8015` | Of two refreshes of one session the provider refuses the second, whose token it has replaced, and the handler destroys the session the first one renewed; include/zeptodb/auth/session_store.h:11 says "Sessions have a configurable TTL and can be refreshed on activity". | `RefreshKeeps` (PROPERTY), `services.cfg` |
| `src/feeds/kafka_consumer.cpp:417` | The commit of a later message covers an earlier one whose ingestion failed; include/zeptodb/feeds/kafka_consumer.h:58 says "Guarantees at-least-once delivery: on restart, un-ingested messages". | `AtLeastOnce`, `kafka_at_least_once.cfg` |
| `src/feeds/opcua_consumer.cpp:967` | When the subscription fails after a successful reconnection nothing tries again, because the next iterate() finds a live connection; the warning in line 968 says "re-subscription failed; will retry". | `SubscriptionReturns` (PROPERTY), `feeds.cfg` |
| `src/server/edge_fleet_sql_http_adapter.cpp:494` | Every load begins at the first row, and the acknowledged rows it pages past count against max_outbox_bytes, so a long outbox is never loaded again; docs/api/HTTP_REFERENCE.md:1935 says "pages past already-ACKed rows to keep bounded loads moving after restarts". | `EdgeKeepsMoving` (PROPERTY), `feeds.cfg` with `EfMaxRows = 1` |
| `src/server/action_outcome_sql_adapter.cpp:806` | Repair candidates are the first `limit` committed proposals, whole ones included, so those behind them are never repaired; docs/design/layer2_ingestion_network.md:361 says "retries repair missing projection rows from the committed payload without duplicating decision or evidence rows". | `ProjectionsRepaired` (PROPERTY), `workers.cfg` with `AoLimit = 1` and proposals `<<TRUE, TRUE>>` |
| `src/server/action_outcome_sql_adapter.cpp:332` | Ownership is tested when a pass begins and not when it writes, so a supervisor whose lease ran out writes beside its successor; docs/api/HTTP_REFERENCE.md:2150 calls it "SQL table used for owner id/epoch fencing". | `OwnedOnce`, `workers.cfg` |
| `src/storage/flush_manager.cpp:597` | the COLD tier calls flush_partition and sets FLUSHED without looking at its result, so a failed write is never retried; include/zeptodb/storage/partition_manager.h:75 says of FLUSHED "HDB 완료, 아레나 회수 가능". | `FlushedOnDisk` without `stSetup.cold = 0`, `durability.cfg` with `FlushSetup` and `cold` = 1 |
| `include/zeptodb/cluster/health_monitor.h:497` | A SUSPECT node without an address, one that was met by heartbeat, is declared DEAD by its silence alone; line 9 says "SUSPECT → DEAD (dead_timeout_ms 추가 무응답 + TCP probe 실패)". | `ProbedBeforeDead`, `membership.cfg` |

## Where the SQL engine departs from the statement

`SelectExact` and `JoinExact` compare the engine with the meaning of the statement over the
inputs that `InScope` (SelectExec) and the conditions in JoinOps admit. The following are left out there
because the code answers something else. They were found by reading
`src/sql/executor.cpp` and by TLC when the exclusion was missing.

- WHERE: `<>` on a sorted column counts as answered by the index and is never applied; when
  every column of the condition is indexed, a comparison of the timestamp or a second BETWEEN next
  to one BETWEEN is not applied, nor a second predicate on a g# or p# column beside an equality. g# and
  p# indexes are not extended by appends; p# keeps the last run of a value only.
- Symbols: `symbol = v` and `symbol IN` prune although they stand under OR or NOT; other comparisons
  of symbol are always true; a symbol that IN lists twice is scanned twice, and the order of the list
  decides FIRST, LAST and the order of rows.
- SELECT DISTINCT is ignored on base tables, COUNT(DISTINCT) in GROUP BY and in parallel plans.
- STDDEV, VARIANCE, MEDIAN and PERCENTILE give 0 in the parallel scalar plan and INT64_MIN in
  parallel groups of several columns. The parallel scalar plan ignores SAMPLE and CASE WHEN, the parallel
  grouping ignores the bucket of DATE_TRUNC.
- An OFFSET without LIMIT and ORDER BY wraps the row limit around (line 3715) and answers nothing;
  OFFSET is ignored by the parallel simple SELECT and by GROUP BY without ORDER BY; LIMIT is not
  applied when the ORDER BY column is unknown; HAVING is ignored on scalar aggregates and its IN
  ignores NOT; one-row scalar answers ignore ORDER BY and LIMIT; MIN and MAX of no rows cast a double out of range; grouping by symbol emits
  empty groups in the serial plan.
- The slot cached for the last key begins with INT64_MIN as its key (lines 4231, 4266, 5910, 5939), so rows that group under INT64_MIN
  by one column are lost until another key was met.
- Serial scalar SUM, MIN and MAX, and AVG and VWAP in every plan, go through a double: integers above 2^53 are
  rounded (`AsDouble`). The fractions of VARIANCE, STDDEV and PERCENTILE are not modelled.
- SELECT over a CTE or FROM subquery (`VtInScope`): NOT IN is read as IN in WHERE and HAVING; a
  column the rows lack reads as 0; VWAP and XBAR, and in the scalar plan STDDEV, VARIANCE, MEDIAN and PERCENTILE, give the first
  row's value; DISTINCT is ignored beside an aggregate, COUNT(DISTINCT) in groups; the scalar
  plan ignores ORDER BY, LIMIT and OFFSET; a bucketed GROUP BY groups by the raw column. INTERSECT and EXCEPT keep
  the duplicates of their left side.
- Window functions partition by contiguous runs; MIN and MAX ignore FOLLOWING. ASOF reads the
  first partitions only and drops left rows without a match; a join answers nothing when one side
  has no partition.
- Parallel workers do not poll for cancellation; the path of DELETE for tables without typed storage does not rebuild indexes.

The parser (`ParsesBack` is about the statements the grammar comment lists): it ignores text after a complete
statement; keeps the last operand of a chain of set operations; truncates decimals in BETWEEN,
LIMIT, IN and UPDATE; reads strings in IN and a column on the right of a comparison as 0; drops the
second alias of VWAP; counts `+ n` before and `- n` after in window bounds as 0; joins a dash to a digit that
follows it directly also after a string or a keyword used as a name; accepts `IN ()` and `IN (1,)`;
takes an unknown DATE_TRUNC unit as a bucket of 1. The branch for `DESC t` cannot be reached.

## Other departures

Things the code does that its author may not intend, found while reading for the model. No
property forbids them: the models contain the situation and the properties allow it or set it apart by a named
condition, or the models leave it out.

- **PartitionRouter**: plan_add and plan_remove lock `ring_mutex_` shared a second time; a move stands
  for one representative symbol of each pair of nodes; a table pinned to a removed node answers "owning node not found".
- **QueryCoordinator**: an INSERT of several symbols goes to the first endpoint; apply_catalog stops at the
  first table pinned to an unregistered node; DDL that fails half way leaves catalogs changed; the
  path for `symbol IN` returns SUM and COUNT for AVG and drops HAVING; ASOF with a string symbol routes to the owner
  of 0; LIMIT and OFFSET are applied by nodes to partial results; a broadcast DML may fail in part; SHOW TABLES adds up the
  nodes that answered and passes over the others; a SUM over the cluster that leaves 64 bits is an error.
- **WalReplicator**: with `max_retries` = 0 or without replicas a batch is dropped uncounted; a quorum
  larger than the number of replicas is never met although enqueue returns true.
- **RpcTransport**: request_id is never compared; validation and application of an epoch are two steps.
- **SchemaCatalog**: SET TTL evicts old partitions of every table, SET ATTRIBUTE applies to every
  table; when the directory sync fails, the disk is ahead of memory; DROP destroys partitions under readers.
- **BatchIngest**: Arrow and Flight streams are stored row by row and stay in part when one fails; integers above 2^53 with a
  scale, and Arrow UINT64, go through a double; a scaled 2^63 passes the range check; DoPut prints doubles with six
  decimals; symbols interned by a refused batch stay. A decimal price whose double is a little less than it is truncated:
  1.15 with scale 100 is stored as 114, where docs/api/HTTP_REFERENCE.md:777 describes the value times the scale. DoPut to a table that does not exist stores
  its rows under table id 0.
- **HttpServing**: a request whose thread cannot be started leaves its tracker entry; "Query timed out" may be
  answered although the query finished meanwhile; POST of a tenant without a limit stores 0, which means unlimited.
- **AgentStore, AgentWal**: store_cache sets the embedding dimension without sizing the memory arrays; the replicas'
  copies keep their old epoch after an adoption, so later quorum writes fail; a snapshot includes the value of
  a write that is not committed yet; a failed snapshot answers an error for a record that a restart brings back; a torn end of
  the log prevents startup. A snapshot that fails or is interrupted between its files and the truncation of the log
  (src/server/http_server.cpp:3134-3147, also in `stop()`, while requests still run) leaves a new snapshot with an old log; in a store with a limit, the
  replay may then evict an acknowledged memory (`Diverged`). A rebuild of the index drops vectors of length zero silently, a put of one marks
  the index dirty (src/ai/agent_memory.cpp:1388); restoring evicted rows enforces no limit.
- **FeedConsumer**: Kinesis keeps no checkpoint, and start() after an expired iterator assigns over an unjoined
  thread; a Pulsar message that never decodes is redelivered for ever; MQTT ignores the result of its callback.
  With the default `Latest` a Pulsar subscription has nothing published before its first start; a Kafka consumer without a
  committed offset begins at the latest message at every start and passes over what came while it was down; an MQTT session that does not persist does so too.
- **SensorFeed**: an OPC UA consumer without pipeline and router drops values uncounted, and so does one notified without a value
  (src/feeds/opcua_consumer.cpp:503). Line 536 returns no value from a bool function, which no build with OPC UA would accept; it is modelled as the false
  it means. The reconnection ignores the user name.
- **EdgeFleet**: overlapping POST requests may overwrite a running thread object; a start during a stop makes join wait
  for the new worker; a checkpoint that cannot be saved blocks DELETE and POST; one row that does not
  decode fails every load behind it; rows that share a stream_seq across a page may be passed over; an ACK that is executed after
  its timeout (src/server/edge_fleet_sql_http_adapter.cpp:413-415) gives the ledger a second row for the event.
- **ActionOutcome**: malformed proposals use up the batch; the lease is acquired and renewed in two statements, and the renewal does not ask who owns the row it renews; the latest row of the
  catalog is chosen by wall clock.
- **ConfigFile**: a control character other than \n, \r, \t comes back as the text u0001; a second rename that fails
  has removed the old file already. A first POST whose catalog row fails leaves a configuration in the file that was
  not acknowledged; a catalog that could not be read keeps an older row, which wins at the next start; a load that
  failed leaves its path unset, so later requests are not saved there (src/server/http_server.cpp:7449-7462, 7502-7511, 2490-2566).
- **Materialized views** (not modelled): a tick updates every view whatever its table, typed rows none; rows
  before the creation, UPDATE, DELETE and eviction are not reflected.

## Abstractions and limits

- A tick, a row, a node and a symbol are names or small numbers. Encodings, compression, column
  types and wire formats are left out, except where a module is about them (BatchIngest, ConfigFile, SqlParser).
- Atomic operations are sequentially consistent in the model. The ring's slot states use acquire
  and release, which is what the payload needs. The relaxed load of `read_pos_` may return an older
  value than the model's; `QueueInv` and what is proved from it use nothing of that value but its type.
- Time is a counter of hours (PartitionStore) or ticks (SessionStore), three ages of a heartbeat (HealthMonitor), a
  number of failed pings (CoordinatorHA); timed waits end at any time where the code allows it.
- Counters are unbounded in the code as far as the models are concerned: positions, epochs and
  generation numbers do not wrap. Bounds (`MaxTicks`, `MaxRows`, `MaxCrashes`, ...) only limit inputs.
- SnapshotStore crashes the process, not the machine: what was written to a file stays.
- PartitionMigration takes a tick to be stored when it was sent: the queue of the receiving node
  is left out there. A tick in that queue during the SELECT is one more way to `NoGap`.
- CoordinatorHA allows one registration call at a time in each coordinator.
- RebalanceManager takes a move as one step and broadcasts as part of the ring edit;
  PartitionMigration and RingConsensus model these.
- `MembershipSafe` is about the nodes `start()` registered. The ring of HealthMonitor is the set of its members; PartitionRouter has the hash positions.
- QueryCoordinator lets a node execute its statement exactly; SelectExec and JoinOps are about that.
- AgentStore has `evict_expired_on_write` at its default, true, and no change of the eviction configuration.
- ConfigFile loads the file before the catalog, as the tests do: nothing else under src/ calls `set_*_persistence`.
- AgentWal keeps two requests in flight on different ids; AgentRouting gives the successor a whole shard.
- FeedConsumer models the four brokers as one consumer with a setup; what they have in common is
  written four times in the code, and the map assigns each part to one of the four files.
- ActionOutcome has one administrative request at a time for each supervisor; EdgeFleet has the overlapping ones.

## Not modelled

- Pure I/O and platforms: shared memory, UCX and CXL transports, arena allocator, PTP clock detection, S3
  and Parquet writers, HDB reader, Telegraf output, the multicast, ITCH, FIX and Binance feeds (in no build target).
- Data kernels and generated code: JIT and vectorised engines, query planner, typed expressions, LIKE, EXPLAIN,
  DuckDB interchange, sparse and IVF indexes.
- Cryptography and identity: JWT and licence validation, JWKS, SSO providers, secrets, rate limiter.
- Offline tools and front ends: migrators, q language, HDB loader, Python bindings, command line tools.
- State that could be modelled next: `mark_leaving` of the health monitor, materialized views, cluster snapshots (snapshot_coordinator), node
  registry, job scheduler, `materialize_result_into_typed_table` of the coordinator, `clear()`
  and the directory snapshot of the agent store.
- Proofs that could come next: `RepliesMatch`, `SensorStats`, `EdgeLedger`, `OutcomeOnce`, `AgentDurable`,
  `RequestsAccounted`.
