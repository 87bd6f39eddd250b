--------------------------- MODULE PartitionStore ---------------------------
(***************************************************************************)
(* The in-memory partitions of one (table, symbol), their life cycle       *)
(* ACTIVE -> SEALED -> FLUSHING -> FLUSHED, and the pipeline's raw-pointer  *)
(* index over them.                                                        *)
(*                                                                         *)
(* PartitionManager maps an hour to a Partition object and hands out plain *)
(* references after it has released its map lock; store_tick and           *)
(* ingest_typed_row append under the object's own write lock; the flush    *)
(* thread seals, writes to the HDB, evicts and tiers without it (only      *)
(* HDBWriter::flush_partition takes the write lock).  Objects have an      *)
(* identity of their own here, because an evicted hour may be created anew *)
(* while a thread still holds the old object.                              *)
(***************************************************************************)
EXTENDS Naturals, FiniteSets, Functions

CONSTANTS Writers,      \* drain threads and ingest callers
          MaxHour,      \* bound: the clock runs over the hours 0..MaxHour
          StMaxRows,    \* the largest bound on rows of a setup
          MaxParts,     \* bound: partition objects created in a behaviour
          StSetups      \* the configurations to study, see StSetupType

\* PipelineConfig, FlushConfig and what the clients do.  Ages are in hours and
\* 0 means off; limit is max_memory_bytes in partitions.
StSetupType ==
    [tiered : BOOLEAN,   \* StorageMode::TIERED, i.e. there is a FlushManager
     parquet : BOOLEAN,  \* output format BOTH instead of BINARY
     limit : Nat, ttl : Nat, seal : Nat, warm : Nat, cold : Nat, drop : Nat,
     late : BOOLEAN,     \* rows may carry a timestamp from a past hour
     sql : BOOLEAN,      \* ALTER TABLE SET TTL statements are executed
     rows : 0..StMaxRows]  \* bound: rows stored in a behaviour of this setup

ASSUME BoundsAssumption == {MaxHour, StMaxRows, MaxParts} \subseteq Nat
\* The constructor rejects a memory limit in tiered mode.
ASSUME SetupAssumption == \A c \in StSetups : c \in StSetupType /\ ~(c.tiered /\ c.limit > 0)

VARIABLES stSetup,      \* the configuration of this process
          now,          \* the hour of the wall clock
          store_row,    \* rows stored so far; a row is its number
          partitions,   \* hour -> object, NoPart if absent
          obj,          \* object -> contents
          index,        \* how often partition_index_ lists each object
          hdb,          \* hour -> rows in the HDB files
          pq_files,     \* parquet_writer_->files_written() > 0
          wpc, wptr, wvictim,       \* writer: control, partition reference, eviction choice
          fpc, fjob, fcur, fwrote,  \* flush thread: control, worklist, partition, outcome
          sqlpc,        \* the SQL thread in evict_older_than_ns
          misuse        \* an object was used after it had been freed

storeVars == <<partitions, obj, index>>
writerVars == <<store_row, wpc, wptr, wvictim>>
flushVars == <<pq_files, fpc, fjob, fcur, fwrote>>
stVars == <<stSetup, now, storeVars, hdb, writerVars, flushVars, sqlpc, misuse>>

Hours == 0..MaxHour
Objects == 1..MaxParts
NoPart == 0
State == {"ACTIVE", "SEALED", "FLUSHING", "FLUSHED"}
Rows == 1..StMaxRows

StInit ==
    /\ stSetup \in StSetups
    /\ now = 0
    /\ store_row = 1
    /\ partitions = [h \in Hours |-> NoPart]
    /\ obj = [p \in Objects |-> [hour |-> 0, state |-> "ACTIVE", rows |-> {},
                               schema |-> FALSE, life |-> "unused"]]
    /\ index = [p \in Objects |-> 0]
    /\ hdb = [h \in Hours |-> {}]
    /\ wpc = [w \in Writers |-> "idle"]
    /\ wptr = [w \in Writers |-> NoPart]
    /\ wvictim = [w \in Writers |-> NoPart]
    /\ fpc = "idle"
    /\ fjob = {}
    /\ fcur = NoPart
    /\ fwrote = FALSE
    /\ pq_files = FALSE
    /\ sqlpc = "idle"
    /\ misuse = FALSE

Live == {p \in Objects : obj[p].life = "live"}
Mapped == {partitions[h] : h \in Hours} \ {NoPart}
Used(p) == misuse' = (misuse \/ obj[p].life = "freed")
Older(p, age) == obj[p].hour + age < now          \* hour_epoch < now - age
Aged(p, age) == age > 0 /\ now >= obj[p].hour + age

\* store_tick keeps its partition's write lock until it returns.
WriteLocked(p) == \E w \in Writers : wpc[w] \in {"limit", "evict"} /\ wptr[w] = p

-----------------------------------------------------------------------------
(* Writers: store_tick, ingest_typed_row                                   *)

\* get_or_create: the object of the row's hour, whatever its state.
GetOrCreate(w, h) ==
    /\ wpc[w] = "idle"
    /\ store_row + Cardinality({v \in Writers : wpc[v] = "append"}) <= stSetup.rows
    /\ h <= now /\ (stSetup.late \/ h = now)
    /\ \/ /\ partitions[h] # NoPart
          /\ wptr' = [wptr EXCEPT ![w] = partitions[h]]
          /\ UNCHANGED <<partitions, obj>>
       \/ /\ partitions[h] = NoPart
          /\ \E p \in Objects :
               /\ obj[p].life = "unused"
               /\ \A q \in 1..(p - 1) : obj[q].life # "unused"
               /\ partitions' = [partitions EXCEPT ![h] = p]
               /\ obj' = [obj EXCEPT ![p].hour = h, ![p].life = "live"]
               /\ wptr' = [wptr EXCEPT ![w] = p]
    /\ wpc' = [wpc EXCEPT ![w] = "append"]
    /\ UNCHANGED <<stSetup, now, sqlpc, store_row, index, hdb, wvictim, flushVars, misuse>>

\* A bug: a new partition is not entered into the index.
AppendUnindexed(w) ==
    /\ wpc[w] = "append"
    /\ ~WriteLocked(wptr[w])
    /\ obj' = [obj EXCEPT ![wptr[w]].rows = @ \cup {store_row}, ![wptr[w]].schema = TRUE]
    /\ store_row' = store_row + 1
    /\ Used(wptr[w])
    /\ wpc' = [wpc EXCEPT ![w] = IF stSetup.limit > 0 THEN "limit" ELSE "idle"]
    /\ UNCHANGED <<stSetup, now, sqlpc, partitions, index, hdb, wptr, wvictim, flushVars>>

\* Under the write lock: schema and index entry on first use, then the row.
AppendRow(w) ==
    /\ wpc[w] = "append"
    /\ ~WriteLocked(wptr[w])
    /\ index' = [index EXCEPT ![wptr[w]] = IF obj[wptr[w]].schema THEN @ ELSE @ + 1]
    /\ obj' = [obj EXCEPT ![wptr[w]].rows = @ \cup {store_row}, ![wptr[w]].schema = TRUE]
    /\ store_row' = store_row + 1
    /\ Used(wptr[w])
    /\ wpc' = [wpc EXCEPT ![w] = IF stSetup.limit > 0 THEN "limit" ELSE "idle"]
    /\ UNCHANGED <<stSetup, now, sqlpc, partitions, hdb, wptr, wvictim, flushVars>>

\* total_memory_bytes() and oldest_partition(): some partition of the oldest hour.
LimitCheck(w) ==
    /\ wpc[w] = "limit"
    /\ \/ /\ Cardinality(Mapped) <= stSetup.limit
          /\ wpc' = [wpc EXCEPT ![w] = "idle"]
          /\ UNCHANGED wvictim
       \/ /\ Cardinality(Mapped) > stSetup.limit
          /\ \E p \in Mapped :
               /\ \A q \in Mapped : obj[p].hour <= obj[q].hour
               /\ IF p = wptr[w]
                    THEN wpc' = [wpc EXCEPT ![w] = "idle"] /\ UNCHANGED wvictim
                    ELSE wpc' = [wpc EXCEPT ![w] = "evict"] /\ wvictim' = [wvictim EXCEPT ![w] = p]
    /\ UNCHANGED <<stSetup, now, sqlpc, store_row, storeVars, hdb, wptr, flushVars, misuse>>

\* evict_partition: erases the map entry that points at the object, if any.
Unmap(p) ==
    /\ partitions' = [h \in Hours |-> IF partitions[h] = p THEN NoPart ELSE partitions[h]]
    /\ obj' = [obj EXCEPT ![p].life = IF p \in Mapped THEN "freed" ELSE @]

LimitEvict(w) ==
    /\ wpc[w] = "evict"
    /\ Unmap(wvictim[w])
    /\ wpc' = [wpc EXCEPT ![w] = "idle"]
    /\ UNCHANGED <<stSetup, now, sqlpc, store_row, index, hdb, wptr, wvictim, flushVars, misuse>>

-----------------------------------------------------------------------------
(* Flush thread: flush_loop, do_flush_sealed, do_tiering, TTL eviction     *)

SealOld ==
    /\ stSetup.tiered
    /\ fpc = "idle"
    /\ obj' = [p \in Objects |->
                 IF p \in Mapped /\ obj[p].state = "ACTIVE" /\ Older(p, stSetup.seal)
                   THEN [obj[p] EXCEPT !.state = "SEALED"] ELSE obj[p]]
    /\ fpc' = "collect"
    /\ UNCHANGED <<stSetup, now, sqlpc, pq_files, partitions, index, hdb, writerVars, fjob, fcur, fwrote, misuse>>

CollectSealed ==
    /\ fpc = "collect"
    /\ fjob' = {p \in Mapped : obj[p].state = "SEALED"}
    /\ fpc' = "flush"
    /\ UNCHANGED <<stSetup, now, sqlpc, pq_files, storeVars, hdb, writerVars, fcur, fwrote, misuse>>

BeginFlush ==
    /\ fpc = "flush"
    /\ \E p \in fjob :
         /\ fcur' = p
         /\ fjob' = fjob \ {p}
         /\ obj' = [obj EXCEPT ![p].state = "FLUSHING"]
         /\ Used(p)
    /\ fpc' = "write"
    /\ UNCHANGED <<stSetup, now, sqlpc, pq_files, partitions, index, hdb, writerVars, fwrote>>

\* HDBWriter::flush_partition under the write lock: 0 bytes for an empty
\* partition or an I/O error, which leaves old and new column files mixed.  In
\* BOTH mode do_flush_sealed then writes a Parquet file as well.
WriteHdb ==
    /\ fpc \in {"write", "warm", "cold"}
    /\ ~WriteLocked(fcur)
    /\ \E ok \in BOOLEAN, pq \in IF stSetup.parquet /\ fpc = "write" THEN BOOLEAN ELSE {FALSE} :
         LET h == obj[fcur].hour
             some == obj[fcur].rows # {}
         IN  /\ fwrote' = (ok /\ some)
             /\ pq_files' = (pq_files \/ (pq /\ some))
             /\ IF (ok \/ pq) /\ some
                  THEN hdb' = [hdb EXCEPT ![h] = obj[fcur].rows]
                  ELSE hdb' \in {hdb, [hdb EXCEPT ![h] = {}]}
    /\ Used(fcur)
    /\ fpc' = CASE fpc = "write" -> "commit" [] fpc = "warm" -> "commitWarm" [] OTHER -> "commitCold"
    /\ UNCHANGED <<stSetup, now, sqlpc, storeVars, writerVars, fjob, fcur>>

\* FLUSHED on success, back to SEALED on failure.  Any Parquet file written so
\* far counts as success of this one; the COLD tier does not look at the result.
EndFlush ==
    /\ fpc \in {"commit", "commitWarm", "commitCold"}
    /\ obj' = [obj EXCEPT ![fcur].state =
                 IF fwrote \/ (fpc = "commit" /\ pq_files) \/ fpc = "commitCold"
                   THEN "FLUSHED" ELSE "SEALED"]
    /\ Used(fcur)
    /\ fpc' = IF fpc = "commit" THEN "flush" ELSE "tier"
    /\ UNCHANGED <<stSetup, now, sqlpc, pq_files, partitions, index, hdb, writerVars, fjob, fcur, fwrote>>

\* evict_older_than(now_ns() - ttl); the clock is somewhere inside hour now.
EvictOlder(age) ==
    /\ partitions' = [h \in Hours |-> IF h + age <= now THEN NoPart ELSE partitions[h]]
    /\ obj' = [p \in Objects |-> IF p \in Mapped /\ obj[p].hour + age <= now
                                 THEN [obj[p] EXCEPT !.life = "freed"] ELSE obj[p]]

TtlEvict ==
    /\ fpc = "flush" /\ fjob = {}
    /\ \/ /\ stSetup.ttl > 0
          /\ EvictOlder(stSetup.ttl)
          /\ fpc' = IF partitions' # partitions THEN "rebuild" ELSE "tierAll"
       \/ /\ stSetup.ttl = 0
          /\ fpc' = "tierAll"
          /\ UNCHANGED <<partitions, obj>>
    /\ UNCHANGED <<stSetup, now, sqlpc, pq_files, index, hdb, writerVars, fjob, fcur, fwrote, misuse>>

\* evict_older_than_ns rebuilds the index from the map, under the index lock.
RebuildIndex ==
    /\ fpc = "rebuild"
    /\ index' = [p \in Objects |-> IF p \in Mapped THEN 1 ELSE 0]
    /\ fpc' = "tierAll"
    /\ UNCHANGED <<stSetup, now, sqlpc, pq_files, partitions, obj, hdb, writerVars, fjob, fcur, fwrote, misuse>>

TierCollect ==
    /\ fpc = "tierAll"
    /\ fjob' = IF stSetup.warm + stSetup.cold + stSetup.drop > 0 THEN Mapped ELSE {}
    /\ fpc' = "tier"
    /\ UNCHANGED <<stSetup, now, sqlpc, pq_files, storeVars, hdb, writerVars, fcur, fwrote, misuse>>

Tier(p) ==
    IF obj[p].rows = {} THEN "hot"
    ELSE IF Aged(p, stSetup.drop) THEN "drop"
    ELSE IF Aged(p, stSetup.cold) THEN "cold"
    ELSE IF Aged(p, stSetup.warm) THEN "warm"
    ELSE "hot"

\* One partition of do_tiering: DROP evicts, COLD and WARM seal and flush an
\* ACTIVE partition, anything else is left alone.
TierOne ==
    /\ fpc = "tier"
    /\ \E p \in fjob :
         /\ fjob' = fjob \ {p}
         /\ Used(p)
         /\ \/ /\ Tier(p) = "drop"
               /\ Unmap(p)
               /\ UNCHANGED <<fpc, fcur>>
            \/ /\ Tier(p) \in {"warm", "cold"} /\ obj[p].state = "ACTIVE"
               /\ obj' = [obj EXCEPT ![p].state = "FLUSHING"]
               /\ fcur' = p
               /\ fpc' = Tier(p)
               /\ UNCHANGED partitions
            \/ /\ Tier(p) = "hot" \/ (Tier(p) # "drop" /\ obj[p].state # "ACTIVE")
               /\ UNCHANGED <<partitions, obj, fpc, fcur>>
    /\ UNCHANGED <<stSetup, now, sqlpc, pq_files, index, hdb, writerVars, fwrote>>

TierDone ==
    /\ fpc = "tier" /\ fjob = {}
    /\ fpc' = "idle"
    /\ UNCHANGED <<stSetup, now, sqlpc, pq_files, storeVars, hdb, writerVars, fjob, fcur, fwrote, misuse>>

-----------------------------------------------------------------------------
(* ALTER TABLE SET TTL: evict_older_than_ns on the SQL thread               *)

SqlEvict ==
    /\ stSetup.sql /\ stSetup.ttl > 0
    /\ sqlpc = "idle"
    /\ EvictOlder(stSetup.ttl)
    /\ sqlpc' = IF partitions' # partitions THEN "rebuild" ELSE "idle"
    /\ UNCHANGED <<stSetup, now, index, hdb, writerVars, flushVars, misuse>>

SqlRebuild ==
    /\ sqlpc = "rebuild"
    /\ index' = [p \in Objects |-> IF p \in Mapped THEN 1 ELSE 0]
    /\ sqlpc' = "idle"
    /\ UNCHANGED <<stSetup, now, partitions, obj, hdb, writerVars, flushVars, misuse>>

-----------------------------------------------------------------------------
\* The next hour.  Unless late rows are studied, a writer does not sit between
\* get_or_create and its append while an hour passes.
ClockTick ==
    /\ now < MaxHour
    /\ stSetup.late \/ \A w \in Writers : wpc[w] = "idle"
    /\ now' = now + 1
    /\ UNCHANGED <<stSetup, storeVars, hdb, writerVars, flushVars, sqlpc, misuse>>

WriterNext(w) ==
    \/ \E h \in Hours : GetOrCreate(w, h)
    \/ AppendRow(w)
    \/ LimitCheck(w)
    \/ LimitEvict(w)

FlushNext ==
    \/ SealOld
    \/ CollectSealed
    \/ BeginFlush
    \/ WriteHdb
    \/ EndFlush
    \/ TtlEvict
    \/ RebuildIndex
    \/ TierCollect
    \/ TierOne
    \/ TierDone

StNext ==
    \/ \E w \in Writers : WriterNext(w)
    \/ FlushNext
    \/ SqlEvict
    \/ SqlRebuild
    \/ ClockTick

StSpec == StInit /\ [][StNext]_stVars

\* The flush thread runs forever, and its disk does not fail every time.
StFairSpec == StSpec /\ WF_stVars(FlushNext) /\ SF_stVars(WriteHdb /\ fwrote')

-----------------------------------------------------------------------------
(* Properties                                                              *)

StTypeOK ==
    /\ stSetup \in StSetups
    /\ now \in Hours
    /\ store_row \in 1..(StMaxRows + 1)
    /\ partitions \in [Hours -> Objects \cup {NoPart}]
    /\ obj \in [Objects -> [hour : Hours, state : State, rows : SUBSET Rows,
                         schema : BOOLEAN, life : {"unused", "live", "freed"}]]
    /\ index \in [Objects -> Nat]
    /\ hdb \in [Hours -> SUBSET Rows]
    /\ pq_files \in BOOLEAN
    /\ wpc \in [Writers -> {"idle", "append", "limit", "evict"}]
    /\ wptr \in [Writers -> Objects \cup {NoPart}]
    /\ fjob \subseteq Objects
    /\ misuse \in BOOLEAN

(* The map and the objects agree: an hour's partition is live and of that   *)
(* hour, and every live partition is the one its hour maps to, so a row is  *)
(* never split over two objects (get_or_create, eviction).                   *)
MapConsistent ==
    /\ \A h \in Hours : partitions[h] # NoPart =>
          obj[partitions[h]].life = "live" /\ obj[partitions[h]].hour = h
    /\ \A p \in Live : partitions[obj[p].hour] = p

(* No row is invisible to index-based queries: a live partition that has a  *)
(* schema is listed in partition_index_, also while evict_older_than_ns     *)
(* rebuilds the index beside store_tick creating partitions.                *)
IndexComplete == \A p \in Live : obj[p].schema => index[p] > 0

(* FLUSHED means the HDB has the rows ("HDB 완료", partition_manager.h:75). *)
(* Holds as long as no row arrives for an hour that is already sealed and   *)
(* success is judged by the HDB file: not by the count of Parquet files,    *)
(* and not by nothing at all as in the COLD tier.                           *)
FlushedOnDisk ==
    (~stSetup.late /\ ~stSetup.parquet /\ stSetup.cold = 0) =>
        \A p \in Live : obj[p].state = "FLUSHED" => obj[p].rows \subseteq hdb[obj[p].hour]

(* Without a memory limit only expired hours are evicted, by the TTL or the *)
(* DROP tier, and with them no row of a younger hour, even one appended     *)
(* through a reference obtained before.                                     *)
ExpiredOnly ==
    stSetup.limit = 0 =>
        \A p \in Objects : obj[p].life = "freed" =>
            \E age \in {stSetup.ttl, stSetup.drop} \ {0} : obj[p].hour + age <= now

(* The flush thread and the writers never touch a partition after it was    *)
(* evicted: the state transitions are made by one thread, "no locking       *)
(* needed" (docs/devlog/004_hdb_tiered_storage.md:80).  Holds without late  *)
(* rows, SQL evictions and a memory limit.                                  *)
NoUseAfterEvict == (~stSetup.late /\ ~stSetup.sql /\ stSetup.limit = 0) => ~misuse

(* The store beside its flush thread: no row is split over two objects,    *)
(* hidden from the index, marked as flushed without being on disk, evicted *)
(* before its time or touched after (store_tick, do_flush_sealed,          *)
(* evict_older_than_ns).                                                   *)
StoreSafe == MapConsistent /\ IndexComplete /\ FlushedOnDisk /\ ExpiredOnly /\ NoUseAfterEvict

(* A sealed partition with rows reaches the HDB, whatever the order of      *)
(* failed writes, retries and hours (do_flush_sealed), or expires.          *)
NoneSealed == \A p \in Live : obj[p].state \in {"SEALED", "FLUSHING"} => obj[p].rows = {}
SealedFlushed == []<>NoneSealed

-----------------------------------------------------------------------------
(* What the documentation says and the code does not do                    *)

(* docs/devlog/021_ddl_schema_management.md:170: any operation that removes *)
(* partitions must also invalidate partition_index_; outside the eviction   *)
(* itself the index lists live partitions only.                             *)
IndexLive ==
    (fpc # "rebuild" /\ sqlpc # "rebuild") => \A p \in Objects : index[p] > 0 => p \in Live

(* pipeline.h:298: total_stored_rows() is the sum over all partitions, so   *)
(* the index lists no partition twice.                                      *)
RowsCountedOnce == \A p \in Live : index[p] <= 1
=============================================================================
