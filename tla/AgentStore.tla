----------------------------- MODULE AgentStore -----------------------------
(***************************************************************************)
(* The in-memory store of agent memories and cached answers, with its      *)
(* approximate-nearest-neighbour (ANN) index: src/src/ai/agent_memory.cpp  *)
(* over src/src/ai/ann_index.cpp.                                          *)
(*                                                                         *)
(* Every call holds mu_, so each is one action.  What is not one action is *)
(* the rebuild of the index: ann_build_snapshot_locked_ copies the rows    *)
(* under mu_, the index is built with the lock released, and               *)
(* build_and_swap_ann_index_ installs it under mu_ again unless            *)
(* ann_generation_ has moved.  Two threads rebuild: the background worker  *)
(* that a search wakes, and a caller of rebuild_ann_index().               *)
(*                                                                         *)
(* A memory is a record [id, part, emb, exp, pin]: part stands for the     *)
(* tenant and namespace that key an ANN partition, emb for the embedding   *)
(* (AgNoEmb: none, AgZero: one of length zero, which has no direction),    *)
(* exp for expires_at_ns (0: never).  A cached answer is [key, part, emb,  *)
(* exp].  Retention scores move with every access, so which unpinned row   *)
(* or entry an eviction takes is a choice; evict_expired_on_write has its  *)
(* default, true.  Generations are only compared for equality with the current    *)
(* one, so a generation is the Boolean "still the current one".            *)
(* memory_index_ is the map from id to row that agRows determines.         *)
(***************************************************************************)
EXTENDS Integers, Sequences, FiniteSets, SequencesExt, FiniteSetsExt

CONSTANTS AgMemories,     \* the memories a caller may put
          AgEntries,      \* the cache entries a caller may store
          AgMax,          \* eviction_config_.max_memories (0: no limit)
          AgQuotas,       \* eviction_config_.tenant_quotas: [part, max, cache]
          AgMaxCache,     \* eviction_config_.max_cache_entries
          AgMinRecords,   \* ann_config_.min_records of mode Auto
          AgProtect,      \* eviction_config_.protect_pinned
          AgMaxOps        \* bound: calls in a behaviour

AgNoEmb == 0
AgZero == 9
AgBuilders == {"worker", "caller"}
AgModes == {"Off", "Auto", "Ivf"}

ASSUME AgConstants ==
    /\ \A m \in AgMemories :
         m \in [id : STRING, part : STRING, emb : Nat, exp : Nat, pin : BOOLEAN]
    /\ \A e \in AgEntries : e \in [key : STRING, part : STRING, emb : Nat, exp : Nat]
    /\ AgQuotas \in Seq([part : STRING, max : Nat, cache : Nat])
    /\ {AgMax, AgMaxCache, AgMinRecords, AgMaxOps} \subseteq Nat
    /\ AgProtect \in BOOLEAN

VARIABLES agRows,      \* memories_
          agUnits,     \* memory_unit_embeddings_, one element per row
          agHas,       \* memory_has_embedding_
          agDimSet,    \* embedding_dim_ /= 0
          agExpiring,  \* expiring_memory_count_
          agCache,     \* cache_entries_
          agExpCache,  \* expiring_cache_count_
          agMode,      \* ann_config_.mode
          agAnn,       \* ann_index_: active entries [part, row, emb]
          agDirty,     \* ann_dirty_
          agReq,       \* ann_rebuild_requested_: [on, current]
          agBuild,     \* per rebuilding thread: [on, current, entries]
          agUndo,      \* evictions a caller may still hand back: [target, what]
          agNow,       \* now_ns()
          agOps,
          agSlipped    \* history: vectors changed under a snapshot still current

agStore == <<agRows, agUnits, agHas, agDimSet, agExpiring, agCache, agExpCache>>
agIndex == <<agAnn, agDirty, agReq, agBuild, agSlipped>>
agVars == <<agStore, agMode, agIndex, agUndo, agNow, agOps>>

(***************************************************************************)
(* The index.  A call works on a record st of the store's fields, with     *)
(* bump standing for ++ann_generation_ and out for what it evicted.        *)
(***************************************************************************)
RowOf(rows, id) == SelectInSeq(rows, LAMBDA r : r.id = id)

AnnEntry(row, r) == [part |-> r.part, row |-> row, emb |-> r.emb]

\* normalize_ gives nothing for an embedding of length zero.
HasEmb(r) == r.emb \notin {AgNoEmb, AgZero}

\* The index built from ann_build_snapshot_locked_: of the rows that carry an
\* embedding, those add() takes; build_and_swap ignores that it refuses one.
AnnEntries(rows) ==
    {AnnEntry(i, rows[i]) : i \in {j \in DOMAIN rows : HasEmb(rows[j])}}

AnnHolds(ann, part, row) == \E e \in ann : e.part = part /\ e.row = row

MarkDirty(st) == [st EXCEPT !.dirty = TRUE, !.bump = TRUE]

\* A maintenance step either edits the index or gives it up.
Maintained(st, ok, ann) ==
    IF ok THEN [st EXCEPT !.ann = ann] ELSE MarkDirty(st)

\* add(): an embedding of length zero is refused, and so is a row id the
\* partition already holds.
AnnAdd(st, row, r) ==
    IF r.emb = AgNoEmb THEN st
    ELSE Maintained(st, HasEmb(r) /\ ~AnnHolds(st.ann, r.part, row),
                    st.ann \cup {AnnEntry(row, r)})

AnnWithout(ann, part, row) == {e \in ann : e.part # part \/ e.row # row}

AnnRemove(st, row, r) ==
    IF r.emb = AgNoEmb THEN st
    ELSE Maintained(st, AnnHolds(st.ann, r.part, row),
                    AnnWithout(st.ann, r.part, row))

\* A bug: the row that moved stays indexed under its old number.
AnnRenameNever(st, r, old, new) == st

\* update_row_id(): the entry of the row that moved keeps its vector.
AnnRename(st, r, old, new) ==
    IF r.emb = AgNoEmb \/ old = new THEN st
    ELSE Maintained(st,
           AnnHolds(st.ann, r.part, old) /\ ~AnnHolds(st.ann, r.part, new),
           {IF e.part = r.part /\ e.row = old THEN [e EXCEPT !.row = new]
            ELSE e : e \in st.ann})

(***************************************************************************)
(* Rows and their unit embeddings.                                         *)
(***************************************************************************)
UnitOf(r) == IF HasEmb(r) THEN r.emb ELSE AgNoEmb
UnitsOf(rows) == [i \in DOMAIN rows |-> UnitOf(rows[i])]
HasOf(rows) == [i \in DOMAIN rows |-> HasEmb(rows[i])]

\* units_valid: the arrays are as long as memories_ says they should be.
UnitsValid(rows, units, has, dim) ==
    /\ Len(has) = Len(rows)
    /\ dim => Len(units) = Len(rows)

CutAt(s, i) == [j \in 1 .. Len(s) - 1 |-> IF j = i THEN s[Len(s)] ELSE s[j]]

\* remove_memory_row_locked_: the last row takes the place of the removed one.
RemoveRow(st, i) ==
    LET last == Len(st.rows)
        gone == st.rows[i]
        keep == ~st.dirty /\ st.on
        s1 == IF keep THEN AnnRemove(st, i, gone) ELSE st
        s2 == IF keep /\ ~s1.dirty /\ i # last
              THEN AnnRename(s1, st.rows[last], last, i) ELSE s1
        valid == UnitsValid(st.rows, st.units, st.has, st.dim)
        rows == CutAt(st.rows, i)
    IN [s2 EXCEPT
          !.rows = rows,
          !.units = IF ~st.dim THEN st.units
                    ELSE IF valid THEN CutAt(st.units, i) ELSE UnitsOf(rows),
          !.has = IF valid THEN CutAt(st.has, i)
                  ELSE IF st.dim THEN HasOf(rows) ELSE [j \in DOMAIN rows |-> FALSE]]

Count(n, r) == IF r.exp > 0 THEN n + 1 ELSE n
Uncount(n, r) == IF r.exp > 0 /\ n > 0 THEN n - 1 ELSE n
Recount(n, old, new) ==
    IF (old.exp > 0) = (new.exp > 0) THEN n ELSE Count(Uncount(n, old), new)
CountExpiring(rows) == Cardinality({i \in DOMAIN rows : rows[i].exp > 0})
Expired(r) == r.exp > 0 /\ r.exp <= agNow

\* An AgentMemoryEvictionEvent.
OfMemory(m) == [target |-> "memory", what |-> m]
OfCache(entries) == [i \in DOMAIN entries |-> [target |-> "cache", what |-> entries[i]]]

\* evict_expired_locked_: every expired row, in row order, the row that moves
\* into a hole examined next.
RECURSIVE DropExpired(_, _)
DropExpired(st, i) ==
    CASE i > Len(st.rows) -> st
      [] i <= Len(st.rows) /\ ~Expired(st.rows[i]) -> DropExpired(st, i + 1)
      [] OTHER -> DropExpired(
                    [RemoveRow(st, i) EXCEPT !.out = Append(@, OfMemory(st.rows[i]))], i)

DropExpiredCache(st) ==
    [st EXCEPT !.cache = SelectSeq(@, LAMBDA e : ~Expired(e)),
               !.out = @ \o OfCache(SelectSeq(st.cache, Expired))]

Recounted(st) ==
    [st EXCEPT !.exp = CountExpiring(st.rows), !.cexp = CountExpiring(st.cache)]

\* Memories first, then cached answers, each skipped outright when its counter
\* says nothing can expire; the counters are taken anew if anything went.
EvictExpired(st) ==
    LET rows == IF st.exp = 0 THEN st ELSE DropExpired(st, 1)
        both == IF st.cexp = 0 THEN rows ELSE DropExpiredCache(rows)
    IN IF both.out = st.out THEN both ELSE Recounted(both)

\* The rows a quota counts: its partition's, or all for the limit of the store.
InQuota(rows, q) == {i \in DOMAIN rows : q.part \in {"*", rows[i].part}}

\* memory_retention_score_: a pinned row outscores every unpinned one, and
\* protect_pinned takes it out of the running altogether.
Victims(rows, q) ==
    LET loose == {i \in InQuota(rows, q) : ~rows[i].pin}
    IN IF loose # {} \/ AgProtect THEN loose ELSE InQuota(rows, q)

\* The two loops of enforce_eviction_locked_ for one limit: the possible outcomes.
RECURSIVE EvictFor(_, _), EvictCacheFor(_, _)
EvictFor(st, q) ==
    IF \/ q.max = 0
       \/ Cardinality(InQuota(st.rows, q)) <= q.max
       \/ Victims(st.rows, q) = {}
    THEN {st}
    ELSE UNION {EvictFor([RemoveRow(st, i) EXCEPT
                            !.exp = Uncount(st.exp, st.rows[i]),
                            !.out = Append(@, OfMemory(st.rows[i]))], q)
                  : i \in Victims(st.rows, q)}
EvictCacheFor(st, q) ==
    IF q.cache = 0 \/ Cardinality(InQuota(st.cache, q)) <= q.cache
    THEN {st}
    ELSE UNION {EvictCacheFor([st EXCEPT
                                 !.cache = RemoveAt(@, i),
                                 !.cexp = Uncount(@, st.cache[i]),
                                 !.out = @ \o OfCache(<<st.cache[i]>>)], q)
                  : i \in InQuota(st.cache, q)}

\* evict_expired_locked_, the tenant quotas in order, then max_memories and
\* max_cache_entries.
Evicted(st) ==
    FoldLeft(LAMBDA sts, q :
               UNION {EvictCacheFor(s, q) : s \in UNION {EvictFor(s, q) : s \in sts}},
             {EvictExpired(st)},
             Append(AgQuotas, [part |-> "*", max |-> AgMax, cache |-> AgMaxCache]))

(***************************************************************************)
(* A call starts from AgState and ends in AgCommit(st).                    *)
(***************************************************************************)
AgState ==
    [rows |-> agRows, units |-> agUnits, has |-> agHas, dim |-> agDimSet,
     exp |-> agExpiring, cache |-> agCache, cexp |-> agExpCache, ann |-> agAnn, dirty |-> agDirty,
     on |-> agMode # "Off", bump |-> FALSE, out |-> <<>>]

\* mark_ann_dirty_locked_ asks for another rebuild when the worker is busy;
\* request_ann_rebuild_locked_ does nothing in mode Off.
AskAgain(st) ==
    IF st.bump /\ agBuild["worker"].on /\ st.on
    THEN [on |-> TRUE, current |-> TRUE]
    ELSE [agReq EXCEPT !.current = @ /\ ~st.bump]

AgCommit(st) ==
    /\ agRows' = st.rows /\ agUnits' = st.units /\ agHas' = st.has
    /\ agDimSet' = st.dim /\ agExpiring' = st.exp
    /\ agCache' = st.cache /\ agExpCache' = st.cexp
    /\ agAnn' = st.ann /\ agDirty' = st.dirty
    /\ agBuild' = [b \in AgBuilders |->
                     [agBuild[b] EXCEPT !.current = @ /\ ~st.bump]]
    /\ agReq' = AskAgain(st)
    /\ agSlipped' = (~st.bump /\ (agSlipped \/
                       (/\ AnnEntries(st.rows) # AnnEntries(agRows)
                        /\ \E b \in AgBuilders :
                             agBuild[b].on /\ agBuild[b].current)))

AgCall == agOps < AgMaxOps /\ agOps' = agOps + 1 /\ UNCHANGED agNow

\* validate_embedding_ fixes the dimension at the first embedding it accepts,
\* and put_memory then sizes the arrays of the rows already there.
WithDim(st, emb) ==
    IF emb = AgNoEmb \/ st.dim THEN st
    ELSE [st EXCEPT !.dim = TRUE,
                    !.units = [i \in DOMAIN st.rows |-> AgNoEmb],
                    !.has = [i \in DOMAIN st.rows |-> FALSE]]

AppendRow(st, m) ==
    [st EXCEPT !.rows = Append(@, m),
               !.units = IF st.dim THEN Append(@, UnitOf(m)) ELSE @,
               !.has = Append(@, st.dim /\ HasEmb(m)),
               !.exp = Count(@, m)]

ReplaceRow(st, i, m) ==
    LET rows == [st.rows EXCEPT ![i] = m]
        fits == UnitsValid(st.rows, st.units, st.has, TRUE)
    IN [st EXCEPT
          !.rows = rows,
          !.units = IF ~st.dim THEN @
                    ELSE IF fits THEN [@ EXCEPT ![i] = UnitOf(m)] ELSE UnitsOf(rows),
          !.has = IF ~st.dim THEN @
                  ELSE IF fits THEN [@ EXCEPT ![i] = HasEmb(m)] ELSE HasOf(rows),
          !.exp = Recount(@, st.rows[i], m)]

\* The tail of put_memory: the index follows an undisturbed append or update
\* of a clean index, ignores one that moves no vector, and is given up
\* otherwise.
AnnAfterPut(before, st, i, m) ==
    LET clean == before.on /\ ~before.dirty /\ ~st.dirty
        stays == /\ i \in DOMAIN st.rows /\ st.rows[i].id = m.id
        appended == i > Len(before.rows) /\ stays
                    /\ Len(st.rows) = Len(before.rows) + 1
        updated == i <= Len(before.rows) /\ stays
                   /\ Len(st.rows) = Len(before.rows)
        old == before.rows[i]
    IN CASE clean /\ appended -> AnnAdd(st, i, m)
         [] updated /\ old.part = m.part /\ old.emb = m.emb -> st
         [] clean /\ updated /\ ~(old.part = m.part /\ old.emb = m.emb) ->
              LET cut == AnnRemove(st, i, old)
              IN IF cut.dirty THEN cut ELSE AnnAdd(cut, i, m)
         [] OTHER -> MarkDirty(st)

\* put_memory.  A record refused after its embedding was validated (a negative
\* token count, another tenant's id) leaves the dimension behind.
AgPut(m) ==
    LET before == WithDim(AgState, m.emb)
        found == RowOf(before.rows, m.id)
        i == IF found = 0 THEN Len(before.rows) + 1 ELSE found
        put == IF found = 0 THEN AppendRow(before, m) ELSE ReplaceRow(before, i, m)
    IN /\ AgCall
       /\ \/ \E st \in Evicted(put) :
               /\ AgCommit(AnnAfterPut(before, st, i, m))
               /\ agUndo' = st.out
          \/ AgCommit(before) /\ UNCHANGED agUndo
       /\ UNCHANGED agMode

AgRemove(id) ==
    LET i == RowOf(agRows, id)
        st == AgState
    IN /\ i # 0
       /\ AgCall
       /\ AgCommit([RemoveRow(st, i) EXCEPT !.exp = Uncount(st.exp, agRows[i])])
       /\ UNCHANGED <<agMode, agUndo>>

\* store_cache: replace the entry of the same prompt or append, then evict.
\* The dimension is set by validate_embedding_ alone, and an entry refused
\* after it (no response, a negative token count) leaves it behind.
StoreCache(st, e) ==
    LET i == SelectInSeq(st.cache, LAMBDA c : c.key = e.key)
    IN IF i = 0 THEN [st EXCEPT !.cache = Append(@, e), !.cexp = Count(@, e)]
       ELSE [st EXCEPT !.cache[i] = e, !.cexp = Recount(@, st.cache[i], e)]

AgStoreCache(e) ==
    LET before == [AgState EXCEPT !.dim = @ \/ e.emb # AgNoEmb]
    IN /\ AgCall
       /\ \/ \E st \in Evicted(StoreCache(before, e)) : AgCommit(st) /\ agUndo' = st.out
          \/ AgCommit(before) /\ UNCHANGED agUndo
       /\ UNCHANGED agMode

AgRemoveCache(key) ==
    \E i \in DOMAIN agCache :
      /\ agCache[i].key = key
      /\ AgCall
      /\ AgCommit([AgState EXCEPT !.cache = RemoveAt(@, i), !.cexp = Uncount(@, agCache[i])])
      /\ UNCHANGED <<agMode, agUndo>>

\* evict_expired(), the sweep an operator calls.
AgEvictExpired ==
    /\ AgCall
    /\ AgCommit(EvictExpired(AgState))
    /\ UNCHANGED <<agMode, agUndo>>

\* restore_evicted_entries: the newest eviction first, an id or a prompt that
\* is back already skipped; no limit is enforced.
RestoreMemory(st, m) ==
    IF RowOf(st.rows, m.id) # 0 THEN st ELSE MarkDirty(AppendRow(WithDim(st, m.emb), m))
RestoreCache(st, e) ==
    IF \E i \in DOMAIN st.cache : st.cache[i].key = e.key THEN st
    ELSE StoreCache(WithDim(st, e.emb), e)

RECURSIVE Restored(_, _)
Restored(st, evictions) ==
    IF evictions = <<>> THEN st
    ELSE Restored(IF Last(evictions).target = "memory"
                  THEN RestoreMemory(st, Last(evictions).what)
                  ELSE RestoreCache(st, Last(evictions).what), Front(evictions))

AgRestore ==
    /\ agUndo # <<>>
    /\ AgCall
    /\ AgCommit(Restored(AgState, agUndo))
    /\ agUndo' = <<>>
    /\ UNCHANGED agMode

\* save_to_directory followed by load_from_directory, as a restart does: rows
\* and entries come back, everything derived from them is built anew.
AgReload ==
    /\ AgCall
    /\ AgCommit(MarkDirty(
         [Recounted(AgState) EXCEPT
            !.units = IF agDimSet THEN UnitsOf(agRows) ELSE <<>>,
            !.has = [i \in DOMAIN agRows |-> agDimSet /\ HasEmb(agRows[i])]]))
    /\ UNCHANGED <<agMode, agUndo>>

\* set_ann_config: a fresh, empty, dirty index of the new kind.
AgSetAnn(mode) ==
    /\ AgCall
    /\ agMode' = mode
    /\ AgCommit(MarkDirty([AgState EXCEPT !.ann = {}, !.on = mode # "Off"]))
    /\ UNCHANGED agUndo

(***************************************************************************)
(* Searching and rebuilding.                                               *)
(***************************************************************************)
ShouldUseAnn ==
    /\ agMode # "Off"
    /\ agMode = "Auto" => Len(agRows) >= AgMinRecords

\* request_ann_rebuild_locked_: once per generation, whether asked or running.
RequestRebuild ==
    IF \/ ~agDirty
       \/ agBuild["worker"].on /\ agBuild["worker"].current
       \/ agReq.on /\ agReq.current
    THEN agReq ELSE [on |-> TRUE, current |-> TRUE]

\* search and get_context ask for an index they find dirty, and scan.
AgSearch ==
    /\ ShouldUseAnn
    /\ agReq' = RequestRebuild
    /\ agReq' # agReq
    /\ UNCHANGED <<agStore, agMode, agAnn, agDirty, agBuild, agSlipped,
                   agUndo, agNow, agOps>>

\* ann_build_snapshot_locked_, in the worker's loop and in rebuild_ann_index.
\* With nothing to build the worker only clears the request.
AgSnapshot(b) ==
    /\ ~agBuild[b].on
    /\ b = "worker" => agReq.on
    /\ b = "caller" => agOps < AgMaxOps /\ agDirty /\ agMode # "Off"
    /\ agReq' = IF b = "worker" THEN [on |-> FALSE, current |-> FALSE] ELSE agReq
    /\ agOps' = IF b = "caller" THEN agOps + 1 ELSE agOps
    /\ agBuild' = IF agMode = "Off" \/ ~agDirty THEN agBuild
                  ELSE [agBuild EXCEPT ![b] =
                          [on |-> TRUE, current |-> TRUE,
                           entries |-> AnnEntries(agRows)]]
    /\ UNCHANGED <<agStore, agMode, agAnn, agDirty, agSlipped, agUndo,
                   agNow>>

\* build_and_swap_ann_index_: installed unless the generation moved.
AgSwap(b) ==
    /\ agBuild[b].on
    /\ IF agBuild[b].current
       THEN agAnn' = agBuild[b].entries /\ agDirty' = FALSE
       ELSE UNCHANGED <<agAnn, agDirty>>
    /\ agBuild' = [agBuild EXCEPT ![b] =
                     [on |-> FALSE, current |-> FALSE, entries |-> {}]]
    /\ UNCHANGED <<agStore, agMode, agReq, agSlipped, agUndo, agNow,
                   agOps>>

AgTick ==
    /\ agNow = 0
    /\ agNow' = 1
    /\ UNCHANGED <<agStore, agMode, agIndex, agUndo, agOps>>

AgInit ==
    /\ agRows = <<>> /\ agUnits = <<>> /\ agHas = <<>> /\ agDimSet = FALSE
    /\ agExpiring = 0 /\ agCache = <<>> /\ agExpCache = 0 /\ agMode \in AgModes
    /\ agAnn = {} /\ agDirty = TRUE
    /\ agReq = [on |-> FALSE, current |-> FALSE]
    /\ agBuild = [b \in AgBuilders |->
                    [on |-> FALSE, current |-> FALSE, entries |-> {}]]
    /\ agUndo = <<>> /\ agNow = 0 /\ agOps = 0 /\ agSlipped = FALSE

AgNext ==
    \/ \E m \in AgMemories : AgPut(m) \/ AgRemove(m.id)
    \/ \E e \in AgEntries : AgStoreCache(e) \/ AgRemoveCache(e.key)
    \/ AgEvictExpired \/ AgRestore \/ AgReload \/ AgSearch \/ AgTick
    \/ \E mode \in AgModes \ {agMode} : AgSetAnn(mode)
    \/ \E b \in AgBuilders : AgSnapshot(b) \/ AgSwap(b)

\* The worker thread loops until the store is destroyed.
AgFairness == WF_agVars(AgSnapshot("worker")) /\ WF_agVars(AgSwap("worker"))

(***************************************************************************)
(* What the store promises.                                                *)
(***************************************************************************)

\* While ann_dirty_ is false the index holds exactly the rows whose
\* embedding has a direction, under their present row numbers and with their present vectors,
\* through appends, updates, removals that move the last row, evictions and
\* rebuilds that finish late; search reads rows by those numbers.  Set apart
\* are changes that leave ann_generation_ alone while a rebuild of that very
\* generation is under way: a removal from a dirty index, and the upkeep of an
\* index that another rebuild has just made clean (AnnNeverStale).
AnnTracksRows ==
    ~agDirty /\ ~agSlipped /\ agMode # "Off" => agAnn = AnnEntries(agRows)

\* What the design says of every rebuild: it is swapped in only if no newer
\* mutation superseded the snapshot it was built from.
AnnNeverStale ==
    ~agDirty /\ agMode # "Off" => agAnn = AnnEntries(agRows)

\* The bookkeeping beside memories_ and cache_entries_ agrees with them after any
\* run of calls: the expiry counters, without which evict_expired_locked_ would
\* skip expired rows or answers for good; ids and prompts unique; once the arrays are as long as the rows, row i's unit
\* embedding is row i's own; and nothing pinned was evicted for want of room
\* under protect_pinned, however the rows had been moved around.
StoreAgrees ==
    /\ agExpiring = CountExpiring(agRows) /\ agExpCache = CountExpiring(agCache)
    /\ IsInjective([i \in DOMAIN agRows |-> agRows[i].id])
    /\ IsInjective([i \in DOMAIN agCache |-> agCache[i].key])
    /\ agDimSet /\ UnitsValid(agRows, agUnits, agHas, TRUE) =>
         agUnits = UnitsOf(agRows) /\ agHas = HasOf(agRows)
    /\ AgProtect => \A i \in DOMAIN agUndo :
         agUndo[i].target = "memory" /\ agUndo[i].what.pin => Expired(agUndo[i].what)

\* What stands beside the rows of the store agrees with them: the index search reads by row
\* number, the counter eviction trusts, the arrays of embeddings (put_memory, remove_memory,
\* evict_expired_locked_, rebuild_ann).
AgentStoreSafe == AnnTracksRows /\ StoreAgrees

\* A rebuild that a search asked for is eventually installed, or the index is
\* clean or switched off by other means: a rebuild overtaken by a mutation is
\* asked for again by mark_ann_dirty_locked_.
RebuildCompletes == agReq.on ~> (~agDirty \/ agMode = "Off")
=============================================================================
