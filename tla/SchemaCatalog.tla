---- MODULE SchemaCatalog ----
(***************************************************************************)
(* DDL and DML statements of one node: QueryExecutor::execute over the     *)
(* schema registry, its catalog file _schema.json, the table partitions    *)
(* and the query result cache.  CREATE, DROP and ALTER run under the       *)
(* catalog transaction lock; INSERT, UPDATE, DELETE and SELECT do not.     *)
(*                                                                         *)
(* A column is its name: every column has the same type.  A row is its     *)
(* table id, a number that tells it from every other row, a value, and     *)
(* whether its partition is old enough for a TTL to evict.  UPDATE sets    *)
(* the value of every row of the table and DELETE removes every row; what  *)
(* a WHERE clause selects is the subject of SelectExec.  The one SELECT    *)
(* of a table returns all of its rows.                                     *)
(***************************************************************************)
EXTENDS Naturals, FiniteSets, Sequences, SequencesExt

CONSTANTS
    ScTables,       \* table names
    ScHash,         \* stable_table_id of each name
    ScIds,          \* table ids are 1..ScIds (65535 in the code)
    ScThreads,      \* request threads
    ScStmts,        \* statements: [op, tab, col, rows]
    ScCacheMax,     \* result_cache_max_
    ScModes,        \* TRUE: tiered, the catalog is saved; FALSE: PURE_IN_MEMORY
    ScMaxOps,       \* bound: statements
    ScMaxFaults     \* bound: failed saves and crashes

ScDdl == {"create", "drop", "add_column", "drop_column", "set_ttl"}
ScWrites == {"drop", "add_column", "drop_column", "set_ttl", "insert", "update", "delete"}

ASSUME ScConstants ==
    /\ ScIds \in Nat /\ Cardinality(ScTables) <= ScIds
    /\ ScHash \in [ScTables -> 1..ScIds]
    /\ ScModes \subseteq BOOLEAN /\ ScCacheMax \in Nat /\ {ScMaxOps, ScMaxFaults} \subseteq Nat
    /\ \A s \in ScStmts : /\ s.op \in ScDdl \cup ScWrites \cup {"batch", "select"}
                          /\ s.tab \in ScTables
                          /\ Range(s.rows) \subseteq {"good", "old", "bad"}

VARIABLES
    scDurable,      \* the storage mode
    scUp,           \* the process runs
    scReg,          \* SchemaRegistry::tables_
    scDisk,         \* the catalog file
    scRows,         \* the rows of all partitions
    scLock,         \* schema_catalog_tx_mu_: the thread that holds it, 0 when free
    scCache,        \* result_cache_, in the order of expire_time
    scT,            \* the request threads
    scNext,         \* the number of the next row
    scTorn,         \* a save failed after its rename: the file is ahead of memory
    scTwice,        \* an ADD COLUMN gave a table two columns of one name
    scStray,        \* ids under which a row arrived that no table of that id asked for
    scOps, scFaults

scData == <<scReg, scDisk, scRows, scLock>>
scHistory == <<scTorn, scTwice, scStray>>
scVars == <<scDurable, scUp, scData, scCache, scT, scNext, scHistory, scOps, scFaults>>

ScNone == [id |-> 0, cols |-> <<>>, ttl |-> FALSE]
ScEmpty == [t \in ScTables |-> ScNone]
ScIdle == [pc |-> "idle", st |-> [op |-> "none", tab |-> "", col |-> "", rows |-> <<>>],
           prev |-> ScNone, row |-> 0, rows |-> {}, fresh |-> TRUE, ok |-> TRUE]

ScExists(reg, t) == reg[t].id # 0
ScUnique(s) == Len(s) = Cardinality(Range(s))

\* SchemaRegistry::allocate_table_id_locked_: the id of the name, or the next one not used.
AllocateId(reg, t) ==
    LET used == {reg[u].id : u \in ScTables}
        probe == [k \in 1..ScIds |-> 1 + ((ScHash[t] + k - 2) % ScIds)]
        at == {k \in 1..ScIds : probe[k] \notin used}
    IN probe[CHOOSE k \in at : \A j \in at : k <= j]

\* SchemaRegistry::restore_table_schema, with the check that no other table took the id.
RestoreSchema(reg, t, s) ==
    IF \E u \in ScTables \ {t} : reg[u].id = s.id THEN reg ELSE [reg EXCEPT ![t] = s]

\* SchemaRegistry::load_from_checked accepts only distinct column names in a table and
\* distinct ids.
ScColumnsLoad(schema) == ScUnique(schema.cols)
ScLoadable(reg) ==
    /\ \A t \in ScTables : ScColumnsLoad(reg[t])
    /\ \A t, u \in ScTables : t # u /\ ScExists(reg, t) => reg[t].id # reg[u].id

\* QueryExecutor::find_partitions: no row of an unknown table once a table is registered,
\* every row while none is.
ScScan(t) ==
    IF ScExists(scReg, t) THEN {r \in scRows : r.id = scReg[t].id}
    ELSE IF scReg # ScEmpty THEN {} ELSE scRows

ScInit ==
    /\ scDurable \in ScModes
    /\ scUp = TRUE /\ scReg = ScEmpty /\ scDisk = ScEmpty /\ scRows = {} /\ scLock = 0
    /\ scCache = <<>> /\ scT = [th \in ScThreads |-> ScIdle] /\ scNext = 1
    /\ scTorn = FALSE /\ scTwice = FALSE /\ scStray = {} /\ scOps = 0 /\ scFaults = 0

ScAt(th, pc) == scUp /\ scT[th].pc = pc
ScSt(th) == scT[th].st
ScGo(th, pc) == scT' = [scT EXCEPT ![th].pc = pc]
ScReturn(th) == scT' = [scT EXCEPT ![th] = ScIdle]

\* invalidate_result_cache: every entry goes, whatever the table.  CREATE TABLE does not call
\* it, and neither does ingest_tick_batch.
Invalidates(op) == op \in ScWrites

\* execute_impl up to the exec_ function of the statement: the cache is cleared before the
\* statement changes anything.  A SELECT in another thread is no longer alone from here on.
ScBegin(th, s) ==
    /\ scUp /\ scT[th].pc = "idle" /\ scOps < ScMaxOps /\ scOps' = scOps + 1
    /\ scCache' = IF Invalidates(s.op) THEN <<>>
                  ELSE IF s.op \in {"create", "batch"}
                  THEN [k \in DOMAIN scCache |-> [scCache[k] EXCEPT !.fresh = FALSE]]
                  ELSE scCache
    /\ scT' = [u \in ScThreads |->
                 IF u = th
                 THEN [ScIdle EXCEPT !.pc = s.op, !.st = s,
                         !.fresh = \A v \in ScThreads \ {th} : scT[v].pc = "idle" \/ ScSt(v).op = "select"]
                 ELSE IF s.op = "select" THEN scT[u] ELSE [scT[u] EXCEPT !.fresh = FALSE]]
    /\ UNCHANGED <<scDurable, scUp, scData, scNext, scHistory, scFaults>>

\* exec_create_table up to the save: registry.create under the catalog transaction.
ScCreate(th) ==
    LET s == ScSt(th)
    IN /\ ScAt(th, "create") /\ scLock = 0
       /\ IF ScExists(scReg, s.tab)
          THEN ScReturn(th) /\ UNCHANGED <<scReg, scLock>>
          ELSE /\ scReg' = [scReg EXCEPT ![s.tab] =
                              [id |-> AllocateId(scReg, s.tab), cols |-> <<s.col>>, ttl |-> FALSE]]
               /\ scLock' = th /\ ScGo(th, "save")
       /\ UNCHANGED <<scDurable, scUp, scDisk, scRows, scCache, scNext, scHistory, scOps, scFaults>>

\* exec_drop_table up to the save: the schema is remembered and leaves the registry.
ScDrop(th) ==
    LET s == ScSt(th)
    IN /\ ScAt(th, "drop") /\ scLock = 0
       /\ IF ScExists(scReg, s.tab)
          THEN /\ scT' = [scT EXCEPT ![th].pc = "save", ![th].prev = scReg[s.tab]]
               /\ scReg' = [scReg EXCEPT ![s.tab] = ScNone] /\ scLock' = th
          ELSE ScReturn(th) /\ UNCHANGED <<scReg, scLock>>
       /\ UNCHANGED <<scDurable, scUp, scDisk, scRows, scCache, scNext, scHistory, scOps, scFaults>>

\* The registry call of exec_alter_table: add_column appends without looking for the name,
\* drop_column removes the first of the name, set_ttl stores it.
ScAltered(s, schema) ==
    CASE s.op = "add_column"  -> [schema EXCEPT !.cols = Append(@, s.col)]
      [] s.op = "drop_column" -> [schema EXCEPT !.cols = RemoveFirst(@, s.col)]
      [] s.op = "set_ttl"     -> [schema EXCEPT !.ttl = TRUE]

\* exec_alter_table up to the save.
ScAlter(th) ==
    LET s == ScSt(th)
        known == s.op = "drop_column" => s.col \in Range(scReg[s.tab].cols)
    IN /\ \E op \in {"add_column", "drop_column", "set_ttl"} : ScAt(th, op)
       /\ scLock = 0
       /\ IF ScExists(scReg, s.tab) /\ known
          THEN /\ scReg' = [scReg EXCEPT ![s.tab] = ScAltered(s, @)]
               /\ scT' = [scT EXCEPT ![th].pc = "save", ![th].prev = scReg[s.tab]]
               /\ scLock' = th
          ELSE ScReturn(th) /\ UNCHANGED <<scReg, scLock>>
       /\ scTwice' = (scTwice \/ ~ScUnique(scReg'[s.tab].cols))
       /\ UNCHANGED <<scDurable, scUp, scDisk, scRows, scCache, scNext, scTorn, scStray, scOps, scFaults>>

\* After a good save: DROP goes on to destroy the table's data, SET TTL to evict old
\* partitions, and every other statement returns.
ScSaved(th) ==
    IF ScSt(th).op \in {"drop", "set_ttl"} THEN ScGo(th, "apply") /\ UNCHANGED scLock
    ELSE ScReturn(th) /\ scLock' = 0

\* save_schema_catalog succeeds: snapshot, temporary file, fsync, rename, directory fsync.
\* PURE_IN_MEMORY has no file.
ScSave(th) ==
    /\ ScAt(th, "save") /\ ScSaved(th)
    /\ scDisk' = IF scDurable THEN scReg ELSE scDisk
    /\ UNCHANGED <<scDurable, scUp, scReg, scRows, scCache, scNext, scHistory, scOps, scFaults>>

\* The registry after a failed save.  CREATE drops the table it made, DROP and ALTER put back
\* the schema they remembered.
\* A bug: an ALTER is not rolled back.
RollbackNotAlter(th) ==
    LET s == ScSt(th) IN
    IF s.op = "create" THEN [scReg EXCEPT ![s.tab] = ScNone]
    ELSE IF s.op = "drop" THEN RestoreSchema(scReg, s.tab, scT[th].prev) ELSE scReg
ScRollback(th) ==
    LET s == ScSt(th) IN
    IF s.op = "create" THEN [scReg EXCEPT ![s.tab] = ScNone]
    ELSE RestoreSchema(scReg, s.tab, scT[th].prev)

\* save_schema_catalog fails: before the rename with the old file in place, or in the fsync of
\* the directory with the new one.
ScSaveFails(th) ==
    /\ ScAt(th, "save") /\ scDurable /\ scFaults < ScMaxFaults /\ scFaults' = scFaults + 1
    /\ \/ UNCHANGED <<scDisk, scTorn>>
       \/ scDisk' = scReg /\ scTorn' = TRUE
    /\ scReg' = ScRollback(th) /\ scLock' = 0 /\ ScReturn(th)
    /\ UNCHANGED <<scDurable, scUp, scRows, scCache, scNext, scTwice, scStray, scOps>>

\* The end of DROP, drop_table_partitions and drop_table_index; and of SET TTL, which evicts
\* the old partitions of every table.
ScApply(th) ==
    /\ ScAt(th, "apply")
    /\ scRows' = IF ScSt(th).op = "drop" THEN {r \in scRows : r.id # scT[th].prev.id}
                 ELSE {r \in scRows : ~r.old}
    /\ scLock' = 0 /\ ScReturn(th)
    /\ UNCHANGED <<scDurable, scUp, scReg, scDisk, scCache, scNext, scHistory, scOps, scFaults>>

\* The rows are taken one by one, under a copy of the schema; or the statement is refused.
ScTakeRows(th, refused) ==
    /\ IF refused THEN ScReturn(th)
       ELSE scT' = [scT EXCEPT ![th].pc = "row", ![th].prev = scReg[ScSt(th).tab], ![th].row = 1]
    /\ UNCHANGED <<scDurable, scUp, scData, scCache, scNext, scHistory, scOps, scFaults>>

\* exec_insert before the rows: the columns inserted are the schema's.  A table without a schema
\* takes the tick path, with table id 0 if the name is still unknown when the row is built.
ScInsert(th) ==
    LET schema == scReg[ScSt(th).tab]
        noColumns == schema.id # 0 /\ schema.cols = <<>>
    IN ScAt(th, "insert") /\ ScTakeRows(th, ~ScUnique(schema.cols) \/ noColumns)

\* ingest_tick_batch: a batch for an unknown table is refused.
ScBatch(th) == ScAt(th, "batch") /\ ScTakeRows(th, ~ScExists(scReg, ScSt(th).tab))

\* The typed path takes the checks of ingest_typed_row; a malformed row ends the statement with
\* an error, after the rows before it.
ScRowCheck(th) ==
    LET s == ScSt(th)
        t == scT[th]
        typed == s.op = "insert" /\ t.prev.id # 0
        now == {u \in ScTables : ScExists(scReg, u) /\ scReg[u].id = t.prev.id}
        fits == \E u \in now : Range(t.prev.cols) \subseteq Range(scReg[u].cols)
    IN /\ ScAt(th, "row")
       /\ IF t.row > Len(s.rows) \/ s.rows[t.row] = "bad" THEN ScReturn(th)
          ELSE IF typed /\ ~fits THEN scT' = [scT EXCEPT ![th].row = @ + 1, ![th].ok = FALSE]
          ELSE scT' = [scT EXCEPT ![th].pc = "append",
                         ![th].prev.id = IF s.op = "insert" /\ ~typed THEN scReg[s.tab].id ELSE @]
       /\ UNCHANGED <<scDurable, scUp, scData, scCache, scNext, scHistory, scOps, scFaults>>

\* get_or_create and the append of one row, on either path (a tick is drained before the
\* statement returns); nothing looks at the registry again.
ScAppend(th) ==
    LET t == scT[th]
        id == t.prev.id
        row == [id |-> id, n |-> scNext, v |-> 1, old |-> ScSt(th).rows[t.row] = "old"]
    IN /\ ScAt(th, "append")
       /\ scRows' = scRows \cup {row} /\ scNext' = scNext + 1
       /\ scStray' = IF id = 0 \/ \E u \in ScTables : scReg[u].id = id THEN scStray ELSE scStray \cup {id}
       /\ scT' = [scT EXCEPT ![th].pc = "row", ![th].row = @ + 1,
                    ![th].prev.id = IF ScSt(th).op = "insert" /\ t.prev.cols = <<>> THEN 0 ELSE @]
       /\ UNCHANGED <<scDurable, scUp, scReg, scDisk, scLock, scCache, scTorn, scTwice, scOps, scFaults>>

\* The rows a statement found become the rows new, and it returns.
ScChange(th, hit, new) ==
    /\ scRows' = (scRows \ hit) \cup new
    /\ ScReturn(th)
    /\ UNCHANGED <<scDurable, scUp, scReg, scDisk, scLock, scCache, scNext, scHistory, scOps, scFaults>>

\* exec_update
ScUpdate(th) ==
    LET hit == ScScan(ScSt(th).tab)
    IN ScAt(th, "update") /\ ScChange(th, hit, {[r EXCEPT !.v = 2] : r \in hit})

\* exec_delete
ScDelete(th) == ScAt(th, "delete") /\ ScChange(th, ScScan(ScSt(th).tab), {})

ScEntries(t) == {k \in DOMAIN scCache : scCache[k].tab = t}
ScWithout(c, t) == SelectSeq(c, LAMBDA e : e.tab # t)

\* The SELECT path up to the result: a cached answer that has not expired is returned; an
\* expired one is erased.
ScLookup(th) ==
    LET t == ScSt(th).tab
    IN /\ ScAt(th, "select")
       /\ \/ ScEntries(t) # {} /\ ScReturn(th) /\ UNCHANGED scCache
          \/ /\ scCache' = ScWithout(scCache, t)
             /\ scT' = [scT EXCEPT ![th].pc = "store", ![th].rows = ScScan(t)]
       /\ UNCHANGED <<scDurable, scUp, scData, scNext, scHistory, scOps, scFaults>>

\* The result goes into the cache, at the cost of the entry that expires first.
ScStore(th) ==
    LET t == scT[th]
        room == IF Len(scCache) >= ScCacheMax THEN Tail(scCache) ELSE scCache
        entry == [tab |-> t.st.tab, rows |-> t.rows, fresh |-> t.fresh]
    IN /\ ScAt(th, "store") /\ ScReturn(th)
       /\ scCache' = IF ScCacheMax = 0 THEN scCache ELSE Append(ScWithout(room, t.st.tab), entry)
       /\ UNCHANGED <<scDurable, scUp, scData, scNext, scHistory, scOps, scFaults>>

\* The process dies.  Rows in memory are lost; what a snapshot keeps is the subject of
\* SnapshotStore.
ScCrash ==
    /\ scUp /\ scFaults < ScMaxFaults /\ scFaults' = scFaults + 1
    /\ scUp' = FALSE /\ scReg' = ScEmpty /\ scRows' = {} /\ scLock' = 0 /\ scCache' = <<>>
    /\ scT' = [th \in ScThreads |-> ScIdle] /\ scTorn' = FALSE /\ scStray' = {}
    /\ UNCHANGED <<scDurable, scDisk, scNext, scTwice, scOps>>

\* The constructor of ZeptoPipeline: an unreadable catalog stops the start.
ScRestart ==
    /\ ~scUp /\ ScLoadable(scDisk)
    /\ scUp' = TRUE /\ scReg' = scDisk
    /\ UNCHANGED <<scDurable, scDisk, scRows, scLock, scCache, scT, scNext, scHistory, scOps, scFaults>>

ScStatement(th) ==
    \/ \E s \in ScStmts : ScBegin(th, s)
    \/ ScCreate(th) \/ ScDrop(th) \/ ScAlter(th) \/ ScSave(th) \/ ScSaveFails(th) \/ ScApply(th)
    \/ ScInsert(th) \/ ScBatch(th) \/ ScRowCheck(th) \/ ScAppend(th) \/ ScUpdate(th) \/ ScDelete(th)
    \/ ScLookup(th) \/ ScStore(th)

ScNextStep ==
    \/ \E th \in ScThreads : ScStatement(th)
    \/ ScCrash
    \/ ScRestart

\* The catalog file follows the registry.  While no CREATE, DROP or ALTER is under way the file
\* holds exactly the registered tables, also after failed saves were rolled back and after any
\* crash, unless the save failed in the fsync that follows its rename; no two tables share an
\* id, and a table that is dropped keeps its rows until the file no longer lists it ("Do not
\* destroy table data or indexes until the DROP is known to survive restart").  A catalog
\* without a repeated column name can be loaded.
CatalogAgrees ==
    /\ scUp /\ scDurable /\ scLock = 0 /\ ~scTorn => scDisk = scReg
    /\ \A t, u \in ScTables : t # u /\ ScExists(scReg, t) => scReg[t].id # scReg[u].id
    /\ \A th \in ScThreads : ScAt(th, "apply") /\ ScSt(th).op = "drop" /\ scDurable =>
         \A t \in ScTables : scDisk[t].id # scT[th].prev.id
    /\ scTwice \/ ScLoadable(scDisk)

\* The result cache answers a SELECT as the tables would.  An entry computed while no other
\* statement was writing holds the rows a scan returns now, until a CREATE TABLE or a tick
\* batch, which leave the cache alone.
CacheFollowsWrites ==
    \A k \in DOMAIN scCache : scCache[k].fresh => scCache[k].rows = ScScan(scCache[k].tab)

\* What the executor keeps beside the tables follows them: the catalog file through crashes
\* and failed saves, the result cache through writes of other threads (exec_create_table,
\* exec_alter_table, invalidate_result_cache).
CatalogFollows == CatalogAgrees /\ CacheFollowsWrites

\* The same without the condition: "Auto-invalidated on INSERT/UPDATE/DELETE."  While no
\* statement is being executed, a cached answer is what a scan would return.
CacheFresh ==
    (\A th \in ScThreads : scT[th].pc = "idle") =>
        \A k \in DOMAIN scCache : scCache[k].rows = ScScan(scCache[k].tab)

\* A catalog the server wrote is one the server reads: CREATE and ALTER never save a file that
\* the next start refuses.
CatalogReloads == ScLoadable(scDisk)

\* A table that was just created is empty: the rows found under its id were inserted by
\* statements that named it after its CREATE.
NewTableEmpty ==
    \A t \in ScTables : ScExists(scReg, t) => scReg[t].id \notin scStray
====
