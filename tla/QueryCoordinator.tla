--------------------------- MODULE QueryCoordinator ---------------------------
(***************************************************************************)
(* QueryCoordinator: a statement is routed to one node, broadcast and      *)
(* merged, or its base rows are fetched under a budget and the statement   *)
(* runs on a temporary local table.  Nodes join, leave and fail while a    *)
(* statement is under way, and rows keep arriving.                         *)
(*                                                                         *)
(* A row is [tab, sym, ts, v]; a node executes a statement exactly         *)
(* (SelectExec is about that), except where the comments say otherwise.    *)
(* For one key, walking the hash ring visits the nodes in a fixed order:   *)
(* the owner is the first member of that order.                            *)
(***************************************************************************)
EXTENDS Integers, Sequences, FiniteSets, SequencesExt, FiniteSetsExt, Functions

CONSTANTS QcNodes, QcSyms,
          QcOrders,    \* the ring orders: symbol -> sequence of nodes
          QcEndpoints, \* the endpoint lists the coordinator starts with
          QcLocal,     \* nodes registered with add_local_node
          QcData,      \* the rows stored at the start, placed on their owners
          QcNew,       \* a row that arrives during the statement
          QcStmts,
          QcRowLimit, QcByteLimit, QcRowBytes,   \* the materialisation budget, bytes of a row
          QcPolicies,  \* "Enabled", "Disabled"
          QcTables,
          QcMaxEvents, \* bound: membership changes, arrivals, inserts, failures and restarts
          QcMaxDuring  \* bound: those that happen before a statement or during it

ASSUME QcConstants ==
    /\ QcLocal \subseteq QcNodes /\ QcMaxEvents \in Nat /\ QcMaxDuring \in Nat
    /\ QcRowLimit \in Nat \ {0} /\ QcByteLimit \in Nat \ {0} /\ QcRowBytes \in Nat

VARIABLES qcEps,     \* endpoints_
          qcRing,    \* the members of the router
          qcOrder, qcRows,
          qcQ,       \* the statement under way
          qcCat,     \* local node -> table -> placement, in memory
          qcDisk,    \* local node -> table -> placement, saved
          qcPlaced,  \* the router's table placements
          qcTorn,    \* a DDL or the last walk over the catalog stopped part-way
          qcEvents

qcVars == <<qcEps, qcRing, qcOrder, qcRows, qcQ, qcCat, qcDisk, qcPlaced, qcTorn, qcEvents>>

QcUnset == "unset"
QcNone == -1
QcMin64 == -99    \* the least int64_t, also what a node answers for MIN or MAX of no rows
QcMax64 == 99     \* the greatest

-----------------------------------------------------------------------------
(* A node's executor                                                       *)

QcWhere(rows, w) == SelectSeq(rows, LAMBDA r : w.op = "none" \/ r.sym \in w.syms)
QcSumBy(rows, f(_)) == FoldLeft(LAMBDA a, r : a + f(r), 0, rows)

QcRound(s, c) == IF c = 0 THEN 0 ELSE IF s >= 0 THEN (s + c \div 2) \div c ELSE -((-s + c \div 2) \div c)

QcAgg(rows, a) ==
    LET vs == {r.v : r \in ToSet(rows)} IN
    CASE a = "COUNT" -> Len(rows)
      [] a = "SUM"   -> QcSumBy(rows, LAMBDA r : r.v)
      [] a = "SUMPV" -> QcSumBy(rows, LAMBDA r : r.v * r.ts)
      [] a = "SUMTS" -> QcSumBy(rows, LAMBDA r : r.ts)
      [] a = "MIN"   -> IF vs = {} THEN QcMin64 ELSE Min(vs)
      [] a = "MAX"   -> IF vs = {} THEN QcMin64 ELSE Max(vs)
      [] a = "AVG"   -> QcRound(QcSumBy(rows, LAMBDA r : r.v), Len(rows))
      [] a = "VWAP"  -> QcRound(QcSumBy(rows, LAMBDA r : r.v * r.ts), QcSumBy(rows, LAMBDA r : r.ts))
      [] a = "FIRST" -> rows[1].v
      [] a = "LAST"  -> rows[Len(rows)].v

QcKeyOf(r, key) == IF key = "symbol" THEN r.sym ELSE r.v

\* A HAVING on the count column (the second one): rows with more than the bound.
QcHaving(rows, h) == IF h = QcNone THEN rows ELSE SelectSeq(rows, LAMBDA r : r[2] > h)

QcOrderBy(rows, s) == IF s.order = 0 THEN rows ELSE SortSeq(rows, LAMBDA x, y : x[s.order] < y[s.order])
QcLimit(rows, s) == IF s.limit = QcNone THEN rows ELSE SubSeq(rows, 1, Min({s.limit, Len(rows)}))

\* The rows a node returns.  DISTINCT does nothing on a node.
QcExec(rows, s) ==
    LET hits == QcWhere(SelectSeq(rows, LAMBDA r : r.tab = "a"), s.where)
        keys == SetToSortSeq({QcKeyOf(r, s.key) : r \in ToSet(hits)}, <)
        group(k) == <<k>> \o [i \in DOMAIN s.aggs |->
                        QcAgg(SelectSeq(hits, LAMBDA r : QcKeyOf(r, s.key) = k), s.aggs[i])]
        out == CASE s.kind = "scalar" -> <<[i \in DOMAIN s.aggs |-> QcAgg(hits, s.aggs[i])]>>
                 [] s.kind = "group"  -> QcHaving([i \in DOMAIN keys |-> group(keys[i])], s.having)
                 [] OTHER -> [i \in DOMAIN hits |-> <<hits[i].sym, hits[i].ts, hits[i].v>>] IN
    QcLimit(QcOrderBy(out, s), s)

\* The hash join of tables a and b on the symbol.
QcJoin(a, b) ==
    FlattenSeq([i \in DOMAIN a |->
        LET m == SelectSeq(b, LAMBDA r : r.sym = a[i].sym) IN [j \in DOMAIN m |-> <<a[i].v, m[j].v>>]])

\* The same over stored rows, the filter on the left side.
QcTab(rows, t) == SelectSeq(rows, LAMBDA r : r.tab = t)
QcJoinOf(lefts, rights, s) == QcJoin(QcWhere(QcTab(lefts, "a"), s.where), QcTab(rights, IF s.self THEN "a" ELSE "b"))

-----------------------------------------------------------------------------
(* partial_agg.h and the merge plan                                        *)

QcIdentity(a) == CASE a = "MIN" -> QcMax64 [] a = "MAX" -> QcMin64 [] OTHER -> 0

QcSums == {"SUM", "COUNT", "VWAP", "SUMPV", "SUMTS"}

\* Addition of int64_t values.
QcAdd(x, y) == QcMin64 + ((x + y - QcMin64) % (QcMax64 - QcMin64 + 1))

QcCombine(a, acc, v) ==
    CASE a \in QcSums \cup {"AVG"} -> QcAdd(acc, v)
      [] a = "MIN" -> Min({acc, v})
      [] a = "MAX" -> Max({acc, v})
      [] OTHER -> v

MergeScalar(results, aggs) ==
    LET rows == FlattenSeq(results)
        acc == FoldLeft(LAMBDA x, r : [i \in DOMAIN aggs |-> QcCombine(aggs[i], x[i], r[i])],
                        [i \in DOMAIN aggs |-> QcIdentity(aggs[i])], rows) IN
    <<[i \in DOMAIN aggs |-> IF aggs[i] = "AVG" THEN QcRound(acc[i], Len(rows)) ELSE acc[i]]>>

MergeConcat(results) == FlattenSeq(results)

\* Groups in key order; an average is the plain quotient of the nodes' averages.
MergeGroups(results, aggs) ==
    LET rows == FlattenSeq(results)
        keys == SetToSortSeq({r[1] : r \in ToSet(rows)}, <)
        of(k) == SelectSeq(rows, LAMBDA r : r[1] = k)
        acc(k, i) == FoldLeft(LAMBDA x, r : QcCombine(aggs[i], x, r[i + 1]), QcIdentity(aggs[i]), of(k)) IN
    [j \in DOMAIN keys |-> <<keys[j]>> \o
        [i \in DOMAIN aggs |-> IF aggs[i] = "AVG" THEN acc(keys[j], i) \div Len(of(keys[j]))
                               ELSE acc(keys[j], i)]]

\* build_avg_rewrite: AVG becomes SUM and COUNT, VWAP becomes SUM(p * v) and SUM(v).
QcRewrite(a) == CASE a = "AVG" -> <<"SUM", "COUNT">> [] a = "VWAP" -> <<"SUMPV", "SUMTS">> [] OTHER -> <<a>>
Rewritten(aggs) == FlattenSeq([i \in DOMAIN aggs |-> QcRewrite(aggs[i])])

\* reconstruct_avg_result
Reconstruct(row, aggs) ==
    [i \in DOMAIN aggs |->
        LET at == Len(Rewritten(SubSeq(aggs, 1, i - 1))) + 1 IN
        IF aggs[i] \in {"AVG", "VWAP"} THEN QcRound(row[at], row[at + 1]) ELSE row[at]]

\* merge_plan_from_sql
QcStrategy(s) == CASE s.kind = "group" /\ s.key # "symbol" -> "MERGE_GROUP_BY"
                   [] s.kind = "scalar" -> "SCALAR_AGG"
                   [] OTHER -> "CONCAT"

\* What the nodes are sent: AVG rewritten for a scalar query, HAVING stripped where the
\* coordinator merges groups.
QcScattered(s) ==
    CASE QcStrategy(s) = "SCALAR_AGG" -> [s EXCEPT !.aggs = Rewritten(s.aggs)]
      [] QcStrategy(s) = "MERGE_GROUP_BY" -> [s EXCEPT !.having = QcNone]
      [] OTHER -> s

\* __builtin_add_overflow: a sum leaves 64 bits after some node's value, even if a later one
\* would bring it back.
QcOverflows(vs) == \E n \in DOMAIN vs : FoldLeft(LAMBDA x, v : x + v, 0, SubSeq(vs, 1, n)) \notin QcMin64..QcMax64
MergeOverflows(s, results) ==
    LET rows == FlattenSeq(results)
        aggs == Rewritten(s.aggs)
        group(k) == SelectSeq(rows, LAMBDA r : r[1] = k) IN
    \/ /\ QcStrategy(s) = "SCALAR_AGG"
       /\ \E i \in DOMAIN aggs : aggs[i] \in QcSums /\ QcOverflows([j \in DOMAIN rows |-> rows[j][i]])
    \/ /\ QcStrategy(s) = "MERGE_GROUP_BY"
       /\ \E i \in DOMAIN s.aggs, k \in {r[1] : r \in ToSet(rows)} :
             s.aggs[i] \in QcSums /\ QcOverflows([j \in DOMAIN group(k) |-> group(k)[j][i + 1]])

QcMerge(s, results) ==
    CASE QcStrategy(s) = "MERGE_GROUP_BY" -> MergeGroups(results, s.aggs)
      [] QcStrategy(s) = "SCALAR_AGG" -> MergeScalar(results, Rewritten(s.aggs))
      [] OTHER -> MergeConcat(results)

\* DISTINCT keeps first occurrences.
QcDistinct(rows) ==
    LET firsts == {i \in DOMAIN rows : \A j \in 1..(i - 1) : rows[j] # rows[i]}
        at == SetToSortSeq(firsts, <) IN
    [i \in DOMAIN at |-> rows[at[i]]]

\* Tier B after the scatter: averages, HAVING, DISTINCT, ORDER BY, LIMIT.
QcPostMerge(s, results) ==
    LET merged == QcMerge(s, results)
        rebuilt == IF QcStrategy(s) = "SCALAR_AGG" THEN <<Reconstruct(merged[1], s.aggs)>> ELSE merged
        kept == IF QcStrategy(s) = "MERGE_GROUP_BY" THEN QcHaving(rebuilt, s.having) ELSE rebuilt IN
    QcLimit(QcOrderBy(IF s.distinct THEN QcDistinct(kept) ELSE kept, s), s)

\* Tier A-1, symbol IN (...): the plan and the scattered statement of Tier B, then only ORDER BY
\* and LIMIT: averages stay split and a stripped HAVING is not applied again.
QcPostMergeIn(s, results) == QcLimit(QcOrderBy(QcMerge(s, results), s), s)

-----------------------------------------------------------------------------
QcIdle == [stmt |-> <<>>, pc |-> "idle", mode |-> "", eps |-> <<>>, res |-> <<>>, rows |-> <<>>,
           left |-> <<>>, seen |-> <<>>, seenL |-> <<>>, base |-> <<>>, stay |-> {}, ans |-> <<>>]

QcInit ==
    /\ qcEps \in QcEndpoints /\ qcRing = ToSet(qcEps)
    /\ qcOrder \in QcOrders
    /\ \E d \in QcData : qcRows = [n \in QcNodes |-> SelectSeq(d, LAMBDA r :
           n = SelectSeq(qcOrder[r.sym], LAMBDA m : m \in ToSet(qcEps))[1])]
    /\ qcQ = QcIdle
    /\ qcCat = [n \in QcLocal |-> [t \in QcTables |-> QcUnset]] /\ qcDisk = qcCat
    /\ qcPlaced = [t \in QcTables |-> QcUnset]
    /\ qcTorn = FALSE /\ qcEvents = 0

qcStatic == <<qcOrder>>
qcMembers == <<qcEps, qcRing>>
qcPlacement == <<qcCat, qcDisk, qcPlaced, qcTorn>>

QcEvent == qcEvents < (IF qcQ.pc = "idle" THEN QcMaxEvents ELSE QcMaxDuring) /\ qcEvents' = qcEvents + 1

QcOwner(k) == LET o == SelectSeq(qcOrder[k], LAMBDA n : n \in qcRing) IN IF o = <<>> THEN QcUnset ELSE o[1]
QcAt(n) == {i \in DOMAIN qcEps : qcEps[i] = n}

QcError(why) == [ok |-> FALSE, why |-> why, rows |-> <<>>]
QcOk(rows) == [ok |-> TRUE, why |-> "", rows |-> rows]
QcPending == QcError("pending")
QcDone(q, a) == qcQ' = [q EXCEPT !.pc = "done", !.ans = a]

\* What one node does with the statement it is sent: the answer, and its rows afterwards.
QcRun(n, s) ==
    CASE s.kind = "insert" -> [ans |-> <<<<Len(s.rows)>>>>, rows |-> qcRows[n] \o s.rows]
      [] s.kind = "delete" -> [ans |-> <<<<Len(QcWhere(qcRows[n], s.where))>>>>,
                               rows |-> SelectSeq(qcRows[n], LAMBDA r : ~(s.where.op = "none" \/ r.sym \in s.where.syms))]
      [] s.kind \in {"join", "asof"} -> [ans |-> QcJoinOf(qcRows[n], qcRows[n], s), rows |-> qcRows[n]]
      [] s.kind \in {"ddl", "desc"} -> [ans |-> <<<<1>>>>, rows |-> qcRows[n]]
      [] s.kind = "show" -> [ans |-> <<<<Len(qcRows[n])>>>>, rows |-> qcRows[n]]
      [] OTHER -> [ans |-> QcExec(qcRows[n], s), rows |-> qcRows[n]]

\* The catalog of a local node after a DDL that states a placement.
QcDdl(n, s, cat) == IF s.kind = "ddl" /\ n \in QcLocal THEN [cat EXCEPT ![n][s.tab] = s.place] ELSE cat

-----------------------------------------------------------------------------
(* execute_sql: dispatch                                                   *)

QcSubmit(s) ==
    /\ qcQ.pc = "idle" /\ qcEvents <= QcMaxDuring
    /\ qcQ' = [QcIdle EXCEPT !.stmt = s, !.pc = "route", !.base = qcRows, !.stay = ToSet(qcEps)]
    /\ IF s.kind = "insert" THEN QcEvent ELSE UNCHANGED qcEvents
    /\ UNCHANGED <<qcStatic, qcMembers, qcRows, qcPlacement>>

QcReturn == qcQ.pc = "done" /\ qcQ' = QcIdle
            /\ UNCHANGED <<qcStatic, qcMembers, qcRows, qcPlacement, qcEvents>>

\* insert_routing_symbol: no symbol column routes as 0, one symbol as itself; rows of several
\* symbols, or of string symbols, have no owner.
InsertSymbol(s) ==
    LET syms == {r.sym : r \in ToSet(s.rows)} IN
    IF s.nosym THEN 0 ELSE IF s.str \/ Cardinality(syms) # 1 THEN QcNone ELSE CHOOSE x \in syms : TRUE

\* extract_symbol_filter: an integer literal; the owner of a string is found by each node.
SymbolFilter(s) == IF s.where.op = "eq" THEN CHOOSE x \in s.where.syms : TRUE ELSE QcNone

\* execute_sql_for_symbol: the owner is looked up under the locks and run outside them.
QcToOwner(k) ==
    IF qcEps = <<>> THEN QcDone(qcQ, QcError("no nodes"))
    ELSE IF QcAt(QcOwner(k)) = {} THEN QcDone(qcQ, QcError("owner not found"))
    ELSE qcQ' = [qcQ EXCEPT !.pc = "single", !.mode = "owner", !.eps = <<QcOwner(k)>>]

QcToFirst ==
    IF qcEps = <<>> THEN QcDone(qcQ, QcError("no nodes"))
    ELSE qcQ' = [qcQ EXCEPT !.pc = "single", !.mode = "first", !.eps = <<qcEps[1]>>]

QcScatter(mode) ==
    qcQ' = [qcQ EXCEPT !.pc = "scatter", !.mode = mode, !.eps = qcEps,
                       !.res = [i \in DOMAIN qcEps |-> QcPending], !.seen = [i \in DOMAIN qcEps |-> <<>>]]

QcFetchFrom(mode) == qcQ' = [qcQ EXCEPT !.pc = "fetch", !.mode = mode, !.eps = qcEps, !.rows = <<>>,
                                        !.seen = <<>>]

\* The policy is read when the statement starts; it may be set at any time.
QcBounded(mode) ==
    \/ "Disabled" \in QcPolicies /\ QcDone(qcQ, QcError("disabled"))
    \/ "Enabled" \in QcPolicies /\ QcFetchFrom(mode)

QcDispatchWrite ==
    LET s == qcQ.stmt IN
    /\ qcQ.pc = "route" /\ s.kind \in {"insert", "delete", "ddl", "show", "desc"}
    /\ CASE s.kind = "insert" -> IF InsertSymbol(s) # QcNone THEN QcToOwner(InsertSymbol(s)) ELSE QcToFirst
         [] s.kind = "delete" /\ SymbolFilter(s) # QcNone -> QcToOwner(SymbolFilter(s))
         [] s.kind = "desc" -> QcToFirst
         [] OTHER -> QcScatter(s.kind)
    /\ UNCHANGED <<qcStatic, qcMembers, qcRows, qcPlacement, qcEvents>>

\* Statements that need all rows in one place.
NeedsFullData(s) == ToSet(s.aggs) \cap {"FIRST", "LAST"} # {}

QcDispatchSelect ==
    LET s == qcQ.stmt IN
    /\ qcQ.pc = "route" /\ s.kind \in {"scalar", "group", "plain", "join", "asof"}
    /\ CASE Len(qcEps) <= 1 -> QcToFirst
         [] SymbolFilter(s) # QcNone -> QcToOwner(SymbolFilter(s))
         [] s.where.op = "in" -> QcScatter("in")
         [] s.kind = "asof" -> IF s.where.op = "eqs" THEN QcToOwner(0) ELSE QcScatter("concat")
         [] s.kind = "join" -> QcBounded("joinL")
         [] NeedsFullData(s) -> QcBounded("full")
         [] OTHER -> QcScatter("merge")
    /\ UNCHANGED <<qcStatic, qcMembers, qcRows, qcPlacement, qcEvents>>

-----------------------------------------------------------------------------
(* Execution on the nodes                                                  *)

QcSent == IF qcQ.mode \in {"in", "merge"} THEN QcScattered(qcQ.stmt) ELSE qcQ.stmt

\* exec_on for a statement with one target.
QcSingle ==
    LET n == qcQ.eps[1]
        run == QcRun(n, qcQ.stmt) IN
    /\ qcQ.pc = "single"
    /\ \/ /\ qcRows' = [qcRows EXCEPT ![n] = run.rows]
          /\ QcDone([qcQ EXCEPT !.seen = <<qcRows[n]>>], QcOk(run.ans))
          /\ UNCHANGED qcEvents
       \/ QcEvent /\ QcDone(qcQ, QcError("node failed")) /\ UNCHANGED qcRows
    /\ UNCHANGED <<qcStatic, qcMembers, qcPlacement>>

\* One of the futures of scatter; they run in any order.
QcNode(i) ==
    LET n == qcQ.eps[i]
        run == QcRun(n, QcSent) IN
    /\ qcQ.pc = "scatter" /\ qcQ.res[i] = QcPending
    /\ \/ /\ qcRows' = [qcRows EXCEPT ![n] = run.rows]
          /\ qcQ' = [qcQ EXCEPT !.res[i] = QcOk(run.ans), !.seen[i] = qcRows[n]]
          /\ qcCat' = QcDdl(n, QcSent, qcCat) /\ qcDisk' = QcDdl(n, QcSent, qcDisk)
          /\ UNCHANGED qcEvents
       \/ /\ QcEvent /\ qcQ' = [qcQ EXCEPT !.res[i] = QcError("node failed")]
          /\ UNCHANGED <<qcRows, qcCat, qcDisk>>
    /\ UNCHANGED <<qcStatic, qcMembers, qcPlaced, qcTorn>>

\* apply_catalog_table_placements_locked: the first local catalog, table by table, until one is
\* pinned to a node the router does not know.
QcMisplaced(cat, ring) == {t \in QcTables : cat[t] \in QcNodes \ ring}
FirstLocal(eps) == SelectSeq(eps, LAMBDA n : n \in QcLocal)[1]
ApplyCatalog(eps, ring) ==
    LET cat == qcCat[FirstLocal(eps)]
        bad == QcMisplaced(cat, ring) IN
    IF ToSet(eps) \cap QcLocal = {} THEN UNCHANGED <<qcPlaced, qcTorn>>
    ELSE /\ qcTorn' = (bad # {})
         /\ \E done \in SUBSET (QcTables \ bad) :
               /\ bad = {} => done = QcTables
               /\ qcPlaced' = [t \in QcTables |-> IF t \in done THEN cat[t] ELSE qcPlaced[t]]

QcSumRows(results) == <<<<FoldLeft(LAMBDA a, r : IF r = <<>> THEN a ELSE a + r[1][1], 0, results)>>>>

\* A bug: an endpoint that failed counts as one without rows.
SkipFailed(res) == FALSE
SomeFailed(res) == \E i \in DOMAIN res : ~res[i].ok

\* SHOW TABLES adds up the row counts of the nodes.
QcShow(results) == QcOk(IF results = <<>> THEN <<>> ELSE QcSumRows(results))

\* The merged answer, or the overflow of a distributed sum.
QcMerged(s, results, rows) == IF MergeOverflows(s, results) THEN QcError("overflow") ELSE QcOk(rows)

\* One failed node fails the statement (scatter); otherwise the results are merged.  A DDL then
\* brings the router's placements in line with the catalog.
QcGather ==
    LET s == qcQ.stmt
        failed == SomeFailed(qcQ.res)
        results == [i \in DOMAIN qcQ.res |-> qcQ.res[i].rows]
        applied == ToSet(qcEps) \cap QcLocal = {} \/ QcMisplaced(qcCat[FirstLocal(qcEps)], qcRing) = {} IN
    /\ qcQ.pc = "scatter" /\ \A i \in DOMAIN qcQ.res : qcQ.res[i] # QcPending
    /\ CASE failed -> QcDone(qcQ, QcError("node failed"))
         [] ~failed /\ qcQ.mode = "show" -> QcDone(qcQ, QcShow(results))
         [] ~failed /\ qcQ.mode = "delete" -> QcDone(qcQ, QcOk(QcSumRows(results)))
         [] ~failed /\ qcQ.mode = "ddl" -> QcDone(qcQ, IF applied THEN QcOk(<<>>) ELSE QcError("placement"))
         [] ~failed /\ qcQ.mode = "concat" -> QcDone(qcQ, QcOk(MergeConcat(results)))
         [] ~failed /\ qcQ.mode = "in" -> QcDone(qcQ, QcMerged(s, results, QcPostMergeIn(s, results)))
         [] OTHER -> QcDone(qcQ, QcMerged(s, results, QcPostMerge(s, results)))
    /\ IF qcQ.mode = "ddl" /\ ~failed THEN ApplyCatalog(qcEps, qcRing)
       ELSE UNCHANGED qcPlaced /\ qcTorn' = (qcTorn \/ qcQ.mode = "ddl")
    /\ UNCHANGED <<qcStatic, qcMembers, qcRows, qcCat, qcDisk, qcEvents>>

-----------------------------------------------------------------------------
(* fetch_concat_bounded, and the statement on the temporary table          *)

QcBytes(rows) == Len(rows) * QcRowBytes
QcWanted(n) == IF qcQ.mode = "joinR" THEN SelectSeq(qcRows[n], LAMBDA r : r.tab = "b")
               ELSE SelectSeq(IF qcQ.mode = "full" THEN QcWhere(qcRows[n], qcQ.stmt.where) ELSE qcRows[n],
                              LAMBDA r : r.tab = "a")

FetchBudget == QcByteLimit - QcBytes(qcQ.left) - QcBytes(qcQ.rows)

\* The next endpoint is asked for one row more than the budget still allows.  A response too
\* long for the RPC limit is the byte limit as well.
QcFetch ==
    LET i == Len(qcQ.seen) + 1
        n == qcQ.eps[i]
        left == QcRowLimit - Len(qcQ.rows)
        got == SubSeq(QcWanted(n), 1, Min({left + 1, Len(QcWanted(n))}))
        budget == FetchBudget IN
    /\ qcQ.pc = "fetch" /\ i <= Len(qcQ.eps)
    /\ \/ /\ CASE Len(got) > left -> QcDone(qcQ, QcError("row limit"))
              [] Len(got) <= left /\ QcBytes(got) > budget -> QcDone(qcQ, QcError("byte limit"))
              [] OTHER -> qcQ' = [qcQ EXCEPT !.rows = @ \o got, !.seen = Append(@, qcRows[n])]
          /\ UNCHANGED qcEvents
       \/ QcEvent /\ QcDone(qcQ, QcError("node failed"))
    /\ UNCHANGED <<qcStatic, qcMembers, qcRows, qcPlacement>>

\* The left side of a join is complete: the right side is fetched from the endpoints of now, or
\* is the left side again, and then counts twice.
QcLeftDone ==
    /\ qcQ.pc = "fetch" /\ qcQ.mode = "joinL" /\ Len(qcQ.seen) = Len(qcQ.eps)
    /\ IF qcQ.stmt.self
       THEN IF 2 * QcBytes(qcQ.rows) > QcByteLimit THEN QcDone(qcQ, QcError("byte limit"))
            ELSE QcDone(qcQ, QcOk(QcJoinOf(qcQ.rows, qcQ.rows, qcQ.stmt)))
       ELSE qcQ' = [qcQ EXCEPT !.mode = "joinR", !.left = qcQ.rows, !.rows = <<>>, !.eps = qcEps,
                               !.seen = <<>>, !.seenL = qcQ.seen]
    /\ UNCHANGED <<qcStatic, qcMembers, qcRows, qcPlacement, qcEvents>>

\* The statement runs on the fetched rows; FIRST and LAST want them in time order.
QcInTime(rows) == SortSeq(rows, LAMBDA x, y : x.ts < y.ts)
QcMaterialise ==
    LET inTime == QcInTime(qcQ.rows) IN
    /\ qcQ.pc = "fetch" /\ qcQ.mode \in {"joinR", "full"} /\ Len(qcQ.seen) = Len(qcQ.eps)
    /\ QcDone(qcQ, QcOk(IF qcQ.mode = "full" THEN QcExec(inTime, qcQ.stmt) ELSE QcJoinOf(qcQ.left, qcQ.rows, qcQ.stmt)))
    /\ UNCHANGED <<qcStatic, qcMembers, qcRows, qcPlacement, qcEvents>>

-----------------------------------------------------------------------------
(* Membership, placements, arrivals                                        *)

\* An INSERT without an owner executes under the endpoint lock.
QcUnlocked == ~(qcQ.pc = "single" /\ qcQ.mode = "first" /\ qcQ.stmt.kind = "insert")

\* add_remote_node, add_local_node
QcAddNode(n) ==
    /\ QcUnlocked /\ QcEvent /\ n \notin ToSet(qcEps)
    /\ qcEps' = Append(qcEps, n) /\ qcRing' = qcRing \cup {n}
    /\ ApplyCatalog(qcEps', qcRing')
    /\ UNCHANGED <<qcStatic, qcRows, qcQ, qcCat, qcDisk>>

\* remove_node, which the health monitor calls for a DEAD node
QcRemoveNode(n) ==
    /\ QcUnlocked /\ QcEvent /\ n \in ToSet(qcEps)
    /\ qcEps' = SelectSeq(qcEps, LAMBDA m : m # n) /\ qcRing' = qcRing \ {n}
    /\ qcQ' = [qcQ EXCEPT !.stay = @ \ {n}]
    /\ UNCHANGED <<qcStatic, qcRows, qcPlacement>>

\* The shared router is edited without the coordinator (rebalance, ring consensus).
QcRingEdit(n) ==
    /\ QcEvent
    /\ qcRing' = IF n \in qcRing THEN qcRing \ {n} ELSE qcRing \cup {n}
    /\ UNCHANGED <<qcStatic, qcEps, qcRows, qcQ, qcPlacement>>

\* A tick reaches its owner.
QcIngest(r) ==
    /\ QcEvent /\ QcOwner(r.sym) # QcUnset
    /\ qcRows' = [qcRows EXCEPT ![QcOwner(r.sym)] = Append(@, r)]
    /\ UNCHANGED <<qcStatic, qcMembers, qcQ, qcPlacement>>

QcLocals == ToSet(qcEps) \cap QcLocal

RolledBack(old, new) == old

\* Under the exclusive lock: all local catalogs, then all files, then the router; when a save
\* fails, catalogs and files are put back.
QcPlace(t, p) ==
    /\ QcUnlocked /\ QcEvent /\ QcLocals # {}
    /\ LET write(cat) == [n \in QcLocal |-> IF n \in QcLocals THEN [cat[n] EXCEPT ![t] = p] ELSE cat[n]] IN
       \/ qcCat' = write(qcCat) /\ qcDisk' = write(qcDisk) /\ qcPlaced' = [qcPlaced EXCEPT ![t] = p]
       \/ /\ qcDisk' = [n \in QcLocal |-> IF n \in QcLocals THEN [qcDisk[n] EXCEPT ![t] = qcCat[n][t]] ELSE qcDisk[n]]
          /\ qcCat' = RolledBack(qcCat, write(qcCat)) /\ UNCHANGED qcPlaced
    /\ UNCHANGED <<qcStatic, qcMembers, qcRows, qcQ, qcTorn>>

\* A table is pinned only to a node the router knows.
QcSetPlacement(t, p) == p \in qcRing \cup {"hash"} /\ QcPlace(t, p)

QcClearPlacement(t) == QcPlace(t, QcUnset)

\* POST /admin/table-placement: "clear", or one of the policies.
QcPlacementRequest ==
    \E t \in QcTables : QcClearPlacement(t) \/ \E p \in QcNodes \cup {"hash"} : QcSetPlacement(t, p)

\* POST /admin/nodes
QcNodesRequest == \E n \in QcNodes : QcAddNode(n)

\* The process restarts: an empty router, and catalogs from the files; nodes register again.
QcRestart ==
    /\ QcEvent /\ qcQ.pc = "idle"
    /\ qcEps' = <<>> /\ qcRing' = {} /\ qcPlaced' = [t \in QcTables |-> QcUnset]
    /\ qcCat' = qcDisk
    /\ UNCHANGED <<qcStatic, qcRows, qcQ, qcDisk, qcTorn>>

QcControl ==
    \/ QcNodesRequest \/ QcPlacementRequest \/ QcRestart
    \/ \E n \in QcNodes : QcRemoveNode(n) \/ QcRingEdit(n)
    \/ \E r \in QcNew : QcIngest(r)

QcNext ==
    \/ \E s \in QcStmts : QcSubmit(s)
    \/ QcDispatchWrite \/ QcDispatchSelect
    \/ QcSingle \/ (\E i \in DOMAIN qcQ.res : QcNode(i)) \/ QcGather
    \/ QcFetch \/ QcLeftDone \/ QcMaterialise \/ QcReturn
    \/ QcControl

-----------------------------------------------------------------------------
(* Properties                                                              *)

QcAll(seen) == FlattenSeq(seen)

\* What the statement means over all the rows, whatever node they are on.
QcMeaning(s, rows, leftRows) ==
    LET inTime == SortSeq(rows, LAMBDA x, y : x.ts < y.ts) IN
    CASE s.kind \in {"join", "asof"} -> QcJoinOf(leftRows, rows, s)
      [] OTHER -> LET full == QcExec(inTime, [s EXCEPT !.limit = QcNone]) IN
                  IF s.distinct THEN QcDistinct(full) ELSE full

QcAnswers(s, got, want) ==
    /\ Len(got) = IF s.limit = QcNone THEN Len(want) ELSE Min({s.limit, Len(want)})
    /\ \A x \in ToSet(got) : Cardinality({i \in DOMAIN got : got[i] = x})
                               <= Cardinality({i \in DOMAIN want : want[i] = x})
    /\ s.order # 0 => \A i \in DOMAIN got : got[i][s.order] = want[i][s.order]

\* Every row is where the ring looks for it.
QcPlacedRows == \A n \in ToSet(qcEps) : \A r \in ToSet(qcRows[n]) : QcOwner(r.sym) = n

\* Known departures, listed in the README: AVG over groups that span nodes, MIN over a node
\* without rows, LIMIT or DISTINCT pushed to nodes that merge, AVG and HAVING with symbol IN, and
\* a string symbol in an ASOF join.
QcInScope(s) ==
    /\ s.kind \in {"scalar", "group", "plain", "join", "asof"}
    /\ ~("AVG" \in ToSet(s.aggs) /\ (s.kind = "group" \/ s.where.op = "in"))
    /\ ~("VWAP" \in ToSet(s.aggs) /\ (s.kind = "group" \/ s.where.op = "in"))
    /\ ~(s.kind = "group" /\ s.limit # QcNone)
    /\ ~(s.distinct /\ (s.limit # QcNone \/ s.where.op = "in"))
    /\ ~(s.having # QcNone /\ s.where.op = "in" /\ s.key # "symbol")
    /\ ~(s.kind = "asof" /\ s.where.op = "eqs")

\* A statement that succeeds answers for the whole cluster: every endpoint that was registered
\* from submission to the end contributed all the rows it held at submission, no failed node was
\* passed over in silence, no distributed sum wrapped, and the merged result is the statement's
\* meaning over those rows.
AnswerIsWhole ==
    LET q == qcQ
        s == q.stmt
        local == q.mode \in {"owner", "first"}
        rows == QcAll(q.seen) IN
    q.pc = "done" /\ q.ans.ok /\ s.kind \notin {"ddl", "desc", "insert"} =>
        /\ ~local /\ s.kind # "show" => \A n \in q.stay : \E i \in DOMAIN q.eps :
               q.eps[i] = n /\ (s.kind # "delete" => IsPrefix(q.base[n], q.seen[i]))
        /\ s.kind = "delete" => q.ans.rows = <<<<Len(QcWhere(rows, s.where))>>>>
        /\ s.kind = "show" /\ q.eps # <<>> => q.ans.rows = <<<<Len(rows)>>>>
        /\ QcInScope(s) /\ ~("MIN" \in ToSet(s.aggs) /\ \E i \in DOMAIN q.seen : QcWhere(QcTab(q.seen[i], "a"), s.where) = <<>>)
             /\ (s.distinct => ~local)
             /\ (NeedsFullData(s) /\ local => \A i, j \in DOMAIN rows : i < j => rows[i].ts <= rows[j].ts)
             /\ (s.kind \in {"asof", "join", "group"} /\ s.key = "symbol" /\ q.mode \notin {"joinL", "joinR", "full"} =>
                    \A i, j \in DOMAIN q.seen : i # j =>
                        {r.sym : r \in ToSet(q.seen[i])} \cap {r.sym : r \in ToSet(q.seen[j])} = {})
           => QcAnswers(s, q.ans.rows, QcMeaning(s, rows, IF q.mode = "joinR" THEN QcAll(q.seenL) ELSE rows))

\* The rows the coordinator materialises never exceed the row and byte limits, over all nodes
\* and, for a join, both sides together.
FetchBounded ==
    /\ Len(qcQ.rows) <= QcRowLimit /\ Len(qcQ.left) <= QcRowLimit
    /\ QcBytes(qcQ.left) + QcBytes(qcQ.rows) <= QcByteLimit

\* Unless a DDL failed part-way or a table is pinned to a node that has not registered yet, the
\* router places tables as every local catalog says: across a save that fails,
\* membership changes, and a restart that reloads the files.
PlacementAgrees ==
    ~qcTorn /\ ~(qcQ.mode = "ddl" /\ qcQ.pc = "scatter") => \A n \in QcLocals : qcCat[n] = qcPlaced

\* What the coordinator answers for the cluster is whole and bounded, and it places tables as
\* the catalogs do, while nodes join, leave and fail between the steps of a statement
\* (execute_sql, fetch_and_merge, apply_catalog).
CoordinatorExact == AnswerIsWhole /\ FetchBounded /\ PlacementAgrees
=============================================================================
