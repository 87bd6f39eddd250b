----------------------------- MODULE SelectExec -----------------------------
(***************************************************************************)
(* SELECT over the in-memory partitions of one table                       *)
(* (src/sql/executor.cpp, QueryExecutor): partition pruning, the composite *)
(* s#/g#/p# index intersection, scalar and GROUP BY aggregation, HAVING,   *)
(* ORDER BY / OFFSET / LIMIT, and the worker pool that scans chunks of     *)
(* partitions in parallel and merges their partial states; and what is     *)
(* computed from finished answers, the set operations and the SELECT over a *)
(* common table expression or a FROM subquery (exec_select_virtual).       *)
(*                                                                         *)
(* Values are small non-negative integers; NullV and BigV stand for        *)
(* INT64_MIN and INT64_MAX.  Row and partition numbers start at 1.  A      *)
(* partition is [sym, rows, sorted, grouped, parted]: grouped and parted   *)
(* give, for an indexed column, the number of rows the index was built     *)
(* over.  Joins and window functions are in module JoinOps.                *)
(***************************************************************************)
EXTENDS Integers, Sequences, FiniteSets, TLC, SequencesExt, FiniteSetsExt

CONSTANTS
    SelTables,      \* the partition lists a query may find
    SelQueries,     \* the statements, [stmt, over]: over tells what is made of the answer
    SelPools,       \* worker-pool sizes (0: parallel execution disabled)
    SelThreshold    \* par_opts_.row_threshold

ASSUME SelConstants == SelThreshold \in Nat /\ SelPools \subseteq Nat

NullV == -1000
BigV == 1000

VARIABLES
    selIn,       \* the partitions, the query and the pool
    selPc,       \* "plan", "scan", "done"
    selChunks,   \* work left: per worker, the partitions it still has to scan
    selPartial,  \* per worker, the rows or group states it has produced
    selHeld,     \* the answers of the SELECTs over tables done so far
    selCancel,   \* the caller's cancellation token
    selAns       \* the answer: [err] or [rows]

selVars == <<selIn, selPc, selChunks, selPartial, selHeld, selCancel, selAns>>
-----------------------------------------------------------------------------
(* Predicates.  An expression is [k |-> "cmp"/"between"/"in"/"null"] over a *)
(* column, or "and"/"or"/"not" of expressions, or [k |-> "true"].           *)

Compare(v, op, w) ==
    CASE op = "EQ" -> v = w   [] op = "NE" -> v # w
      [] op = "GT" -> v > w   [] op = "LT" -> v < w
      [] op = "GE" -> v >= w  [] op = "LE" -> v <= w

HasCol(p, col) == \A i \in DOMAIN p.rows : col \in DOMAIN p.rows[i]

Leaf(e, v) ==
    CASE e.k = "cmp" -> Compare(v, e.op, e.v)
      [] e.k = "between" -> v >= e.lo /\ v <= e.hi
      [] e.k = "in" -> (v \in ToSet(e.vals)) # e.neg
      [] e.k = "null" -> (v = NullV) # e.neg

\* The rows of the first n that satisfy e: a whole-column scan per node.
\* Comparisons on symbol are settled when the partitions are chosen.
RECURSIVE EvalExpr(_, _, _)
EvalExpr(e, p, n) ==
    CASE e.k = "true" -> 1..n
      [] e.k = "and" -> EvalExpr(e.l, p, n) \cap EvalExpr(e.r, p, n)
      [] e.k = "or" -> EvalExpr(e.l, p, n) \cup EvalExpr(e.r, p, n)
      [] e.k = "not" -> (1..n) \ EvalExpr(e.l, p, n)
      [] e.k \in {"cmp", "between"} /\ e.col = "symbol" -> 1..n
      [] e.k = "in" /\ e.col = "symbol" ->
            IF (p.sym \in ToSet(e.vals)) # e.neg THEN 1..n ELSE {}
      [] e.k = "null" /\ ~HasCol(p, e.col) -> IF e.neg THEN {} ELSE 1..n
      [] OTHER -> IF HasCol(p, e.col)
                  THEN {i \in 1..n : Leaf(e, p.rows[i][e.col])} ELSE {}

\* The same condition for one candidate row.
RECURSIVE EvalRow(_, _, _)
EvalRow(e, p, i) ==
    CASE e.k = "true" -> TRUE
      [] e.k = "and" -> EvalRow(e.l, p, i) /\ EvalRow(e.r, p, i)
      [] e.k = "or" -> EvalRow(e.l, p, i) \/ EvalRow(e.r, p, i)
      [] e.k = "not" -> ~EvalRow(e.l, p, i)
      [] e.k \in {"cmp", "between"} /\ e.col = "symbol" -> TRUE
      [] e.k = "in" /\ e.col = "symbol" -> (p.sym \in ToSet(e.vals)) # e.neg
      [] e.k = "null" /\ ~HasCol(p, e.col) -> ~e.neg
      [] OTHER -> HasCol(p, e.col) /\ Leaf(e, p.rows[i][e.col])
-----------------------------------------------------------------------------
(* The column indexes of a partition.                                      *)

\* std::lower_bound over column col: the first position not below v.
RECURSIVE LowerBound(_, _, _, _, _)
LowerBound(p, col, v, first, len) ==
    IF len = 0 THEN first
    ELSE LET half == len \div 2
             mid == first + half
         IN IF p.rows[mid][col] < v
            THEN LowerBound(p, col, v, mid + 1, len - half - 1)
            ELSE LowerBound(p, col, v, first, half)

\* The rows of a sorted column with a value in lo..hi: [lower, upper).
SortedRange(p, col, lo, hi) ==
    IF p.rows = <<>> \/ ~HasCol(p, col) THEN {}
    ELSE LowerBound(p, col, lo, 1, Len(p.rows))
         .. LowerBound(p, col, hi + 1, 1, Len(p.rows)) - 1

\* The time column is always in order.
TimestampRange(p, lo, hi) == SortedRange(p, "ts", lo, hi)

OverlapsTimeRange(p, lo, hi) ==
    p.rows # <<>> /\ p.rows[1].ts <= hi /\ p.rows[Len(p.rows)].ts >= lo

\* g#: the rows with value v among those present when the index was built.
GroupedLookup(p, col, v) == {i \in 1..p.grouped[col] : p.rows[i][col] = v}

\* p#: the last run of v; a later run of the same value replaces an earlier.
PartedRange(p, col, v) ==
    LET n == p.parted[col]
        hits == {i \in 1..n : p.rows[i][col] = v}
        last == Max(hits)
    IN IF hits = {} THEN {}
       ELSE {i \in hits : \A j \in i..last : j \in hits}

\* The first BETWEEN on the timestamp reached through ANDs, left to right.
RECURSIVE ExtractTimeRange(_)
ExtractTimeRange(e) ==
    CASE e.k = "between" /\ e.col = "ts" -> {<<e.lo, e.hi>>}
      [] e.k = "and" -> IF ExtractTimeRange(e.l) # {} THEN ExtractTimeRange(e.l)
                        ELSE ExtractTimeRange(e.r)
      [] OTHER -> {}

\* The bounds every leaf under the ANDs puts on the sorted columns.
RECURSIVE SortedLeaves(_, _)
SortedLeaves(e, p) ==
    CASE e.k = "and" -> SortedLeaves(e.l, p) \cup SortedLeaves(e.r, p)
      [] e.k = "between" /\ e.col \in p.sorted ->
            {[col |-> e.col, lo |-> e.lo, hi |-> e.hi]}
      [] e.k = "cmp" /\ e.col \in p.sorted ->
            {[col |-> e.col,
              lo |-> CASE e.op \in {"GE", "EQ"} -> e.v [] e.op = "GT" -> e.v + 1
                       [] OTHER -> NullV,
              hi |-> CASE e.op \in {"LE", "EQ"} -> e.v [] e.op = "LT" -> e.v - 1
                       [] OTHER -> BigV]}
      [] OTHER -> {}

RECURSIVE IndexEqs(_, _)
IndexEqs(e, p) ==
    CASE e.k = "and" -> IndexEqs(e.l, p) \cup IndexEqs(e.r, p)
      [] e.k = "cmp" /\ e.op = "EQ"
         /\ e.col \in DOMAIN p.grouped \cup DOMAIN p.parted ->
            {[col |-> e.col, v |-> e.v]}
      [] OTHER -> {}

RECURSIVE AllIndexed(_, _)
AllIndexed(e, cols) ==
    CASE e.k \in {"cmp", "between"} -> e.col \in cols
      [] e.k = "and" -> AllIndexed(e.l, cols) /\ AllIndexed(e.r, cols)
      [] OTHER -> FALSE

\* IndexResult: the rows in the range or set of every index asked.
Candidates(p, time, ranges, eqs) ==
    {i \in DOMAIN p.rows :
       /\ \A t \in time : i \in TimestampRange(p, t[1], t[2])
       /\ \A r \in ranges : i \in SortedRange(p, r.col, r.lo, r.hi)
       /\ \A q \in eqs : IF q.col \in DOMAIN p.grouped
                         THEN i \in GroupedLookup(p, q.col, q.v)
                         ELSE i \in PartedRange(p, q.col, q.v)}

\* Rows of p that qualify: index candidates are intersected, and the WHERE
\* clause is evaluated on them unless every column it names is indexed.
CollectAndIntersect(e, p) ==
    LET time == ExtractTimeRange(e)
        ranges == SortedLeaves(e, p)
        eqs == IndexEqs(e, p)
        cols == (IF time # {} THEN {"ts", "recv_ts"} ELSE {})
                \cup {r.col : r \in ranges} \cup {q.col : q \in eqs}
        candidates == Candidates(p, time, ranges, eqs)
    IN CASE \E t \in time : ~OverlapsTimeRange(p, t[1], t[2]) -> {}
         [] time = {} /\ ranges = {} /\ eqs = {} -> EvalExpr(e, p, Len(p.rows))
         [] AllIndexed(e, cols) -> candidates
         [] OTHER -> {i \in candidates : EvalRow(e, p, i)}
-----------------------------------------------------------------------------
(* Choosing the partitions.                                                *)

\* The first `symbol = v` anywhere in the tree (OR and NOT included).
RECURSIVE WhereSymbol(_)
WhereSymbol(e) ==
    CASE e.k = "cmp" /\ e.col = "symbol" /\ e.op = "EQ" -> {e.v}
      [] e.k \in {"and", "or"} -> IF WhereSymbol(e.l) # {} THEN WhereSymbol(e.l)
                                  ELSE WhereSymbol(e.r)
      [] e.k = "not" -> WhereSymbol(e.l)
      [] OTHER -> {}

RECURSIVE WhereSymbolIn(_)
WhereSymbolIn(e) ==
    CASE e.k = "in" /\ e.col = "symbol" /\ ~e.neg -> {e.vals}
      [] e.k \in {"and", "or"} -> IF WhereSymbolIn(e.l) # {} THEN WhereSymbolIn(e.l)
                                  ELSE WhereSymbolIn(e.r)
      [] e.k = "not" -> WhereSymbolIn(e.l)
      [] OTHER -> {}

\* The partitions handed to the scan, in scan order.
LeftParts(e, parts) ==
    LET overlaps(p) == \A t \in ExtractTimeRange(e) : OverlapsTimeRange(p, t[1], t[2])
        ofSymbol(s) == SelectSeq(parts, LAMBDA p : p.sym = s /\ overlaps(p))
        syms == WhereSymbol(e)
        ins == WhereSymbolIn(e)
    IN CASE syms # {} -> ofSymbol(CHOOSE s \in syms : TRUE)
         [] syms = {} /\ ins \notin {{}, {<<>>}} ->
              LET vals == CHOOSE v \in ins : TRUE
              IN FlattenSeq([i \in DOMAIN vals |-> ofSymbol(vals[i])])
         [] OTHER -> SelectSeq(parts, overlaps)
-----------------------------------------------------------------------------
(* Aggregate states, one per selected column (GroupState, PartialAgg).     *)

NoAgg == [sum |-> 0, avg |-> 0, count |-> 0, minv |-> BigV, maxv |-> NullV, pv |-> 0, vv |-> 0,
          first |-> 0, last |-> 0, has |-> FALSE, vals |-> <<>>, dset |-> {}]

SumOf(s) == FoldLeft(LAMBDA x, y : x + y, 0, s)

\* A double holds every integer up to 2^53, here DblExact; up to twice that the even ones only,
\* an odd one going to a multiple of four; near INT64_MIN a small summand is lost.
DblExact == 64
AsDouble(v) ==
    LET near(m) == IF m <= DblExact \/ m % 2 = 0 THEN m ELSE IF m % 4 = 1 THEN m - 1 ELSE m + 1
    IN IF v < -2 * DblExact THEN NullV ELSE IF v < 0 THEN -near(-v) ELSE near(v)

\* Integer division rounds towards zero.
Quot(a, b) ==
    LET size(x) == IF x < 0 THEN -x ELSE x
        q == size(a) \div size(b)
    IN IF (a < 0) = (b < 0) THEN q ELSE -q

Bucketed(v, b) == IF b > 0 THEN Quot(v, b) * b ELSE v

CellOf(p, col, i) ==
    CASE col = "symbol" -> p.sym
      [] HasCol(p, col) -> p.rows[i][col]
      [] OTHER -> 0

\* One row folded into the state of column c.  The serial scalar path adds up and compares
\* doubles; AVG and VWAP do on every path.
Accumulate(st, c, p, i, path) ==
    LET v == IF c.col = "symbol" THEN 0 ELSE CellOf(p, c.col, i)
        w == CellOf(p, c.arg2, i)
        num(x) == IF path = "agg" THEN AsDouble(x) ELSE x
        d == num(v)
    IN CASE c.agg = "COUNT" -> [st EXCEPT !.count = @ + 1, !.dset = @ \cup {v}]
         [] c.agg = "SUM" -> [st EXCEPT !.sum = num(@ + d)]
         [] c.agg = "AVG" -> [st EXCEPT !.avg = AsDouble(@ + AsDouble(v)), !.count = @ + 1]
         [] c.agg = "MIN" -> [st EXCEPT !.minv = IF d < @ THEN d ELSE @]
         [] c.agg = "MAX" -> [st EXCEPT !.maxv = IF d > @ THEN d ELSE @]
         [] c.agg = "VWAP" -> [st EXCEPT !.pv = AsDouble(@ + AsDouble(AsDouble(v) * AsDouble(w))), !.vv = @ + w]
         [] c.agg \in {"FIRST", "LAST"} ->
              [st EXCEPT !.first = IF st.has THEN @ ELSE v, !.has = TRUE, !.last = v]
         [] c.agg = "XBAR" ->
              IF st.has THEN st
              ELSE [st EXCEPT !.first = Bucketed(v, c.bucket), !.has = TRUE]
         [] c.agg \in {"VARIANCE", "MEDIAN", "PERCENTILE"} ->
              [st EXCEPT !.vals = Append(@, v)]
         [] c.agg = "NONE" -> st

\* A bug: FIRST is taken from the chunk merged last.
LaterFirst(d, s) ==
    [d EXCEPT !.sum = @ + s.sum, !.avg = @ + s.avg, !.count = @ + s.count, !.first = IF s.has THEN s.first ELSE @,
              !.last = IF s.has THEN s.last ELSE @, !.has = @ \/ s.has]

\* The partial state of a later chunk folded into that of the earlier ones.
MergeAgg(d, s) ==
    [sum |-> d.sum + s.sum, avg |-> AsDouble(d.avg + s.avg), count |-> d.count + s.count,
     minv |-> IF s.minv < d.minv THEN s.minv ELSE d.minv,
     maxv |-> IF s.maxv > d.maxv THEN s.maxv ELSE d.maxv,
     pv |-> AsDouble(d.pv + s.pv), vv |-> d.vv + s.vv,
     first |-> IF d.has THEN d.first ELSE s.first,
     last |-> IF s.has THEN s.last ELSE d.last,
     has |-> d.has \/ s.has, vals |-> d.vals \o s.vals, dset |-> d.dset \cup s.dset]

\* Population variance, truncated; order statistics by index pct*(n-1)/100.
ComputeStats(c, vals) ==
    LET n == Len(vals)
        sorted == SortSeq(vals, <)
        sum == SumOf(vals)
        squares == SumOf([i \in 1..n |-> vals[i] * vals[i]])
        pct == IF c.agg = "MEDIAN" THEN 50 ELSE c.pct
    IN CASE n = 0 -> NullV
         [] n > 0 /\ c.agg = "VARIANCE" -> (n * squares - sum * sum) \div (n * n)
         [] OTHER -> sorted[(pct * (n - 1)) \div 100 + 1]

\* The value a state stands for on each execution path.  Casting the untouched
\* double accumulator of a MIN without rows is out of range: cast is what the
\* conversion yields, one extreme or the other, by architecture.
FinalValue(c, st, path, cast) ==
    CASE c.agg = "COUNT" -> IF path = "agg" /\ c.distinct THEN Cardinality(st.dset)
                            ELSE st.count
      [] c.agg = "SUM" -> st.sum
      [] c.agg = "AVG" -> IF st.count > 0 THEN Quot(st.avg, st.count)
                          ELSE IF path \in {"agg", "aggPar"} THEN NullV ELSE 0
      [] c.agg = "MIN" -> IF st.minv # BigV THEN st.minv
                          ELSE IF path = "agg" THEN cast ELSE NullV
      [] c.agg = "MAX" -> st.maxv
      [] c.agg = "VWAP" -> IF st.vv > 0 THEN Quot(st.pv, st.vv) ELSE NullV
      [] c.agg \in {"FIRST", "XBAR"} -> st.first
      [] c.agg = "LAST" -> st.last
      [] c.agg \in {"VARIANCE", "MEDIAN", "PERCENTILE"} ->
           IF path = "aggPar" THEN 0
           ELSE ComputeStats(c, IF path = "groupParN" THEN <<>> ELSE st.vals)
      [] c.agg = "NONE" -> 0
-----------------------------------------------------------------------------
(* Result rows: HAVING, ORDER BY, OFFSET and LIMIT.                        *)

\* Column positions are resolved by name; 0 is a name the result lacks.
RECURSIVE HavingRow(_, _)
HavingRow(e, row) ==
    CASE e.k = "true" -> TRUE
      [] e.k = "and" -> HavingRow(e.l, row) /\ HavingRow(e.r, row)
      [] e.k = "or" -> HavingRow(e.l, row) \/ HavingRow(e.r, row)
      [] e.k = "not" -> ~HavingRow(e.l, row)
      [] e.k = "null" -> IF e.col = 0 THEN ~e.neg ELSE Leaf(e, row[e.col])
      [] e.k = "in" -> e.col # 0 /\ row[e.col] \in ToSet(e.vals)
      [] OTHER -> e.col # 0 /\ Leaf(e, row[e.col])

Before(keys, r, s) ==
    \E k \in DOMAIN keys :
      /\ \A j \in 1..(k - 1) : r[keys[j].idx] = s[keys[j].idx]
      /\ IF keys[k].asc THEN r[keys[k].idx] < s[keys[k].idx]
         ELSE r[keys[k].idx] > s[keys[k].idx]

\* Every arrangement an unstable sort may leave.
Arrangements(rows, keys) ==
    LET n == Len(rows)
    IN {[i \in 1..n |-> rows[f[i]]] :
          f \in {g \in Permutations(1..n) :
                   \A i \in 1..(n - 1) : ~Before(keys, rows[g[i + 1]], rows[g[i]])}}

Take(rows, n) == SubSeq(rows, 1, IF n < Len(rows) THEN n ELSE Len(rows))
Drop(rows, n) == SubSeq(rows, n + 1, Len(rows))
Limited(rows, limit) == IF limit < 0 THEN rows ELSE Take(rows, limit)

\* apply_order_by: top-N sort, then OFFSET, then LIMIT.  Without a usable
\* sort key it returns at once, LIMIT unapplied.
OrderBy(rows, stmt) ==
    LET keys == SelectSeq(stmt.order, LAMBDA k : k.idx # 0)
        need == IF stmt.limit < 0 THEN Len(rows) ELSE stmt.offset + stmt.limit
    IN IF keys = <<>> \/ rows = <<>> THEN {rows}
       ELSE {LET top == Take(a, need)
             IN IF stmt.offset = 0 THEN top
                ELSE Limited(Drop(top, stmt.offset), stmt.limit) :
             a \in Arrangements(rows, keys)}

\* What follows the scan: groups leave the hash map in any order; OFFSET
\* without ORDER BY is applied by the serial projection only.
Finished(rows, stmt, path) ==
    CASE path \in {"agg", "aggPar"} -> {rows}
      [] stmt.order # <<>> -> OrderBy(rows, stmt)
      [] path = "rows" -> {Limited(Drop(rows, stmt.offset), stmt.limit)}
      [] path = "rowsPar" -> {Limited(rows, stmt.limit)}
      [] OTHER -> {Limited(r, stmt.limit) : r \in SetToSeqs(ToSet(rows))}
-----------------------------------------------------------------------------
(* Scanning.                                                               *)

HasAgg(stmt) == \E i \in DOMAIN stmt.cols : stmt.cols[i].agg # "NONE"

\* Parallel when the pool has threads to spare, enough rows, two partitions.
Parallel(in, left) ==
    /\ in.pool > 1
    /\ SumOf([i \in DOMAIN left |-> Len(left[i].rows)]) >= SelThreshold
    /\ Len(left) >= 2

PathOf(in, left) ==
    LET kind == CASE ~HasAgg(in.stmt) -> "rows"
                  [] in.stmt.group = <<>> -> "agg"
                  [] OTHER -> "group"
    IN CASE ~Parallel(in, left) -> kind
         [] kind # "group" -> kind \o "Par"
         [] Len(in.stmt.group) = 1 -> "groupPar1"
         [] OTHER -> "groupParN"

\* make_partition_chunks: at most n consecutive chunks of equal ceiling size.
PartitionChunks(left, n) ==
    LET k == IF n < Len(left) THEN n ELSE Len(left)
        size == (Len(left) + k - 1) \div k
        used == (Len(left) + size - 1) \div size
    IN IF left = <<>> THEN <<>>
       ELSE [c \in 1..used |-> SubSeq(left, (c - 1) * size + 1,
                  IF c * size < Len(left) THEN c * size ELSE Len(left))]

\* Serial: one chunk.  Parallel GROUP BY splits only when there are at least
\* as many partitions as threads.
ChunksOf(in, left) ==
    CASE ~Parallel(in, left) -> <<left>>
      [] HasAgg(in.stmt) /\ in.stmt.group # <<>> /\ Len(left) < in.pool -> <<left>>
      [] OTHER -> PartitionChunks(left, in.pool)

ProjectRow(stmt, p, i) == [k \in DOMAIN stmt.cols |-> CellOf(p, stmt.cols[k].col, i)]

\* The parallel paths do not bucket DATE_TRUNC keys.
GroupKey(stmt, p, i, path) ==
    [g \in DOMAIN stmt.group |->
       LET s == stmt.group[g]
           xbar == Bucketed(CellOf(p, s.col, i), s.bucket)
       IN IF path = "group" THEN Bucketed(xbar, s.dt) ELSE xbar]

AddRow(states, stmt, p, i, path) ==
    [k \in DOMAIN stmt.cols |-> Accumulate(states[k], stmt.cols[k], p, i, path)]

Fresh(stmt) == [k \in DOMAIN stmt.cols |-> NoAgg]

\* GROUP BY symbol opens the group of every partition scanned, empty or not.
SymbolGroup(stmt, path) ==
    path = "group" /\ Len(stmt.group) = 1 /\ stmt.group[1].col = "symbol"
    /\ stmt.group[1].bucket = 0 /\ stmt.group[1].dt = 0

AddToGroup(groups, key, states) ==
    [k \in DOMAIN groups \cup {key} |-> IF k = key THEN states ELSE groups[k]]

\* The last key is cached with its slot, and the cache starts with INT64_MIN: a single-column
\* group of that key has no slot until another key was met, and its rows so far are lost.
SlotMissed(groups, stmt, key, path) ==
    Len(stmt.group) = 1 /\ ~SymbolGroup(stmt, path) /\ key = <<NullV>> /\ DOMAIN groups = {}

\* The rows a projection keeps of one partition, up to the limit.  Without a LIMIT the cap is
\* the greatest size_t, and adding an OFFSET to it wraps round to OFFSET - 1.
ScanRows(acc, stmt, p, hits, path) ==
    LET cap == CASE stmt.order # <<>> -> BigV
                 [] stmt.order = <<>> /\ stmt.limit < 0 ->
                      IF path = "rows" /\ stmt.offset > 0 THEN stmt.offset - 1 ELSE BigV
                 [] stmt.order = <<>> /\ stmt.limit >= 0 /\ path = "rows" -> stmt.limit + stmt.offset
                 [] OTHER -> stmt.limit
    IN Take(acc \o [i \in DOMAIN hits |-> ProjectRow(stmt, p, hits[i])],
            IF Len(acc) > cap THEN Len(acc) ELSE cap)

ScanAgg(acc, stmt, p, hits, path) == FoldLeft(LAMBDA s, i : AddRow(s, stmt, p, i, path), acc, hits)

ScanGroups(acc, stmt, p, hits, path) ==
    LET grow(g, i) == LET key == GroupKey(stmt, p, i, path)
                      IN IF SlotMissed(g, stmt, key, path) THEN g
                         ELSE AddToGroup(g, key,
                                AddRow(IF key \in DOMAIN g THEN g[key] ELSE Fresh(stmt),
                                       stmt, p, i, path))
        base == IF SymbolGroup(stmt, path) /\ <<p.sym>> \notin DOMAIN acc
                THEN AddToGroup(acc, <<p.sym>>, Fresh(stmt)) ELSE acc
    IN FoldLeft(grow, base, hits)

\* One partition folded into a worker's partial result.
ScanInto(acc, stmt, p, path) ==
    LET hits == SetToSortSeq(CollectAndIntersect(stmt.where, p), <)
    IN CASE path \in {"rows", "rowsPar"} -> ScanRows(acc, stmt, p, hits, path)
         [] path \in {"agg", "aggPar"} -> ScanAgg(acc, stmt, p, hits, path)
         [] OTHER -> ScanGroups(acc, stmt, p, hits, path)

Blank(stmt, path) ==
    CASE path \in {"rows", "rowsPar"} -> <<>>
      [] path \in {"agg", "aggPar"} -> Fresh(stmt)
      [] OTHER -> [k \in {} |-> Fresh(stmt)]

\* Partial results are merged in chunk order, whoever finished first.
MergeStates(d, s) == [k \in DOMAIN d |-> MergeAgg(d[k], s[k])]

MergePartials(partials, stmt, path) ==
    LET merge(d, s) ==
          CASE path \in {"rows", "rowsPar"} -> d \o s
            [] path \in {"agg", "aggPar"} -> MergeStates(d, s)
            [] OTHER -> [k \in DOMAIN d \cup DOMAIN s |->
                           CASE k \notin DOMAIN d -> s[k]
                             [] k \notin DOMAIN s -> d[k]
                             [] OTHER -> MergeStates(d[k], s[k])]
    IN FoldLeft(merge, Blank(stmt, path), partials)

\* The rows a merged state stands for.
ResultRows(acc, stmt, path, cast) ==
    LET outs == SelectSeq([k \in DOMAIN stmt.cols |-> k],
                          LAMBDA k : path \in {"agg", "aggPar"} \/ stmt.cols[k].agg # "NONE")
        values(states) == [j \in DOMAIN outs |->
            FinalValue(stmt.cols[outs[j]], states[outs[j]], path, cast)]
    IN CASE path \in {"rows", "rowsPar"} -> acc
         [] path \in {"agg", "aggPar"} -> <<values(acc)>>
         [] OTHER -> SetToSeq({k \o values(acc[k]) : k \in DOMAIN acc})
-----------------------------------------------------------------------------
(* A SELECT over finished rows: a common table expression or a FROM         *)
(* subquery.  Columns are positions in those rows, 0 a name they lack.  An  *)
(* item is [agg, col, arith, distinct, pct], arith a tree or [k |-> "none"]. *)

VtCell(row, col) == IF col = 0 THEN 0 ELSE row[col]

RECURSIVE VtArith(_, _)
VtArith(e, row) ==
    CASE e.k = "lit" -> e.v
      [] e.k = "col" -> VtCell(row, e.col)
      [] e.k = "fun" -> VtArith(e.l, row)
      [] OTHER -> LET l == VtArith(e.l, row)
                      r == VtArith(e.r, row)
                  IN CASE e.k = "add" -> l + r  [] e.k = "sub" -> l - r
                       [] e.k = "mul" -> l * r
                       [] e.k = "div" -> IF r = 0 THEN 0 ELSE Quot(l, r)

\* NOT is not looked at on IN.
RECURSIVE VtHolds(_, _)
VtHolds(e, row) ==
    CASE e.k = "true" -> TRUE
      [] e.k = "and" -> VtHolds(e.l, row) /\ VtHolds(e.r, row)
      [] e.k = "or" -> VtHolds(e.l, row) \/ VtHolds(e.r, row)
      [] e.k = "not" -> ~VtHolds(e.l, row)
      [] e.k = "in" -> VtCell(row, e.col) \in ToSet(e.vals)
      [] OTHER -> Leaf(e, VtCell(row, e.col))

\* A CASE WHEN item is read like a plain column.
VtValue(c, row) == IF c.arith.k = "none" THEN VtCell(row, c.col) ELSE VtArith(c.arith, row)

VtHasAgg(stmt) == \E k \in DOMAIN stmt.cols : stmt.cols[k].agg \notin {"NONE", "XBAR"}

VtDistinct(rows) ==
    FoldLeft(LAMBDA seen, r : IF r \in ToSet(seen) THEN seen ELSE Append(seen, r), <<>>, rows)

\* CASE 1: projection.
VtProject(stmt, passing) ==
    LET rows == IF stmt.star THEN passing
                ELSE [i \in DOMAIN passing |->
                        [k \in DOMAIN stmt.cols |-> VtValue(stmt.cols[k], passing[i])]]
    IN IF stmt.distinct THEN VtDistinct(rows) ELSE rows

\* One value folded into the state of an aggregate; NullV marks a first or
\* last value not yet seen.
VtAdd(st, c, v) ==
    CASE c.agg = "COUNT" -> [st EXCEPT !.count = @ + 1, !.dset = @ \cup {v}]
      [] c.agg \in {"SUM", "AVG"} -> [st EXCEPT !.sum = @ + v, !.count = @ + 1]
      [] c.agg = "MIN" -> [st EXCEPT !.minv = IF v < @ THEN v ELSE @]
      [] c.agg = "MAX" -> [st EXCEPT !.maxv = IF v > @ THEN v ELSE @]
      [] c.agg = "FIRST" -> [st EXCEPT !.first = IF @ = NullV THEN v ELSE @]
      [] c.agg = "LAST" -> [st EXCEPT !.last = v]
      [] OTHER -> [st EXCEPT !.vals = Append(@, v)]

VtState(c, rows) ==
    FoldLeft(LAMBDA st, r : VtAdd(st, c, VtValue(c, r)),
             [NoAgg EXCEPT !.first = NullV, !.last = NullV], rows)

OrZero(v) == IF v = NullV THEN 0 ELSE v

VtCommon(c, st) ==
    CASE c.agg = "SUM" -> st.sum
      [] c.agg = "MIN" -> IF st.minv # BigV THEN st.minv ELSE NullV
      [] c.agg = "MAX" -> st.maxv
      [] c.agg = "FIRST" -> OrZero(st.first)
      [] c.agg = "LAST" -> OrZero(st.last)

\* CASE 2: one row of aggregates.  An item that is none of the seven
\* aggregates is the value of the first row.
VtScalar(stmt, passing) ==
    LET value(c) ==
          LET st == VtState(c, passing)
          IN CASE c.agg = "COUNT" -> IF c.distinct THEN Cardinality(st.dset) ELSE st.count
               [] c.agg = "AVG" -> IF st.count # 0 THEN Quot(st.sum, st.count) ELSE NullV
               [] c.agg \in {"SUM", "MIN", "MAX", "FIRST", "LAST"} -> VtCommon(c, st)
               [] OTHER -> IF passing # <<>> THEN VtValue(c, Head(passing)) ELSE 0
    IN <<[k \in DOMAIN stmt.cols |-> value(stmt.cols[k])]>>

\* CASE 3: GROUP BY plain columns.  An item that is not an aggregate is read
\* from the key when the key has its column, else from the group's first row.
VtGroups(stmt, passing) ==
    LET key(r) == [g \in DOMAIN stmt.group |-> VtCell(r, stmt.group[g])]
        value(c, grp) ==
          LET st == VtState(c, grp)
          IN CASE c.agg = "COUNT" -> st.count
               [] c.agg = "AVG" -> Quot(st.sum, st.count)
               [] c.agg \in {"SUM", "MIN", "MAX", "FIRST", "LAST"} -> VtCommon(c, st)
               [] c.agg \in {"VARIANCE", "MEDIAN", "PERCENTILE"} -> ComputeStats(c, st.vals)
               [] OTHER -> IF c.col \in ToSet(stmt.group) THEN VtCell(Head(grp), c.col)
                           ELSE Head(st.vals)
        rowOf(k) == LET grp == SelectSeq(passing, LAMBDA r : key(r) = k)
                    IN [j \in DOMAIN stmt.cols |-> value(stmt.cols[j], grp)]
        keys == SetToSeq({key(passing[i]) : i \in DOMAIN passing})
    IN SelectSeq([i \in DOMAIN keys |-> rowOf(keys[i])],
                 LAMBDA r : HavingRow(stmt.having, r))

\* exec_select_virtual: the answers there may be; groups leave a hash map in
\* any order, which a sort that finds its key undoes.
VtSelect(stmt, rows) ==
    LET passing == SelectSeq(rows, LAMBDA r : VtHolds(stmt.where, r))
        cut(rs) == IF stmt.order # <<>> THEN OrderBy(rs, stmt)
                   ELSE {Limited(Drop(rs, stmt.offset), stmt.limit)}
        sorted == \E k \in DOMAIN stmt.order : stmt.order[k].idx # 0
        arranged(rs) == IF sorted THEN {rs}
                        ELSE {[i \in DOMAIN rs |-> rs[f[i]]] : f \in Permutations(DOMAIN rs)}
    IN CASE ~VtHasAgg(stmt) -> cut(VtProject(stmt, passing))
         [] VtHasAgg(stmt) /\ stmt.group = <<>> -> {VtScalar(stmt, passing)}
         [] OTHER -> UNION {cut(rs) : rs \in arranged(VtGroups(stmt, passing))}

SetOps == {"UNION_ALL", "UNION_DISTINCT", "INTERSECT", "EXCEPT"}

\* Two answers combined.
SetOp(op, left, right) ==
    CASE op = "UNION_ALL" -> left \o right
      [] op = "UNION_DISTINCT" -> VtDistinct(left \o right)
      [] op = "INTERSECT" -> SelectSeq(left, LAMBDA r : r \in ToSet(right))
      [] op = "EXCEPT" -> SelectSeq(left, LAMBDA r : r \notin ToSet(right))
-----------------------------------------------------------------------------
(* The execution of one query.                                             *)

SelInit ==
    /\ \E parts \in SelTables, q \in SelQueries, pool \in SelPools :
         selIn = [parts |-> parts, stmt |-> q.stmt, over |-> q.over, pool |-> pool]
    /\ selPc = "plan" /\ selChunks = <<>> /\ selPartial = <<>> /\ selHeld = <<>>
    /\ selCancel = FALSE /\ selAns = [err |-> "none", rows |-> <<>>]

\* The k-th SELECT over tables of query in: the right side of a set operation
\* comes second.
Nth(in, k) ==
    [parts |-> in.parts, stmt |-> IF k = 1 THEN in.stmt ELSE in.over.rhs, pool |-> in.pool]

selNow == Nth(selIn, Len(selHeld) + 1)
selLeft == LeftParts(selNow.stmt.where, selIn.parts)
selPath == PathOf(selNow, selLeft)

\* exec_select: choose the partitions, the path and the chunks.
SelPlan ==
    /\ selPc = "plan"
    /\ selPc' = "scan"
    /\ selChunks' = ChunksOf(selNow, selLeft)
    /\ selPartial' = [w \in DOMAIN selChunks' |-> Blank(selNow.stmt, selPath)]
    /\ UNCHANGED <<selIn, selHeld, selCancel, selAns>>

\* The answers a query may give from those of its SELECTs over tables: the
\* first error, or the rows combined.
Combined(over, held) ==
    LET failed == SelectSeq(held, LAMBDA h : h.err # "none")
        good(rows) == [err |-> "none", rows |-> rows]
    IN CASE failed # <<>> -> {Head(failed)}
         [] failed = <<>> /\ over.op = "FROM" ->
              {good(rows) : rows \in VtSelect(over.stmt, held[1].rows)}
         [] failed = <<>> /\ over.op \in SetOps ->
              {good(SetOp(over.op, held[1].rows, held[2].rows))}
         [] OTHER -> {held[1]}

\* A SELECT over tables ends with answer res.  The right side of a set
\* operation runs even when the left failed.
Deliver(res) ==
    /\ selHeld' = Append(selHeld, res)
    /\ IF selIn.over.op \in SetOps /\ selHeld = <<>>
       THEN selPc' = "plan" /\ selAns' = selAns
       ELSE selPc' = "done" /\ selAns' \in Combined(selIn.over, selHeld')
    /\ selChunks' = <<>> /\ selPartial' = <<>>

\* Worker w scans its next partition.  Only the serial loops poll the token.
SelScan(w) ==
    /\ selPc = "scan" /\ selChunks[w] # <<>>
    /\ IF selCancel /\ ~Parallel(selNow, selLeft)
       THEN Deliver([err |-> "Query cancelled", rows |-> <<>>])
       ELSE /\ selPartial' = [selPartial EXCEPT
                 ![w] = ScanInto(@, selNow.stmt, Head(selChunks[w]), selPath)]
            /\ selChunks' = [selChunks EXCEPT ![w] = Tail(@)]
            /\ UNCHANGED <<selPc, selHeld, selAns>>
    /\ UNCHANGED <<selIn, selCancel>>

\* All chunks done: merge, HAVING (grouped paths), ORDER BY, LIMIT.
SelFinish ==
    /\ selPc = "scan" /\ \A w \in DOMAIN selChunks : selChunks[w] = <<>>
    /\ LET stmt == selNow.stmt
           grouped == HasAgg(stmt) /\ stmt.group # <<>>
       IN \E cast \in {NullV, BigV} :
            LET rows == ResultRows(MergePartials(selPartial, stmt, selPath),
                                   stmt, selPath, cast)
                kept == IF grouped THEN SelectSeq(rows, LAMBDA r : HavingRow(stmt.having, r))
                        ELSE rows
            IN \E final \in Finished(kept, stmt, selPath) :
                 Deliver([err |-> "none", rows |-> final])
    /\ UNCHANGED <<selIn, selCancel>>

\* The caller's token, set from another thread.
SelCancel ==
    /\ selPc # "done" /\ ~selCancel
    /\ selCancel' = TRUE
    /\ UNCHANGED <<selIn, selPc, selChunks, selPartial, selHeld, selAns>>

SelNext == SelPlan \/ (\E w \in DOMAIN selChunks : SelScan(w)) \/ SelFinish \/ SelCancel
-----------------------------------------------------------------------------
(* What the statement means, row by row, without partitions or indexes.    *)

\* row is any function from columns to values.
RECURSIVE Satisfies(_, _)
Satisfies(e, row) ==
    CASE e.k = "true" -> TRUE
      [] e.k = "and" -> Satisfies(e.l, row) /\ Satisfies(e.r, row)
      [] e.k = "or" -> Satisfies(e.l, row) \/ Satisfies(e.r, row)
      [] e.k = "not" -> ~Satisfies(e.l, row)
      [] OTHER -> Leaf(e, row[e.col])

\* Leaves reached through ANDs only.
RECURSIVE Conjuncts(_)
Conjuncts(e) == CASE e.k = "and" -> Conjuncts(e.l) \cup Conjuncts(e.r)
                  [] OTHER -> {e}

Columns == {"symbol", "ts", "a", "b"}

\* The qualifying rows, as <<partition, row>>, in storage order; the rows of
\* symbol IN (...) come in the order of the list.
Hits(in) ==
    LET lists == {l.vals : l \in {m \in Conjuncts(in.stmt.where) :
                                    m.k = "in" /\ m.col = "symbol" /\ ~m.neg}}
        listed(s) == SelectSeq(in.parts, LAMBDA p : p.sym = s)
        parts == IF lists = {} THEN in.parts
                 ELSE FlattenSeq(LET l == CHOOSE l \in lists : TRUE
                                 IN [i \in DOMAIN l |-> listed(l[i])])
        rowsOf(p) == SetToSortSeq({i \in DOMAIN p.rows :
                       Satisfies(in.stmt.where, [c \in Columns |-> CellOf(p, c, i)])}, <)
    IN FlattenSeq([j \in DOMAIN parts |->
         [k \in DOMAIN rowsOf(parts[j]) |-> <<parts[j], rowsOf(parts[j])[k]>>]])

Meaning(c, hits) ==
    LET vs == [k \in DOMAIN hits |-> CellOf(hits[k][1], c.col, hits[k][2])]
        ws == [k \in DOMAIN hits |-> CellOf(hits[k][1], c.arg2, hits[k][2])]
        vol == SumOf(ws)
    IN CASE c.agg = "COUNT" -> IF c.distinct THEN Cardinality(ToSet(vs)) ELSE Len(vs)
         [] c.agg = "SUM" -> SumOf(vs)
         [] c.agg = "AVG" -> IF vs = <<>> THEN NullV ELSE Quot(SumOf(vs), Len(vs))
         [] c.agg = "MIN" -> IF vs = <<>> THEN NullV ELSE Min(ToSet(vs))
         [] c.agg = "MAX" -> IF vs = <<>> THEN NullV ELSE Max(ToSet(vs))
         [] c.agg = "VWAP" -> IF vol = 0 THEN NullV
                              ELSE SumOf([k \in DOMAIN vs |-> vs[k] * ws[k]]) \div vol
         [] c.agg = "FIRST" -> IF vs = <<>> THEN 0 ELSE Head(vs)
         [] c.agg = "LAST" -> IF vs = <<>> THEN 0 ELSE Last(vs)
         [] c.agg = "XBAR" -> IF vs = <<>> THEN 0 ELSE Bucketed(Head(vs), c.bucket)
         [] OTHER -> ComputeStats(c, vs)

MeaningRow(stmt, hits) ==
    LET cs == SelectSeq(stmt.cols, LAMBDA c : c.agg # "NONE")
    IN [k \in DOMAIN cs |-> Meaning(cs[k], hits)]

\* All rows of the answer before ORDER BY, in storage order where that counts.
MeaningRows(in) ==
    LET hits == Hits(in)
        stmt == in.stmt
        key(h) == GroupKey(stmt, h[1], h[2], "group")
        keys == {key(hits[k]) : k \in DOMAIN hits}
        all == {k \o MeaningRow(stmt, SelectSeq(hits, LAMBDA h : key(h) = k)) : k \in keys}
    IN CASE ~HasAgg(stmt) -> [k \in DOMAIN hits |-> ProjectRow(stmt, hits[k][1], hits[k][2])]
         [] HasAgg(stmt) /\ stmt.group = <<>> -> <<MeaningRow(stmt, hits)>>
         [] OTHER -> SetToSeq({r \in all : Satisfies(stmt.having, r)})

Occurs(r, s) == Cardinality({i \in DOMAIN s : s[i] = r})

\* ans is an acceptable answer when the statement means the rows full.
Answers(ans, full, stmt) ==
    LET want == IF stmt.order # <<>> THEN SortSeq(full, LAMBDA r, s : Before(stmt.order, r, s))
                ELSE full
        cut == IF stmt.limit < 0 THEN Drop(want, stmt.offset)
               ELSE Take(Drop(want, stmt.offset), stmt.limit)
        same(r, s) == ~Before(stmt.order, r, s) /\ ~Before(stmt.order, s, r)
    IN CASE stmt.order = <<>> /\ ~HasAgg(stmt) -> ans = cut
         [] OTHER -> /\ Len(ans) = Len(cut)
                     /\ \A i \in DOMAIN ans : /\ Occurs(ans[i], ans) <= Occurs(ans[i], full)
                                              /\ same(ans[i], cut[i])

RECURSIVE Leaves(_)
Leaves(e) == CASE e.k \in {"and", "or"} -> Leaves(e.l) \cup Leaves(e.r)
               [] e.k = "not" -> Leaves(e.l)
               [] e.k = "true" -> {}
               [] OTHER -> {e}

\* No sum of c over the rows hits leaves the integers a double holds.
DoubleExact(c, hits) ==
    LET size(x) == IF x < 0 THEN -x ELSE x
        cell(k, col) == size(CellOf(hits[k][1], col, hits[k][2]))
        term(k) == IF c.agg = "VWAP" THEN cell(k, c.col) * cell(k, c.arg2) + cell(k, c.col) ELSE cell(k, c.col)
    IN SumOf([k \in DOMAIN hits |-> term(k)]) <= DblExact

\* The conditions under which the answer is what the statement means.  Each
\* conjunct names a case in which this code is known to answer differently
\* (README, "Where the SQL engine departs from the statement").
InScope(in) ==
    LET stmt == in.stmt
        e == stmt.where
        symLeaves == {l \in Leaves(e) : l.col = "symbol"}
        aggs == {stmt.cols[k] : k \in DOMAIN stmt.cols}
        par == Parallel(in, LeftParts(e, in.parts))
        indexed(p) == p.sorted \cup DOMAIN p.grouped \cup DOMAIN p.parted
    IN \* symbol predicates: one EQ or IN, conjoined, no value twice
       /\ Cardinality(symLeaves) <= 1
       /\ \A l \in symLeaves : /\ l \in Conjuncts(e)
                               /\ \/ l.k = "cmp" /\ l.op = "EQ"
                                  \/ l.k = "in" /\ ~l.neg /\ IsInjective(l.vals)
       \* an indexed column answers every predicate on it
       /\ \A j \in DOMAIN in.parts : \A l \in Leaves(e) :
            LET p == in.parts[j]
            IN /\ l.col \in p.sorted => ~(l.k = "cmp" /\ l.op = "NE")
               /\ l.col \in indexed(p) \ p.sorted => l.k = "cmp" /\ l.op = "EQ"
               /\ l.col = "ts" /\ ExtractTimeRange(e) # {} =>
                    l.k = "between" /\ <<l.lo, l.hi>> \in ExtractTimeRange(e)
               /\ l.col \in DOMAIN p.grouped => p.grouped[l.col] = Len(p.rows)
               /\ l.col \in DOMAIN p.parted => p.parted[l.col] = Len(p.rows)
       \* aggregates the parallel and grouped paths leave out
       /\ par /\ HasAgg(stmt) =>
            /\ \A c \in aggs : ~c.distinct /\ c.agg \notin {"VARIANCE", "MEDIAN", "PERCENTILE"}
            /\ \A g \in DOMAIN stmt.group : stmt.group[g].dt = 0
       /\ stmt.group # <<>> => \A c \in aggs : ~c.distinct
       \* OFFSET outside the ORDER BY and serial projection paths
       /\ stmt.offset > 0 => stmt.order # <<>> \/ (~HasAgg(stmt) /\ ~par /\ stmt.limit >= 0)
       \* integers that go through a double; a first group of nulls
       /\ \A c \in aggs : c.agg \in {"AVG", "VWAP"} \/ (c.agg \in {"SUM", "MIN", "MAX"} /\ stmt.group = <<>> /\ ~par)
            => DoubleExact(c, Hits(in))
       /\ Len(stmt.group) = 1 => \A k \in DOMAIN Hits(in) :
            GroupKey(stmt, Hits(in)[k][1], Hits(in)[k][2], "group") # <<NullV>>
       /\ \A k \in DOMAIN stmt.order : stmt.order[k].idx # 0
       /\ \A l \in Leaves(stmt.having) : l.col # 0 /\ ~(l.k = "in" /\ l.neg)
       \* MIN of no rows; one-row scalar answers ignore ORDER BY and LIMIT
       /\ HasAgg(stmt) /\ stmt.group = <<>> =>
            /\ \A c \in aggs : c.agg # "MIN" \/ Hits(in) # <<>>
            /\ stmt.order = <<>> /\ stmt.limit # 0
       \* groups of symbols none of whose rows qualify
       /\ SymbolGroup(stmt, "group") /\ ~par =>
            \A j \in DOMAIN in.parts :
              in.parts[j].sym \in {Hits(in)[k][1].sym : k \in DOMAIN Hits(in)}

\* The elements of a sequence, each where it first occurs.
Firsts(s) ==
    LET first == {n \in DOMAIN s : \A m \in 1..(n - 1) : s[m] # s[n]}
        is == SelectSeq([n \in DOMAIN s |-> n], LAMBDA n : n \in first)
    IN [k \in DOMAIN is |-> s[is[k]]]

\* The same for what is made of finished rows.  VtMeans reuses the reading of
\* the items over the values each takes on the qualifying rows.
VtMeans(ans, stmt, rows) ==
    LET hits == SelectSeq(rows, LAMBDA r : Satisfies(stmt.where, r))
        item(c) == [c EXCEPT !.col = "v"]
        part(c, rs) == [sym |-> 0, rows |-> [i \in DOMAIN rs |-> [v |-> VtValue(c, rs[i])]]]
        mean(c, rs) == IF c.agg = "NONE" THEN VtValue(c, Head(rs))
                       ELSE Meaning([item(c) EXCEPT !.arg2 = "v"],
                                    [i \in DOMAIN rs |-> <<part(c, rs), i>>])
        means(rs) == [k \in DOMAIN stmt.cols |-> mean(stmt.cols[k], rs)]
        key(r) == [g \in DOMAIN stmt.group |-> r[stmt.group[g]]]
        keys == Firsts([i \in DOMAIN hits |-> key(hits[i])])
        grouped == [n \in DOMAIN keys |-> means(SelectSeq(hits, LAMBDA r : key(r) = keys[n]))]
        plain == [i \in DOMAIN hits |-> IF stmt.star THEN hits[i]
                    ELSE [k \in DOMAIN stmt.cols |-> VtValue(stmt.cols[k], hits[i])]]
    IN Answers(ans,
         CASE ~HasAgg(stmt) /\ ~stmt.distinct -> plain
           [] ~HasAgg(stmt) /\ stmt.distinct -> Firsts(plain)
           [] HasAgg(stmt) /\ stmt.group = <<>> -> <<means(hits)>>
           [] OTHER -> SelectSeq(grouped, LAMBDA r : Satisfies(stmt.having, r)),
         stmt)

VtInScope(stmt) ==
    LET aggs == {stmt.cols[k] : k \in DOMAIN stmt.cols}
        stats == {"VARIANCE", "MEDIAN", "PERCENTILE"}
    IN \* names the rows have, and NOT IN
       /\ \A l \in Leaves(stmt.where) \cup Leaves(stmt.having) : l.col # 0 /\ ~(l.k = "in" /\ l.neg)
       /\ \A k \in DOMAIN stmt.order : stmt.order[k].idx # 0
       \* the aggregates each path leaves out, DISTINCT beside an aggregate
       /\ \A c \in aggs : c.agg \notin {"VWAP", "XBAR"} /\ (c.distinct => stmt.group = <<>>)
       /\ HasAgg(stmt) => ~stmt.distinct
       /\ HasAgg(stmt) /\ stmt.group = <<>> =>
            /\ \A c \in aggs : c.agg \notin stats \cup {"NONE"}
            /\ stmt.order = <<>> /\ stmt.limit # 0 /\ stmt.offset = 0

SetMeans(ans, op, left, right) ==
    LET rows == ToSet(left) \cup ToSet(right)
    IN CASE op = "UNION_ALL" -> \A r \in rows \cup ToSet(ans) :
                                  Occurs(r, ans) = Occurs(r, left) + Occurs(r, right)
         [] op = "UNION_DISTINCT" -> IsInjective(ans) /\ ToSet(ans) = rows
         [] op = "INTERSECT" -> /\ IsInjective(left) => IsInjective(ans)
                                /\ ToSet(ans) = ToSet(left) \cap ToSet(right)
         [] op = "EXCEPT" -> /\ IsInjective(left) => IsInjective(ans)
                             /\ ToSet(ans) = ToSet(left) \ ToSet(right)

\* FIRST and LAST of a null, and sums with one, are read as the code reads
\* INT64_MIN: no reading of the statement is fixed for them.
NoNulls(rows) == \A i \in DOMAIN rows : \A k \in DOMAIN rows[i] : rows[i][k] # NullV

-----------------------------------------------------------------------------
(* Properties.                                                             *)

(* Partition pruning, the binary searches and hash lookups of the column   *)
(* indexes, chunking over the workers, the order in which workers finish   *)
(* and the merge of their partial states change nothing: a SELECT that is  *)
(* not cancelled returns exactly the rows, groups and aggregates that its  *)
(* text means over all rows of the table (exec_select, exec_agg,           *)
(* exec_group_agg, exec_simple_select and their parallel versions).  What  *)
(* a set operation or a SELECT over a subquery makes of such answers is    *)
(* what its text means over their rows, and a query with a cancelled part  *)
(* gives no rows (exec_select, exec_select_virtual).                       *)
SelectExact ==
    selPc = "done" =>
      /\ \A k \in DOMAIN selHeld :
           selHeld[k].err = "none" /\ InScope(Nth(selIn, k))
             => Answers(selHeld[k].rows, MeaningRows(Nth(selIn, k)), Nth(selIn, k).stmt)
      /\ selAns.err = "none" <=> \A k \in DOMAIN selHeld : selHeld[k].err = "none"
      /\ selAns.err # "none" => selAns.rows = <<>>
      /\ selAns.err = "none" /\ selIn.over.op = "NONE" => selAns = selHeld[1]
      /\ selAns.err = "none" /\ selIn.over.op = "FROM" /\ VtInScope(selIn.over.stmt)
           /\ NoNulls(selHeld[1].rows)
           => VtMeans(selAns.rows, selIn.over.stmt, selHeld[1].rows)
      /\ selAns.err = "none" /\ selIn.over.op \in SetOps
           => SetMeans(selAns.rows, selIn.over.op, selHeld[1].rows, selHeld[2].rows)
=============================================================================
