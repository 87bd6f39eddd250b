------------------------------ MODULE JoinOps ------------------------------
(***************************************************************************)
(* The joins and window functions of the SQL engine                        *)
(* (src/sql/executor.cpp exec_*_join and apply_window_functions,           *)
(* src/execution/join_operator.cpp, include/zeptodb/execution/             *)
(* flat_hash_map.h and window_function.h), as functions of their inputs,   *)
(* beside what each is supposed to return.                                 *)
(*                                                                         *)
(* A side of a join is a sequence of partitions, a partition a sequence of *)
(* rows [k, t, v] (join key, time, value).  Row numbers start at 1; 0 in a *)
(* pair is the missing side of an outer join (SIZE_MAX, -1 in the code).   *)
(***************************************************************************)
EXTENDS Integers, Sequences, FiniteSets, SequencesExt, FiniteSetsExt

CONSTANTS
    JnInputs,    \* the operator calls examined
    JnHashes,    \* hash functions (hash_i64), as functions from keys
    JnMinCap     \* smallest table of a FlatHashMap (16)

ASSUME JnConstants == JnMinCap \in Nat \ {0}

VARIABLES jnIn, jnHash, jnOut

jnVars == <<jnIn, jnHash, jnOut>>

JnNull == -1000
Unbounded == 1000
-----------------------------------------------------------------------------
(* FlatHashMap: open addressing, linear probing, a power of two of slots.  *)

RECURSIVE Doubled(_, _)
Doubled(cap, target) == IF cap < target THEN Doubled(2 * cap, target) ELSE cap

FlatCapacity(n) == Doubled(JnMinCap, (n * 4) \div 3 + 1)

FreeSlot == [occupied |-> FALSE, key |-> 0, value |-> <<>>]

FlatMap(n) == [i \in 0..(FlatCapacity(n) - 1) |-> FreeSlot]

\* The slot where a probe for key stops: its own, or the first free one.
RECURSIVE Probe(_, _, _)
Probe(m, key, idx) ==
    IF ~m[idx].occupied \/ m[idx].key = key THEN idx
    ELSE Probe(m, key, (idx + 1) % Cardinality(DOMAIN m))

FlatSlot(m, key) == Probe(m, key, jnHash[key] % Cardinality(DOMAIN m))

\* m[key].push_back(i)
FlatPush(m, key, i) ==
    LET s == FlatSlot(m, key)
    IN [m EXCEPT ![s] = [occupied |-> TRUE, key |-> key, value |-> Append(@.value, i)]]

FlatFind(m, key) == m[FlatSlot(m, key)].value

\* Row numbers of a side by key, in row order.
FlatGroups(rows) ==
    FoldLeft(LAMBDA m, i : FlatPush(m, rows[i].k, i), FlatMap(Len(rows)),
             [i \in DOMAIN rows |-> i])
-----------------------------------------------------------------------------
(* ASOF and window joins.                                                  *)

\* std::sort by time: every order it may leave among equal times.
SortedByTime(group, rows) ==
    {s \in SetToSeqs(ToSet(group)) :
       \A i \in 1..(Len(s) - 1) : rows[s[i]].t <= rows[s[i + 1]].t}

\* Number of entries of the sorted group with time below / not above t.
LowerPos(s, rows, t) == Cardinality({i \in DOMAIN s : rows[s[i]].t < t})

\* A bug: lower_bound where upper_bound is meant.
UpperPosStrict(s, rows, t) == LowerPos(s, rows, t)

UpperPos(s, rows, t) == Cardinality({i \in DOMAIN s : rows[s[i]].t <= t})

\* AsofJoinOperator::execute on one sorted order per key.
AsofPairs(left, right, sorted) ==
    FoldLeft(LAMBDA out, li :
               LET s == sorted[left[li].k]
                   pos == UpperPos(s, right, left[li].t)
               IN IF pos = 0 THEN out ELSE Append(out, <<li, s[pos]>>),
             <<>>, [i \in DOMAIN left |-> i])

\* asof_match_symbol: two pointers over one symbol, both sides by time.
TwoPointer(left, right) ==
    LET step(st, li) ==
          LET seen == {i \in 1..Len(right) :
                         i > st.ri /\ \A j \in (st.ri + 1)..i : right[j].t <= left[li].t}
              ri == IF seen = {} THEN st.ri ELSE Max(seen)
          IN [ri |-> ri, out |-> IF ri = 0 THEN st.out ELSE Append(st.out, <<li, ri>>)]
    IN FoldLeft(step, [ri |-> 0, out |-> <<>>], [i \in DOMAIN left |-> i]).out

\* exec_asof_join reads the first partition of each side.
ExecAsof(in) ==
    IF in.left = <<>> \/ in.right = <<>> THEN {<<>>}
    ELSE LET left == in.left[1]
             right == in.right[1]
             keys == {left[i].k : i \in DOMAIN left}
             groups == FlatGroups(right)
             orders == {f \in [keys -> UNION {SortedByTime(FlatFind(groups, k), right) : k \in keys}] :
                          \A k \in keys : f[k] \in SortedByTime(FlatFind(groups, k), right)}
             cut(s) == SubSeq(s, 1, IF in.limit < Len(s) THEN in.limit ELSE Len(s))
         IN {cut(AsofPairs(left, right, f)) : f \in orders}

\* aggregate_window over the values of rows begin..end-1 of the group.
AggregateWindow(agg, vals) ==
    LET sum == FoldLeft(LAMBDA x, y : x + y, 0, vals)
    IN CASE vals = <<>> -> 0
         [] vals # <<>> /\ agg = "COUNT" -> Len(vals)
         [] vals # <<>> /\ agg = "SUM" -> sum
         [] vals # <<>> /\ agg = "AVG" -> sum \div Len(vals)
         [] vals # <<>> /\ agg = "MIN" -> Min(ToSet(vals))
         [] vals # <<>> /\ agg = "MAX" -> Max(ToSet(vals))

\* WindowJoinOperator::execute for one left row.
WindowValue(in, row, right) ==
    LET s == CHOOSE o \in SortedByTime(FlatFind(FlatGroups(right), row.k), right) : TRUE
        begin == LowerPos(s, right, row.t - in.before)
        end == UpperPos(s, right, row.t + in.after)
    IN AggregateWindow(in.agg, [i \in 1..(IF begin >= end THEN 0 ELSE end - begin) |->
                                  right[s[begin + i]].v])

ExecWindowJoin(in) ==
    IF in.left = <<>> \/ in.right = <<>> THEN <<>>
    ELSE LET left == FlattenSeq(in.left)
             n == IF in.limit < Len(left) THEN in.limit ELSE Len(left)
         IN [i \in 1..n |-> WindowValue(in, left[i], FlattenSeq(in.right))]
-----------------------------------------------------------------------------
(* Equi-joins.                                                             *)

\* The rows of `build` by key, and the pairs of the rows probed with what each found.
Matches(build, key) == SelectSeq([i \in DOMAIN build |-> i], LAMBDA i : build[i].k = key)

Pair(p, b, probeLeft) == IF probeLeft THEN <<p, b>> ELSE <<b, p>>

ProbePairs(found, probeLeft, outer) ==
    FlattenSeq([p \in DOMAIN found |->
      IF found[p] = <<>> THEN (IF outer THEN <<Pair(p, 0, probeLeft)>> ELSE <<>>)
      ELSE [h \in DOMAIN found[p] |-> Pair(p, found[p][h], probeLeft)]])

\* Build rows no pair mentions, appended for FULL.
UnmatchedBuild(build, pairs, probeLeft) ==
    LET side == IF probeLeft THEN 2 ELSE 1
        left == SelectSeq([b \in DOMAIN build |-> b],
                  LAMBDA b : \A i \in DOMAIN pairs : pairs[i][side] # b)
    IN [i \in DOMAIN left |-> Pair(0, left[i], probeLeft)]

\* HashJoinOperator::execute.
HashPairs(type, left, right) ==
    LET byLeft == FlatGroups(left)
        byRight == FlatGroups(right)
        found(probe, map) == [p \in DOMAIN probe |-> FlatFind(map, probe[p].k)]
        probed == ProbePairs(found(left, byRight), TRUE, type \in {"LEFT", "FULL"})
    IN CASE type = "RIGHT" -> ProbePairs(found(right, byLeft), FALSE, TRUE)
         [] type = "FULL" -> probed \o UnmatchedBuild(right, probed, TRUE)
         [] OTHER -> probed

JnCompare(op, a, b) ==
    CASE op = "=" -> a = b [] op = "!=" -> a # b [] op = "<" -> a < b
      [] op = "<=" -> a <= b [] op = ">" -> a > b [] op = ">=" -> a >= b

\* WHERE on a joined row, each side a set of at most one row: a comparison,
\* BETWEEN or IN on a missing or NULL cell is false, negated or not.
RECURSIVE JoinWhere(_, _, _)
JoinWhere(e, l, r) ==
    LET row == IF e.side = "r" THEN r ELSE l
        null == row = {} \/ (CHOOSE x \in row : TRUE)[e.col] = JnNull
        v == (CHOOSE x \in row : TRUE)[e.col]
    IN CASE e.kind = "true" -> TRUE
         [] e.kind = "and" -> JoinWhere(e.arg, l, r) /\ JoinWhere(e.arg2, l, r)
         [] e.kind = "or" -> JoinWhere(e.arg, l, r) \/ JoinWhere(e.arg2, l, r)
         [] e.kind = "not" -> ~JoinWhere(e.arg, l, r)
         [] e.kind = "isnull" -> null # e.negated
         [] e.kind = "cmp" -> ~null /\ JnCompare(e.op, v, e.v)
         [] e.kind = "in" -> ~null /\ (v \in {e.lo, e.hi}) # e.negated
         [] e.kind = "between" -> ~null /\ v >= e.lo /\ v <= e.hi

\* exec_hash_join: INNER and FULL may build on the left when the planner says so.
ExecHashJoin(in) ==
    LET left == FlattenSeq(in.left)
        right == FlattenSeq(in.right)
        swap == in.planLeft /\ in.type \in {"INNER", "FULL"}
        build == IF swap THEN left ELSE right
        probe == IF swap THEN right ELSE left
        found(rows, built) == [p \in DOMAIN rows |-> Matches(built, rows[p].k)]
        probed == ProbePairs(found(probe, build), ~swap, in.type \in {"LEFT", "FULL"})
        pairs == CASE in.type = "RIGHT" -> ProbePairs(found(right, left), FALSE, TRUE)
                   [] in.type = "FULL" -> probed \o UnmatchedBuild(build, probed, ~swap)
                   [] OTHER -> probed
        side(rows, i) == IF i = 0 THEN {} ELSE {rows[i]}
        kept == SelectSeq(pairs, LAMBDA p : JoinWhere(in.where, side(left, p[1]), side(right, p[2])))
    IN IF in.left = <<>> \/ in.right = <<>> THEN <<>>
       ELSE SubSeq(kept, 1, IF in.limit < Len(kept) THEN in.limit ELSE Len(kept))

\* exec_union_join: all left rows, then all right rows, over the united columns.
ExecUnionJoin(in) ==
    LET cols == in.lcols \cup in.rcols
        widen(rows, own) == [i \in DOMAIN rows |->
            [c \in cols |-> IF c \in own THEN rows[i][c] ELSE JnNull]]
        side(parts, own) == IF parts = <<>> THEN <<>> ELSE widen(FlattenSeq(parts), own)
    IN side(in.left, in.lcols) \o side(in.right, in.rcols)

\* exec_plus_join: the last right row of the key is added to the left row.
ExecPlusJoin(in) ==
    LET left == FlattenSeq(in.left)
        right == FlattenSeq(in.right)
        put(m, i) == [k \in DOMAIN m \cup {right[i].k} |-> IF k = right[i].k THEN right[i] ELSE m[k]]
        map == FoldLeft(put, [k \in {} |-> 0], [i \in DOMAIN right |-> i])
    IN [i \in DOMAIN left |->
          IF left[i].k \notin DOMAIN map THEN left[i]
          ELSE [left[i] EXCEPT !.t = @ + map[left[i].k].t, !.v = @ + map[left[i].k].v]]
-----------------------------------------------------------------------------
(* Window functions, over the runs of equal PARTITION BY keys.             *)

\* compute_partition_bounds: first rows of the runs, and one past the last.
PartitionBounds(keys) ==
    SetToSortSeq({1, Len(keys) + 1} \cup
                 {i \in 2..Len(keys) : keys[i] # keys[i - 1]}, <)

\* First and one-past-last frame position of row i in a run of len rows.
FrameStart(i, preceding) ==
    IF preceding = Unbounded \/ i - preceding < 1 THEN 1 ELSE i - preceding
FrameEnd(i, len, following) ==
    IF following = Unbounded \/ i + following + 1 > len + 1 THEN len + 1 ELSE i + following + 1

\* Prefix sums, then a difference per row.
SlidingSum(x, frame) ==
    LET prefix == [j \in 0..Len(x) |-> FoldLeft(LAMBDA a, b : a + b, 0, SubSeq(x, 1, j))]
    IN [i \in DOMAIN x |-> prefix[FrameEnd(i, Len(x), frame.following) - 1]
                           - prefix[FrameStart(i, frame.preceding) - 1]]

SlidingCount(x, frame) ==
    [i \in DOMAIN x |-> FrameEnd(i, Len(x), frame.following) - FrameStart(i, frame.preceding)]

\* Monotonic deque of row numbers, for the least value or the greatest: a row makes the
\* ones before it that are no better useless.
SlidingBest(x, frame, least) ==
    LET step(st, i) ==
          LET live == SelectSeq(st.dq, LAMBDA j : j >= FrameStart(i, frame.preceding))
              keep == {n \in 0..Len(live) :
                        \A m \in (n + 1)..Len(live) : IF least THEN x[live[m]] >= x[i] ELSE x[live[m]] <= x[i]}
              dq == Append(SubSeq(live, 1, Min(keep)), i)
          IN [dq |-> dq, out |-> Append(st.out, x[dq[1]])]
    IN FoldLeft(step, [dq |-> <<>>, out |-> <<>>], [i \in DOMAIN x |-> i]).out

SlidingMin(x, frame) == SlidingBest(x, frame, TRUE)
SlidingMax(x, frame) == SlidingBest(x, frame, FALSE)

WindowRowNumber(x) == [i \in DOMAIN x |-> i]
WindowSum(x, frame) == SlidingSum(x, frame)
WindowAvg(x, frame) ==
    LET sum == SlidingSum(x, frame)
        count == SlidingCount(x, frame)
    IN [i \in DOMAIN x |-> sum[i] \div count[i]]
WindowMin(x, frame) == SlidingMin(x, frame)
WindowMax(x, frame) == SlidingMax(x, frame)

WindowRank(x) ==
    FoldLeft(LAMBDA out, i : Append(out, IF i = 1 \/ x[i] # x[i - 1] THEN i ELSE out[i - 1]),
             <<>>, [i \in DOMAIN x |-> i])

WindowDenseRank(x) ==
    FoldLeft(LAMBDA out, i : Append(out, IF i = 1 THEN 1
                                         ELSE out[i - 1] + (IF x[i] # x[i - 1] THEN 1 ELSE 0)),
             <<>>, [i \in DOMAIN x |-> i])

\* Average of weight num/den, kept as a numerator over den^(i-1), truncated.
WindowEMA(x, num, den) ==
    LET ema[i \in DOMAIN x] == IF i = 1 THEN x[1]
                               ELSE num * x[i] * den^(i - 2) + (den - num) * ema[i - 1]
    IN [i \in DOMAIN x |-> ema[i] \div den^(i - 1)]

WindowLag(x, off, def) == [i \in DOMAIN x |-> IF i - off < 1 THEN def ELSE x[i - off]]
WindowLead(x, off, def) == [i \in DOMAIN x |-> IF i + off > Len(x) THEN def ELSE x[i + off]]
WindowDelta(x) == [i \in DOMAIN x |-> IF i = 1 THEN x[1] ELSE x[i] - x[i - 1]]
WindowRatio(x) == [i \in DOMAIN x |-> CASE i = 1 -> 1000000
                                        [] i > 1 /\ x[i - 1] = 0 -> 0
                                        [] OTHER -> (x[i] * 1000000) \div x[i - 1]]

\* WindowFunction::compute on one run.
ComputeRun(in, x) ==
    CASE in.func = "ROW_NUMBER" -> WindowRowNumber(x)
      [] in.func = "RANK" -> WindowRank(x)
      [] in.func = "DENSE_RANK" -> WindowDenseRank(x)
      [] in.func = "SUM" -> WindowSum(x, in.frame)
      [] in.func = "AVG" -> WindowAvg(x, in.frame)
      [] in.func = "MIN" -> WindowMin(x, in.frame)
      [] in.func = "MAX" -> WindowMax(x, in.frame)
      [] in.func = "LAG" -> WindowLag(x, in.off, in.def)
      [] in.func = "LEAD" -> WindowLead(x, in.off, in.def)
      [] in.func = "EMA" -> WindowEMA(x, 1, 3)
      [] in.func = "DELTA" -> WindowDelta(x)
      [] in.func = "RATIO" -> WindowRatio(x)

\* apply_window_functions: the new column, run after run.
ApplyWindow(in) ==
    LET b == PartitionBounds(in.keys)
    IN IF in.x = <<>> THEN <<>>
       ELSE FlattenSeq([p \in 1..(Len(b) - 1) |->
              ComputeRun(in, SubSeq(in.x, b[p], b[p + 1] - 1))])
-----------------------------------------------------------------------------
(* One operator call.                                                      *)

JnInit == jnIn \in JnInputs /\ jnHash \in JnHashes /\ jnOut = <<"pending">>

JnExecute ==
    /\ jnOut = <<"pending">>
    /\ \/ jnIn.op = "asof" /\ \E s \in ExecAsof(jnIn) : jnOut' = <<"pairs", s>>
       \/ jnIn.op = "asof2" /\ jnOut' = <<"pairs", TwoPointer(jnIn.left[1], jnIn.right[1])>>
       \/ jnIn.op = "wj" /\ jnOut' = <<"vals", ExecWindowJoin(jnIn)>>
       \/ jnIn.op = "hash" /\ jnOut' = <<"pairs", HashPairs(jnIn.type, jnIn.left[1], jnIn.right[1])>>
       \/ jnIn.op = "exec" /\ jnOut' = <<"pairs", ExecHashJoin(jnIn)>>
       \/ jnIn.op = "uj" /\ jnOut' = <<"rows", ExecUnionJoin(jnIn)>>
       \/ jnIn.op = "pj" /\ jnOut' = <<"rows", ExecPlusJoin(jnIn)>>
       \/ jnIn.op = "window" /\ jnOut' = <<"vals", ApplyWindow(jnIn)>>
    /\ UNCHANGED <<jnIn, jnHash>>

JnNext == JnExecute
-----------------------------------------------------------------------------
(* What the operators promise.                                             *)

JnAt(parts, i) == FlattenSeq(parts)[i]
JnRows(parts) == DOMAIN FlattenSeq(parts)

\* The pairs an equi-join of this type consists of.
JoinPairs(in) ==
    LET equal == {p \in JnRows(in.left) \X JnRows(in.right) :
                    JnAt(in.left, p[1]).k = JnAt(in.right, p[2]).k}
        lonelyL == {<<l, 0>> : l \in {l \in JnRows(in.left) : \A p \in equal : p[1] # l}}
        lonelyR == {<<0, r>> : r \in {r \in JnRows(in.right) : \A p \in equal : p[2] # r}}
    IN equal \cup (IF in.type \in {"LEFT", "FULL"} THEN lonelyL ELSE {})
             \cup (IF in.type \in {"RIGHT", "FULL"} THEN lonelyR ELSE {})

\* A left row's ASOF partner: the latest right row of its key not after it.
AsofPartner(in, l, r) ==
    LET same == {q \in DOMAIN in.right[1] : in.right[1][q].k = in.left[1][l].k
                                            /\ in.right[1][q].t <= in.left[1][l].t}
    IN r \in same /\ \A q \in same : in.right[1][q].t <= in.right[1][r].t

\* The rows of the window frame of row i: its own partition, i-p .. i+f.
FrameRows(in, i) ==
    {j \in DOMAIN in.x : /\ in.keys[j] = in.keys[i]
                         /\ in.frame.preceding = Unbounded \/ i - j <= in.frame.preceding
                         /\ in.frame.following = Unbounded \/ j - i <= in.frame.following}

\* PARTITION BY keys in one run each; MIN and MAX look backwards only; RANK
\* input sorted.
WindowScope(in) ==
    /\ \A i, j, m \in DOMAIN in.keys : i < j /\ j < m /\ in.keys[i] = in.keys[m]
                                       => in.keys[j] = in.keys[i]
    /\ in.func \in {"MIN", "MAX"} => in.frame.following = 0
    /\ in.func \in {"RANK", "DENSE_RANK"} =>
         \A i, j \in DOMAIN in.x : i < j /\ in.keys[i] = in.keys[j] => in.x[i] <= in.x[j]

WindowMeaning(in, i) ==
    LET x == in.x
        own == {j \in DOMAIN x : in.keys[j] = in.keys[i]}
        frame == FrameRows(in, i)
        sum == FoldSet(LAMBDA j, acc : acc + x[j], 0, frame)
        first == i = Min(own)
        at(j, d) == IF j \in own THEN x[j] ELSE d
        weight(j) == IF j = Min(own) THEN 2^(i - j) * 1 ELSE 2^(i - j) * 3^(j - Min(own) - 1)
    IN CASE in.func = "ROW_NUMBER" -> Cardinality({j \in own : j <= i})
         [] in.func = "RANK" -> 1 + Cardinality({j \in own : x[j] < x[i]})
         [] in.func = "DENSE_RANK" -> Cardinality({x[j] : j \in {j \in own : x[j] <= x[i]}})
         [] in.func = "SUM" -> sum
         [] in.func = "AVG" -> sum \div Cardinality(frame)
         [] in.func = "MIN" -> Min({x[j] : j \in frame})
         [] in.func = "MAX" -> Max({x[j] : j \in frame})
         [] in.func = "LAG" -> at(i - in.off, in.def)
         [] in.func = "LEAD" -> at(i + in.off, in.def)
         [] in.func = "EMA" -> FoldSet(LAMBDA j, acc : acc + weight(j) * x[j], 0,
                                       {j \in own : j <= i}) \div 3^(i - Min(own))
         [] in.func = "DELTA" -> IF first THEN x[i] ELSE x[i] - x[i - 1]
         [] in.func = "RATIO" -> CASE first -> 1000000
                                   [] ~first /\ x[i - 1] = 0 -> 0
                                   [] OTHER -> (x[i] * 1000000) \div x[i - 1]

\* WINDOW JOIN: the aggregate over all right rows of the key in the window.
WindowJoinMeaning(in, i) ==
    LET l == JnAt(in.left, i)
        hits == {r \in JnRows(in.right) : /\ JnAt(in.right, r).k = l.k
                                          /\ JnAt(in.right, r).t >= l.t - in.before
                                          /\ JnAt(in.right, r).t <= l.t + in.after}
        vals == {JnAt(in.right, r).v : r \in hits}
        sum == FoldSet(LAMBDA r, acc : acc + JnAt(in.right, r).v, 0, hits)
    IN CASE hits = {} -> 0
         [] hits # {} /\ in.agg = "COUNT" -> Cardinality(hits)
         [] hits # {} /\ in.agg = "SUM" -> sum
         [] hits # {} /\ in.agg = "AVG" -> sum \div Cardinality(hits)
         [] hits # {} /\ in.agg = "MIN" -> Min(vals)
         [] hits # {} /\ in.agg = "MAX" -> Max(vals)

JnSmaller(a, b) == IF a < b THEN a ELSE b

(* Every join returns the pairs, sums or rows it is defined to return: an  *)
(* equi-join each matching pair once, whichever side the planner builds on *)
(* and however keys collide in the open-addressing table; ASOF the latest  *)
(* not-later partner of every left row that has one; the window join the   *)
(* aggregate of its time window; and each window function, computed with   *)
(* prefix sums or a monotonic deque, its value over the frame              *)
(* (join_operator.cpp, executor.cpp exec_*_join, window_function.h).       *)
JoinExact ==
    jnOut[1] # "pending" =>
      LET in == jnIn
          out == jnOut[2]
      IN CASE in.op \in {"hash", "exec"} ->
                LET want == {p \in JoinPairs(in) : in.op = "hash" \/
                               JoinWhere(in.where,
                                 IF p[1] = 0 THEN {} ELSE {JnAt(in.left, p[1])},
                                 IF p[2] = 0 THEN {} ELSE {JnAt(in.right, p[2])})}
                IN /\ IsInjective(out) /\ ToSet(out) \subseteq want
                   /\ in.left # <<>> /\ in.right # <<>> =>
                        Len(out) = JnSmaller(in.limit, Cardinality(want))
           [] in.op \in {"asof", "asof2"} ->
                /\ \A i \in DOMAIN out : AsofPartner(in, out[i][1], out[i][2])
                /\ \A i, j \in DOMAIN out : i < j => out[i][1] < out[j][1]
                /\ in.left # <<>> /\ in.right # <<>> =>
                     Len(out) = JnSmaller(in.limit,
                       Cardinality({l \in DOMAIN in.left[1] :
                                      \E r \in DOMAIN in.right[1] : AsofPartner(in, l, r)}))
           [] in.op = "wj" -> \A i \in DOMAIN out : out[i] = WindowJoinMeaning(in, i)
           [] in.op = "uj" -> Len(out) = Cardinality(JnRows(in.left)) + Cardinality(JnRows(in.right))
           [] in.op = "pj" ->
                \A i \in DOMAIN out :
                  LET m == {r \in JnRows(in.right) : JnAt(in.right, r).k = JnAt(in.left, i).k}
                  IN out[i].v = JnAt(in.left, i).v + (IF m = {} THEN 0 ELSE JnAt(in.right, Max(m)).v)
           [] in.op = "window" /\ WindowScope(in) ->
                /\ Len(out) = Len(in.x)
                /\ \A i \in DOMAIN out : out[i] = WindowMeaning(in, i)
           [] OTHER -> TRUE
=============================================================================
