------------------------------ MODULE MCQuery ------------------------------
(* Small instances of what stands between a statement and its answer: the   *)
(* parser, the executor of SELECT, the joins and window functions, the      *)
(* coordinator of a cluster with its router, the catalog with the result    *)
(* cache, and the bodies that carry rows in and answers out.  A behaviour   *)
(* is one of one part, the subject; the others are idle.                    *)
EXTENDS SelectExec, JoinOps, PartitionRouter, QueryCoordinator, SchemaCatalog, BatchIngest, SqlParser, TLC

VARIABLE subject

-----------------------------------------------------------------------------
(* SelectExec: tables with and without indexes, and statements over them.  *)

Row(t, a, b) == [ts |-> t, a |-> a, b |-> b]
NoIdx == [c \in {} |-> 0]
Part(sym, rows) == [sym |-> sym, rows |-> rows, sorted |-> {}, grouped |-> NoIdx, parted |-> NoIdx]

P1 == <<Row(1, 3, 1), Row(2, 1, 2), Row(4, 3, 0)>>
P2 == <<Row(2, 1, 1), Row(3, 2, 3)>>
P3 == <<Row(5, 2, 2), Row(5, 4, 1)>>
P4 == <<Row(1, NullV, 1), Row(2, 65, 2)>>
P5 == <<Row(3, NullV, 2), Row(4, 64, 1)>>
S1 == <<Row(1, 1, 3), Row(2, 1, 2), Row(4, 3, 2)>>

MCSelTables ==
    {<<>>, <<Part(1, P1)>>, <<Part(1, P4), Part(2, P5)>>,
     <<Part(1, P1), Part(2, P2), Part(1, P3)>>,
     <<[Part(1, S1) EXCEPT !.sorted = {"a"}, !.grouped = "b" :> 3], Part(2, P2),
       [Part(3, S1) EXCEPT !.parted = "a" :> 3, !.grouped = "b" :> 3]>>,
     <<Part(1, P1), Part(2, P2), Part(3, <<>>), Part(2, P3)>>}

T == [k |-> "true"]
Cmp(c, o, v) == [k |-> "cmp", col |-> c, op |-> o, v |-> v]
Btw(c, l, h) == [k |-> "between", col |-> c, lo |-> l, hi |-> h]
In(c, vs, n) == [k |-> "in", col |-> c, vals |-> vs, neg |-> n]
And(l, r) == [k |-> "and", l |-> l, r |-> r]
Or(l, r) == [k |-> "or", l |-> l, r |-> r]
Not(l) == [k |-> "not", l |-> l]

Wheres == {T, Cmp("a", "EQ", 3), Cmp("a", "GT", 1), Btw("ts", 2, 4),
           And(Btw("ts", 2, 5), Cmp("a", "EQ", 1)), And(Cmp("b", "EQ", 2), Cmp("a", "LE", 2)),
           And(Cmp("symbol", "EQ", 1), Cmp("b", "NE", 2)), In("symbol", <<2, 1>>, FALSE),
           Or(Cmp("a", "LT", 2), Not(In("b", <<1, 2>>, FALSE))), Cmp("symbol", "EQ", 9),
           And(Cmp("a", "GE", 1), In("a", <<1, 4>>, TRUE))}

Col(g, c) == [agg |-> g, col |-> c, arg2 |-> "b", distinct |-> FALSE, bucket |-> 2, pct |-> 90]
Stmt(w, cols) == [where |-> w, cols |-> cols, group |-> <<>>, having |-> T,
                  order |-> <<>>, limit |-> -1, offset |-> 0]
By(c) == [col |-> c, bucket |-> 0, dt |-> 0]

Shapes(w) ==
    LET rows == Stmt(w, <<Col("NONE", "symbol"), Col("NONE", "a"), Col("NONE", "b")>>)
        aggs == Stmt(w, <<Col("COUNT", "a"), Col("SUM", "a"), Col("AVG", "a"), Col("MIN", "a"),
                          Col("MAX", "a"), Col("VWAP", "a"), Col("FIRST", "a"), Col("LAST", "a"),
                          Col("XBAR", "ts")>>)
        stats == Stmt(w, <<[Col("COUNT", "b") EXCEPT !.distinct = TRUE], Col("VARIANCE", "a"),
                           Col("MEDIAN", "a"), Col("PERCENTILE", "b")>>)
        few == Stmt(w, <<Col("COUNT", "b"), Col("SUM", "b"), Col("LAST", "ts")>>)
    IN {rows, [rows EXCEPT !.offset = 1], [rows EXCEPT !.limit = 2], [rows EXCEPT !.limit = 2, !.offset = 1],
        [rows EXCEPT !.order = <<[idx |-> 2, asc |-> FALSE], [idx |-> 3, asc |-> TRUE]>>,
                     !.limit = 2, !.offset = 1],
        aggs, stats,
        [few EXCEPT !.group = <<By("symbol")>>, !.limit = 2],
        [few EXCEPT !.group = <<By("a")>>, !.having = [k |-> "cmp", col |-> 2, op |-> "GE", v |-> 2],
                    !.order = <<[idx |-> 3, asc |-> TRUE]>>],
        [few EXCEPT !.group = <<[By("ts") EXCEPT !.dt = 2]>>],
        [few EXCEPT !.group = <<By("symbol"), [By("ts") EXCEPT !.bucket = 3]>>,
                    !.order = <<[idx |-> 4, asc |-> FALSE]>>, !.limit = 2]}

\* What is made of the rows <<symbol, a, b>>: SELECTs over them, set operations.
VtCol(g, c) == [agg |-> g, col |-> c, arith |-> [k |-> "none"], arg2 |-> 0, distinct |-> FALSE, pct |-> 90, bucket |-> 0]
VtCalc(g, o, l, r) == [VtCol(g, 0) EXCEPT !.arith = [k |-> o, l |-> [k |-> "col", col |-> l],
                                                    r |-> [k |-> "lit", v |-> r]]]
VtStmt(w, cols) == [where |-> w, star |-> FALSE, cols |-> cols, distinct |-> FALSE, group |-> <<>>,
                    having |-> T, order |-> <<>>, limit |-> -1, offset |-> 0]

VtShapes(w) ==
    LET some == VtStmt(w, <<VtCol("NONE", 2), VtCalc("NONE", "sub", 3, 2), VtCalc("NONE", "div", 2, 0)>>)
        aggs == VtStmt(w, <<VtCol("COUNT", 1), [VtCol("COUNT", 2) EXCEPT !.distinct = TRUE], VtCalc("SUM", "sub", 3, 3),
                            VtCalc("AVG", "sub", 2, 4), VtCol("MIN", 2), VtCol("MAX", 3), VtCol("FIRST", 2), VtCol("LAST", 2)>>)
        byA == [VtStmt(w, <<VtCol("NONE", 2), VtCol("COUNT", 1), VtCalc("AVG", "sub", 3, 2), VtCol("MEDIAN", 3), VtCol("LAST", 1)>>)
                  EXCEPT !.group = <<2>>]
    IN {[some EXCEPT !.star = TRUE, !.limit = 2, !.offset = 1], [some EXCEPT !.distinct = TRUE],
        [some EXCEPT !.order = <<[idx |-> 2, asc |-> TRUE]>>, !.limit = 3], aggs,
        [VtStmt(w, <<VtCol("VWAP", 2), VtCol("MEDIAN", 2), VtCol("NONE", 0)>>) EXCEPT !.order = <<[idx |-> 0, asc |-> TRUE]>>],
        [byA EXCEPT !.having = [k |-> "cmp", col |-> 2, op |-> "GE", v |-> 2]],
        [byA EXCEPT !.group = <<1, 2>>, !.order = <<[idx |-> 2, asc |-> FALSE]>>, !.limit = 2]}

VtWheres == {T, Or(Cmp(2, "GT", 1), Cmp(3, "EQ", 2)), And(Not(Btw(3, 1, 1)), In(2, <<1, 3>>, TRUE)),
             [k |-> "null", col |-> 2, neg |-> TRUE]}

MCSelQueries ==
    LET plain(w) == Stmt(w, <<Col("NONE", "symbol"), Col("NONE", "a"), Col("NONE", "b")>>)
        counted == Stmt(Cmp("a", "GT", 3), <<Col("COUNT", "a"), Col("AVG", "a"), Col("MAX", "b")>>)
        few == Stmt(T, <<Col("NONE", "a"), Col("NONE", "b")>>)
    IN {[stmt |-> s, over |-> [op |-> "NONE"]] : s \in UNION {Shapes(w) : w \in Wheres}}
       \cup {[stmt |-> s, over |-> [op |-> "FROM", stmt |-> v]] :
              s \in {plain(T), plain(Cmp("a", "GT", 1)), counted}, v \in UNION {VtShapes(w) : w \in VtWheres}}
       \cup {[stmt |-> [few EXCEPT !.where = w], over |-> [op |-> o, rhs |-> [few EXCEPT !.where = Cmp("b", "EQ", 2)]]] :
              w \in {T, Cmp("a", "EQ", 1)}, o \in SetOps}

-----------------------------------------------------------------------------
(* JoinOps: two small sides, and columns for the window functions.         *)

JRow(k, t, v) == [k |-> k, t |-> t, v |-> v]
JSmall == {JRow(k, t, k + t) : k \in 1..2, t \in 1..2}
JSides == {<<>>} \cup {<<s>> : s \in UNION {[1..n -> JSmall] : n \in 0..2}}
          \cup {<<<<JRow(1, 1, 2)>>, <<JRow(3, 2, 5), JRow(1, 3, JnNull)>>>>,
                <<<<JRow(2, 2, 1), JRow(1, 2, 3), JRow(1, 2, 4)>>>>}
JOne == {s \in JSides : Len(s) = 1}
JFew == {s \in JSides : Len(s) # 1 \/ Len(s[1]) # 2}
        \cup {<<<<JRow(1, 1, 2), JRow(1, 2, 3)>>>>, <<<<JRow(1, 2, 3), JRow(2, 2, 4)>>>>}
JExpr(kind, side) == [kind |-> kind, side |-> side, col |-> "v", v |-> 2, lo |-> 2, hi |-> 4,
                      op |-> ">=", negated |-> side = "r"]
JBoth(kind, a, b) == [kind |-> kind, side |-> "l", arg |-> a, arg2 |-> b]
JWheres == {JExpr("true", "l"), JExpr("isnull", "r"), JExpr("in", "r"),
            JBoth("not", JExpr("cmp", "r"), JExpr("true", "l")),
            JBoth("or", JExpr("isnull", "l"), JBoth("and", JExpr("between", "l"), JExpr("cmp", "r")))}
JTypes == {"INNER", "LEFT", "RIGHT", "FULL"}
JLists(lim) == UNION {[1..n -> 0..2] : n \in 0..lim}
MCJnInputs ==
    [op : {"asof"}, left : JSides, right : JSides, limit : {1, Unbounded}]
    \cup {i \in [op : {"asof2"}, left : JOne, right : JOne, limit : {Unbounded}] :
            \A s \in {i.left[1], i.right[1]} : /\ \A a \in DOMAIN s : s[a].k = 1
                                               /\ \A a \in 1..(Len(s) - 1) : s[a].t <= s[a + 1].t}
    \cup [op : {"wj"}, left : JFew, right : JSides, limit : {2}, before : {0, 1}, after : {1},
          agg : {"COUNT", "SUM", "AVG", "MIN", "MAX"}]
    \cup [op : {"hash"}, left : JOne, right : JOne, type : JTypes, limit : {Unbounded}]
    \cup [op : {"exec"}, left : JFew, right : JFew, type : JTypes, limit : {2, Unbounded},
          planLeft : BOOLEAN, where : JWheres]
    \cup [op : {"uj"}, left : JOne, right : JOne, lcols : {{"k", "v"}}, rcols : {{"k", "t"}}]
    \cup [op : {"pj"}, left : JOne, right : JOne]
MCWinInputs ==
    {[op |-> "window", func |-> f, x |-> x, keys |-> [i \in DOMAIN x |-> IF i <= n THEN 7 ELSE 8],
      frame |-> [preceding |-> p, following |-> q], off |-> 1, def |-> 9] :
        f \in {"ROW_NUMBER", "RANK", "DENSE_RANK", "SUM", "AVG", "MIN", "MAX", "LAG", "LEAD",
               "EMA", "DELTA", "RATIO"},
        x \in JLists(3), n \in {0, 2}, p \in {1, Unbounded}, q \in {0, 1}}
MCJnHashes == {[k \in 1..3 |-> 0], [k \in 1..3 |-> k]}
MCAllJn == MCJnInputs \cup MCWinInputs

-----------------------------------------------------------------------------
(* PartitionRouter                                                         *)

MCRtLayouts == {[vn |-> [n \in RtNodes |-> CASE n = "n1" -> {2, 8} [] n = "n2" -> {4, 10} [] n = "n3" -> {6, 7}],
                 key |-> [k \in RtKeys |-> hs[k + 1]]] : hs \in {<<3, 9>>, <<9, 10>>}}

-----------------------------------------------------------------------------
(* QueryCoordinator                                                        *)

QcBase == [kind |-> "plain", aggs |-> <<>>, key |-> "symbol", where |-> [op |-> "none", syms |-> {}],
           having |-> QcNone, distinct |-> FALSE, order |-> 0, limit |-> QcNone, self |-> FALSE,
           rows |-> <<>>, nosym |-> FALSE, str |-> FALSE, tab |-> "t", place |-> QcUnset]
QcSt(k, a, key) == [QcBase EXCEPT !.kind = k, !.aggs = a, !.key = key]
QcRow(t, k, ts, v) == [tab |-> t, sym |-> k, ts |-> ts, v |-> v]
QcAny == [op |-> "none", syms |-> {}]
QcEq == [op |-> "eq", syms |-> {1}]
QcIn == [op |-> "in", syms |-> {1, 2}]
QcStr == [op |-> "eqs", syms |-> {1}]
QcOver(st, ws) == {[st EXCEPT !.where = w] : w \in ws}
MCQcStmts ==
    QcOver(QcSt("scalar", <<"COUNT", "AVG", "MAX">>, "symbol"), {QcAny, QcEq, QcStr})
    \cup QcOver(QcSt("scalar", <<"MIN", "VWAP", "SUM">>, "symbol"), {QcAny})
    \cup QcOver([QcSt("group", <<"COUNT", "SUM", "MIN">>, "v") EXCEPT !.having = 1], {QcAny})
    \cup QcOver(QcSt("group", <<"COUNT", "MAX">>, "symbol"), {QcIn})
    \cup QcOver([QcSt("plain", <<>>, "symbol") EXCEPT !.order = 2, !.limit = 2], {QcAny, QcIn})
    \cup QcOver([QcSt("plain", <<>>, "symbol") EXCEPT !.distinct = TRUE], {QcAny})
    \cup QcOver([QcSt("group", <<"FIRST", "LAST">>, "symbol") EXCEPT !.order = 1], {QcAny, QcEq})
    \cup {QcSt("join", <<>>, "symbol"), [QcSt("join", <<>>, "symbol") EXCEPT !.self = TRUE]}
    \cup QcOver(QcSt("asof", <<>>, "symbol"), {QcAny, QcEq, QcStr})
    \cup QcOver(QcSt("delete", <<>>, "symbol"), {QcAny, QcEq})
    \cup {QcSt("show", <<>>, "symbol"), QcSt("desc", <<>>, "symbol"),
          [QcSt("ddl", <<>>, "symbol") EXCEPT !.place = "n2"]}
    \cup {[QcSt("insert", <<>>, "symbol") EXCEPT !.rows = r] :
               r \in {<<QcRow("a", 2, 5, 1)>>, <<QcRow("a", 1, 5, 2), QcRow("a", 2, 5, 2)>>}}
    \cup {[QcSt("insert", <<>>, "symbol") EXCEPT !.rows = <<QcRow("a", 0, 5, 2)>>, !.nosym = TRUE]}
MCQcOrders == {[k \in 0..2 |-> CASE k = 0 -> <<"n1", "n2", "n3">> [] k = 1 -> <<"n2", "n1", "n3">> [] OTHER -> <<"n3", "n2", "n1">>]}
MCQcData == {<<QcRow("a", 0, 2, 1), QcRow("a", 1, 1, 1), QcRow("a", 2, 3, 31), QcRow("b", 2, 2, 5)>>}
MCQcNew == {QcRow("a", 1, 4, 1)}
MCQcEps == {<<"n1">>, <<"n1", "n2", "n3">>, <<"n3", "n1">>}

-----------------------------------------------------------------------------
(* SchemaCatalog                                                           *)

MCScHash == ("t" :> 1) @@ ("u" :> 1)
Stm(o, t, c, r) == [op |-> o, tab |-> t, col |-> c, rows |-> r]
MCScStmts ==
   {Stm("create", "t", "a", <<>>), Stm("create", "u", "a", <<>>), Stm("drop", "t", "", <<>>),
    Stm("add_column", "t", "b", <<>>), Stm("add_column", "t", "a", <<>>), Stm("drop_column", "t", "a", <<>>),
    Stm("set_ttl", "t", "", <<>>), Stm("insert", "t", "", <<"good", "bad">>), Stm("insert", "u", "", <<"old">>),
    Stm("update", "t", "", <<>>), Stm("delete", "t", "", <<>>), Stm("batch", "t", "", <<"good">>),
    Stm("select", "t", "", <<>>), Stm("select", "u", "", <<>>)}

-----------------------------------------------------------------------------
(* BatchIngest: the edges of the integer widths, as values and as rows of batches.*)

BVal(k, n) == [kind |-> k, n |-> n, f |-> "none"]
MCPrices == {BVal("int", 3), BVal("int", -7), BVal("int", 15), BVal("int", 11), BVal("uint", 9), BVal("uint", 16), BVal("uint", 17), BVal("uint", 31), BVal("double", 16), BVal("double", 5), BVal("nil", 0), [kind |-> "double", n |-> 2, f |-> "small"],
             [kind |-> "double", n |-> 2, f |-> "half"], [kind |-> "double", n |-> 3, f |-> "decimal"]}
MCSyms == {BVal("str", 1), BVal("int", 4), BVal("int", -1), BVal("nil", 0)}
MCTs == {BVal("int", 1), BVal("nil", 0), BVal("coarse", 5), BVal("coarse", 6), BVal("coarse",-6)}
BGood == [sym |-> BVal("str", 1), price |-> BVal("int", 3), ts |-> BVal("int", 1)]
MCRow == {[BGood EXCEPT !.price = v] : v \in MCPrices} \cup {[BGood EXCEPT !.sym = v] : v \in MCSyms} \cup {[BGood EXCEPT !.ts = v] : v \in MCTs}
BOne == {<<<<r>>>> : r \in MCRow} \cup {<<<<BGood, r>>>> : r \in MCRow}
BTwo == {<<<<BGood>>, <<r>>>> : r \in MCRow} \cup {<<<<BGood, BGood>>, <<r, BGood>>>> : r \in MCRow} \cup {<<<<BGood>>,<<BGood, r>>>> : r \in MCRow}
MCReqs == [path : {"msgpack"}, named : BOOLEAN, acl : {"none"}, tenant : {"none"}, scale : {1, 2}, clustered : BOOLEAN, hasTs : BOOLEAN, batches : BOne]
   \cup [path : {"arrow", "flight"}, named : BOOLEAN, acl : {"none"}, tenant : {"none"}, scale : {1, 2}, clustered : BOOLEAN, hasTs : BOOLEAN, batches : BOne \cup BTwo]
   \cup [path : {"msgpack", "arrow", "flight"}, named : BOOLEAN, acl : {"none", "in", "out"}, tenant : {"none", "in", "out"}, scale : {1}, clustered : {FALSE}, hasTs : {FALSE}, batches : {<<<<BGood>>>>}]
BNum(k, n) == Parsed(k, n, <<>>, <<>>)
BScalars == {BNum("uint", 0), BNum("uint", 3), BNum("int", -1), BNum("int", -2), BNum("double", 7), BNum("nil", 0), BNum("str", 2)}
BArr(s) == Parsed("array", 0, s, <<>>)
MCValues == BScalars \cup {BArr(<<>>)} \cup {BArr(<<v, w>>) : v, w \in BScalars}
   \cup {Parsed("map", 0, <<BArr(<<v>>), BArr(<<w, v>>)>>, <<1, 2>>) : v, w \in BScalars}
   \cup {BArr(<<BArr(<<BArr(<<v>>)>>)>>) : v \in BScalars}
MCReads == [rows : 0 .. 4, limit : -1 .. 5]

-----------------------------------------------------------------------------
(* SqlParser: statements as trees, each form of the grammar at least once. *)

PCol(c) == <<"col", <<"", c>>>>
PTCol(c) == <<"col", <<"t", c>>>>
PsAtoms == {PCol("a"), <<"lit", 2>>, <<"lit", -3>>}
PBins(X, Y) == {<<"bin", op, x, y>> : op \in {"PLUS", "MINUS", "STAR", "SLASH"}, x \in X, y \in Y}
PsArith1 == PsAtoms \cup PBins({PCol("a")}, PsAtoms)
PsFuncs == {<<"func", "DATE_TRUNC", "min", <<PCol("a")>>>>, <<"func", "NOW", "", <<>>>>,
            <<"func", "EPOCH_S", "", <<PCol("a")>>>>, <<"func", "SUBSTR", 2, <<PCol("a")>>>>,
            <<"func", "SUBSTR", 2, <<PCol("a"), <<"lit", 4>>>>>>, <<"func", "INTERVAL", "5 min", <<>>>>,
            <<"func", "ST_DISTANCE", "", <<PCol("a"), PCol("b"), <<"lit", 2>>, <<"lit", -2>>>>>>}
PsArith2 == PsFuncs \cup PsArith1 \cup PBins(PBins({PCol("a")}, {<<"lit", 2>>}), {PTCol("b"), <<"lit", 3>>})
            \cup PBins({PCol("a")}, PBins({PTCol("b")}, {<<"lit", 2>>, <<"lit", -2>>}))
            \cup PBins({<<"func", "NOW", "", <<>>>>}, {<<"lit", 2>>})
PSel0 == <<FALSE, <<<<<<"star", "">>, "">>>>, <<"table", "t", "">>, <<>>, <<>>, <<>>, <<>>, <<>>, <<>>, <<>>, <<>>>>
PSel(k, x) == [PSel0 EXCEPT ![k] = x]
PCmp == <<"cmp", PCol("a"), "GT", <<"num", 3>>>>
PConds0 == {PCmp, <<"true">>, <<"never">>, <<"between", PTCol("a"), -1, 2>>, <<"in", PCol("a"), <<1, -2, 7>>>>,
           <<"null", PCol("a"), TRUE>>, <<"like", PCol("a"), "p", TRUE>>, <<"like", PCol("a"), "p", FALSE>>,
           <<"cmp", PCol("OFFSET"), "LE", <<"str", "x">>>>,
           <<"cmp", PCol("a"), "LT", <<"expr", <<"bin", "MINUS", <<"func", "NOW", "", <<>>>>, <<"func", "INTERVAL", "1 s", <<>>>>>>>>>>,
           <<"cmp", PCol("a"), "EQ", <<"sub", PSel0>>>>, <<"insub", PCol("a"), PSel0>>,
           <<"cmp", <<"func", "ST_WITHIN", "", <<PCol("a"), PCol("b"), PCol("c"), <<"lit", 2>>, <<"lit", 2>>>>>>, "NE", <<"num", 0>>>>}
PSmall == {PCmp, <<"between", PCol("b"), 1, 2>>}
PConds1 == PConds0 \cup {<<"not", c>> : c \in PConds0}
          \cup {<<o, x, y>> : o \in {"and", "or"}, x \in PConds0, y \in PSmall}
PTwo == {<<o, PCmp, <<"null", PCol("b"), FALSE>>>> : o \in {"and", "or"}} \cup {<<"not", PCmp>>}
PConds == PConds1 \cup {<<o, x, y>> : o \in {"and", "or"}, x \in PTwo, y \in PTwo} \cup {<<"not", c>> : c \in PTwo}
         \cup {<<o, x, <<p, y, z>>>> : o \in {"and", "or"}, p \in {"and", "or"}, x \in PSmall, y \in PSmall, z \in PTwo}
PNoSpec == <<<<>>, <<>>, <<>>>>
PSpecs == {PNoSpec, <<<<<<<<"", "a">>, <<"t", "b">>>>>>, <<<<<<<<"", "a">>, FALSE>>, <<<<"", "b">>, TRUE>>>>>>, <<>>>>}
         \cup {<<<<>>, <<>>, <<f>>>> : f \in {<<PsMaxInt, 0>>, <<3, 0>>, <<0, 0>>, <<2, 1>>, <<PsMaxInt, PsMaxInt>>}}
PCase == <<"case", <<<<PCmp, <<"lit", 2>>>>, <<<<"or", PCmp, PCmp>>, PCol("b")>>>>, <<<<"lit", -2>>>>>>
PItems == {<<"expr", a>> : a \in PsArith2} \cup {<<"star", "">>, <<"star", "t">>, PCase, <<"wj", "WJ_AVG", <<"t", "a">>>>}
         \cup {<<"agg", f, FALSE, a, "">> : f \in {"SUM", "MEDIAN", "FIRST"}, a \in {PCol("a"), <<"bin", "STAR", PCol("a"), PTCol("b")>>, PCase}}
         \cup {<<"agg", "COUNT", FALSE, PCol("STAR"), "">>, <<"agg", "COUNT", TRUE, PTCol("a"), "">>, <<"agg", "VWAP", FALSE, PCol("a"), "b">>,
               <<"agg", "XBAR", FALSE, PCol("a"), 5>>, <<"agg", "PERCENTILE", FALSE, PCol("a"), 95>>}
         \cup {<<"win", "SUM", PCol("a"), <<>>, w>> : w \in PSpecs}
         \cup {<<"win", "RANK", PCol(""), <<>>, PNoSpec>>, <<"win", "LAG", PCol("a"), <<1, -1>>, PNoSpec>>, <<"win", "LEAD", PCol("a"), <<2>>, PNoSpec>>,
               <<"win", "EMA", PCol("a"), <<1>>, PNoSpec>>, <<"win", "DELTA", PCol("a"), <<>>, PNoSpec>>}
POn == <<"on", <<"t", "a">>, "EQ", <<"u", "a">>>>
PJoins == {<<k, <<"u", "v">>, <<POn>>, <<>>>> : k \in {"ASOF", "AJ0", "INNER", "LEFT", "FULL", "PLUS_JOIN"}}
         \cup {<<"UNION", <<"u", "">>, <<>>, <<>>>>, <<"WINDOW", <<"u", "v">>, <<POn>>, <<<<"ts", "tt", 5, 6>>>>>>}
PSels == {PSel(2, <<<<x, al>>>>) : x \in PItems, al \in {""}} \cup {PSel(2, <<<<x, "DELTA">>>>) : x \in {y \in PItems : y[1] # "star"}} \cup {PSel(2, <<<<<<"expr", PCol("a")>>, "x">>, <<<<"star", "">>, "">>>>)}
        \cup {PSel(1, TRUE), PSel(3, <<"sub", PSel0, "q">>), PSel(3, <<"table", "t", "x">>), PSel(4, <<1>>)}
        \cup {PSel(5, <<j>>) : j \in PJoins} \cup {PSel(6, <<c>>) : c \in PConds} \cup {PSel(8, <<c>>) : c \in PTwo}
        \cup {PSel(7, <<<<<<"xbar", <<"", "a">>, 5>>, <<"trunc", <<"t", "b">>, "min">>, <<"column", <<"", "ROWS">>>>>>>>)}
        \cup {<<TRUE, PSel0[2], <<"table", "t", "x">>, <<2>>, <<j>>, <<PCmp>>, <<<<<<"column", <<"", "a">>>>>>>>, <<PCmp>>, <<<<<<<<"", "FIRST">>, d>>>>>>, <<n>>, o>> :
                j \in {<<"LEFT", <<"u", "">>, <<POn>>, <<>>>>}, d \in BOOLEAN, n \in {1}, o \in {<<>>, <<2>>}}
PQuery(q) == <<"query", FALSE, <<>>, q, <<>>>>
MCPsStatements == {PQuery(q) : q \in PSels}
   \cup {<<"query", TRUE, <<<<<<"c", PSel0>>, <<"d", PSel(1, TRUE)>>>>>>, PSel0, <<>>>>}
   \cup {<<"query", FALSE, <<>>, PSel(6, <<PCmp>>), <<o, PSel(1, TRUE)>>>> : o \in {"UNION", "UNION ALL", "INTERSECT", "EXCEPT"}}
   \cup {<<"create", b, "t", <<<<"a", "INT64">>, <<"b", "STRING">>>>, o, n>> : b \in BOOLEAN, o \in {<<>>, <<<<"pinned">>>>}, n \in {<<>>, <<<<2>>>>}}
   \cup {<<"drop", b, "t">> : b \in BOOLEAN} \cup {<<"show">>, <<"describe", "t">>, <<"dropview", "v">>, <<"createview", "v", PSel(6, <<PCmp>>)>>}
   \cup {<<"alter", "t", x>> : x \in {<<"add", <<"c", "INT64">>>>, <<"remove", "c">>, <<"attribute", "c", "SORTED">>, <<"ttl", 3, "DAYS">>, <<"ttl", 3, "HOURS">>,
                                      <<"tiers", <<<<60>>>>, <<>>, <<<<2880>>>>>>, <<"tiers", <<>>, <<<<90>>>>, <<>>>>}}
   \cup {<<"insert", "t", cs, rs>> : cs \in {<<>>, <<"a", "b">>},
           rs \in {<<<<<<"num", 2>>, <<"str", "x">>>>>>, <<<<<<"num", -3>>, <<"num", 2>>>>, <<<<"str", "y">>, <<"num", 5>>>>>>}}
   \cup {<<"update", "t", as, w>> : as \in {<<<<"a", -1>>>>, <<<<"a", 1>>, <<"b", 2>>>>}, w \in {<<>>, <<PCmp>>}}
   \cup {<<"delete", "t", w>> : w \in {<<>>} \cup {<<c>> : c \in PTwo}}
MCPsWritten == UNION {Written(x) : x \in MCPsStatements}

-----------------------------------------------------------------------------
SelAtRest ==
    /\ selIn = <<>> /\ selPc = "off" /\ selChunks = <<>> /\ selPartial = <<>> /\ selHeld = <<>>
    /\ selCancel = FALSE /\ selAns = <<>>
JnAtRest == jnIn = <<>> /\ jnHash = <<>> /\ jnOut = <<"pending">>
PsAtRest == psStmt = <<>> /\ psCut = FALSE /\ psText = <<>> /\ psPc = "off" /\ psTokens = <<>> /\ psResult = PsFail
MCRequest == CHOOSE q \in BiRequests : TRUE
BiAtRest ==
    /\ biReq = MCRequest /\ biLook = Look1 /\ biPc = "done" /\ biAt = 1
    /\ biTicks = <<>> /\ biStored = <<>> /\ biTable = TRUE /\ biReply = [ok |-> FALSE, rows |-> 0, failed |-> 0]

\* The other three rest in one of their initial states.
MCRtLayout == CHOOSE x \in RtLayouts : TRUE
RtAtRest == RtInit /\ ~rtBare /\ rtNodes = {"n1"} /\ rtLayout = MCRtLayout
QcAtRest == QcInit /\ qcEps = <<"n1">>
ScAtRest == ScInit /\ scDurable

Rest(s) ==
    /\ subject = s
    /\ s = "select" \/ SelAtRest
    /\ s = "join" \/ JnAtRest
    /\ s = "parser" \/ PsAtRest
    /\ s = "batch" \/ BiAtRest
    /\ s = "router" \/ RtAtRest
    /\ s = "coordinator" \/ QcAtRest
    /\ s = "catalog" \/ ScAtRest

Init ==
    \/ SelInit /\ Rest("select")
    \/ JnInit /\ Rest("join")
    \/ PsInit /\ Rest("parser")
    \/ BiInit /\ Rest("batch")
    \/ RtInit /\ Rest("router")
    \/ QcInit /\ Rest("coordinator")
    \/ ScInit /\ Rest("catalog")

Next ==
    /\ \/ subject = "select" /\ SelNext /\ UNCHANGED <<jnVars, psVars, biVars, rtVars, qcVars, scVars>>
       \/ subject = "join" /\ JnNext /\ UNCHANGED <<selVars, psVars, biVars, rtVars, qcVars, scVars>>
       \/ subject = "parser" /\ PsNext /\ UNCHANGED <<selVars, jnVars, biVars, rtVars, qcVars, scVars>>
       \/ subject = "batch" /\ BiNext /\ UNCHANGED <<selVars, jnVars, psVars, rtVars, qcVars, scVars>>
       \/ subject = "router" /\ RtNext /\ UNCHANGED <<selVars, jnVars, psVars, biVars, qcVars, scVars>>
       \/ subject = "coordinator" /\ QcNext /\ UNCHANGED <<selVars, jnVars, psVars, biVars, rtVars, scVars>>
       \/ subject = "catalog" /\ ScNextStep /\ UNCHANGED <<selVars, jnVars, psVars, biVars, rtVars, qcVars>>
    /\ UNCHANGED subject

Spec == Init /\ [][Next]_<<selVars, jnVars, psVars, biVars, rtVars, qcVars, scVars, subject>>
=============================================================================
