----------------------------- MODULE SqlParser -----------------------------
(***************************************************************************)
(* The SQL front end: Tokenizer (src/sql/tokenizer.cpp) and the recursive  *)
(* descent Parser (src/sql/parser.cpp).  The text of a statement is a      *)
(* sequence of lexemes, what the tokenizer's character loops pick out:     *)
(*   <<"word", w>>, <<"quoted", w>>, <<"num", h>>, <<"str", w>>,           *)
(*   <<"sym", t>>, <<"dash", glued>>, <<"comment">>, <<"open">>, <<"odd">> *)
(* where glued says that a digit follows the dash directly, h is twice the *)
(* number (an odd h is written with a decimal point), "open" is a string   *)
(* that is never closed and "odd" a character no token starts with.  A     *)
(* word is spelled in upper or in lower case.  The tokenizer               *)
(* turns them into tokens <<type, value>>; an operator Parse...(i) of the  *)
(* parser reads psTokens from position i and gives the position after what *)
(* it read with the syntax tree, or position 0 when the code throws; g are *)
(* the rules that it may call again.                                       *)
(*                                                                         *)
(* Trees are tagged tuples.  The second half of the module is the          *)
(* reference: the text of a tree, with the parentheses SQL's precedence    *)
(* needs and no others.                                                    *)
(***************************************************************************)
EXTENDS Integers, Sequences, SequencesExt

CONSTANTS
    PsWritten       \* the statements that are read back, each with its text

VARIABLES
    psStmt,     \* the statement meant
    psCut,      \* whether its text was cut short
    psText,     \* the text, as lexemes
    psPc,       \* "text", "tokens", "parsed"
    psTokens,   \* Parser::tokens_
    psResult    \* what parse_statement returned: position and tree

psVars == <<psStmt, psCut, psText, psPc, psTokens, psResult>>

-----------------------------------------------------------------------------
\* Tokenizer

\* std::toupper over a word: the lower-case spellings that occur in the texts.
PsUpperOf ==
    [select |-> "SELECT", from |-> "FROM", where |-> "WHERE", join |-> "JOIN", asof |-> "ASOF",
     on |-> "ON", and |-> "AND", or |-> "OR", not |-> "NOT", in |-> "IN", is |-> "IS",
     null |-> "NULL", group |-> "GROUP", by |-> "BY", order |-> "ORDER", limit |-> "LIMIT",
     offset |-> "OFFSET", between |-> "BETWEEN", having |-> "HAVING", as |-> "AS",
     distinct |-> "DISTINCT", inner |-> "INNER", left |-> "LEFT", right |-> "RIGHT",
     outer |-> "OUTER", cross |-> "CROSS", asc |-> "ASC", desc |-> "DESC", nulls |-> "NULLS",
     first |-> "FIRST", last |-> "LAST", sum |-> "SUM", avg |-> "AVG", count |-> "COUNT",
     min |-> "MIN", max |-> "MAX", vwap |-> "VWAP", stddev |-> "STDDEV", variance |-> "VARIANCE",
     median |-> "MEDIAN", percentile |-> "PERCENTILE", over |-> "OVER",
     partition |-> "PARTITION", rows |-> "ROWS", range |-> "RANGE", preceding |-> "PRECEDING",
     following |-> "FOLLOWING", unbounded |-> "UNBOUNDED", current |-> "CURRENT", row |-> "ROW",
     rank |-> "RANK", dense_rank |-> "DENSE_RANK", row_number |-> "ROW_NUMBER", lag |-> "LAG",
     lead |-> "LEAD", xbar |-> "XBAR", ema |-> "EMA", delta |-> "DELTA", ratio |-> "RATIO",
     window |-> "WINDOW", case |-> "CASE", when |-> "WHEN", then |-> "THEN", else |-> "ELSE",
     end |-> "END", date_trunc |-> "DATE_TRUNC", now |-> "NOW", epoch_s |-> "EPOCH_S",
     epoch_ms |-> "EPOCH_MS", like |-> "LIKE", substr |-> "SUBSTR", full |-> "FULL",
     plus |-> "PLUS", aj0 |-> "AJ0", explain |-> "EXPLAIN", interval |-> "INTERVAL",
     sample |-> "SAMPLE", with |-> "WITH", insert |-> "INSERT", into |-> "INTO",
     values |-> "VALUES", update |-> "UPDATE", set |-> "SET", delete |-> "DELETE",
     materialized |-> "MATERIALIZED", view |-> "VIEW", union |-> "UNION", all |-> "ALL",
     intersect |-> "INTERSECT", except |-> "EXCEPT", percentile_cont |-> "PERCENTILE_CONT",
     create |-> "CREATE", table |-> "TABLE", drop |-> "DROP", alter |-> "ALTER", show |-> "SHOW",
     tables |-> "TABLES", describe |-> "DESCRIBE", if |-> "IF", exists |-> "EXISTS",
     add |-> "ADD", column |-> "COLUMN", attribute |-> "ATTRIBUTE", sorted |-> "SORTED",
     grouped |-> "GROUPED", parted |-> "PARTED", ttl |-> "TTL", storage |-> "STORAGE",
     policy |-> "POLICY", hot |-> "HOT", warm |-> "WARM", cold |-> "COLD", hours |-> "HOURS",
     days |-> "DAYS", minutes |-> "MINUTES", placement |-> "PLACEMENT", node_id |-> "NODE_ID",
     int64 |-> "INT64", string |-> "STRING", haversine |-> "HAVERSINE",
     st_distance |-> "ST_DISTANCE", st_within |-> "ST_WITHIN", wj_avg |-> "WJ_AVG",
     wj_sum |-> "WJ_SUM", wj_count |-> "WJ_COUNT", wj_min |-> "WJ_MIN", wj_max |-> "WJ_MAX"]
PsUpper(w) == IF w \in DOMAIN PsUpperOf THEN PsUpperOf[w] ELSE w

\* keyword_type: the words that are not identifiers.
PsKeywords ==
    {"SELECT", "FROM", "WHERE", "JOIN", "ASOF", "ON", "AND", "OR", "NOT", "IN", "IS",
     "NULL", "GROUP", "BY", "ORDER", "LIMIT", "OFFSET", "BETWEEN", "HAVING", "AS",
     "DISTINCT", "INNER", "LEFT", "RIGHT", "OUTER", "CROSS", "ASC", "DESC", "NULLS", "FIRST",
     "LAST", "SUM", "AVG", "COUNT", "MIN", "MAX", "VWAP", "STDDEV", "VARIANCE", "MEDIAN",
     "PERCENTILE", "OVER", "PARTITION", "ROWS", "RANGE", "PRECEDING", "FOLLOWING",
     "UNBOUNDED", "CURRENT", "ROW", "RANK", "DENSE_RANK", "ROW_NUMBER", "LAG", "LEAD",
     "XBAR", "EMA", "DELTA", "RATIO", "WINDOW", "CASE", "WHEN", "THEN", "ELSE", "END",
     "DATE_TRUNC", "NOW", "EPOCH_S", "EPOCH_MS", "LIKE", "SUBSTR", "FULL", "PLUS", "AJ0",
     "EXPLAIN", "INTERVAL", "SAMPLE", "WITH", "INSERT", "INTO", "VALUES", "UPDATE", "SET",
     "DELETE", "MATERIALIZED", "VIEW", "UNION", "ALL", "INTERSECT", "EXCEPT"}
PsKeyword(u) ==
    CASE u = "PLUS" -> "PLUS_JOIN"
      [] u = "PERCENTILE_CONT" -> "PERCENTILE"
      [] u \in PsKeywords \ {"PLUS"} -> u
      [] OTHER -> "IDENT"

\* read_ident_or_keyword: the token keeps the spelling.
PsWord(w) == <<PsKeyword(PsUpper(w)), w>>

\* A bug: every dash before a digit starts a negative number.
NeverBinary(toks) == FALSE

\* The token before a dash that makes it the binary operator.
BinaryMinus(toks) == toks # <<>> /\ Last(toks)[1] \in {"RPAREN", "NUMBER", "IDENT"}

\* One turn of tokenize's loop.  A dash with a digit directly behind it is part of the
\* number unless the token before it ends an operand; neg carries it to the number.
PsLexeme(acc, x) ==
    CASE x[1] = "comment" -> acc
      [] x[1] = "dash" /\ x[2] /\ ~BinaryMinus(acc.toks) -> [acc EXCEPT !.neg = TRUE]
      [] x[1] = "dash" /\ (~x[2] \/ BinaryMinus(acc.toks)) ->
            [acc EXCEPT !.toks = Append(@, <<"MINUS", "-">>)]
      [] x[1] = "num" -> [acc EXCEPT !.toks = Append(@, <<"NUMBER", IF acc.neg THEN -x[2] ELSE x[2]>>),
                                     !.neg = FALSE]
      [] x[1] = "word" -> [acc EXCEPT !.toks = Append(@, PsWord(x[2]))]
      [] x[1] = "quoted" -> [acc EXCEPT !.toks = Append(@, <<"IDENT", x[2]>>)]
      [] x[1] = "str" -> [acc EXCEPT !.toks = Append(@, <<"STRING", x[2]>>)]
      [] x[1] = "sym" -> [acc EXCEPT !.toks = Append(@, <<x[2], x[2]>>)]
      [] x[1] \in {"open", "odd"} -> [acc EXCEPT !.threw = TRUE]

\* No tokens, not even the last, when the tokenizer throws.
Tokenize(text) ==
    LET scan == FoldLeft(PsLexeme, [toks |-> <<>>, neg |-> FALSE, threw |-> FALSE], text)
    IN  IF scan.threw THEN <<>> ELSE Append(scan.toks, <<"STOP", "">>)

-----------------------------------------------------------------------------
\* current, check, match, expect and the shapes the parser is written with

PsIs(i, t) == i # 0 /\ i <= Len(psTokens) /\ psTokens[i][1] = t
PsWordIs(i, w) == PsIs(i, "IDENT") /\ PsUpper(psTokens[i][2]) = w
PsIn(i, T) == \E t \in T : PsIs(i, t)
PsMatch(i, t) == IF PsIs(i, t) THEN i + 1 ELSE i

PsFail == [at |-> 0, v |-> <<>>]
PsOk(i, v) == [at |-> i, v |-> v]
PsExpect(i, t) == IF PsIs(i, t) THEN PsOk(i + 1, psTokens[i][2]) ELSE PsFail

\* Go on from a result, unless the code has thrown.
PsThen(r, F(_, _)) == IF r.at = 0 THEN PsFail ELSE F(r.v, r.at)
PsMap(r, F(_)) == IF r.at = 0 THEN PsFail ELSE PsOk(r.at, F(r.v))
\* A result followed by the token t.
PsAfter(r, t) == IF PsIs(r.at, t) THEN PsOk(r.at + 1, r.v) ELSE PsFail
PsEnclosed(i, P(_)) == IF PsIs(i, "LPAREN") THEN PsAfter(P(i + 1), "RPAREN") ELSE PsFail
PsOption(i, t, P(_)) == IF PsIs(i, t) THEN PsMap(P(i + 1), LAMBDA x : <<x>>) ELSE PsOk(i, <<>>)
PsBy(i, P(_)) == IF PsIs(i, "BY") THEN P(i + 1) ELSE PsFail

\* P (sep P)*: the values and the separators between them.
PsSeparated(i, P(_), seps) ==
    LET more[j \in 1 .. Len(psTokens) + 1] ==
          PsThen(P(j), LAMBDA x, k :
              IF ~PsIn(k, seps) THEN PsOk(k, [vals |-> <<x>>, ops |-> <<>>])
              ELSE PsMap(more[k + 1], LAMBDA r : [vals |-> <<x>> \o r.vals,
                                                  ops |-> <<psTokens[k][1]>> \o r.ops]))
    IN  more[i]
PsList(i, P(_)) == PsMap(PsSeparated(i, P, {"COMMA"}), LAMBDA r : r.vals)

\* The while loops of parse_expr, parse_and_expr and the arithmetic levels: each node
\* takes the tree so far as its left operand.
LeftAssoc(r, Node(_, _, _)) ==
    FoldLeft(LAMBDA left, k : Node(r.ops[k], left, r.vals[k + 1]), r.vals[1],
             [k \in 1 .. Len(r.ops) |-> k])

\* std::stoll stops at the decimal point.
Whole(h) == IF h >= 0 THEN h \div 2 ELSE -((-h) \div 2)
ParseInteger(i) == PsMap(PsExpect(i, "NUMBER"), Whole)

IdentLike(i) == PsIn(i, {"IDENT", "OFFSET", "FIRST", "LAST", "ASC", "DESC", "ROWS"})
ParseQualifiedName(i) ==
    CASE IdentLike(i) /\ PsIs(i + 1, "DOT") /\ (PsIs(i + 2, "STAR") \/ IdentLike(i + 2)) ->
            PsOk(i + 3, <<psTokens[i][2], psTokens[i + 2][2]>>)
      [] IdentLike(i) /\ ~PsIs(i + 1, "DOT") -> PsOk(i + 1, <<"", psTokens[i][2]>>)
      [] PsIs(i, "STAR") -> PsOk(i + 1, <<"", "STAR">>)
      [] OTHER -> PsFail

-----------------------------------------------------------------------------
\* Value expressions

\* The spatial functions, named in either case: any other name, or another number of
\* arguments, throws.
ParseFunction(i, g) ==
    LET args == IF PsIs(i + 2, "RPAREN") THEN PsOk(i + 2, <<>>) ELSE PsList(i + 2, LAMBDA z : g["arith", z])
        name == PsUpper(psTokens[i][2])
        arity == [HAVERSINE |-> 4, ST_DISTANCE |-> 4, ST_WITHIN |-> 5]
    IN  PsThen(PsAfter(args, "RPAREN"), LAMBDA as, j :
            IF name \in DOMAIN arity /\ Len(as) = arity[name]
            THEN PsOk(j, <<"func", name, "", as>>) ELSE PsFail)

\* DATE_TRUNC, NOW, EPOCH_S, EPOCH_MS, SUBSTR and INTERVAL.
ParseBuiltin(i, g) ==
    LET f == psTokens[i][1]
    IN  CASE f = "DATE_TRUNC" ->
               PsEnclosed(i + 1, LAMBDA j :
                   PsThen(PsAfter(PsExpect(j, "STRING"), "COMMA"), LAMBDA u, k :
                       PsMap(g["arith", k], LAMBDA a : <<"func", f, u, <<a>>>>)))
          [] f = "NOW" -> PsEnclosed(i + 1, LAMBDA j : PsOk(j, <<"func", f, "", <<>>>>))
          [] f \in {"EPOCH_S", "EPOCH_MS"} ->
               PsMap(PsEnclosed(i + 1, LAMBDA z : g["arith", z]), LAMBDA a : <<"func", f, "", <<a>>>>)
          [] f = "SUBSTR" ->
               PsEnclosed(i + 1, LAMBDA j :
                   PsThen(PsAfter(g["arith", j], "COMMA"), LAMBDA a, k :
                       PsMap(PsOption(k + 1, "COMMA", LAMBDA z : g["arith", z]),
                             LAMBDA n : <<"func", f, psTokens[k][2], <<a>> \o n>>)))
          [] f = "INTERVAL" -> PsMap(PsExpect(i + 1, "STRING"), LAMBDA u : <<"func", f, u, <<>>>>)
Builtins == {"DATE_TRUNC", "NOW", "EPOCH_S", "EPOCH_MS", "SUBSTR", "INTERVAL"}

ParseArithPrimary(i, g) ==
    CASE PsIs(i, "LPAREN") -> PsAfter(g["arith", i + 1], "RPAREN")
      [] PsIs(i, "NUMBER") -> PsOk(i + 1, <<"lit", psTokens[i][2]>>)
      [] PsIn(i, Builtins) -> ParseBuiltin(i, g)
      [] PsIs(i, "IDENT") /\ PsIs(i + 1, "LPAREN") -> ParseFunction(i, g)
      [] OTHER -> PsMap(ParseQualifiedName(i), LAMBDA n : <<"col", n>>)

Binary(op, l, r) == <<"bin", op, l, r>>
ParseArithTerm(i, g) ==
    PsMap(PsSeparated(i, LAMBDA z : ParseArithPrimary(z, g), {"STAR", "SLASH"}),
          LAMBDA r : LeftAssoc(r, Binary))
ParseArithExpr(i, g) ==
    PsMap(PsSeparated(i, LAMBDA z : ParseArithTerm(z, g), {"PLUS", "MINUS"}),
          LAMBDA r : LeftAssoc(r, Binary))

\* After CASE: WHEN cond THEN value ... [ELSE value] END
ParseCaseWhen(i, g) ==
    LET more[j \in 1 .. Len(psTokens) + 1] ==
          IF ~PsIs(j, "WHEN") THEN PsOk(j, <<>>)
          ELSE PsThen(PsAfter(g["expr", j + 1], "THEN"), LAMBDA c, k :
                   PsThen(g["arith", k], LAMBDA a, m :
                       PsMap(more[m], LAMBDA r : <<<<c, a>>>> \o r)))
    IN  PsThen(more[i], LAMBDA bs, j :
            PsAfter(PsMap(PsOption(j, "ELSE", LAMBDA z : g["arith", z]), LAMBDA e : <<"case", bs, e>>), "END"))

-----------------------------------------------------------------------------
\* Conditions

CompareOps == {"EQ", "NE", "GT", "LT", "GE", "LE"}
ParseCompareOp(i) == IF PsIn(i, CompareOps) THEN PsOk(i + 1, psTokens[i][1]) ELSE PsFail

PsHolds(op, a, b) ==
    CASE op = "EQ" -> a = b
      [] op = "NE" -> a # b
      [] op = "GT" -> a > b
      [] op = "GE" -> a >= b
      [] op = "LT" -> a < b
      [] op = "LE" -> a <= b

\* A comparison of two literals is decided here: <<"true">> is the null expression.
ParseConstant(i) ==
    PsThen(ParseInteger(i), LAMBDA a, j : PsThen(ParseCompareOp(j), LAMBDA op, k :
        PsMap(ParseInteger(k), LAMBDA b : IF PsHolds(op, a, b) THEN <<"true">> ELSE <<"never">>)))

ParseBetween(lhs, i) ==
    PsThen(PsAfter(ParseInteger(i), "AND"), LAMBDA lo, j :
        PsMap(ParseInteger(j), LAMBDA hi : <<"between", lhs, lo, hi>>))

\* A number, a string or an expression as the right side.
ParseOperand(i, g) ==
    CASE PsIn(i, Builtins \ {"SUBSTR"}) -> PsMap(g["arith", i], LAMBDA a : <<"expr", a>>)
      [] PsIs(i, "NUMBER") -> PsOk(i + 1, <<"num", psTokens[i][2]>>)
      [] PsIs(i, "STRING") -> PsOk(i + 1, <<"str", psTokens[i][2]>>)
      [] OTHER -> PsFail

\* haversine(...) < 50, or st_within(...) alone, which means <> 0.
ParseFunctionPredicate(i, g) ==
    PsThen(g["arith", i], LAMBDA f, j :
        CASE PsIs(j, "BETWEEN") -> ParseBetween(f, j + 1)
          [] PsIn(j, CompareOps) ->
                PsMap(IF PsIs(j + 1, "IDENT") /\ PsIs(j + 2, "LPAREN")
                      THEN PsMap(g["arith", j + 1], LAMBDA a : <<"expr", a>>)
                      ELSE ParseOperand(j + 1, g),
                      LAMBDA x : <<"cmp", f, psTokens[j][1], x>>)
          [] OTHER -> PsOk(j, <<"cmp", f, "NE", <<"num", 0>>>>))

\* IN (...): a subquery or literals.  A string that is no number counts as 0.
NumericStrings == [w \in {"7"} |-> 7]
InLiteral(i) ==
    CASE PsIs(i, "NUMBER") -> Whole(psTokens[i][2])
      [] PsIs(i, "STRING") /\ psTokens[i][2] \in DOMAIN NumericStrings -> NumericStrings[psTokens[i][2]]
      [] OTHER -> 0
ParseIn(col, i, g) ==
    LET more[j \in 1 .. Len(psTokens) + 1] ==
          CASE ~PsIs(j, "COMMA") -> PsOk(j, <<>>)
            [] PsIs(j, "COMMA") /\ PsIn(j + 1, {"NUMBER", "STRING"}) ->
                  PsMap(more[j + 2], LAMBDA r : <<InLiteral(j + 1)>> \o r)
            [] OTHER -> PsOk(j + 1, <<>>)
    IN  PsEnclosed(i, LAMBDA j :
            CASE PsIs(j, "SELECT") -> PsMap(g["select", j], LAMBDA q : <<"insub", col, q>>)
              [] PsIn(j, {"NUMBER", "STRING"}) ->
                    PsMap(more[j + 1], LAMBDA r : <<"in", col, <<InLiteral(j)>> \o r>>)
              [] OTHER -> PsMap(more[j], LAMBDA r : <<"in", col, r>>))

\* col op value: a column on the right is read as 0.
ParseComparison(col, i, g) ==
    PsThen(ParseCompareOp(i), LAMBDA op, j :
        CASE PsIs(j, "LPAREN") /\ PsIs(j + 1, "SELECT") ->
               PsMap(PsEnclosed(j, LAMBDA z : g["select", z]), LAMBDA q : <<"cmp", col, op, <<"sub", q>>>>)
          [] PsIn(j, {"IDENT", "STAR"}) -> PsOk(j + 1, <<"cmp", col, op, <<"num", 0>>>>)
          [] OTHER -> PsMap(ParseOperand(j, g), LAMBDA x : <<"cmp", col, op, x>>))

ParseColumnPredicate(col, i, g) ==
    CASE PsIs(i, "BETWEEN") -> ParseBetween(col, i + 1)
      [] PsIs(i, "IN") -> ParseIn(col, i + 1, g)
      [] PsIs(i, "IS") -> PsMap(PsExpect(PsMatch(i + 1, "NOT"), "NULL"),
                                LAMBDA n : <<"null", col, PsIs(i + 1, "NOT")>>)
      [] PsIs(i, "LIKE") -> PsMap(PsExpect(i + 1, "STRING"), LAMBDA x : <<"like", col, x, FALSE>>)
      [] PsIs(i, "NOT") /\ PsIs(i + 1, "LIKE") ->
            PsMap(PsExpect(i + 2, "STRING"), LAMBDA x : <<"like", col, x, TRUE>>)
      [] OTHER -> ParseComparison(col, i, g)

ParsePrimaryExpr(i, g) ==
    CASE PsIs(i, "NOT") -> PsMap(g["primary", i + 1], LAMBDA c : <<"not", c>>)
      [] PsIs(i, "LPAREN") -> PsAfter(g["expr", i + 1], "RPAREN")
      [] PsIs(i, "NUMBER") -> ParseConstant(i)
      [] PsIs(i, "IDENT") /\ PsIs(i + 1, "LPAREN") -> ParseFunctionPredicate(i, g)
      [] OTHER -> PsThen(ParseQualifiedName(i), LAMBDA n, j : ParseColumnPredicate(<<"col", n>>, j, g))

ParseAndExpr(i, g) ==
    PsMap(PsSeparated(i, LAMBDA z : g["primary", z], {"AND"}),
          LAMBDA r : LeftAssoc(r, LAMBDA op, x, y : <<"and", x, y>>))
ParseExpr(i, g) ==
    PsMap(PsSeparated(i, LAMBDA z : ParseAndExpr(z, g), {"OR"}),
          LAMBDA r : LeftAssoc(r, LAMBDA op, x, y : <<"or", x, y>>))

-----------------------------------------------------------------------------
\* The select list

\* SUM/AVG/MIN/...(arithmetic or CASE), COUNT(*), COUNT(DISTINCT col), VWAP(col, col),
\* XBAR(col, n), PERCENTILE(arithmetic, n).  VWAP keeps only the column of its second name.
ParseAgg(f, i, g) ==
    LET column(j) == PsMap(ParseQualifiedName(j), LAMBDA n : <<"col", n>>)
        value(j) == IF PsIs(j, "CASE") THEN ParseCaseWhen(j + 1, g) ELSE g["arith", j]
    IN  PsEnclosed(i, LAMBDA j :
            CASE f = "COUNT" /\ PsIs(j, "STAR") ->
                    PsOk(j + 1, <<"agg", f, FALSE, <<"col", <<"", "STAR">>>>, "">>)
              [] f = "COUNT" /\ PsIs(j, "DISTINCT") ->
                    PsMap(column(j + 1), LAMBDA c : <<"agg", f, TRUE, c, "">>)
              [] f = "VWAP" ->
                    PsThen(PsAfter(column(j), "COMMA"), LAMBDA c, k :
                        PsMap(ParseQualifiedName(k), LAMBDA d : <<"agg", f, FALSE, c, d[2]>>))
              [] f \in {"XBAR", "PERCENTILE"} ->
                    PsThen(PsAfter(IF f = "XBAR" THEN column(j) ELSE g["arith", j], "COMMA"),
                           LAMBDA c, k : PsMap(ParseInteger(k), LAMBDA n : <<"agg", f, FALSE, c, n>>))
              [] OTHER -> PsMap(value(j), LAMBDA c : <<"agg", f, FALSE, c, "">>))

\* <<name, ascending>>
ParseOrderItem(i) ==
    PsThen(ParseQualifiedName(i), LAMBDA n, j :
        IF PsIs(j, "DESC") THEN PsOk(j + 1, <<n, FALSE>>) ELSE PsOk(PsMatch(j, "ASC"), <<n, TRUE>>))
ParseOrderBy(i) == PsBy(i, LAMBDA j : PsList(j, ParseOrderItem))

\* A bound of a frame in rows; PsMaxInt stands for INT64_MAX.
PsMaxInt == 2147483647
ParseBound(i, dir) ==
    CASE PsIs(i, "UNBOUNDED") -> PsMap(PsExpect(i + 1, dir), LAMBDA x : PsMaxInt)
      [] PsIs(i, "CURRENT") -> PsMap(PsExpect(i + 1, "ROW"), LAMBDA x : 0)
      [] OTHER -> PsAfter(ParseInteger(i), dir)
ParseFrame(i) ==
    IF PsIs(i, "BETWEEN")
    THEN PsThen(PsAfter(ParseBound(i + 1, "PRECEDING"), "AND"), LAMBDA p, j :
             PsMap(ParseBound(j, "FOLLOWING"), LAMBDA f : <<p, f>>))
    ELSE PsMap(ParseBound(i, "PRECEDING"), LAMBDA p : <<p, 0>>)

ParseWindowSpec(i) ==
    PsThen(PsOption(i, "PARTITION", LAMBDA j : PsBy(j, LAMBDA k : PsList(k, ParseQualifiedName))),
        LAMBDA ps, a : PsThen(PsOption(a, "ORDER", ParseOrderBy),
        LAMBDA os, b : PsMap(IF PsIn(b, {"ROWS", "RANGE"}) THEN PsMap(ParseFrame(b + 1), LAMBDA f : <<f>>)
                             ELSE PsOk(b, <<>>),
        LAMBDA f : <<ps, os, f>>)))
ParseOver(i) == IF PsIs(i, "OVER") THEN PsEnclosed(i + 1, ParseWindowSpec) ELSE PsFail

\* ROW_NUMBER() OVER (...), LAG(col, offset, default) OVER (...), EMA(col, number) OVER (...)
ParseWindowFunc(f, i) ==
    LET extra(j) ==
          CASE ~PsIs(j, "COMMA") \/ f \in {"DELTA", "RATIO"} -> PsOk(j, <<>>)
            [] PsIs(j, "COMMA") /\ f = "EMA" ->
                  IF PsIs(j + 1, "NUMBER") THEN PsOk(j + 2, <<psTokens[j + 1][2]>>) ELSE PsOk(j + 1, <<>>)
            [] OTHER -> PsThen(ParseInteger(j + 1), LAMBDA n, k :
                            PsMap(PsOption(k, "COMMA", ParseInteger), LAMBDA d : <<n>> \o d))
        args(j) == IF f \in {"ROW_NUMBER", "RANK", "DENSE_RANK"} THEN PsOk(j, <<<<"col", <<"", "">>>>, <<>>>>)
                   ELSE PsThen(ParseQualifiedName(j), LAMBDA n, k :
                            PsMap(extra(k), LAMBDA e : <<<<"col", n>>, e>>))
    IN  PsThen(PsEnclosed(i, args), LAMBDA a, j :
            PsMap(ParseOver(j), LAMBDA w : <<"win", f, a[1], a[2], w>>))

Aggregates == {"SUM", "AVG", "COUNT", "MIN", "MAX", "VWAP", "STDDEV", "VARIANCE", "MEDIAN",
               "XBAR", "PERCENTILE", "FIRST", "LAST"}
WindowFuncs == {"ROW_NUMBER", "RANK", "DENSE_RANK", "LAG", "LEAD", "EMA", "DELTA", "RATIO"}
WjFuncs == {"WJ_AVG", "WJ_SUM", "WJ_COUNT", "WJ_MIN", "WJ_MAX"}
\* A name that starts with WJ_ and is none of these.
WjUnknown == {"WJ_LAST"}

ParseItem(i, g) ==
    LET t == psTokens[i][1]
    IN  CASE t \in {"FIRST", "LAST"} /\ ~PsIs(i + 1, "LPAREN") -> PsOk(i + 1, <<"expr", <<"col", <<"", t>>>>>>)
          [] t \in Aggregates /\ (t \in {"FIRST", "LAST"} => PsIs(i + 1, "LPAREN")) -> ParseAgg(t, i + 1, g)
          [] t \in WindowFuncs -> ParseWindowFunc(t, i + 1)
          [] t = "STAR" -> PsOk(i + 1, <<"star", "">>)
          [] t = "CASE" -> ParseCaseWhen(i + 1, g)
          [] t = "IDENT" /\ PsUpper(psTokens[i][2]) \in WjFuncs ->
                PsMap(PsEnclosed(i + 1, ParseQualifiedName), LAMBDA n : <<"wj", PsUpper(psTokens[i][2]), n>>)
          [] t = "IDENT" /\ PsUpper(psTokens[i][2]) \in WjUnknown -> PsFail
          [] OTHER -> PsMap(g["arith", i], LAMBDA a :
                          IF a[1] = "col" /\ a[2][2] = "STAR" THEN <<"star", a[2][1]>> ELSE <<"expr", a>>)

\* SUM, AVG, MIN or MAX with OVER is a window function.
ParseItemOver(i, g) ==
    PsThen(ParseItem(i, g), LAMBDA x, j :
        IF x[1] = "agg" /\ x[2] \in {"SUM", "AVG", "MIN", "MAX"} /\ PsIs(j, "OVER")
        THEN PsMap(ParseOver(j), LAMBDA w : <<"win", x[2], x[4], <<>>, w>>)
        ELSE PsOk(j, x))

\* <<item, alias>>: after AS every word is an alias but those that end the list.
ParseSelectExpr(i, g) ==
    PsThen(ParseItemOver(i, g), LAMBDA x, j :
        IF PsIs(j, "AS") /\ ~PsIn(j + 1, {"COMMA", "FROM", "WHERE", "GROUP", "ORDER", "LIMIT", "STOP"})
        THEN PsOk(j + 2, <<x, psTokens[j + 1][2]>>)
        ELSE PsOk(PsMatch(j, "AS"), <<x, "">>))

-----------------------------------------------------------------------------
\* JOIN

\* [+|- n] behind a bound of a window join.
ParseOffset(i) ==
    IF PsIn(i, {"PLUS", "MINUS"}) THEN PsMap(ParseInteger(i + 1), LAMBDA n : <<psTokens[i][1], n>>)
    ELSE PsOk(i, <<"", 0>>)

\* col BETWEEN t.col - n AND t.col + n: the other signs count as 0.
ParseJoinWindow(col, i) ==
    PsThen(ParseQualifiedName(i), LAMBDA t, a :
        PsThen(PsAfter(ParseOffset(a), "AND"), LAMBDA lo, b :
            PsThen(ParseQualifiedName(b), LAMBDA t2, c :
                PsMap(ParseOffset(c), LAMBDA hi :
                    <<"window", col[2], t[2], IF lo[1] = "MINUS" THEN lo[2] ELSE 0,
                      IF hi[1] = "MINUS" THEN 0 ELSE hi[2]>>))))

ParseJoinCond(i) ==
    PsThen(ParseQualifiedName(i), LAMBDA l, j :
        IF PsIs(j, "BETWEEN") THEN ParseJoinWindow(l, j + 1)
        ELSE PsThen(ParseCompareOp(j), LAMBDA op, k :
                 PsMap(ParseQualifiedName(k), LAMBDA r : <<"on", l, op, r>>)))

JoinWords == {"ASOF", "AJ0", "JOIN", "INNER", "LEFT", "RIGHT", "FULL", "PLUS_JOIN", "WINDOW"}
StartsJoin(i) == PsIn(i, JoinWords) \/ (PsIs(i, "UNION") /\ PsIs(i + 1, "JOIN"))

\* [table, alias] with optional AS: an alias is an identifier, but for those that not lists.
ParseTable(i, not) ==
    PsThen(PsExpect(i, "IDENT"), LAMBDA t, j :
        LET k == PsMatch(j, "AS")
        IN  IF PsIs(k, "IDENT") /\ psTokens[k][2] \notin not THEN PsOk(k + 1, <<t, psTokens[k][2]>>)
            ELSE PsOk(k, <<t, "">>))

\* The last value given under a name, if any.
LastGiven(name, xs) ==
    LET given == SelectSeq(xs, LAMBDA x : x[1] = name)
    IN  IF given = <<>> THEN <<>> ELSE <<Tail(Last(given))>>

\* <<type, table, conditions, window>>: a second window overwrites the first.
ParseJoin(i) ==
    LET t == psTokens[i][1]
        type == IF t = "JOIN" THEN "INNER" ELSE t
        j == CASE t = "JOIN" -> i
               [] t \in {"LEFT", "RIGHT", "FULL"} -> PsMatch(i + 1, "OUTER")
               [] OTHER -> i + 1
    IN  IF ~PsIs(j, "JOIN") THEN PsFail
        ELSE PsThen(ParseTable(j + 1, {}), LAMBDA tab, k :
                 CASE PsIs(k, "ON") ->
                        PsMap(PsSeparated(k + 1, ParseJoinCond, {"AND"}), LAMBDA r :
                            <<type, tab, SelectSeq(r.vals, LAMBDA c : c[1] = "on"), LastGiven("window", r.vals)>>)
                   [] ~PsIs(k, "ON") /\ t = "UNION" -> PsOk(k, <<type, tab, <<>>, <<>>>>)
                   [] OTHER -> PsFail)

-----------------------------------------------------------------------------
\* SELECT

\* Identifiers that are no alias behind FROM: they had to be quoted to be identifiers.
NoAlias == {"WHERE", "JOIN", "GROUP", "ORDER", "LIMIT", "SAMPLE"}
ParseFrom(i, g) ==
    IF PsIs(i, "LPAREN")
    THEN PsThen(PsEnclosed(i, LAMBDA z : g["select", z]), LAMBDA q, j :
             PsMap(PsExpect(PsMatch(j, "AS"), "IDENT"), LAMBDA a : <<"sub", q, a>>))
    ELSE PsMap(ParseTable(i, NoAlias), LAMBDA t : <<"table", t[1], t[2]>>)

ParseSample(i) == PsThen(PsExpect(i, "NUMBER"), LAMBDA h, j : IF h \in 1 .. 2 THEN PsOk(j, h) ELSE PsFail)

\* XBAR(col, n), DATE_TRUNC('unit', col) or a column; an unknown unit is a bucket of 1.
TruncUnits == {"us", "ms", "s", "min", "hour", "day", "week"}
ParseGroupItem(i) ==
    CASE PsIs(i, "XBAR") ->
            PsEnclosed(i + 1, LAMBDA j : PsThen(PsAfter(ParseQualifiedName(j), "COMMA"), LAMBDA n, k :
                PsMap(ParseInteger(k), LAMBDA b : <<"xbar", n, b>>)))
      [] PsIs(i, "DATE_TRUNC") ->
            PsEnclosed(i + 1, LAMBDA j : PsThen(PsAfter(PsExpect(j, "STRING"), "COMMA"), LAMBDA u, k :
                PsMap(ParseQualifiedName(k), LAMBDA n : <<"trunc", n, IF u \in TruncUnits THEN u ELSE "1">>)))
      [] OTHER -> PsMap(ParseQualifiedName(i), LAMBDA n : <<"column", n>>)
ParseGroupBy(i) == PsBy(i, LAMBDA j : PsList(j, ParseGroupItem))

ParseSelect(i, g) ==
    LET first == PsMatch(i + 1, "DISTINCT")
        cols == IF PsIs(first, "STAR") THEN PsOk(first + 1, <<<<<<"star", "">>, "">>>>)
                ELSE PsList(first, LAMBDA z : ParseSelectExpr(z, g))
    IN  IF ~PsIs(i, "SELECT") THEN PsFail
        ELSE PsThen(PsAfter(cols, "FROM"), LAMBDA cs, a :
             PsThen(ParseFrom(a, g), LAMBDA f, b :
             PsThen(PsOption(b, "SAMPLE", ParseSample), LAMBDA sm, c :
             PsThen(IF StartsJoin(c) THEN PsMap(ParseJoin(c), LAMBDA x : <<x>>) ELSE PsOk(c, <<>>), LAMBDA jn, d :
             PsThen(PsOption(d, "WHERE", LAMBDA z : g["expr", z]), LAMBDA w, e :
             PsThen(PsOption(e, "GROUP", ParseGroupBy), LAMBDA gr, h :
             PsThen(PsOption(h, "HAVING", LAMBDA z : g["expr", z]), LAMBDA hv, k :
             PsThen(PsOption(k, "ORDER", ParseOrderBy), LAMBDA o, l :
             PsThen(PsOption(l, "LIMIT", ParseInteger), LAMBDA lim, m :
             PsMap(PsOption(m, "OFFSET", ParseInteger), LAMBDA off :
                 <<PsIs(i + 1, "DISTINCT"), cs, f, sm, jn, w, gr, hv, o, lim, off>>))))))))))

-----------------------------------------------------------------------------
\* The other statements

\* WITH name AS (SELECT ...), ...
ParseCte(i, g) ==
    PsThen(PsAfter(PsExpect(i, "IDENT"), "AS"), LAMBDA n, j :
        PsMap(PsEnclosed(j, LAMBDA z : g["select", z]), LAMBDA q : <<n, q>>))

\* UNION [ALL], INTERSECT, EXCEPT: each turn of the loop overwrites set_op and rhs.
ParseSetOps(i, g) ==
    LET more[j \in 1 .. Len(psTokens) + 1] ==
          IF ~PsIn(j, {"UNION", "INTERSECT", "EXCEPT"}) THEN PsOk(j, <<>>)
          ELSE LET all == PsIs(j, "UNION") /\ PsIs(j + 1, "ALL")
               IN  PsThen(g["select", IF all THEN j + 2 ELSE j + 1], LAMBDA q, k :
                       PsMap(more[k], LAMBDA r :
                           IF r # <<>> THEN r
                           ELSE <<IF all THEN "UNION ALL" ELSE psTokens[j][1], q>>))
    IN  more[i]

ParseQuery(i, g) ==
    LET j == PsMatch(i, "EXPLAIN")
    IN  PsThen(PsOption(j, "WITH", LAMBDA k : PsList(k, LAMBDA z : ParseCte(z, g))), LAMBDA ctes, k :
            PsThen(g["select", k], LAMBDA q, m :
                PsMap(ParseSetOps(m, g), LAMBDA r : <<"query", PsIs(i, "EXPLAIN"), ctes, q, r>>)))

ParseColumnDef(i) ==
    PsThen(PsExpect(i, "IDENT"), LAMBDA c, j : PsMap(PsExpect(j, "IDENT"), LAMBDA t : <<c, PsUpper(t)>>))

ParseTableOption(i) ==
    PsThen(PsAfter(PsExpect(i, "IDENT"), "EQ"), LAMBDA key, j :
        CASE PsUpper(key) \in {"PLACEMENT", "PLACEMENT_POLICY"} /\ PsIn(j, {"STRING", "IDENT"}) ->
               PsOk(j + 1, <<"policy", psTokens[j][2]>>)
          [] PsUpper(key) \in {"NODE_ID", "PLACEMENT_NODE_ID"} ->
               PsThen(ParseInteger(j), LAMBDA n, k : IF n > 0 THEN PsOk(k, <<"node", n>>) ELSE PsFail)
          [] OTHER -> PsFail)

\* Of an option given twice the last value counts.
ParseCreateTable(i) ==
    LET exists == PsWordIs(i, "IF") /\ PsIs(i + 1, "NOT") /\ PsWordIs(i + 2, "EXISTS")
    IN  IF PsWordIs(i, "IF") /\ ~exists THEN PsFail
        ELSE PsThen(PsExpect(IF exists THEN i + 3 ELSE i, "IDENT"), LAMBDA t, j :
             PsThen(PsEnclosed(j, LAMBDA k : PsList(k, ParseColumnDef)), LAMBDA cs, k :
             PsMap(PsOption(k, "WITH", LAMBDA m : PsEnclosed(m, LAMBDA n : PsList(n, ParseTableOption))),
                   LAMBDA o : LET os == IF o = <<>> THEN <<>> ELSE o[1]
                              IN  <<"create", exists, t, cs, LastGiven("policy", os), LastGiven("node", os)>>)))

ParseDropTable(i) ==
    LET exists == PsWordIs(i, "IF") /\ PsWordIs(i + 1, "EXISTS")
    IN  IF PsWordIs(i, "IF") /\ ~exists THEN PsFail
        ELSE PsMap(PsExpect(IF exists THEN i + 2 ELSE i, "IDENT"), LAMBDA t : <<"drop", exists, t>>)

\* n [HOURS | DAYS | MINUTES], in minutes
ParseDuration(i) ==
    LET minutes == [HOURS |-> 60, DAYS |-> 1440, MINUTES |-> 1]
        unit(j) == IF PsIs(j, "IDENT") THEN PsUpper(psTokens[j][2]) ELSE "HOURS"
    IN  PsThen(ParseInteger(i), LAMBDA n, j :
            IF unit(j) \in DOMAIN minutes THEN PsOk(PsMatch(j, "IDENT"), n * minutes[unit(j)]) ELSE PsFail)
\* HOT n unit WARM n unit ...: HOT is read and forgotten, an unknown tier ends the list.
ParseTiers(i) ==
    LET more[j \in 1 .. Len(psTokens) + 1] ==
          CASE ~PsIs(j, "IDENT") -> PsOk(j, <<>>)
            [] \E w \in {"HOT", "WARM", "COLD", "DROP"} : PsWordIs(j, w) ->
                  PsThen(ParseDuration(j + 1), LAMBDA n, k :
                      PsMap(more[k], LAMBDA r : <<<<PsUpper(psTokens[j][2]), n>>>> \o r))
            [] OTHER -> PsOk(j + 1, <<>>)
    IN  PsMap(more[i], LAMBDA r :
            <<"tiers", LastGiven("WARM", r), LastGiven("COLD", r), LastGiven("DROP", r)>>)

ParseAlterSet(i) ==
    CASE PsWordIs(i, "ATTRIBUTE") ->
            PsThen(PsExpect(i + 1, "IDENT"), LAMBDA c, j :
                IF \E a \in {"SORTED", "GROUPED", "PARTED"} : PsWordIs(j, a)
                THEN PsOk(j + 1, <<"attribute", c, PsUpper(psTokens[j][2])>>) ELSE PsFail)
      [] PsWordIs(i, "TTL") ->
            PsThen(ParseInteger(i + 1), LAMBDA n, j :
                IF PsIs(j, "IDENT") THEN PsOk(j + 1, <<"ttl", n, PsUpper(psTokens[j][2])>>)
                ELSE PsOk(j, <<"ttl", n, "DAYS">>))
      [] PsWordIs(i, "STORAGE") /\ PsWordIs(i + 1, "POLICY") -> ParseTiers(i + 2)
      [] OTHER -> PsFail

ParseAlterTable(i) ==
    PsThen(PsExpect(i, "IDENT"), LAMBDA t, j :
        LET k == IF PsWordIs(j + 1, "COLUMN") THEN j + 2 ELSE j + 1
        IN  CASE PsWordIs(j, "ADD") -> PsMap(ParseColumnDef(k), LAMBDA c : <<"alter", t, <<"add", c>>>>)
              [] PsWordIs(j, "DROP") -> PsMap(PsExpect(k, "IDENT"), LAMBDA c : <<"alter", t, <<"remove", c>>>>)
              [] PsIs(j, "SET") \/ PsWordIs(j, "SET") -> PsMap(ParseAlterSet(j + 1), LAMBDA x : <<"alter", t, x>>)
              [] OTHER -> PsFail)

\* CREATE, DROP and ALTER, of tables and materialized views.
DispatchDdl(i, g) ==
    LET view == PsIs(i + 1, "MATERIALIZED") /\ PsIs(i + 2, "VIEW")
    IN  CASE PsWordIs(i, "CREATE") /\ view ->
               PsThen(PsExpect(i + 3, "IDENT"), LAMBDA n, j :
                   IF PsIs(j, "AS") \/ PsWordIs(j, "AS")
                   THEN PsMap(g["select", j + 1], LAMBDA q : <<"createview", n, q>>) ELSE PsFail)
          [] PsWordIs(i, "DROP") /\ view -> PsMap(PsExpect(i + 3, "IDENT"), LAMBDA n : <<"dropview", n>>)
          [] PsWordIs(i, "CREATE") /\ PsWordIs(i + 1, "TABLE") -> ParseCreateTable(i + 2)
          [] PsWordIs(i, "DROP") /\ PsWordIs(i + 1, "TABLE") -> ParseDropTable(i + 2)
          [] PsWordIs(i, "ALTER") /\ PsWordIs(i + 1, "TABLE") -> ParseAlterTable(i + 2)
          [] OTHER -> PsFail

\* [-] number as VALUES and SET take it: MINUS and NUMBER may be two tokens.
ParseSigned(i) == IF PsIs(i, "MINUS") THEN PsMap(PsExpect(i + 1, "NUMBER"), LAMBDA h : -h)
                  ELSE PsExpect(i, "NUMBER")
ParseInsertValue(i) ==
    IF PsIs(i, "STRING") THEN PsOk(i + 1, <<"str", psTokens[i][2]>>)
    ELSE PsMap(ParseSigned(i), LAMBDA h : <<"num", h>>)

\* A parenthesis behind the table opens a column list unless a number follows.
ParseInsert(i) ==
    LET columns(j) == IF PsIs(j, "LPAREN") /\ ~PsIn(j + 1, {"NUMBER", "MINUS"})
                      THEN PsEnclosed(j, LAMBDA k : PsList(k, LAMBDA m : PsExpect(m, "IDENT")))
                      ELSE PsOk(j, <<>>)
        row(j) == PsEnclosed(j, LAMBDA k : PsList(k, ParseInsertValue))
    IN  IF ~PsIs(i + 1, "INTO") THEN PsFail
        ELSE PsThen(PsExpect(i + 2, "IDENT"), LAMBDA t, j :
             PsThen(PsAfter(columns(j), "VALUES"), LAMBDA cs, k :
                 PsMap(PsList(k, row), LAMBDA rs : <<"insert", t, cs, rs>>)))

ParseAssign(i) ==
    PsThen(PsAfter(PsExpect(i, "IDENT"), "EQ"), LAMBDA c, j :
        PsMap(ParseSigned(j), LAMBDA h : <<c, Whole(h)>>))
ParseUpdate(i, g) ==
    PsThen(PsAfter(PsExpect(i + 1, "IDENT"), "SET"), LAMBDA t, j :
        PsThen(PsList(j, ParseAssign), LAMBDA as, k :
            PsMap(PsOption(k, "WHERE", LAMBDA z : g["expr", z]), LAMBDA w : <<"update", t, as, w>>)))
ParseDelete(i, g) ==
    IF ~PsIs(i + 1, "FROM") THEN PsFail
    ELSE PsThen(PsExpect(i + 2, "IDENT"), LAMBDA t, j :
             PsMap(PsOption(j, "WHERE", LAMBDA z : g["expr", z]), LAMBDA w : <<"delete", t, w>>))

\* The rules that call each other.
ParseRule ==
    LET g[rule \in {"expr", "primary", "arith", "select"}, i \in 0 .. Len(psTokens) + 1] ==
          CASE rule = "expr" -> ParseExpr(i, g)
            [] rule = "primary" -> ParsePrimaryExpr(i, g)
            [] rule = "arith" -> ParseArithExpr(i, g)
            [] rule = "select" -> ParseSelect(i, g)
    IN  g

ParseStatement(g) ==
    CASE PsWordIs(1, "CREATE") \/ PsWordIs(1, "DROP") \/ PsWordIs(1, "ALTER") -> DispatchDdl(1, g)
      [] PsWordIs(1, "SHOW") -> PsOk(IF PsWordIs(2, "TABLES") THEN 3 ELSE 2, <<"show">>)
      [] PsWordIs(1, "DESCRIBE") \/ PsWordIs(1, "DESC") ->
            IF PsIs(2, "STOP") THEN PsOk(2, <<"describe", "">>) ELSE PsOk(3, <<"describe", psTokens[2][2]>>)
      [] PsIs(1, "INSERT") -> ParseInsert(1)
      [] PsIs(1, "UPDATE") -> ParseUpdate(1, g)
      [] PsIs(1, "DELETE") -> ParseDelete(1, g)
      [] OTHER -> ParseQuery(1, g)

-----------------------------------------------------------------------------
\* The reference: the text of a statement, in one of two styles.  "short" leaves out the
\* words that may be left out and spells the words of SQL in lower case; "long" quotes the
\* names and starts with a comment.

Sym(t) == <<<<"sym", t>>>>
Word(w) == <<<<"sql", w>>>>
Name(w) == <<<<"name", w>>>>
PsLowerOf == [u \in {PsUpperOf[w] : w \in DOMAIN PsUpperOf} |-> CHOOSE w \in DOMAIN PsUpperOf : PsUpperOf[w] = u]
Spelled(st, x) ==
    CASE x[1] = "sql" -> <<"word", IF st = "short" THEN PsLowerOf[x[2]] ELSE x[2]>>
      [] x[1] = "name" -> <<IF st = "short" THEN "word" ELSE "quoted", x[2]>>
      [] OTHER -> x
StrText(w) == <<<<"str", w>>>>
NumText(h) == IF h >= 0 THEN <<<<"num", h>>>> ELSE <<<<"dash", TRUE>>, <<"num", -h>>>>
IntText(n) == NumText(2 * n)
Joined(texts, sep) == FoldLeft(LAMBDA a, b : IF a = <<>> THEN b ELSE a \o sep \o b, <<>>, texts)
EachText(xs, T(_)) == [k \in 1 .. Len(xs) |-> T(xs[k])]
CommaText(xs, T(_)) == Joined(EachText(xs, T), Sym("COMMA"))
InParens(x) == Sym("LPAREN") \o x \o Sym("RPAREN")
ParensIf(b, x) == IF b THEN InParens(x) ELSE x
OptionText(x, w, T(_)) == IF x = <<>> THEN <<>> ELSE w \o T(x[1])
\* A word the grammar lets one leave out.
MayWord(st, w) == IF st = "long" THEN Word(w) ELSE <<>>

NameText(n) ==
    LET last == IF n[2] = "STAR" THEN Sym("STAR") ELSE Name(n[2])
    IN  IF n[1] = "" THEN last ELSE Name(n[1]) \o Sym("DOT") \o last

\* Binding strength: * and / over + and -, and every operator to the left.
Additive(a) == a[1] = "bin" /\ a[2] \in {"PLUS", "MINUS"}
RECURSIVE ArithText(_, _), CondText(_, _), SelectText(_, _)
ArithText(st, a) ==
    CASE a[1] = "col" -> NameText(a[2])
      [] a[1] = "lit" -> NumText(a[2])
      [] a[1] = "bin" ->
            LET left == ParensIf(~Additive(a) /\ Additive(a[3]), ArithText(st, a[3]))
                right == ParensIf(IF Additive(a) THEN Additive(a[4]) ELSE a[4][1] = "bin",
                                  ArithText(st, a[4]))
                op == IF a[2] = "MINUS" THEN <<<<"dash", st = "short" /\ right[1][1] = "num">>>>
                      ELSE Sym(a[2])
            IN  left \o op \o right
      [] a[1] = "func" ->
            LET args == EachText(a[4], LAMBDA x : ArithText(st, x))
                unit == CASE a[2] \in {"DATE_TRUNC", "INTERVAL"} -> <<StrText(a[3])>>
                          [] a[2] = "SUBSTR" -> <<NumText(a[3])>>
                          [] OTHER -> <<>>
                parts == IF a[2] = "SUBSTR" THEN <<args[1]>> \o unit \o Tail(args) ELSE unit \o args
            IN  Word(a[2]) \o (IF a[2] = "INTERVAL" THEN unit[1] ELSE InParens(Joined(parts, Sym("COMMA"))))

CaseText(st, c) ==
    Word("CASE")
    \o Joined(EachText(c[2], LAMBDA b : Word("WHEN") \o CondText(st, b[1]) \o Word("THEN") \o ArithText(st, b[2])),
              <<>>)
    \o OptionText(c[3], Word("ELSE"), LAMBDA a : ArithText(st, a)) \o Word("END")

\* NOT binds closer than AND, AND closer than OR.
CondText(st, c) ==
    LET operand(x) ==
          CASE x[1] = "num" -> NumText(x[2])
            [] x[1] = "str" -> StrText(x[2])
            [] x[1] = "expr" -> ArithText(st, x[2])
            [] x[1] = "sub" -> InParens(SelectText(st, x[2]))
        lhs == IF c[1] \in {"true", "never", "not", "and", "or"} THEN <<>> ELSE ArithText(st, c[2])
    IN  CASE c[1] = "true" -> IntText(1) \o Sym("EQ") \o IntText(1)
          [] c[1] = "never" -> IntText(1) \o Sym("EQ") \o IntText(-1)
          [] c[1] = "not" -> Word("NOT") \o ParensIf(c[2][1] \in {"and", "or"}, CondText(st, c[2]))
          [] c[1] = "and" -> ParensIf(c[2][1] = "or", CondText(st, c[2])) \o Word("AND")
                             \o ParensIf(c[3][1] \in {"and", "or"}, CondText(st, c[3]))
          [] c[1] = "or" -> CondText(st, c[2]) \o Word("OR") \o ParensIf(c[3][1] = "or", CondText(st, c[3]))
          [] c[1] = "between" -> lhs \o Word("BETWEEN") \o IntText(c[3]) \o Word("AND") \o IntText(c[4])
          [] c[1] = "in" -> lhs \o Word("IN") \o InParens(CommaText(c[3], LAMBDA n :
                                 IF st = "long" /\ n = 7 THEN StrText("7") ELSE IntText(n)))
          [] c[1] = "insub" -> lhs \o Word("IN") \o InParens(SelectText(st, c[3]))
          [] c[1] = "null" -> lhs \o Word("IS") \o (IF c[3] THEN Word("NOT") ELSE <<>>) \o Word("NULL")
          [] c[1] = "like" -> lhs \o (IF c[4] THEN Word("NOT") ELSE <<>>) \o Word("LIKE") \o StrText(c[3])
          [] c[1] = "cmp" -> IF st = "short" /\ c[2][1] = "func" /\ c[3] = "NE" /\ c[4] = <<"num", 0>> THEN lhs
                             ELSE lhs \o Sym(c[3]) \o operand(c[4])

OrderText(st, o) ==
    Word("ORDER") \o Word("BY")
    \o CommaText(o, LAMBDA x : NameText(x[1]) \o (IF x[2] THEN MayWord(st, "ASC") ELSE Word("DESC")))
BoundText(n, dir) == CASE n = PsMaxInt -> Word("UNBOUNDED") \o Word(dir)
                       [] n = 0 -> Word("CURRENT") \o Word("ROW")
                       [] OTHER -> IntText(n) \o Word(dir)
OverText(st, w) ==
    Word("OVER") \o InParens(
        OptionText(w[1], Word("PARTITION") \o Word("BY"), LAMBDA ns : CommaText(ns, NameText))
        \o OptionText(w[2], <<>>, LAMBDA o : OrderText(st, o))
        \o OptionText(w[3], Word("ROWS"), LAMBDA f :
               IF f[2] = 0 /\ st = "short" THEN BoundText(f[1], "PRECEDING")
               ELSE Word("BETWEEN") \o BoundText(f[1], "PRECEDING") \o Word("AND") \o BoundText(f[2], "FOLLOWING")))

ItemText(st, x) ==
    LET value(a) == IF a[1] = "case" THEN CaseText(st, a) ELSE ArithText(st, a)
    IN  CASE x[1] = "star" -> NameText(<<x[2], "STAR">>)
          [] x[1] = "expr" -> ArithText(st, x[2])
          [] x[1] = "case" -> CaseText(st, x)
          [] x[1] = "wj" -> Word(x[2]) \o InParens(NameText(x[3]))
          [] x[1] = "agg" ->
               Word(x[2]) \o InParens((IF x[3] THEN Word("DISTINCT") ELSE <<>>) \o value(x[4])
                   \o CASE x[2] = "VWAP" -> Sym("COMMA") \o Name(x[5])
                        [] x[2] \in {"XBAR", "PERCENTILE"} -> Sym("COMMA") \o IntText(x[5])
                        [] OTHER -> <<>>)
          [] x[1] = "win" ->
               Word(x[2])
               \o InParens(IF x[2] \in {"ROW_NUMBER", "RANK", "DENSE_RANK"} THEN <<>>
                           ELSE Joined(<<value(x[3])>> \o EachText(x[4], LAMBDA n :
                                           IF x[2] = "EMA" THEN NumText(n) ELSE IntText(n)), Sym("COMMA")))
               \o OverText(st, x[5])

TableText(st, t) == Name(t[1]) \o (IF t[2] = "" THEN <<>> ELSE MayWord(st, "AS") \o Name(t[2]))
JoinText(st, j) ==
    LET on(c) == NameText(c[2]) \o Sym(c[3]) \o NameText(c[4])
        window(w) == Name(w[1]) \o Word("BETWEEN") \o Name(w[2]) \o <<<<"dash", st = "short">>>> \o IntText(w[3])
                     \o Word("AND") \o Name(w[2]) \o Sym("PLUS") \o IntText(w[4])
        conds == EachText(j[3], on) \o EachText(j[4], window)
        kind == CASE j[1] = "INNER" -> MayWord(st, "INNER")
                  [] j[1] \in {"LEFT", "RIGHT", "FULL"} -> Word(j[1]) \o MayWord(st, "OUTER")
                  [] j[1] = "PLUS_JOIN" -> Word("PLUS")
                  [] OTHER -> Word(j[1])
    IN  kind \o Word("JOIN") \o TableText(st, j[2])
        \o (IF conds = <<>> THEN <<>> ELSE Word("ON") \o Joined(conds, Word("AND")))
GroupText(g) ==
    CASE g[1] = "xbar" -> Word("XBAR") \o InParens(NameText(g[2]) \o Sym("COMMA") \o IntText(g[3]))
      [] g[1] = "trunc" -> Word("DATE_TRUNC") \o InParens(StrText(g[3]) \o Sym("COMMA") \o NameText(g[2]))
      [] g[1] = "column" -> NameText(g[2])

SelectText(st, q) ==
    Word("SELECT") \o (IF q[1] THEN Word("DISTINCT") ELSE <<>>)
    \o CommaText(q[2], LAMBDA x : ItemText(st, x[1]) \o (IF x[2] = "" THEN <<>> ELSE Word("AS") \o Name(x[2])))
    \o Word("FROM")
    \o (IF q[3][1] = "sub" THEN InParens(SelectText(st, q[3][2])) \o MayWord(st, "AS") \o Name(q[3][3])
        ELSE TableText(st, Tail(q[3])))
    \o OptionText(q[4], Word("SAMPLE"), NumText)
    \o OptionText(q[5], <<>>, LAMBDA j : JoinText(st, j))
    \o OptionText(q[6], Word("WHERE"), LAMBDA c : CondText(st, c))
    \o OptionText(q[7], Word("GROUP") \o Word("BY"), LAMBDA g : CommaText(g, GroupText))
    \o OptionText(q[8], Word("HAVING"), LAMBDA c : CondText(st, c))
    \o OptionText(q[9], <<>>, LAMBDA o : OrderText(st, o))
    \o OptionText(q[10], Word("LIMIT"), IntText)
    \o OptionText(q[11], Word("OFFSET"), IntText)

\* HOURS may be left out where no word follows.
DurationText(st, m, last) ==
    CASE m % 1440 = 0 /\ st = "long" -> IntText(m \div 1440) \o Word("DAYS")
      [] m % 60 = 0 /\ st = "short" -> IntText(m \div 60) \o (IF last THEN <<>> ELSE Word("HOURS"))
      [] OTHER -> IntText(m) \o Word("MINUTES")
AlterText(st, x) ==
    CASE x[1] = "add" -> Word("ADD") \o MayWord(st, "COLUMN") \o Name(x[2][1]) \o Word(x[2][2])
      [] x[1] = "remove" -> Word("DROP") \o MayWord(st, "COLUMN") \o Name(x[2])
      [] x[1] = "attribute" -> Word("SET") \o Word("ATTRIBUTE") \o Name(x[2]) \o Word(x[3])
      [] x[1] = "ttl" -> Word("SET") \o Word("TTL") \o IntText(x[2])
                         \o (IF x[3] = "DAYS" THEN MayWord(st, "DAYS") ELSE Word(x[3]))
      [] x[1] = "tiers" -> Word("SET") \o Word("STORAGE") \o Word("POLICY")
                           \o (IF st = "long" THEN Word("HOT") \o IntText(1) \o Word("HOURS") ELSE <<>>)
                           \o OptionText(x[2], Word("WARM"), LAMBDA m : DurationText(st, m[1], x[3] \o x[4] = <<>>))
                           \o OptionText(x[3], Word("COLD"), LAMBDA m : DurationText(st, m[1], x[4] = <<>>))
                           \o OptionText(x[4], Word("DROP"), LAMBDA m : DurationText(st, m[1], TRUE))

\* "UNION ALL" is two words.
SetOpText(op) == IF op = "UNION ALL" THEN Word("UNION") \o Word("ALL") ELSE Word(op)
StatementText(st, x) ==
    LET where(w) == OptionText(w, Word("WHERE"), LAMBDA c : CondText(st, c))
        value(v) == IF v[1] = "str" THEN StrText(v[2]) ELSE NumText(v[2])
    IN  CASE x[1] = "query" ->
               (IF x[2] THEN Word("EXPLAIN") ELSE <<>>)
               \o OptionText(x[3], Word("WITH"), LAMBDA cs : CommaText(cs, LAMBDA c :
                      Name(c[1]) \o Word("AS") \o InParens(SelectText(st, c[2]))))
               \o SelectText(st, x[4])
               \o (IF x[5] = <<>> THEN <<>> ELSE SetOpText(x[5][1]) \o SelectText(st, x[5][2]))
          [] x[1] = "create" ->
               Word("CREATE") \o Word("TABLE")
               \o (IF x[2] THEN Word("IF") \o Word("NOT") \o Word("EXISTS") ELSE <<>>) \o Name(x[3])
               \o InParens(CommaText(x[4], LAMBDA c : Name(c[1]) \o Word(c[2])))
               \o (IF x[5] \o x[6] = <<>> THEN <<>>
                   ELSE Word("WITH") \o InParens(Joined(
                            EachText(x[6], LAMBDA n : Word("NODE_ID") \o Sym("EQ") \o IntText(n[1] + 1)) \o
                            EachText(x[5], LAMBDA p : Word("PLACEMENT") \o Sym("EQ") \o StrText(p[1])) \o
                            EachText(x[6], LAMBDA n : Word("NODE_ID") \o Sym("EQ") \o IntText(n[1])), Sym("COMMA"))))
          [] x[1] = "drop" -> Word("DROP") \o Word("TABLE")
               \o (IF x[2] THEN Word("IF") \o Word("EXISTS") ELSE <<>>) \o Name(x[3])
          [] x[1] = "alter" -> Word("ALTER") \o Word("TABLE") \o Name(x[2]) \o AlterText(st, x[3])
          [] x[1] = "createview" -> Word("CREATE") \o Word("MATERIALIZED") \o Word("VIEW") \o Name(x[2])
               \o Word("AS") \o SelectText(st, x[3])
          [] x[1] = "dropview" -> Word("DROP") \o Word("MATERIALIZED") \o Word("VIEW") \o Name(x[2])
          [] x[1] = "show" -> Word("SHOW") \o MayWord(st, "TABLES")
          [] x[1] = "describe" -> Word("DESCRIBE") \o Name(x[2])
          [] x[1] = "insert" -> Word("INSERT") \o Word("INTO") \o Name(x[2])
               \o (IF x[3] = <<>> THEN <<>> ELSE InParens(CommaText(x[3], Name)))
               \o Word("VALUES") \o CommaText(x[4], LAMBDA r : InParens(CommaText(r, value)))
          [] x[1] = "update" -> Word("UPDATE") \o Name(x[2]) \o Word("SET")
               \o CommaText(x[3], LAMBDA a : Name(a[1]) \o Sym("EQ") \o IntText(a[2])) \o where(x[4])
          [] x[1] = "delete" -> Word("DELETE") \o Word("FROM") \o Name(x[2]) \o where(x[3])

\* A statement with its texts.
SpelledText(st, text) == EachText(text, LAMBDA x : Spelled(st, x))
PsTextOf(st, x) == (IF st = "short" THEN <<>> ELSE <<<<"comment">>>>) \o SpelledText(st, StatementText(st, x))
Written(x) == {[stmt |-> x, text |-> PsTextOf(st, x)] : st \in {"short", "long"}}

ASSUME PsConstants == \A w \in PsWritten : w \in Written(w.stmt)

-----------------------------------------------------------------------------
\* A statement, or a part of it cut off behind some lexeme or inside a string, is handed to
\* parse_statement; or a statement whose last lexeme is replaced by a stray character.
PsInit ==
    /\ psPc = "text" /\ psTokens = <<>> /\ psResult = PsFail
    /\ \E w \in PsWritten : \E n \in 1 .. Len(w.text) :
          LET before == SubSeq(w.text, 1, n - 1)
          IN  /\ psStmt = w.stmt
              /\ \/ /\ w.text[n][1] # "dash"
                    /\ psText = Append(before, w.text[n]) /\ psCut = (n < Len(w.text))
                 \/ w.text[n][1] = "str" /\ psText = Append(before, <<"open">>) /\ psCut = TRUE
                 \/ n = Len(w.text) /\ psText = Append(before, <<"odd">>) /\ psCut = TRUE

\* The Tokenizer's exception leaves parse_statement.
PsTokenize ==
    /\ psPc = "text" /\ psTokens' = Tokenize(psText)
    /\ psPc' = IF psTokens' = <<>> THEN "parsed" ELSE "tokens"
    /\ UNCHANGED <<psStmt, psCut, psText, psResult>>

PsParse ==
    /\ psPc = "tokens" /\ psPc' = "parsed" /\ \E g \in {ParseRule} : psResult' = ParseStatement(g)
    /\ UNCHANGED <<psStmt, psCut, psText, psTokens>>

PsNext == PsTokenize \/ PsParse
PsSpec == PsInit /\ [][PsNext]_psVars

-----------------------------------------------------------------------------
\* Parser::parse_statement reads a statement as SQL means it: from the text of a statement,
\* written with no parenthesis more than the precedence of the operators needs, it builds
\* that statement's tree again and reads the text to its end; and of a text cut short it
\* accepts only what is read to its end, so that no part of a clause is passed over.
ParsesBack ==
    psPc = "parsed" =>
        /\ ~psCut => psResult.at = Len(psTokens) /\ psResult.v = psStmt
        /\ psResult.at \in {0, Len(psTokens)}
=============================================================================
