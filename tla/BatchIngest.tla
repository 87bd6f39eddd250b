----------------------------- MODULE BatchIngest ----------------------------
(***************************************************************************)
(* Rows that arrive in batches: POST /insert/msgpack (one document of      *)
(* column arrays), POST /insert/arrow (a stream of record batches) and     *)
(* Flight DoPut (a stream of record batches, one INSERT statement a row),  *)
(* with the MessagePack decoder, the conversions to int64 and the row      *)
(* limits of Flight reads.  Integers are narrow: BiMax stands for          *)
(* INT64_MAX and BiExact for 2^53, above which a double holds only every   *)
(* second integer.  A value is [kind, n, f], f the fraction of a double:   *)
(* "none", "half" (exactly one half), "decimal" (a decimal one half, which *)
(* the double holds a little below, as it does 1.15) or "small" (digits    *)
(* below the sixth decimal).  Volumes are read as prices are and message   *)
(* types as symbol ids are, so a row is its symbol, its price and its      *)
(* timestamp.                                                              *)
(***************************************************************************)
EXTENDS Integers, Sequences, SequencesExt, FiniteSetsExt

CONSTANTS
    BiMax, BiExact,  \* INT64_MAX and the last integer below which doubles are exact
    BiMaxSymbol,     \* the largest symbol id
    BiUnit,          \* nanoseconds of a coarser timestamp unit
    BiRequests,      \* requests: [path, named, acl, tenant, scale, clustered, hasTs, batches]
    BiPutRows,       \* max_put_rows
    BiBase,          \* values of one byte of the MessagePack body
    BiMaxDepth,      \* kMaxDepth
    BiValues,        \* the MessagePack documents that are encoded
    BiMaxRows,       \* max_query_rows
    BiSizeMax,       \* what stands for SIZE_MAX
    BiReads          \* Flight reads: [rows, limit], limit -1 for none

ASSUME BiConstants ==
    /\ BiMax \in Nat /\ BiExact \in 1 .. BiMax /\ BiMaxSymbol \in 0 .. BiMax
    /\ BiBase \in Nat \ {0, 1} /\ BiMaxDepth \in Nat
    /\ BiMaxRows \subseteq 1 .. BiSizeMax

VARIABLES
    biReq,     \* the request being served
    biPc,      \* "arrive", "decode", "ingest", "put" or "done"
    biAt,      \* the batch being worked on
    biTicks,   \* its decoded rows
    biStored,  \* the rows stored
    biTable,   \* the table is in the catalog
    biReply,   \* [ok, rows, failed]
    biLook     \* a MessagePack document, its format, a Flight read and its limit

biVars == <<biReq, biPc, biAt, biTicks, biStored, biTable, biReply, biLook>>

-----------------------------------------------------------------------------
(* The MessagePack decoder.  A body is a sequence of cells: a tag          *)
(* [t, v], v the number a tag of the fix formats carries, or a byte        *)
(* ["byte", v].  A parsed value is [kind, n, items, keys].                 *)

Parsed(kind, n, items, keys) == [kind |-> kind, n |-> n, items |-> items, keys |-> keys]
Refused(pos) == [ok |-> FALSE, v |-> Parsed("nil", 0, <<>>, <<>>), pos |-> pos]
Read(v, pos) == [ok |-> TRUE, v |-> v, pos |-> pos]

\* read_u8 .. read_u64: w bytes, the most significant first; -1 when truncated.
ReadBytes(body, pos, w) ==
    IF w > Len(body) - pos THEN -1
    ELSE FoldLeft(LAMBDA acc, cell : acc * BiBase + cell.v, 0, SubSeq(body, pos + 1, pos + w))

\* The bytes of a number as a two's complement integer of w bytes.
Signed(n, w) == IF 2 * n >= BiBase ^ w THEN n - BiBase ^ w ELSE n

SignedValue(n, w) == Signed(n, w)

\* The bytes of the length, or of the number, that follow a tag.
Width(t) == CASE t \in {"u8", "i8", "str8"} -> 1
              [] t \in {"u16", "i16", "str16", "arr16", "map16", "f32"} -> 2
              [] OTHER -> 0

RECURSIVE ParseValue(_, _, _)
RECURSIVE ParseItems(_, _, _, _)

\* n values one after another: [ok, v: a sequence, pos].
ParseItems(body, pos, depth, n) ==
    IF n = 0 THEN [ok |-> TRUE, v |-> <<>>, pos |-> pos]
    ELSE LET one == ParseValue(body, pos, depth)
             rest == ParseItems(body, one.pos, depth, n - 1)
         IN  IF ~one.ok \/ ~rest.ok THEN [ok |-> FALSE, v |-> <<>>, pos |-> pos]
             ELSE [ok |-> TRUE, v |-> <<one.v>> \o rest.v, pos |-> rest.pos]

\* parse_array: a length that the rest of the body cannot hold is refused at once.
ParseArray(body, pos, depth, len) ==
    LET items == ParseItems(body, pos, depth + 1, len)
    IN  IF len > Len(body) - pos \/ ~items.ok THEN Refused(pos)
        ELSE Read(Parsed("array", 0, items.v, <<>>), items.pos)

\* parse_map: keys and values in turn, the keys strings.
ParseMap(body, pos, depth, len) ==
    LET items == ParseItems(body, pos, depth + 1, 2 * len)
    IN  IF 2 * len > Len(body) - pos \/ ~items.ok
           \/ \E i \in 1 .. len : items.v[2 * i - 1].kind # "str"
        THEN Refused(pos)
        ELSE Read(Parsed("map", 0, [i \in 1 .. len |-> items.v[2 * i]],
                                   [i \in 1 .. len |-> items.v[2 * i - 1].n]), items.pos)

\* parse_str: a string is its one character.
ParseStr(body, pos, len) ==
    IF len > Len(body) - pos THEN Refused(pos)
    ELSE Read(Parsed("str", ReadBytes(body, pos, len), <<>>, <<>>), pos + len)

ParseValue(body, pos, depth) ==
    IF depth > BiMaxDepth \/ pos >= Len(body) THEN Refused(pos)
    ELSE LET tag == body[pos + 1]
             w == Width(tag.t)
             n == IF w = 0 THEN tag.v ELSE ReadBytes(body, pos + 1, w)
             next == pos + 1 + w
         IN  CASE n = -1 /\ w > 0 -> Refused(pos)
               [] tag.t \in {"fix", "u8", "u16"} -> Read(Parsed("uint", n, <<>>, <<>>), next)
               [] tag.t = "negfix" -> Read(Parsed("int", n, <<>>, <<>>), next)
               [] tag.t \in {"i8", "i16"} ->
                      Read(Parsed("int", SignedValue(n, w), <<>>, <<>>), next)
               [] tag.t = "f32" -> Read(Parsed("double", n, <<>>, <<>>), next)
               [] tag.t = "nil" -> Read(Parsed("nil", 0, <<>>, <<>>), next)
               [] tag.t = "bool" -> Read(Parsed("bool", n, <<>>, <<>>), next)
               [] tag.t \in {"fixstr", "str8", "str16"} -> ParseStr(body, next, n)
               [] tag.t \in {"fixarr", "arr16"} -> ParseArray(body, next, depth, n)
               [] tag.t \in {"fixmap", "map16"} -> ParseMap(body, next, depth, n)
               [] OTHER -> Refused(pos)

\* Decoder::parse: one value and nothing after it.
ParseBody(body) ==
    LET doc == ParseValue(body, 0, 0)
    IN  IF doc.ok /\ doc.pos = Len(body) THEN doc ELSE Refused(0)

\* What a client writes for a value, in the fix, the 8-bit or the 16-bit formats.
Byte(n) == [t |-> "byte", v |-> n]
Tag(t, n) == [t |-> t, v |-> n]
Number(fixTag, tag8, tag16, n, m, f) ==
    CASE f = "fix" -> <<Tag(fixTag, n)>>
      [] f = "8" -> <<Tag(tag8, 0), Byte(m % BiBase)>>
      [] OTHER -> <<Tag(tag16, 0), Byte(m \div BiBase), Byte(m % BiBase)>>
Length(fixTag, tag16, n, f) ==
    IF f = "16" THEN <<Tag(tag16, 0), Byte(n \div BiBase), Byte(n % BiBase)>>
    ELSE <<Tag(fixTag, n)>>

RECURSIVE Encoded(_, _)
Encoded(v, f) ==
    CASE v.kind = "uint" -> Number("fix", "u8", "u16", v.n, v.n, f)
      [] v.kind = "int" ->
            Number("negfix", "i8", "i16", v.n, v.n + BiBase ^ (IF f = "16" THEN 2 ELSE 1), f)
      [] v.kind = "str" -> Number("fixstr", "str8", "str16", 1, 1, f) \o <<Byte(v.n)>>
      [] v.kind = "double" -> <<Tag("f32", 0), Byte(v.n \div BiBase), Byte(v.n % BiBase)>>
      [] v.kind = "nil" -> <<Tag("nil", 0)>>
      [] v.kind = "array" ->
            Length("fixarr", "arr16", Len(v.items), f)
            \o FlattenSeq([i \in 1 .. Len(v.items) |-> Encoded(v.items[i], f)])
      [] v.kind = "map" ->
            Length("fixmap", "map16", Len(v.items), f)
            \o FlattenSeq([i \in 1 .. Len(v.items) |->
                   Encoded(Parsed("str", v.keys[i], <<>>, <<>>), f) \o Encoded(v.items[i], f)])

RECURSIVE Depth(_)
Depth(v) == IF v.kind \in {"array", "map"} /\ v.items # <<>>
            THEN 1 + Max({Depth(v.items[i]) : i \in 1 .. Len(v.items)})
            ELSE IF v.kind = "map" THEN 1 ELSE 0

-----------------------------------------------------------------------------
(* The conversions of a value to int64.                                    *)

Magnitude(n) == IF n < 0 THEN -n ELSE n
BiMin == -BiMax - 1

\* static_cast<double>: above BiExact every second integer, above twice that
\* every fourth; the nearest one, ties to the even multiple.
Spacing(m) == IF m <= BiExact THEN 1 ELSE IF m <= 2 * BiExact THEN 2 ELSE 4
Rounded(m, s) ==
    LET up == 2 * (m % s) > s \/ (2 * (m % s) = s /\ (m \div s) % 2 = 1)
    IN  s * ((m \div s) + IF up THEN 1 ELSE 0)
ToDouble(n) ==
    LET m == Rounded(Magnitude(n), Spacing(Magnitude(n))) IN IF n < 0 THEN -m ELSE m

Gives(n) == {[ok |-> TRUE, n |-> n]}
Fails == {[ok |-> FALSE, n |-> 0]}

\* static_cast<int64_t> of a double: out of range the result is what the
\* hardware gives, the smallest or the largest integer.
Cast(d) == IF d \in BiMin .. BiMax THEN Gives(d) ELSE Gives(BiMin) \cup Gives(BiMax)

\* The whole units the fraction comes to when it is scaled and truncated.
Units(f, scale) == CASE f = "half" -> scale \div 2 [] f = "decimal" -> (scale - 1) \div 2 [] OTHER -> 0

\* scaled_to_i64: value * scale, towards zero.  The comparison is with INT64_MAX as a double,
\* which is one more than INT64_MAX.
ScaledToI64(v, scale) ==
    LET m == Magnitude(v.n) * scale + Units(v.f, scale)
        scaled == ToDouble(IF v.n < 0 THEN -m ELSE m)
    IN  IF scaled < ToDouble(BiMin) \/ scaled > ToDouble(BiMax) THEN Fails ELSE Cast(scaled)

\* The double of an integer value.
InDouble(v) == [v EXCEPT !.n = ToDouble(@)]

\* A bug: an unsigned value is taken without looking at its range.
MsgpackNumberWraps(v, scale) ==
    CASE v.kind \in {"int", "uint"} /\ scale = 1 ->
            Gives(IF v.n > BiMax THEN v.n - 2 * (BiMax + 1) ELSE v.n)
      [] v.kind \in {"int", "uint"} -> ScaledToI64(InDouble(v), scale)
      [] v.kind = "double" -> ScaledToI64(v, scale)
      [] OTHER -> Fails

\* value_to_i64 of the MessagePack path.
MsgpackNumber(v, scale) ==
    CASE v.kind = "uint" /\ v.n > BiMax -> Fails
      [] v.kind \in {"int", "uint"} /\ scale = 1 -> Gives(v.n)
      [] v.kind \in {"int", "uint"} -> ScaledToI64(InDouble(v), scale)
      [] v.kind = "double" -> ScaledToI64(v, scale)
      [] OTHER -> Fails

\* array_value_to_i64: only INT64 with scale 1 does not pass through a double.
ArrowNumber(v, scale) ==
    CASE v.kind = "int" /\ scale = 1 -> Gives(v.n)
      [] v.kind \in {"int", "uint"} -> ScaledToI64(InDouble(v), scale)
      [] v.kind = "double" -> ScaledToI64(v, scale)
      [] OTHER -> Fails

\* array_value_to_timestamp_ns: a unit coarser than nanoseconds must not overflow.
ArrowTimestamp(v) ==
    CASE v.kind = "coarse" /\ (v.n > BiMax \div BiUnit \/ v.n < -(-BiMin \div BiUnit)) -> Fails
      [] v.kind = "coarse" -> Gives(v.n * BiUnit)
      [] OTHER -> ArrowNumber(v, 1)

\* A symbol is a string to intern or an id within uint32_t.
InSymbolRange(outcomes) == {o \in outcomes : o.ok /\ o.n \in 0 .. BiMaxSymbol}
MsgpackSymbolOk(v) == v.kind = "str" \/ InSymbolRange(MsgpackNumber(v, 1)) # {}
ArrowSymbolOk(v) == v.kind = "str" \/ InSymbolRange(ArrowNumber(v, 1)) # {}

\* decode_ticks: a missing timestamp, or a nil one, is the arrival time.
MsgpackRow(req, row) ==
    IF ~MsgpackSymbolOk(row.sym) THEN Fails
    ELSE IF req.hasTs /\ row.ts.kind # "nil" /\ MsgpackNumber(row.ts, 1) = Fails THEN Fails
    ELSE MsgpackNumber(row.price, req.scale)

\* decode_record_batch_ticks: a null timestamp is refused.
ArrowRow(req, row) ==
    IF ~ArrowSymbolOk(row.sym) THEN Fails
    ELSE IF req.hasTs /\ ArrowTimestamp(row.ts) = Fails THEN Fails
    ELSE ArrowNumber(row.price, req.scale)

\* DoPut: a row as the text of an INSERT.  exec_insert holds a symbol id of a table of the
\* catalog against its range; the legacy path of other tables casts it.
FlightRow(row, known) ==
    IF row.sym.kind \notin {"int", "double", "str"} \/ row.price.kind \notin {"int", "double"} THEN Fails
    ELSE IF known /\ row.sym.kind = "int" /\ row.sym.n \notin 0 .. BiMaxSymbol THEN Fails
    ELSE Gives(row.price.n)

\* std::to_string keeps six decimals of a double, and the price column is FLOAT64.
InText(f) == IF f = "small" THEN "none" ELSE f

RowOutcomes(req, row) == IF req.path = "msgpack" THEN MsgpackRow(req, row) ELSE ArrowRow(req, row)

-----------------------------------------------------------------------------
(* Serving a request.                                                      *)

Rows(req) == FlattenSeq([b \in 1 .. Len(req.batches) |->
                 [i \in 1 .. Len(req.batches[b]) |-> <<b, i>>]])
RowAt(req, at) == req.batches[at[1]][at[2]]

Looks == [v : BiValues, f : {"fix", "8", "16"}, read : BiReads, max : BiMaxRows]
Look1 == CHOOSE look \in Looks : TRUE

BiInit ==
    /\ \/ biReq \in BiRequests /\ biLook = Look1
       \/ /\ biReq = CHOOSE req \in BiRequests : TRUE
          /\ biLook \in {l \in Looks : l.v = Look1.v \/ (l.read = Look1.read /\ l.max = Look1.max)}
    /\ biPc = "arrive" /\ biAt = 1
    /\ biTicks = <<>> /\ biStored = <<>>
    /\ biTable \in BOOLEAN
    /\ biReply = [ok |-> FALSE, rows |-> 0, failed |-> 0]

Answer(ok, rows, failed) ==
    /\ biReply' = [ok |-> ok, rows |-> rows, failed |-> failed]
    /\ biPc' = "done"

\* A restricted caller must name a table it may write.
MayWrite == /\ biReq.acl # "none" => biReq.named /\ biReq.acl = "in"
            /\ biReq.tenant # "none" => biReq.named /\ biReq.tenant = "in"

Arrive(next) ==
    /\ biPc = "arrive"
    /\ IF MayWrite THEN biPc' = next /\ UNCHANGED biReply ELSE Answer(FALSE, 0, 0)
    /\ UNCHANGED <<biReq, biAt, biTicks, biStored, biTable>>

MsgpackArrive == biReq.path = "msgpack" /\ Arrive("decode")
ArrowArrive == biReq.path = "arrow" /\ Arrive("decode")

\* DoPut names its table in the descriptor.  It is refused unless allow_non_atomic_put_ is set.
PutDisabled == /\ biPc = "arrive" /\ Answer(FALSE, 0, 0)
               /\ UNCHANGED <<biReq, biAt, biTicks, biStored, biTable>>
FlightArrive == biReq.path = "flight" /\ biReq.named /\ (Arrive("put") \/ PutDisabled)

\* A batch decodes as a whole or the request ends with the rows of the batches
\* before it.
BiDecode ==
    /\ biPc = "decode"
    /\ LET batch == biReq.batches[biAt]
           any == UNION {RowOutcomes(biReq, batch[i]) : i \in 1 .. Len(batch)}
       IN  \E out \in [1 .. Len(batch) -> any] :
             /\ \A i \in 1 .. Len(batch) : out[i] \in RowOutcomes(biReq, batch[i])
             /\ IF \A i \in 1 .. Len(batch) : out[i].ok
                THEN /\ biTicks' = [i \in 1 .. Len(batch) |->
                                       [at |-> <<biAt, i>>, price |-> out[i].n, frac |-> "none", named |-> biReq.named]]
                     /\ biPc' = "ingest" /\ UNCHANGED biReply
                ELSE Answer(FALSE, Len(biStored), 0) /\ UNCHANGED biTicks
    /\ UNCHANGED <<biReq, biAt, biStored, biTable>>

\* ingest_tick_batch: the table is looked up once; the pipeline of this node
\* takes every row, the owner of a clustered row may refuse it.
BiIngest ==
    /\ biPc = "ingest"
    /\ IF biReq.named /\ ~biTable
       THEN Answer(FALSE, Len(biStored), 0) /\ UNCHANGED <<biAt, biStored>>
       ELSE \E failed \in SUBSET (1 .. Len(biTicks)) :
              LET kept == SelectSeq(biTicks, LAMBDA t : t.at[2] \notin failed)
                  rows == Len(biStored) + Len(kept)
              IN  /\ failed # {} => biReq.clustered
                  /\ biStored' = biStored \o kept
                  /\ IF failed # {}
                     THEN Answer(FALSE, rows, Cardinality(failed)) /\ UNCHANGED biAt
                     ELSE IF biAt < Len(biReq.batches)
                     THEN biAt' = biAt + 1 /\ biPc' = "decode" /\ UNCHANGED biReply
                     ELSE Answer(TRUE, rows, 0) /\ UNCHANGED biAt
    /\ biTicks' = <<>>
    /\ UNCHANGED <<biReq, biTable>>

\* DoPut: the rows of a batch, after its size was held against what is left
\* of the row limit, one INSERT each; the first error ends the call.  The rows of a table that
\* is not in the catalog are stored under table id 0.
FlightPut ==
    /\ biPc = "put"
    /\ LET batch == biReq.batches[biAt]
           before == Len(SelectSeq(Rows(biReq), LAMBDA r : r[1] < biAt))
           row == Len(biStored) - before + 1
       IN  IF row = 1 /\ Len(batch) > BiPutRows - Min({before, BiPutRows})
           THEN Answer(FALSE, Len(biStored), 0) /\ UNCHANGED <<biAt, biStored>>
           ELSE \E out \in FlightRow(batch[row], biTable), taken \in BOOLEAN :
             IF ~out.ok \/ ~taken
             THEN Answer(FALSE, Len(biStored), 0) /\ UNCHANGED <<biAt, biStored>>
             ELSE /\ biStored' = Append(biStored, [at |-> <<biAt, row>>, price |-> out.n,
                                           frac |-> InText(batch[row].price.f), named |-> biTable])
                  /\ IF row < Len(batch) THEN UNCHANGED <<biAt, biPc, biReply>>
                     ELSE IF biAt < Len(biReq.batches)
                     THEN biAt' = biAt + 1 /\ UNCHANGED <<biPc, biReply>>
                     ELSE Answer(TRUE, Len(biStored) + 1, 0) /\ UNCHANGED biAt
    /\ UNCHANGED <<biReq, biTicks, biTable>>

\* Another client drops the table.
BiDrop == /\ biPc # "done" /\ biTable /\ biTable' = FALSE
          /\ UNCHANGED <<biReq, biPc, biAt, biTicks, biStored, biReply>>

BiNext == /\ \/ MsgpackArrive \/ ArrowArrive \/ FlightArrive
             \/ BiDecode \/ BiIngest \/ FlightPut \/ BiDrop
          /\ UNCHANGED biLook

-----------------------------------------------------------------------------
(* Flight reads.                                                           *)

\* bound_read_statement: one row more than may be answered is asked for.
DetectionLimit(max) ==
    Min({IF max = BiSizeMax THEN max ELSE max + 1, BiSizeMax \div 2})

\* The rows of an answer, -1 when check_query_limits refuses it.
FlightRead(read, max) ==
    LET bounded == DetectionLimit(max)
        limit == IF read.limit = -1 \/ read.limit > bounded THEN bounded ELSE read.limit
        rows == Min({read.rows, limit})
    IN  IF rows > max THEN -1 ELSE rows

-----------------------------------------------------------------------------
Took(k) == [i \in 1 .. Len(biStored) |-> biStored[i].at] = SubSeq(Rows(biReq), 1, k)

\* The value reached int64 without passing through a double.
Direct(v) == biReq.scale = 1 /\ (v.kind = "int" \/ (v.kind = "uint" /\ biReq.path = "msgpack"))

\* What a stored price must be: the value times the scale, towards zero.  Set apart: an integer
\* a double cannot hold, a decimal fraction it holds from below, which may cost one unit, and
\* the digits DoPut's text leaves out.
PriceKept(t) ==
    LET v == RowAt(biReq, t.at).price
        m == Magnitude(v.n) * biReq.scale + Units(IF v.f = "decimal" THEN "half" ELSE v.f, biReq.scale)
        want == IF v.n < 0 THEN -m ELSE m
    IN  IF biReq.path = "flight" THEN t.price = v.n /\ t.frac \in {v.f, InText(v.f)}
        ELSE /\ biReq.named => t.named
             /\ \/ t.price = want
                \/ v.f = "decimal" /\ t.price = want - 1
                \/ ~Direct(v) /\ (Magnitude(v.n) > BiExact \/ Magnitude(want) > BiExact)

\* A batch request accounts for its rows: an ok answer means every row was
\* stored, once, in order, with its price and (but by DoPut) in its table; a refusal means that a MessagePack
\* body left nothing behind and a stream exactly the rows before the batch, or
\* for DoPut the row, that was refused, unless an owner refused rows one by one;
\* the count in the result is the count stored.
BatchAccounted ==
    /\ \A i \in 1 .. Len(biStored) : PriceKept(biStored[i])
    /\ biPc = "done" =>
        /\ biReply.rows = Len(biStored)
        /\ biReply.ok => Took(Len(Rows(biReq))) /\ biReply.failed = 0
        /\ ~biReply.ok /\ biReply.failed = 0 =>
             /\ Took(Len(biStored))
             /\ biReq.path = "msgpack" => biStored = <<>>

\* The MessagePack decoder gives back every value in every format it is written
\* in, and refuses a body that is cut short, that goes on, or that nests deeper
\* than kMaxDepth; a Flight read is answered with every row the statement asks
\* for, or refused, never with some of them.
DecodesWhole ==
    biPc = "arrive" =>
    LET v == biLook.v
        body == Encoded(v, biLook.f)
        read == biLook.read
        asked == IF read.limit = -1 THEN read.rows ELSE Min({read.rows, read.limit})
    IN  /\ IF Depth(v) > BiMaxDepth THEN ~ParseBody(body).ok
           ELSE /\ ParseBody(body).ok /\ ParseBody(body).v = v
                /\ \A k \in 0 .. Len(body) - 1 : ~ParseBody(SubSeq(body, 1, k)).ok
                /\ ~ParseBody(body \o <<Tag("nil", 0)>>).ok
        /\ FlightRead(read, biLook.max) = IF asked > biLook.max THEN -1 ELSE asked

\* What came in as a body is what is stored and what is answered for it, and what is read
\* back is whole (handle_insert_msgpack, handle_insert_arrow, DoPut, DoGet).
BatchExact == BatchAccounted /\ DecodesWhole
=============================================================================
