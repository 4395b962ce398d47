----------------------------- MODULE FrameCodec ------------------------------
(***************************************************************************)
(* The lenient reader of embedded frames, expressions and pipelines        *)
(* (_core/dataframe/codec.py).  It accepts the spellings the format        *)
(* tolerates and answers with the canonical wire form of what it read,     *)
(* which is the typed value it builds written back; a refusal carries the  *)
(* code alone, the node reader puts it at a path of its own.               *)
(***************************************************************************)
EXTENDS Readers
LOCAL SX == INSTANCE SequencesExt

MALFORMED_SHAPE == "MALFORMED_SHAPE"
UNKNOWN_TYPE    == "UNKNOWN_TYPE"
TYPE_MISMATCH   == "TYPE_MISMATCH"
LENGTH_MISMATCH == "LENGTH_MISMATCH"
RAISES          == "RAISES"       \* the reader raises instead of refusing
Fault(code) == [fail |-> code, at |-> <<>>]
\* A value kept as the parser made it, which the encoder cannot write.
RAW == [raw |-> TRUE]

\* Where a refusal of this reader stands in a node document.
Coded(r, at) == IF ~ Bad(r) THEN r ELSE Fail(IF r.fail = RAISES THEN RAISES ELSE WRONG_TYPE, at)

(***************************************************************************)
(* Vocabularies, and the texts a cell tells apart.                         *)
(***************************************************************************)
BIN_OPS    == {"add", "sub", "mul", "div", "mod", "eq", "ne", "lt", "le", "gt", "ge", "and", "or",
               "contains", "startsWith", "endsWith"}
SCALAR_FNS == {"abs", "round", "floor", "ceil", "length", "lower", "upper", "substr", "datePart", "concat",
               "trim", "replace", "dateDiffDays", "pow", "exp", "ln", "log10", "least", "greatest"}
AGG_FNS    == {"sum", "mean", "min", "max", "count", "median", "stddev", "first", "last", "countDistinct"}
JOIN_KINDS == {"inner", "left", "right", "outer"}
WINDOW_FNS == {"rowNumber", "rank", "lag", "lead", "cumulSum", "rollingMean"}
ROUNDING_MODES == {"half-even", "half-up", "half-down", "up", "down", "ceiling", "floor"}
\* The fraction digits each unit of an instant holds, and the column types.
UNIT_DIGITS  == [timestamp |-> 0, timestamp_ms |-> 3, timestamp_us |-> 6, timestamp_ns |-> 9]
COLUMN_TYPES == {"int", "float", "bool", "string", "date", "decimal"} \cup DOMAIN UNIT_DIGITS

\* The canonical text of a decimal, a unit and an instant; other texts have none.
DecimalTexts == "12.50" :> "12.5" @@ "12.5" :> "12.5" @@ "-0" :> "0" @@ "0" :> "0" @@ "007" :> "7" @@ "7" :> "7"
                @@ "-1" :> "-1"
UnitTexts    == "s/m/m" :> "s/m2" @@ "s/m2" :> "s/m2" @@ "m" :> "m"
FractionDigits == "2024-02-29T12:00:00Z" :> 0 @@ "2024-02-29T12:00:00.5Z" :> 1
                  @@ "2024-02-29T12:00:00.0001Z" :> 4

(***************************************************************************)
(* Instants: the text of an epoch second, by civil-from-days.              *)
(***************************************************************************)
Padded(n, width) == LET s == ToString(n) IN SubSeq("000000000" \o s, Len(s) + 10 - width, Len(s) + 9)

CivilOfDays(days) ==
    LET z   == days + 719468
        era == z \div 146097
        doe == z - era * 146097
        yoe == (doe - doe \div 1460 + doe \div 36524 - doe \div 146096) \div 365
        doy == doe - (365 * yoe + yoe \div 4 - yoe \div 100)
        mp  == (5 * doy + 2) \div 153
        month == IF mp < 10 THEN mp + 3 ELSE mp - 9
    IN [year |-> yoe + era * 400 + (IF month <= 2 THEN 1 ELSE 0), month |-> month,
        day |-> doy - (153 * mp + 2) \div 5 + 1]
IsoOfEpochSeconds(secs) ==
    LET d   == CivilOfDays(secs \div 86400)
        sod == secs % 86400
    IN Padded(d.year, 4) \o "-" \o Padded(d.month, 2) \o "-" \o Padded(d.day, 2) \o "T"
       \o Padded(sod \div 3600, 2) \o ":" \o Padded((sod % 3600) \div 60, 2) \o ":" \o Padded(sod % 60, 2)

(***************************************************************************)
(* Cells.  A present value is read at the type its column declares.        *)
(***************************************************************************)
Whole(v)   == IsInt(v) \/ Integral(v)
WholeOf(v) == IF IsInt(v) THEN v.int ELSE v.half \div 2
KindName(v) == CASE Whole(v) -> "int" [] IsNumber(v) /\ ~ Whole(v) -> "float" [] OTHER -> CHOOSE k \in DOMAIN v : TRUE

\* A fraction of an instant, its trailing zeros left out.
RECURSIVE Fraction(_, _)
Fraction(n, digits) == IF n % 10 = 0 THEN Fraction(n \div 10, digits - 1) ELSE "." \o Padded(n, digits)

\* A text no finer than the unit, or how many units after the epoch; a large
\* number of seconds is read as thousandths.
DecodeInstant(ty, v) ==
    LET digits == UNIT_DIGITS[ty]
        wide   == "wide" \in DOMAIN v
        n      == IF wide THEN v.wide ELSE WholeOf(v)
        unit   == 10^(IF wide /\ digits > 0 THEN digits - 3 ELSE digits)
        part   == (n % unit) * (IF wide THEN 1000 ELSE 1)
        text   == IsoOfEpochSeconds(n \div unit)
    IN CASE IsStr(v) -> IF v.str \notin DOMAIN FractionDigits THEN Fault(MALFORMED_SHAPE)
                        ELSE IF FractionDigits[v.str] > digits THEN Fault(MALFORMED_SHAPE) ELSE v
         [] Whole(v) \/ wide -> Str(text \o (IF part = 0 THEN "Z" ELSE Fraction(part, digits) \o "Z"))
         [] OTHER -> Fault(TYPE_MISMATCH)

DecodeDecimal(v) ==
    CASE IsStr(v) -> IF v.str \in DOMAIN DecimalTexts THEN Str(DecimalTexts[v.str]) ELSE Fault(MALFORMED_SHAPE)
      [] Whole(v) -> Str(ToString(WholeOf(v)))
      [] "wide" \in DOMAIN v -> Str(ToString(v.wide) \o "000")
      [] OTHER -> Fault(TYPE_MISMATCH)

DecodeCellValue(ty, v) ==
    CASE ty = "int" /\ Whole(v) -> Int32(WholeOf(v))
      [] ty = "float" /\ IsNumber(v) -> Canonical(v)
      [] ty = "bool" /\ IsBool(v) -> v
      [] ty \in {"string", "date"} /\ IsStr(v) -> v
      [] ty \in DOMAIN UNIT_DIGITS -> DecodeInstant(ty, v)
      [] ty = "decimal" -> DecodeDecimal(v)
      [] OTHER -> Fault(TYPE_MISMATCH)

\* What a null cell is written as; the mask, not this, says that it is null.
Placeholders == [int |-> Int32(0), float |-> Int32(0), bool |-> Bool(FALSE), decimal |-> Str("0")]
PlaceholderOf(ty) == IF ty \in DOMAIN Placeholders THEN Placeholders[ty] ELSE Str("")

(***************************************************************************)
(* Members of a plan, read in its order; what a member is read as is named *)
(* by the slot, and an alias stands for the member when it alone is given. *)
(***************************************************************************)
M(n, slot)     == [name |-> n, slot |-> slot, alias |-> ""]
Al(n, a, slot) == [name |-> n, slot |-> slot, alias |-> a]
Field(v, k) == CASE ~ IsObj(v) -> Fault(MALFORMED_SHAPE)
                 [] IsObj(v) /\ ~ Has(v, k) -> Fault(MISSING_FIELD)
                 [] OTHER -> Get(v, k)
FieldAliased(v, k, alias) ==
    CASE ~ Absent(v, k) /\ ~ Absent(v, alias) -> Fault(MALFORMED_SHAPE)
      [] ~ Absent(v, k) /\ Absent(v, alias) -> Get(v, k)
      [] Absent(v, k) /\ ~ Absent(v, alias) -> Get(v, alias)
      [] OTHER -> Fault(MISSING_FIELD)
FieldOf(v, m) == IF m.alias = "" THEN Field(v, m.name) ELSE FieldAliased(v, m.name, m.alias)

TextOf(v) == IF IsStr(v) THEN v ELSE Fault(MALFORMED_SHAPE)
\* A member of a hashed vocabulary: asking it of a list or an object raises.
OneOf(v, names) == CASE IsArr(v) \/ IsObj(v) -> Fault(RAISES)
                     [] IsStr(v) /\ v.str \in names -> v
                     [] OTHER -> Fault(UNKNOWN_TYPE)
Listed(v, names) == IF IsStr(v) /\ v.str \in names THEN v ELSE Fault(UNKNOWN_TYPE)
AggFnOf(v)  == IF v = Str("avg") THEN Str("mean") ELSE Listed(v, AGG_FNS)
WindowFn(v) == IF v = Str("cumSum") THEN Str("cumulSum") ELSE OneOf(v, WINDOW_FNS)
WholeNumber(v) == IF IsInt(v) \/ "wide" \in DOMAIN v THEN v ELSE Fault(MALFORMED_SHAPE)
StrList(v)  == IF IsArr(v) /\ \A i \in DOMAIN v.arr : IsStr(v.arr[i]) THEN v ELSE Fault(MALFORMED_SHAPE)
UnitOf(v)   == IF IsStr(v) /\ v.str \in DOMAIN UnitTexts THEN Str(UnitTexts[v.str]) ELSE Fault(MALFORMED_SHAPE)
Unchecked(v) == IF IsArr(v) \/ IsObj(v) \/ IsNull(v) THEN RAW ELSE Canonical(v)

\* A rounding scale is an integer or names the parameter that is.
ScaleOf(v) ==
    CASE Has(v, "$param") -> IF IsStr(Get(v, "$param")) THEN Obj([k \in {"$param"} |-> Get(v, k)])
                             ELSE Fault(MALFORMED_SHAPE)
      [] IsObj(v) /\ ~ Has(v, "$param") -> Fault(MALFORMED_SHAPE)
      [] OTHER -> WholeNumber(v)
Mode(v) == Then(TextOf(v), LAMBDA s : Listed(s, ROUNDING_MODES))

\* The cell of a literal, at the type it names.
LiteralKinds == [Int |-> "int", Float |-> "float", Bool |-> "bool", Str |-> "string", Date |-> "date",
                 Timestamp |-> "string", Decimal |-> "decimal"]
LiteralCell(tag, c) ==
    CASE tag \notin DOMAIN LiteralKinds -> Fault(TYPE_MISMATCH)
      [] tag = "Int" -> WholeNumber(c)
      [] tag = "Decimal" /\ ~ IsStr(c) /\ Bad(WholeNumber(c)) -> Fault(TYPE_MISMATCH)
      [] OTHER -> DecodeCellValue(LiteralKinds[tag], c)
CellLiteral(v) ==
    LET literal(r, tag) == IF Bad(r) THEN Fault(TYPE_MISMATCH) ELSE Case(tag, [value |-> r])
        cell(tag) == IF tag = "Null" THEN Case("Null", NoMembers)
                     ELSE literal(LiteralCell(tag, IF Has(v, "value") THEN Get(v, "value") ELSE Null), tag)
    IN Then(Then(Field(v, "$type"), TextOf), LAMBDA tag : cell(tag.str))

(***************************************************************************)
(* Expressions.                                                            *)
(***************************************************************************)
ExprPlans == [
    col      |-> <<M("name", "text")>>,
    lit      |-> <<M("cell", "cell")>>,
    binary   |-> <<M("op", "binOp"), M("left", "expr"), M("right", "expr")>>,
    not      |-> <<M("expr", "expr")>>,
    coalesce |-> <<M("exprs", "exprs")>>,
    case     |-> <<M("cases", "branches"), M("else", "expr")>>,
    cast     |-> <<M("type", "type"), M("expr", "expr")>>,
    apply    |-> <<M("fn", "scalarFn"), M("args", "exprs")>>,
    param    |-> <<M("name", "text")>>,
    isNull   |-> <<M("expr", "expr")>>,
    quotient |-> <<M("dividend", "expr"), M("divisor", "expr"), M("rounding", "rounding")>>,
    rounded  |-> <<M("expr", "expr"), M("rounding", "rounding")>>,
    convert  |-> <<M("unit", "unit"), M("expr", "expr")>>]
BranchPlan   == <<M("when", "expr"), M("then", "expr")>>
RoundingPlan == <<M("mode", "mode"), M("scale", "scale")>>
\* The two operands of a flat spelling, each under either of its names.
FlatPlan     == <<Al("left", "expr", "expr"), Al("right", "other", "expr")>>
Membership   == <<M("expr", "expr")>>

FlatBinaries == {"contains", "startsWith", "endsWith", "and", "or", "eq", "ne", "lt", "le", "gt", "ge"}

RECURSIVE ReadSlotOf(_, _)

ReadPlan(plan, v) ==
    Assembled(NamesIn(plan),
              [i \in DOMAIN plan |-> Then(FieldOf(v, plan[i]), LAMBDA raw : ReadSlotOf(plan[i].slot, raw))])
ReadEach(slot, v) ==
    IF ~ IsArr(v) THEN Fault(MALFORMED_SHAPE)
    ELSE Listing([i \in DOMAIN v.arr |-> ReadSlotOf(slot, v.arr[i])])

BinaryOf(op, l, r)   == Case("binary", [op |-> Str(op), left |-> l, right |-> r])
ApplyOf(fn, args)    == Case("apply", [fn |-> Str(fn), args |-> args])
FlatBinary(op, v) ==
    Then(ReadPlan(FlatPlan, v), LAMBDA r : BinaryOf(op, Get(r, "left"), Get(r, "right")))

\* Any number of conditions fold to the left.
RECURSIVE FoldedLeft(_, _)
FoldedLeft(op, xs) ==
    IF Len(xs) = 1 THEN xs[1] ELSE BinaryOf(op, FoldedLeft(op, SubSeq(xs, 1, Len(xs) - 1)), xs[Len(xs)])
Variadic(op, v) ==
    Then(ReadEach("expr", Get(v, "exprs")),
         LAMBDA xs : IF xs.arr = <<>> THEN Fault(MALFORMED_SHAPE) ELSE FoldedLeft(op, xs.arr))

\* A scalar function spelled as the case itself.
FlatApply(fn, v) ==
    Then(ReadPlan(IF Absent(v, "args") THEN Membership ELSE <<M("args", "exprs")>>, v),
         LAMBDA r : ApplyOf(fn, IF Absent(v, "args") THEN Arr(<<Get(r, "expr")>>) ELSE Get(r, "args")))

\* Membership in a list of expressions or in a list parameter, and never both.
ReadIn(v) ==
    LET both == ~ Absent(v, "items") /\ ~ Absent(v, "param")
        list == IF Absent(v, "param") THEN M("items", "exprs") ELSE M("param", "text")
    IN CASE both -> After(ReadPlan(Membership, v), Fault(MALFORMED_SHAPE))
         [] ~ both /\ Absent(v, "items") /\ Absent(v, "param") -> After(ReadPlan(Membership, v), Fault(MISSING_FIELD))
         [] OTHER -> Tagged("in", ReadPlan(<<Membership[1], list>>, v))

ExprTag(tag) == IF tag \in {"call", "fn"} THEN "apply" ELSE tag
ReadColExpr(v) ==
    LET several(t) == t \in {"and", "or"} /\ ~ Absent(v, "exprs")
        tagged(t) ==
            CASE t \in DOMAIN ExprPlans -> Tagged(t, ReadPlan(ExprPlans[t], v))
              [] t = "in" -> ReadIn(v)
              [] several(t) -> Variadic(t, v)
              [] t \in FlatBinaries /\ ~ several(t) -> FlatBinary(t, v)
              [] t \in SCALAR_FNS -> FlatApply(t, v)
              [] OTHER -> Fault(UNKNOWN_TYPE)
    IN Then(Then(Field(v, "$type"), TextOf), LAMBDA raw : tagged(ExprTag(raw.str)))

(***************************************************************************)
(* The walk that counts an expression and names what it reads: it descends *)
(* by the members it knows.                                                *)
(***************************************************************************)
Flattened(F(_), xs) == SX!FlattenSeq([i \in DOMAIN xs |-> F(xs[i])])
MemberOf(v, k)  == IF Has(v, k) THEN <<Get(v, k)>> ELSE <<>>
MembersOf(v, k) == IF Has(v, k) /\ IsArr(Get(v, k)) THEN Get(v, k).arr ELSE <<>>
WalkedCase(c)   == MemberOf(c, "when") \o MemberOf(c, "then")
WalkedChildren(v) ==
    MemberOf(v, "expr") \o MemberOf(v, "left") \o MemberOf(v, "right") \o MemberOf(v, "else")
    \o MembersOf(v, "exprs") \o MembersOf(v, "args") \o MembersOf(v, "items")
    \o Flattened(WalkedCase, MembersOf(v, "cases"))
RECURSIVE Walk(_)
Walk(v) ==
    IF ~ IsObj(v) \/ TagOf(v) \in {"col", "param"} THEN <<v>>
    ELSE <<v>> \o Flattened(Walk, WalkedChildren(v))

ReadsColumn(seen) == \E i \in DOMAIN seen : TagOf(seen[i]) = "col"
ParamsIn(seen) ==
    {Get(seen[i], "name").str : i \in {j \in DOMAIN seen : TagOf(seen[j]) = "param"}}
    \cup {Get(seen[i], "param").str : i \in {j \in DOMAIN seen : TagOf(seen[j]) = "in" /\ Has(seen[j], "param")}}

(***************************************************************************)
(* Pipelines.                                                              *)
(***************************************************************************)
StepPlans == [
    project   |-> <<Al("columns", "cols", "pairs")>>,
    derive    |-> <<M("name", "any"), M("expr", "expr"), M("name", "text")>>,
    groupBy   |-> <<Al("keys", "by", "strs"), Al("aggs", "aggregations", "aggs")>>,
    join      |-> <<M("source", "source"), M("on", "pairs"), M("how", "joinKind")>>,
    window    |-> <<M("partitionBy", "strs"), M("orderBy", "orders"), M("fn", "windowFn"),
                    M("of", "unchecked"), M("as", "unchecked")>>,
    pivot     |-> <<M("index", "strs"), M("on", "unchecked"), M("values", "unchecked"), M("agg", "aggFn")>>,
    unpivot   |-> <<M("idVars", "strs"), M("valueVars", "strs")>>,
    sort      |-> <<Al("by", "keys", "orders")>>,
    distinct  |-> <<>>,
    union     |-> <<M("source", "source")>>,
    intersect |-> <<M("source", "source")>>,
    except    |-> <<M("source", "source")>>]
PairPlan == <<M("a", "any"), M("b", "any"), M("a", "text"), M("b", "text")>>
AggPlan  == <<Al("name", "as", "any"), Al("fn", "op", "any"), Al("of", "column", "any"),
              Al("fn", "op", "aggFn"), Al("name", "as", "text"), Al("of", "column", "text")>>

\* The order of a column: any text but desc is ascending, and so is none.
Directions == {"dir", "descending", "direction"}
DirOf(v, given) ==
    LET d == Get(v, CHOOSE k \in given : TRUE) IN
    CASE given = {} -> Str("asc")
      [] Cardinality(given) > 1 -> Fault(MALFORMED_SHAPE)
      [] given = {"descending"} /\ IsBool(d) -> Str(IF d.bool THEN "desc" ELSE "asc")
      [] given \in {{"dir"}, {"direction"}} /\ IsStr(d) -> IF d.str = "desc" THEN d ELSE Str("asc")
      [] OTHER -> Fault(MALFORMED_SHAPE)
ReadOrder(v) ==
    LET ordered(column, dir) == Unless(<<column, dir>>, With(column, "dir", dir))
    IN ordered(ReadPlan(<<Al("column", "col", "text")>>, v), DirOf(v, {k \in Directions : ~ Absent(v, k)}))

\* The predicate under either of its names, or the flat form of one comparison.
ScalarLit(v) ==
    LET kind == CASE IsBool(v) -> "Bool" [] IsInt(v) \/ "wide" \in DOMAIN v -> "Int"
                  [] "half" \in DOMAIN v -> "Float" [] OTHER -> "Str"
    IN Case("lit", [cell |-> Case(kind, [value |-> Canonical(v)])])
FlatOperand(v) ==
    CASE ~ Absent(v, "param") /\ IsStr(Get(v, "param")) -> Case("param", [name |-> Get(v, "param")])
      [] Absent(v, "param") /\ Has(v, "value") /\ IsScalar(Get(v, "value")) -> ScalarLit(Get(v, "value"))
      [] OTHER -> Fault(MALFORMED_SHAPE)
FlatFilter(v, column, op) ==
    CASE ~ IsStr(column) \/ ~ IsStr(op) -> Fault(MALFORMED_SHAPE)
      [] IsStr(column) /\ IsStr(op) /\ op.str \notin BIN_OPS -> Fault(UNKNOWN_TYPE)
      [] ~ Absent(v, "param") /\ Has(v, "value") -> Fault(MALFORMED_SHAPE)
      [] OTHER -> Then(FlatOperand(v), LAMBDA rhs : BinaryOf(op.str, Case("col", [name |-> column]), rhs))
Predicate(v) ==
    CASE ~ Absent(v, "pred") /\ ~ Absent(v, "predicate") -> Fault(MALFORMED_SHAPE)
      [] ~ Absent(v, "pred") /\ Absent(v, "predicate") -> ReadSlotOf("expr", Get(v, "pred"))
      [] Absent(v, "pred") /\ ~ Absent(v, "predicate") -> ReadSlotOf("expr", Get(v, "predicate"))
      [] OTHER -> IF Absent(v, "column") \/ Absent(v, "op") THEN Fault(MALFORMED_SHAPE)
                  ELSE FlatFilter(v, Get(v, "column"), Get(v, "op"))
ReadFilter(v) == Then(Predicate(v), LAMBDA pred : Case("filter", [pred |-> pred]))

\* An absent offset is 0.
ReadLimit(v) ==
    Tagged("limit", Assembled(<<"n", "offset">>,
        <<Then(FieldAliased(v, "n", "count"), WholeNumber),
          IF Absent(v, "offset") THEN Int32(0) ELSE WholeNumber(Get(v, "offset"))>>))

ReadStep(v) ==
    LET step(tag) == CASE tag = "filter" -> ReadFilter(v)
                       [] tag = "limit" -> ReadLimit(v)
                       [] tag \in DOMAIN StepPlans -> Tagged(tag, ReadPlan(StepPlans[tag], v))
                       [] OTHER -> Fault(UNKNOWN_TYPE)
    IN Then(Then(Field(v, "$type"), TextOf), LAMBDA tag : step(tag.str))

(***************************************************************************)
(* Frames.                                                                 *)
(***************************************************************************)
\* Metadata a field does not state is not written.
OptionalText(v, k) == CASE ~ Has(v, k) -> Drop [] Has(v, k) /\ IsStr(Get(v, k)) -> Get(v, k)
                        [] OTHER -> Fault(MALFORMED_SHAPE)
ReadExt(v) ==
    CASE ~ Has(v, "ext") -> Drop
      [] Has(v, "ext") /\ IsObj(Get(v, "ext")) /\ (\A k \in DOMAIN Get(v, "ext").obj : IsStr(Get(v, "ext").obj[k])) ->
            IF DOMAIN Get(v, "ext").obj = {} THEN Drop ELSE Get(v, "ext")
      [] OTHER -> Fault(MALFORMED_SHAPE)
FieldPlan == <<M("name", "any"), M("type", "any"), M("name", "text"), M("type", "type")>>
DecodeField(v) ==
    LET unit(u) == IF Bad(u) \/ Dropped(u) THEN u ELSE UnitOf(u)
        meta == Assembled(<<"unit", "label", "description", "ext">>,
                    <<unit(OptionalText(v, "unit")), OptionalText(v, "label"), OptionalText(v, "description"),
                      ReadExt(v)>>)
        whole(r, m) == Unless(<<r, m>>, Obj(r.obj @@ m.obj))
    IN whole(ReadPlan(FieldPlan, v), meta)

\* A bare list and a list without a mask hold every cell.
ColumnParts(v) ==
    LET bare == IsArr(v) \/ Absent(v, "validity")
        parts(values) ==
            CASE ~ IsArr(values) -> Fault(MALFORMED_SHAPE)
              [] IsArr(values) /\ ~ bare /\ ~ IsArr(Get(v, "validity")) -> Fault(MALFORMED_SHAPE)
              [] OTHER -> [values |-> values.arr,
                           mask |-> IF bare THEN [i \in DOMAIN values.arr |-> Bool(TRUE)] ELSE Get(v, "validity").arr]
    IN Then(IF IsArr(v) THEN v ELSE Field(v, "values"), parts)

\* The type of a column that declares none: whole numbers, numbers, truth values or texts.
InferType(values) ==
    LET kinds == {KindName(values[i]) : i \in DOMAIN values} IN
    CASE kinds \in {{"int"}, {"bool"}} -> Str(CHOOSE k \in kinds : TRUE)
      [] kinds = {"str"} -> Str("string")
      [] "float" \in kinds /\ kinds \subseteq {"int", "float"} -> Str("float")
      [] OTHER -> Fault(MALFORMED_SHAPE)
InferField(columns, name) ==
    Then(Then(ColumnParts(Get(columns, name)), LAMBDA parts : InferType(parts.values)),
         LAMBDA type : Obj([name |-> Str(name), type |-> type]))

DecodeCell(type, raw, valid) ==
    IF ~ IsBool(valid) THEN Fault(MALFORMED_SHAPE)
    ELSE IF valid.bool THEN DecodeCellValue(type, raw) ELSE PlaceholderOf(type)
DecodeParts(type, parts) ==
    IF Len(parts.values) # Len(parts.mask) THEN Fault(LENGTH_MISMATCH)
    ELSE Assembled(<<"values", "validity">>,
             <<Listing([i \in DOMAIN parts.values |-> DecodeCell(type, parts.values[i], parts.mask[i])]),
               Arr(parts.mask)>>)
DecodeColumn(columns, field) ==
    LET name == Get(field, "name").str IN
    IF ~ Has(columns, name) THEN Fault(MISSING_FIELD)
    ELSE Then(ColumnParts(Get(columns, name)), LAMBDA parts : DecodeParts(Get(field, "type").str, parts))

\* The schema is written whether it was declared or not; a reference keeps none.
InferSchema(columns) ==
    LET fields(names) == Listing([i \in DOMAIN names |-> InferField(columns, names[i])])
    IN IF IsObj(columns) THEN fields(InOrder(DOMAIN columns.obj)) ELSE Fault(MALFORMED_SHAPE)
SchemaOf(v) ==
    CASE Has(v, "schema") -> ReadEach("field", Get(v, "schema"))
      [] ~ Has(v, "schema") /\ Has(v, "ref") -> Fault(MALFORMED_SHAPE)
      [] OTHER -> Then(Field(v, "columns"), InferSchema)
\* A name declared twice is one column, at the type it is declared first.
ReadColumns(columns, fields) ==
    LET names    == [i \in DOMAIN fields.arr |-> Get(fields.arr[i], "name").str]
        first(n) == CHOOSE i \in DOMAIN names : names[i] = n /\ \A j \in 1..(i - 1) : names[j] # n
        whole(cols) == Unless(cols, Obj([schema |-> fields,
                                         columns |-> Obj([n \in {names[i] : i \in DOMAIN names} |-> cols[first(n)]])]))
    IN whole([i \in DOMAIN names |-> DecodeColumn(columns, fields.arr[i])])
ReadFrame(v) ==
    LET reference(ref) == Obj([schema |-> Arr(<<>>), ref |-> ref])
        embedded(fields) == IF Has(v, "ref") THEN Then(TextOf(Get(v, "ref")), reference)
                            ELSE Then(Field(v, "columns"), LAMBDA columns : ReadColumns(columns, fields))
    IN Then(SchemaOf(v), embedded)

\* The wrappers and the row-major data a transform's source may be written as:
\* the first row names the columns, and a cell a row lacks is null.
Enclosed(v) ==
    LET wrapped == TagOf(v) \in {"State", "Static", "Bound"} IN
    CASE wrapped /\ Has(v, "defaultValue") -> Get(v, "defaultValue")
      [] wrapped /\ ~ Has(v, "defaultValue") /\ Has(v, "value") -> Get(v, "value")
      [] OTHER -> v
Transposed(data) ==
    LET cell(row, k) == IF Has(row, k) THEN Get(row, k) ELSE Null
    IN IF IsArr(data) /\ data.arr # <<>> /\ IsObj(data.arr[1])
       THEN Obj([columns |-> Obj([k \in DOMAIN data.arr[1].obj |->
                                     Arr([i \in DOMAIN data.arr |-> cell(data.arr[i], k)])])])
       ELSE data
PlainSource(v) == Transposed(Enclosed(v))

(***************************************************************************)
(* What a member is read as.                                               *)
(***************************************************************************)
ReadSlotOf(slot, v) ==
    CASE slot = "any"    -> v
      [] slot = "text"   -> TextOf(v)
      [] slot = "expr"   -> ReadColExpr(v)
      [] slot = "exprs"  -> ReadEach("expr", v)
      [] slot = "branches" -> ReadEach("branch", v)
      [] slot = "branch" -> ReadPlan(BranchPlan, v)
      [] slot = "cell"   -> CellLiteral(v)
      [] slot = "binOp"  -> OneOf(v, BIN_OPS)
      [] slot = "scalarFn" -> OneOf(v, SCALAR_FNS)
      [] slot = "joinKind" -> OneOf(v, JOIN_KINDS)
      [] slot = "windowFn" -> WindowFn(v)
      [] slot = "aggFn"  -> AggFnOf(v)
      [] slot = "type"   -> Listed(v, COLUMN_TYPES)
      [] slot = "unit"   -> UnitOf(v)
      [] slot = "rounding" -> ReadPlan(RoundingPlan, v)
      [] slot = "mode"   -> Mode(v)
      [] slot = "scale"  -> ScaleOf(v)
      [] slot = "strs"   -> StrList(v)
      [] slot = "pairs"  -> ReadEach("pair", v)
      [] slot = "pair"   -> ReadPlan(PairPlan, v)
      [] slot = "orders" -> ReadEach("order", v)
      [] slot = "order"  -> ReadOrder(v)
      [] slot = "aggs"   -> ReadEach("agg", v)
      [] slot = "agg"    -> ReadPlan(AggPlan, v)
      [] slot = "source" -> ReadFrame(v)
      [] slot = "unchecked" -> Unchecked(v)
      [] slot = "whole"  -> WholeNumber(v)
      [] slot = "steps"  -> ReadEach("step", v)
      [] slot = "step"   -> ReadStep(v)
      [] slot = "field"  -> DecodeField(v)
=============================================================================
