--------------------------- MODULE AuthoredFrames ---------------------------
(***************************************************************************)
(* The writer of embedded frames, expressions and pipelines                *)
(* (_core/dataframe/codec.py, the encode half), and the documents that     *)
(* bind one: each form of an expression and each verb by itself.           *)
(***************************************************************************)
EXTENDS AuthoredValues

(***************************************************************************)
(* Frames.  A null cell is written as its type's placeholder, told by the  *)
(* mask; a whole number widens in a column of decimals.                    *)
(***************************************************************************)
CellPlaceholders == [int |-> Int32(0), float |-> Int32(0), bool |-> Bool(FALSE), decimal |-> Str("0"),
                     string |-> Str(""), date |-> Str("")]
CellValue(type, cell) ==
    CASE IsNull(cell) -> CellPlaceholders[type]
      [] type = "decimal" /\ IsInt(cell) -> Str(ToString(cell.int))
      [] OTHER -> cell
ColumnOf(type, cells) ==
    Obj([values   |-> Arr([i \in DOMAIN cells |-> CellValue(type, cells[i])]),
         validity |-> Arr([i \in DOMAIN cells |-> Bool(~ IsNull(cells[i]))])])
\* A field states its name and type, and the metadata it has.
FieldOf(type) == Plain(<<Put("name", Txt), Put("type", Str(type)), May("unit", Str("s/m2")), May("label", Txt),
                         May("description", Txt), May("ext", Obj([region |-> Txt]))>>)
FrameOf(field, column) == Obj([schema |-> Arr(<<field>>), columns |-> Obj([amount |-> column])])
\* A cell that does not belong to its column is refused, and has no document.
Belongs(type, cell) == \/ IsNull(cell)
                       \/ IsInt(cell) /\ type \in {"int", "float", "decimal"}
                       \/ "half" \in DOMAIN cell /\ type = "float"
                       \/ IsBool(cell) /\ type = "bool"
                       \/ cell = Str("12.5") /\ type = "decimal"
                       \/ IsStr(cell) /\ type = "string"
                       \/ cell = Str("2024-02-29") /\ type = "date"
SomeCells == {Int32(7), Half(5), Bool(TRUE), Str("12.5"), Txt, Str("2024-02-29")}
Columns   == {FrameOf(Least(FieldOf(type)), ColumnOf(type, <<cell, Null>>)) :
                 <<type, cell>> \in {p \in (DOMAIN CellPlaceholders) \X SomeCells : Belongs(p[1], p[2])}}
Described == {FrameOf(field, ColumnOf("int", <<Int32(7)>>)) : field \in Writes(<<FieldOf("int")>>)}
Reference == Obj([schema |-> Arr(<<>>), ref |-> Key])
Frames    == Columns \cup Described \cup {Reference}
Frame     == FrameOf(Least(FieldOf("int")), ColumnOf("int", <<Int32(7)>>))

(***************************************************************************)
(* Expressions.                                                            *)
(***************************************************************************)
Literal(tag, v) == Class(tag, <<Put("value", v)>>)
Literals == <<
    Class("Null", <<>>), Literal("Int", Int32(7)), Literal("Float", Half(5)), Literal("Bool", Bool(TRUE)),
    Literal("Str", Txt), Literal("Date", Str("2024-02-29")), Literal("Timestamp", Txt),
    Literal("Decimal", Str("12.5"))>>
Lit   == Case("lit", [cell |-> Least(Literals[2])])
Arg   == Case("param", [name |-> Key])
\* The scale of a rounding is a number or the parameter that holds it.
Rounding == Plain(<<Put("mode", Str("half-even")), Either("scale", Int32(2), Obj("$param" :> Key))>>)
Exprs == <<
    Class("lit", <<Put("cell", Least(Literals[1]))>>), Class("param", <<Put("name", Key)>>),
    Class("binary", <<Put("op", Str("add")), Put("left", Lit), Put("right", Arg)>>),
    Class("not", <<Put("expr", Lit)>>), Class("coalesce", <<Listed("exprs", Arg)>>),
    Class("case", <<Listed("cases", Obj([when |-> Arg, then |-> Lit])), Put("else", Lit)>>),
    Class("cast", <<Put("type", Str("float")), Put("expr", Lit)>>),
    Class("apply", <<Put("fn", Str("abs")), Listed("args", Arg)>>),
    Class("in", <<Put("expr", Lit), Listed("items", Arg)>>), Class("in", <<Put("expr", Lit), Put("param", Key)>>),
    Class("isNull", <<Put("expr", Arg)>>),
    Class("quotient", <<Put("dividend", Lit), Put("divisor", Arg), Put("rounding", Least(Rounding))>>),
    Class("rounded", <<Put("expr", Lit), Put("rounding", Least(Rounding))>>),
    Class("convert", <<Put("expr", Lit), Put("unit", Str("s/m2"))>>)>>
Col == Class("col", <<Put("name", Txt)>>)
RowFree == Writes(Exprs) \cup Holding(Exprs[1], "cell", Writes(Literals))
           \cup Holding(Exprs[13], "rounding", Writes(<<Rounding>>))

(***************************************************************************)
(* Pipelines.                                                              *)
(***************************************************************************)
PairOf   == Obj([a |-> Txt, b |-> Key])
OrderOf  == Plain(<<Put("column", Txt), Either("dir", Str("asc"), Str("desc"))>>)
Agg      == Obj([name |-> Key, fn |-> Str("mean"), of |-> Txt])
Combined(tag) == Class(tag, <<Put("source", Frame)>>)
Steps == <<
    Class("filter", <<Put("pred", Least(Col))>>), Class("project", <<Listed("columns", PairOf)>>),
    Class("derive", <<Put("name", Txt), Put("expr", Least(Col))>>),
    Class("groupBy", <<Listed("keys", Txt), Listed("aggs", Agg)>>),
    Class("join", <<Put("source", Frame), Listed("on", PairOf), Put("how", Str("left"))>>),
    Class("window", <<Listed("partitionBy", Txt), Listed("orderBy", Least(OrderOf)), Put("fn", Str("rank")),
                      Put("of", Txt), Put("as", Key)>>),
    Class("pivot", <<Listed("index", Txt), Put("on", Txt), Put("values", Key), Put("agg", Str("sum"))>>),
    Class("unpivot", <<Listed("idVars", Txt), Listed("valueVars", Key)>>),
    Class("sort", <<Put("by", Arr(<<Least(OrderOf)>>))>>), Class("distinct", <<>>),
    Class("limit", <<Put("n", Int32(7)), Either("offset", Int32(0), Int32(2))>>),
    Combined("union"), Combined("intersect"), Combined("except")>>
AuthoredSteps == Writes(Steps) \cup Holding(Steps[9], "by", Lists(Writes(<<OrderOf>>)))

(***************************************************************************)
(* The bindings that carry one.                                            *)
(***************************************************************************)
Bound       == Obj([from |-> Live, name |-> Key])
Expression  == Class("Expr", <<Put("expr", Lit), Put("params", Arr(<<Bound>>))>>)
Transform   == Class("Transform", <<Filled("params", Bound), Listed("pipeline", Least(Steps[10])),
                                    Put("source", Frame)>>)
FrameBindings ==
    Holding(Expression, "expr", RowFree) \cup Writes(<<Transform>>)
    \cup Holding(Transform, "source", Frames \cup {Live, With(Live, "defaultValue", Frame)})
    \cup Holding(Transform, "pipeline", Lists(AuthoredSteps))
FrameNodes == {Obj([id |-> Key, kind |-> Case("Metric", [label |-> Txt, value |-> b])]) : b \in FrameBindings}
=============================================================================
