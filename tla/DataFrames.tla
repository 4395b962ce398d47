----------------------------- MODULE DataFrames -----------------------------
(***************************************************************************)
(* The grid's edits and the evaluator over one table: the transforms an    *)
(* edit may apply are pipelines of Frames, and what the evaluator, the     *)
(* parameters bound to its pipelines and the deltas of its schemas promise *)
(* is stated of every table the edits reach.                               *)
(***************************************************************************)
EXTENDS GridEdit, Compute

CONSTANTS Pipelines,    \* the pipelines an ApplyTransform may name: steps by name
          Exprs,        \* the expressions a Derive is tried with, a sequence
          Preds,        \* the predicates a Filter is tried with, a sequence
          Other,        \* the table on the other side of a set operation or a join
          Decimals,     \* the decimals the rounding is tried on
          Targets,      \* the units a column is re-expressed in
          Chosen       \* what a reader may have chosen: sequences of cells

EvalNamed(name, t) == Pipeline(Pipelines[name], t)

Node(tag, args) == [tag |-> tag, args |-> args]
ColNode(name) == [tag |-> "Col", name |-> name, args |-> << >>]
ConvertNode(arg, unit) == [tag |-> "Convert", args |-> <<arg>>, unit |-> unit]
Missing(e) == e \o <<Node("IsNull", <<Len(e)>>)>>
Negated(e) == e \o <<Node("Not", <<Len(e)>>)>>

Frame == ToFrame(table)
\* An expression is tried where its columns are there to be read.
Bound(f, e) == \A i \in DOMAIN e : e[i].tag = "Col" => HasName(f.cols, e[i].name)

-----------------------------------------------------------------------------
\* "where the typer decides the column, that type IS its type on every frame"
\* (evaluate.py 1123): whatever edits and transforms made the table, every cell a typed
\* expression answers fits the type given before any row was read, and one typed absent
\* answers no present cell.  Of a table whose decimal columns hold decimals: an int in one
\* is the known exception (see DerivedColumnsFit).
DecimalsOnly == \A i \in DOMAIN table.cols : table.cols[i].type = "decimal" =>
                  \A c \in ToSet(table.cols[i].cells) : c.kind # "int"

TypingIsSound(f, e) ==
    LET t == Typing(f.cols, e)
        cells == {a.cell : a \in {b \in ToSet([r \in DOMAIN f.rows |-> EvalExpr(f.cols, f.rows[r], e)]) : b.err = "None"}}
    IN  CASE t = Absent  -> cells \subseteq {Null}
          [] t = Unknown -> TRUE
          [] OTHER       -> \A c \in cells : Fits(t, c)

DecidedTypesHold ==
    DecimalsOnly => \A x \in DOMAIN Exprs : LET e == Resolved(Frame.meta, Exprs[x]) IN TypingIsSound(Frame, e)

\* The same rule, of the columns the transforms made: a cell fits the type its column has.
DerivedColumnsFit ==
    \A i \in DOMAIN table.cols : \A c \in ToSet(table.cols[i].cells) : Fits(table.cols[i].type, c)

-----------------------------------------------------------------------------
\* "rounds the EXACT value once, never twice" (decimal_text.py 21): bringing a decimal to a
\* scale, and dividing two, give the decimal the mode's definition names, in every mode, for
\* every sign, with ties, and with the scale above and below the operands'.
QuantizeIsCorrect(mode, scale, a) ==
    LET q == Quantize(mode, scale, a)
    IN  IF a.s <= scale THEN q = a
        ELSE q.s <= scale /\ IsRounding(mode, Scaled(q, scale), a.n, PowerOfTen[a.s - scale])

DivideIsCorrect(mode, scale, a, b) ==
    LET q == Divide(mode, scale, a, b)
        num == Signed(b.n < 0, a.n) * PowerOfTen[scale + b.s]
    IN  q.s <= scale /\ IsRounding(mode, Scaled(q, scale), num, Magnitude(b.n) * PowerOfTen[a.s])

\* The decimals tried: all of them before the first edit, the table's own after.
Dividends ==
    IF edits = 0 THEN Decimals
    ELSE {DecimalOf(c) : c \in {x \in UNION {ToSet(table.cols[i].cells) : i \in DOMAIN table.cols} : Exact(x)}}
RoundingIsCorrect ==
    \A mode \in Modes, scale \in 0 .. MaxScale, a \in Dividends :
      /\ QuantizeIsCorrect(mode, scale, a)
      /\ \A b \in Decimals \ {Zero} : DivideIsCorrect(mode, scale, a, b)

-----------------------------------------------------------------------------
ColumnCells(f, name) == {f.rows[r][Position(f.cols, name)] : r \in DOMAIN f.rows}
Count(rows, row) == Cardinality({i \in DOMAIN rows : rows[i] = row})
\* The rows of the parts, with their multiplicity, are the rows of the whole.
Splits(whole, parts) ==
    \A row \in ToSet(whole) \union UNION {ToSet(parts[k]) : k \in DOMAIN parts} :
      Count(whole, row) = FoldLeft(LAMBDA n, part : n + Count(part, row), 0, parts)

\* A predicate, its negation and its nullity split the rows, or all three refuse.
FiltersSplit(f, p) ==
    LET split(kept) ==
          IF \A k \in {1, 2} : kept[k].err = "None"
          THEN kept[3].err = "None" /\ Splits(f.rows, [k \in 1 .. 3 |-> kept[k].frame.rows])
          ELSE \A k \in {1, 2} : kept[k].err # "None"
    IN  split([k \in 1 .. 3 |-> EvalFilter(f, <<p, Negated(p), Missing(p)>>[k])])

SetOpsSplit(f, g) ==
    LET split(both, rest) ==
          both.err = "None" =>
            /\ Splits(f.rows, <<both.frame.rows, rest.frame.rows>>)
            /\ ToSet(both.frame.rows) \subseteq ToSet(g.rows) /\ ToSet(rest.frame.rows) \intersect ToSet(g.rows) = {}
        over(kept) == split(kept[TRUE], kept[FALSE])
    IN  over([present \in BOOLEAN |-> EvalSetOp(present, f, g)])

\* A sort keeps the rows, puts nulls last whichever way, the rest in order, and equals where
\* they were.
SortsStably(f, name, asc) ==
    LET i == Position(f.cols, name)
        with(rows, cell) == SelectSeq(rows, LAMBDA row : row[i] = cell)
        ordered(a, b) == IF Null \in {a, b} THEN b = Null
                         ELSE IF asc THEN CompareCells(a, b) <= 0 ELSE CompareCells(a, b) >= 0
        sorted(s) ==
          /\ Splits(f.rows, <<s>>)
          /\ \A cell \in ColumnCells(f, name) : with(s, cell) = with(f.rows, cell)
          /\ \A j, k \in DOMAIN s : j < k => ordered(s[j][i], s[k][i])
    IN  sorted(SortRows(f.cols, <<[name |-> name, asc |-> asc]>>, f.rows))

\* An outer join has every row of both sides, and the inner's rows among its own.
JoinsKeepBothSides(f, g, on) ==
    LET join == [how \in {"inner", "left", "right", "outer"} |-> EvalJoin(f, g, on, how)]
        left(row) == SubSeq(row, 1, Len(f.cols))
        right(row) == SubSeq(row, Len(f.cols) + 1, Len(row))
        kept(answer, rows) ==
          answer["outer"].err = "None" =>
            /\ ToSet(f.rows) \subseteq {left(row) : row \in rows["outer"]}
            /\ ToSet(g.rows) \subseteq {right(row) : row \in rows["outer"]}
            /\ rows["outer"] = rows["left"] \union rows["right"]
            /\ rows["inner"] = rows["left"] \intersect rows["right"]
        over(answer) == kept(answer, [how \in DOMAIN answer |-> ToSet(answer[how].frame.rows)])
    IN  over(join)

\* Two ways to one number: a group's sum is where its running total ends, its row count where
\* its row numbers end, and a pivot's cell is the group's of its index and its on value.
SameNumber(a, b) == (a = Null /\ b = Null) \/ (Comparable(a, b) /\ CompareCells(a, b) = 0)
SummariesAgree(f, key, of) ==
    LET window(fn) == EvalWindow(f, [fn |-> fn, of |-> of, partition |-> <<key>>, order |-> << >>, as |-> "out"]).frame.rows
        at == Position(f.cols, key)
        ends(rows, cell) == Last(Last(SelectSeq(rows, LAMBDA row : row[at] = cell)))
        size(cell) == Cardinality({r \in DOMAIN f.rows : f.rows[r][at] = cell})
        agree(grouped, outs) ==
          grouped.err = "None" =>
            \A row \in ToSet(grouped.frame.rows) :
              /\ row[2] # Null => SameNumber(row[2], ends(outs["cumulSum"], row[1]))
              /\ ends(outs["rowNumber"], row[1]) = IntCell(size(row[1]))
    IN  agree(EvalGroupBy(f, <<key>>, <<[name |-> "sum", fn |-> "sum", of |-> of]>>),
              [fn \in {"cumulSum", "rowNumber"} |-> window(fn)])

\* An index cell has one row of a pivot, a NaN as many as the table; what its rows have of
\* an on value, added up, is what the grouping has of the two.
PivotsGroup(f, index, on, of) ==
    LET groups(rows, key, text) == {row \in rows : row[1] = key /\ row[2] # Null /\ Text(row[2]) = text}
        summed(rows) == IF rows = {} THEN Null ELSE (CHOOSE row \in rows : TRUE)[3]
        keyed(rows, key) == SelectSeq(rows, LAMBDA row : row[1] = key)
        folded(p, k, key) == Aggregate("sum", p.cols[k].type, CellsAt(keyed(p.rows, key), k)).cell
        agree(pivoted, grouped) ==
          pivoted.err = "None" /\ grouped.err = "None" =>
            \A key \in ColumnCells(f, index) :
              /\ Len(keyed(pivoted.frame.rows, key)) =
                   IF key = NaN THEN Cardinality({r \in DOMAIN f.rows : f.rows[r][Position(f.cols, index)] = NaN}) ELSE 1
              /\ \A k \in 2 .. Len(pivoted.frame.cols) :
                   folded(pivoted.frame, k, key) = summed(groups(ToSet(grouped.frame.rows), key, pivoted.frame.cols[k].name))
    IN  agree(EvalPivot(f, [index |-> <<index>>, on |-> on, values |-> of, agg |-> "sum"]),
              EvalGroupBy(f, <<index, on>>, <<[name |-> "sum", fn |-> "sum", of |-> of]>>))

\* What the verbs promise each other, of every table the edits reach: no verb loses, invents
\* or repeats a row, and two verbs that compute one number agree on it.
NumberColumns(f) == {f.cols[i].name : i \in {j \in DOMAIN f.cols : f.cols[j].type \in {"int", "float", "decimal"}}}
\* A pivot makes one column of an int and a float that
\* are equal, where a grouping makes two groups, so it is compared where there are none.
\* The table with a column more, of its readings, a NaN for each that is missing.
WithNaN(f, name) ==
    EvalDerive(f, "or NaN", <<ColNode(name), [tag |-> "Cast", type |-> "float", args |-> <<1>>],
                              [tag |-> "Lit", cell |-> StrCell("NaN"), args |-> << >>],
                              [tag |-> "Cast", type |-> "float", args |-> <<3>>], Node("Coalesce", <<2, 4>>)>>).frame
Pivotable(f, name) ==
    /\ \A c \in ColumnCells(f, name) : Text(c) \in ToSet(StringOrder)
    /\ \A c, d \in ColumnCells(f, name) : CellEq(c, d) => c = d
VerbsAgree ==
    LET f == Frame
        g == ToFrame(Other)
        names == ToSet(Names(f.cols))
    IN  /\ \A x \in DOMAIN Preds : Bound(f, Preds[x]) => FiltersSplit(f, Preds[x])
        /\ SetOpsSplit(f, g)
        /\ \A n \in names, asc \in BOOLEAN : SortsStably(f, n, asc)
        /\ \A n \in names \intersect ToSet(Names(g.cols)) : JoinsKeepBothSides(f, g, <<[left |-> n, right |-> n]>>)
        /\ \A n \in names, of \in NumberColumns(f) : n # of => SummariesAgree(f, n, of)
        /\ \A n, on \in names, of \in NumberColumns(f) : 
              Cardinality({n, on, of}) = 3 /\ Pivotable(f, on) =>
                PivotsGroup(f, n, on, of) /\ (n \in NumberColumns(f) => PivotsGroup(WithNaN(f, n), "or NaN", on, of))

-----------------------------------------------------------------------------
\* Units mean something: a column re-expressed in another unit, by the Convert that exists
\* for it, changes no answer.  An expression both tables admit answers the same quantity over
\* both, in base units, each answer read in the unit its table gives it; a comparison answers
\* the same verdict.
SizeOf(u) ==      \* of one unit of u, in base units
    FoldFunction(LAMBDA x, y : FloatArith("mul", x, y).cell, FloatCell(1, 1),
                 [a \in Atoms |-> Pow(FloatCell(Ratio[a][1], Ratio[a][2]), IntCell(u[a])).cell])
Quantity(answer, units) ==
    IF units = {} \/ answer.err # "None" THEN answer
    ELSE Arith("mul", CastCell("float", answer.cell).cell, SizeOf(CHOOSE u \in units : TRUE))
Quantities(f, e, units) ==
    LET read(answers) == [r \in DOMAIN answers |-> Quantity(answers[r], units)] IN read(Evaluated(f, e))

UnitsMeanTheSame ==
    LET same(f, g, e, u, v) ==
          u.ok /\ v.ok => Quantities(f, e, u.unit) = Quantities(g, e, v.unit)
        compared(f, g, e) == same(f, g, e, UnitCheck(f, e), UnitCheck(g, e))
        unchanged(f, changed) ==
          changed.err = "None" =>
            \A x \in DOMAIN Exprs : Bound(f, Exprs[x]) => compared(f, changed.frame, Exprs[x])
        converted(f, name) ==
          ColUnit(f, name) # {} =>
            \A target \in Targets : unchanged(f, EvalDerive(f, name, <<ColNode(name), ConvertNode(1, target)>>))
    IN  \A name \in ToSet(Names(Frame.cols)) : converted(Frame, name)

-----------------------------------------------------------------------------
\* "Leniency here has a stated purpose - an unset filter chip means "no constraint" - and it
\* is a statement about a control the document DECLARED" (compute/evaluate.py 470): over every
\* table, a reader who chooses several values of a column sees the rows each would show, one
\* who takes every choice back sees them all, however the choice reached the host; a name that
\* is not declared, or is read as what it is not, is refused and never shows them all.
Control(from, carried) == <<[name |-> "choice", binding |-> [from |-> from, key |-> "chip", field |-> {"key"}, carried |-> carried]]>>
Picked(v) == RowValue("key" :> v.cells[1])
Filtering(e) == [verb |-> "Filter", pred |-> e]
IsOne(n) == <<ColNode(n), [tag |-> "Param", name |-> "choice", args |-> << >>], [tag |-> "Binary", op |-> "eq", args |-> <<1, 2>>]>>
IsAmong(n) == <<ColNode(n), [tag |-> "InParam", name |-> "choice", args |-> <<1>>]>>

\* What a document declares and what the host holds, by how the value reached it.
Asking(step, params, store) == [step |-> step, params |-> params, store |-> store]
Ways == {"stored", "declared", "overridden", "picked", "whole row", "unset", "undeclared", "derived"}
Asked(how, e, v) ==
    CASE how = "stored"     -> Asking(Filtering(e), Control("Filter", {}), "chip" :> v)
      [] how = "declared"   -> Asking(Filtering(e), Control("State", {v}), << >>)
      [] how = "overridden" -> Asking(Filtering(e), Control("Filter", {EmptyTable}), "chip" :> v)
      [] how = "picked"     -> Asking(Filtering(e), Control("Selection", {}), "chip" :> Picked(v))
      [] how = "whole row"  -> Asking(Filtering(e), Control("Filter", {}), "chip" :> Picked(v))
      [] how = "unset"      -> Asking(Filtering(e), Control("Selection", {}), << >>)
      [] how = "undeclared" -> Asking(Filtering(e), << >>, "chip" :> v)
      [] how = "derived"    -> Asking([verb |-> "Derive", name |-> "new", expr |-> e], Control("Filter", {}), << >>)

\* The k-th choice as a list, and the j-th value of it by itself.
Choice(k, j) == IF j = 0 THEN ListValue(Chosen[k]) ELSE ScalarValue(Chosen[k][j])
Of(k) == 0 .. Len(Chosen[k])
Answered(asked) ==
    EvaluateTransform([source |-> [from |-> "Embedded", carried |-> {TableValue(table)}],
                       pipeline |-> <<asked.step>>, params |-> asked.params], asked.store)
Answers(n) ==
    [among \in BOOLEAN, how \in Ways, k \in DOMAIN Chosen |->
       [j \in Of(k) |-> Answered(Asked(how, IF among THEN IsAmong(n) ELSE IsOne(n), Choice(k, j)))]]

Shown(answer) == ToFrame(answer.table).rows
Unfiltered(answer) == answer.err = "None" /\ Shown(answer) = Frame.rows
Strict(answer) == IF Frame.rows = << >> THEN Unfiltered(answer) ELSE answer.err = "UNBOUND_PARAM"

\* The answer to several choices, and to each by itself.
ChoicesUnite(several, single) ==
    LET each == [k \in DOMAIN single |-> ToSet(Shown(single[k]))]
    IN  IF \A k \in DOMAIN single : single[k].err = "None"
        THEN /\ several.err = "None"
             /\ Shown(several) = SelectSeq(Frame.rows, LAMBDA row : \E k \in DOMAIN each : row \in each[k])
        ELSE several.err \in {"None"} \union {single[k].err : k \in DOMAIN single}

ScopedBy(answer) ==
    /\ \A k \in DOMAIN Chosen :
         LET of(among) == IF among THEN {0} ELSE Of(k) \ {0}
             none == Chosen[k] = << >>
         IN  /\ IF none THEN Unfiltered(answer[TRUE, "stored", k][0])
                 ELSE ChoicesUnite(answer[TRUE, "stored", k][0], Tail([j \in 1 .. Len(Chosen[k]) + 1 |-> answer[FALSE, "stored", k][j - 1]]))
             /\ \A among \in BOOLEAN, how \in {"declared", "overridden"} : \A j \in of(among) :
                  answer[among, how, k][j] = answer[among, "stored", k][j]
             /\ \A j \in of(FALSE) : /\ answer[FALSE, "picked", k][j] = answer[FALSE, "stored", k][j]
                                     /\ answer[FALSE, "whole row", k][j].err = "TYPE_ERROR"
                                     /\ Strict(answer[TRUE, "stored", k][j])
             /\ none \/ Strict(answer[FALSE, "stored", k][0])
    /\ \A among \in BOOLEAN : /\ Unfiltered(answer[among, "unset", 1][0])
                              /\ Strict(answer[among, "undeclared", 1][0])
                              /\ Strict(answer[among, "derived", 1][0])

ParametersScope == \A n \in ToSet(Names(Frame.cols)) : ScopedBy(Answers(n))

-----------------------------------------------------------------------------
\* "patch(old, diff(old, target)) == Ok(target)", and diff(a, a) is the identity (schema.py
\* 8): a consumer that holds the schema of a table and is sent deltas has the schema of the
\* next.  A delta replayed on a schema it was not taken of is refused, or changes just what it
\* names; and a consumer told at each step that it may read on may read on from the first to
\* the last.
Schemas(tables) == {SchemaOf(ToFrame(t)) : t \in tables}
Before == Schemas(ToSet(past) \union ToSet(future))
After == Schemas({ApplyEdit(op, table).table : op \in {o \in Ops : o.tag # "ApplyTransform"}})
\* What a delta names, in whatever order; of a column it removes the metadata is not looked at.
Told(delta) ==
    LET amends(name, member) == Among(delta.amended, {a \in ToSet(delta.amended) : a.name = name /\ a.change.member = member})
    IN  [added |-> ToSet(delta.added), removed |-> ToSet(Names(delta.removed)), retyped |-> ToSet(delta.retyped),
         amended |-> [name \in ToSet(Names(delta.amended)) |-> [k \in DOMAIN Members |-> amends(name, Members[k])]]]
Compatible(old, target, name) == Classify({name}, SchemaDiff(old, target)) = "compatible"

Replays(delta, other) ==
    LET p == SchemaPatch(other, delta) IN p.err = "None" => Told(SchemaDiff(other, p.fields)) = Told(delta)
SchemaDeltasTell(now) ==
    /\ SchemaDiff(now, now) = IDENTITY_DELTA
    /\ \A s \in Before \union After :
         /\ SchemaPatch(now, SchemaDiff(now, s)) = Patched("None", s)
         /\ SchemaPatch(s, SchemaDiff(s, now)) = Patched("None", now)
         /\ \A other \in Before \union After : Replays(SchemaDiff(now, s), other)
    /\ \A s \in Before, t \in After : \A name \in ToSet(Names(s)) :
         Compatible(s, now, name) /\ Compatible(now, t, name) => Compatible(s, t, name)

\* A consumer told only the deltas misses nothing, of the rows or of the columns.
DeltasTellAll == DeltaTellsAll /\ SchemaDeltasTell(SchemaOf(Frame))
=============================================================================
