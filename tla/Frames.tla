------------------------------- MODULE Frames -------------------------------
(***************************************************************************)
(* The verbs of the columnar evaluator and its pipeline                    *)
(* (_core/dataframe/evaluate.py).                                          *)
(*                                                                         *)
(* A frame is [cols, rows, meta]: the schema, the rows in order, and the   *)
(* metadata of the columns that state any.  A table is [cols, meta], its   *)
(* columns carrying their cells.  An answer is [err, frame].               *)
(***************************************************************************)
EXTENDS ColExprs

Answer(err, f) == [err |-> err, frame |-> f]
Succeed(cols, rows, meta) ==
    Answer("None", [cols |-> cols, rows |-> rows,
                    meta |-> Restrict(meta, {n \in DOMAIN meta : meta[n] # NoMetadata})])

\* A table that has two columns of one name is read by the last of them.
ToFrame(t) ==
    LET cellsOf(name) == t.cols[Max({i \in DOMAIN t.cols : t.cols[i].name = name})].cells
        count == IF t.cols = << >> THEN 0 ELSE Len(t.cols[1].cells)
        at(cells, r) == IF r \in DOMAIN cells THEN cells[r] ELSE Null
    IN  [cols |-> [i \in DOMAIN t.cols |-> [name |-> t.cols[i].name, type |-> t.cols[i].type]],
         rows |-> [r \in 1 .. count |-> [i \in DOMAIN t.cols |-> at(cellsOf(t.cols[i].name), r)]],
         meta |-> t.meta]

OfFrame(f) ==
    [cols |-> [i \in DOMAIN f.cols |-> [name |-> f.cols[i].name, type |-> f.cols[i].type,
                                        cells |-> [r \in DOMAIN f.rows |-> f.rows[r][i]]]],
     meta |-> Restrict(f.meta, {f.cols[i].name : i \in DOMAIN f.cols} \intersect DOMAIN f.meta)]

Names(cols) == [i \in DOMAIN cols |-> cols[i].name]
Pick(row, is) == [k \in DOMAIN is |-> row[is[k]]]
\* The members of a sequence at the positions that pass.
Those(s, Test(_)) ==
    LET is == SelectSeq([i \in DOMAIN s |-> i], Test) IN [k \in DOMAIN is |-> s[is[k]]]
\* The positions whose key no earlier position has, in order.
Firsts(keys) ==
    SelectSeq([i \in DOMAIN keys |-> i], LAMBDA i : \A j \in 1 .. i - 1 : keys[j] # keys[i])
Once(s) == Pick(s, Firsts(s))

-----------------------------------------------------------------------------
\* Order by keys [name, asc]: nulls last whichever way; a key that is no column, and a
\* pair that does not compare, decide nothing.
KeyOrder(asc, a, b) ==
    IF a = Null \/ b = Null THEN Order(IF a = Null THEN 1 ELSE 0, IF b = Null THEN 1 ELSE 0)
    ELSE IF ~Comparable(a, b) THEN 0
    ELSE IF asc THEN CompareCells(a, b) ELSE -CompareCells(a, b)

RowOrder(cols, by, r1, r2) ==
    FoldLeft(LAMBDA c, key :
               IF c # 0 \/ ~HasName(cols, key.name) THEN c
               ELSE KeyOrder(key.asc, r1[Position(cols, key.name)], r2[Position(cols, key.name)]),
             0, by)

\* The positions in the order of a stable sort.
SortedPositions(n, Before(_, _)) ==
    LET ahead(i) == {j \in 1 .. n : Before(j, i) \/ (~Before(i, j) /\ j < i)}
    IN  [k \in 1 .. n |-> CHOOSE i \in 1 .. n : Cardinality(ahead(i)) = k - 1]

SortRows(cols, by, rows) ==
    LET is == SortedPositions(Len(rows), LAMBDA i, j : RowOrder(cols, by, rows[i], rows[j]) < 0)
    IN  Pick(rows, is)

-----------------------------------------------------------------------------
\* Aggregates.  Nulls are skipped, but by first and last.
FloatSum(cells) == FoldLeft(LAMBDA sum, c : FloatArith("add", sum, c).cell, FloatCell(0, 1), cells)

FloatAnswer(fn, cells) ==
    LET n == Len(cells)
        ordered == Pick(cells, SortedPositions(n, LAMBDA i, j : CompareFloat(cells[i], cells[j]) < 0))
        middle == SubSeq(ordered, (n + 1) \div 2, n \div 2 + 1)
        mean(xs) == FloatArith("div", FloatSum(xs), IntCell(Len(xs)))
    IN  IF cells = << >> THEN Good(Null)
        ELSE IF fn = "sum" THEN Good(FloatSum(cells)) ELSE mean(IF fn = "mean" THEN cells ELSE middle)

\* min keeps the first of equal minima, max the last of equal maxima.
Extreme(fn, cells) ==
    IF cells = << >> THEN Null
    ELSE FoldLeft(LAMBDA best, c :
                    IF Comparable(best, c) /\ (fn = "min") # (CompareCells(best, c) <= 0) THEN c ELSE best,
                  Head(cells), Tail(cells))

Edge(fn, cells) == IF cells = << >> THEN Null ELSE IF fn = "first" THEN Head(cells) ELSE Last(cells)

\* A decimal column is admitted first: every present cell exact, and read as a decimal.
AggDecimals(fn, cells) ==
    LET admitted == [i \in DOMAIN cells |-> IF cells[i] = Null THEN Null ELSE DecimalCell(DecimalOf(cells[i]))]
        present == SelectSeq(admitted, LAMBDA c : c # Null)
    IN  IF \E i \in DOMAIN cells : cells[i] # Null /\ ~Exact(cells[i]) THEN Fail("AGG_ERROR")
        ELSE CASE fn = "count" -> Good(IntCell(Len(present)))
               [] fn \in {"first", "last"} -> Good(Edge(fn, admitted))
               [] fn \in {"min", "max"} -> Good(Extreme(fn, present))
               [] fn = "countDistinct" -> Good(IntCell(Cardinality(ToSet(present))))
               [] fn = "sum" -> IF present = << >> THEN Good(Null)
                                ELSE Good(DecimalCell(FoldLeft(LAMBDA t, c : Add(t, DecimalOf(c)), Zero, present)))
               [] OTHER -> FloatAnswer(fn, [i \in DOMAIN present |-> CastToFloat(present[i]).cell])

\* sum over an int column reads a float cell by its integer part.
AggOthers(fn, type, cells) ==
    LET present == SelectSeq(cells, LAMBDA c : c # Null)
        numbers == SelectSeq(cells, Numeric)
    IN  CASE fn = "count" -> Good(IntCell(Len(present)))
          [] fn \in {"first", "last"} -> Good(Edge(fn, cells))
          [] fn = "countDistinct" -> Good(IntCell(Cardinality(ToSet(present))))
          [] fn \in {"min", "max"} -> Good(Extreme(fn, present))
          [] OTHER -> IF type \notin {"int", "float"} THEN Fail("AGG_ERROR")
                      ELSE IF fn = "sum" /\ type = "int" /\ numbers # << >>
                      THEN Good(IntCell(FoldLeft(LAMBDA t, c : t + CastToInt(c).cell.n, 0, numbers)))
                      ELSE FloatAnswer(fn, numbers)

Aggregate(fn, type, cells) == IF type = "decimal" THEN AggDecimals(fn, cells) ELSE AggOthers(fn, type, cells)

AggType(fn, type) ==
    IF fn \in {"count", "countDistinct"} THEN "int" ELSE IF fn \in {"mean", "median"} THEN "float" ELSE type
AggUnit(fn, unit) == IF fn \in {"count", "countDistinct"} THEN {} ELSE unit

-----------------------------------------------------------------------------
\* What an expression's own column states: its unit.
Stated(unit) == [unit |-> unit, label |-> ""]
ColUnit(f, name) == MetaOf(f.meta, name).unit
UnitCheck(f, e) == UnitsOf(f.meta, e)[Len(e)]
Evaluated(f, e) == [r \in DOMAIN f.rows |-> EvalExpr(f.cols, f.rows[r], Resolved(f.meta, e))]

\* The first row's refusal, or the answer made of every row's cell.
OnCells(f, answers, With(_)) ==
    IF Failures(answers) # {} THEN Answer(answers[Min(Failures(answers))].err, f) ELSE With(CellsOf(answers))

EvalFilter(f, e) ==
    IF ~UnitCheck(f, e).ok THEN Answer("UNIT_MISMATCH", f)
    ELSE OnCells(f, Evaluated(f, e), LAMBDA cells :
           Succeed(f.cols, Those(f.rows, LAMBDA r : cells[r] = BoolCell(TRUE)), f.meta))

\* Unknown names are refused before a name that is given twice.
EvalProject(f, pairs) ==
    LET from == [k \in DOMAIN pairs |-> Position(f.cols, pairs[k].src)]
    IN  IF \E k \in DOMAIN pairs : ~HasName(f.cols, pairs[k].src) THEN Answer("UNKNOWN_COLUMN", f)
        ELSE IF ~IsInjective([k \in DOMAIN pairs |-> pairs[k].out]) THEN Answer("TYPE_ERROR", f)
        ELSE Succeed([k \in DOMAIN pairs |-> [name |-> pairs[k].out, type |-> f.cols[from[k]].type]],
                     [r \in DOMAIN f.rows |-> Pick(f.rows[r], from)],
                     [n \in {pairs[k].out : k \in DOMAIN pairs} |->
                        MetaOf(f.meta, (CHOOSE k \in Range(pairs) : k.out = n).src)])

\* The frame with a column set: in place where it has the name, else at the end.
WithCells(f, name, type, cells, unit) ==
    LET i == IF HasName(f.cols, name) THEN Position(f.cols, name) ELSE Len(f.cols) + 1
        set(s, x) == [k \in 1 .. Larger(Len(s), i) |-> IF k = i THEN x ELSE s[k]]
    IN  Succeed(set(f.cols, [name |-> name, type |-> type]), [r \in DOMAIN f.rows |-> set(f.rows[r], cells[r])],
                (name :> Stated(unit)) @@ f.meta)

\* Refused statically on every frame, or typed before any row, or by the cells.
EvalDerive(f, name, e) ==
    LET typed(type, unit, cells) ==
          IF type = Refused THEN Answer("TYPE_ERROR", f) ELSE WithCells(f, name, type, cells, unit)
        derived(check, typing) ==
          IF ~check.ok THEN Answer("UNIT_MISMATCH", f)
          ELSE IF typing = Refused THEN Answer("TYPE_ERROR", f)
          ELSE OnCells(f, Evaluated(f, e), LAMBDA cells :
                 typed(IF typing = Unknown THEN TypeFromCells(cells) ELSE typing, check.unit, cells))
    IN  derived(UnitCheck(f, e), DerivedTyping(f.cols, Resolved(f.meta, e)))

CellsAt(rows, i) == [r \in DOMAIN rows |-> rows[r][i]]
\* One row per group: its keys' cells and its answers, refused where one is.
Summaries(f, cols, keys, answers, meta) ==
    IF \E g \in DOMAIN keys : Failures(answers[g]) # {} THEN Answer("AGG_ERROR", f)
    ELSE Succeed(cols, [g \in DOMAIN keys |-> keys[g] \o CellsOf(answers[g])], meta)

\* Groups in the order they first appear, keyed on the tokens of the key cells.
EvalGroupBy(f, keys, aggs) ==
    LET at == [k \in DOMAIN keys |-> Position(f.cols, keys[k])]
        of(a) == Position(f.cols, a.of)
        keyed == [r \in DOMAIN f.rows |-> Pick(f.rows[r], at)]
        answer(i, a) == Aggregate(a.fn, f.cols[of(a)].type,
                                  CellsAt(Those(f.rows, LAMBDA r : keyed[r] = keyed[i]), of(a)))
        names == keys \o [k \in DOMAIN aggs |-> aggs[k].name]
        leads == Firsts(keyed)
    IN  IF \E k \in DOMAIN keys : ~HasName(f.cols, keys[k]) THEN Answer("UNKNOWN_COLUMN", f)
        ELSE IF \E k \in DOMAIN aggs : ~HasName(f.cols, aggs[k].of) THEN Answer("UNKNOWN_COLUMN", f)
        ELSE IF ~IsInjective(names) THEN Answer("TYPE_ERROR", f)
        ELSE Summaries(f, Pick(f.cols, at) \o
                            [k \in DOMAIN aggs |-> [name |-> aggs[k].name, type |-> AggType(aggs[k].fn, f.cols[of(aggs[k])].type)]],
                       Pick(keyed, leads),
                       [g \in DOMAIN leads |-> [k \in DOMAIN aggs |-> answer(leads[g], aggs[k])]],
                       [n \in ToSet(names) |->
                          IF n \in ToSet(keys) THEN MetaOf(f.meta, n)
                          ELSE LET a == CHOOSE a \in ToSet(aggs) : a.name = n
                               IN  Stated(AggUnit(a.fn, ColUnit(f, a.of)))])

EvalSort(f, by) == Succeed(f.cols, SortRows(f.cols, by, f.rows), f.meta)
EvalDistinct(f) == Succeed(f.cols, Once(f.rows), f.meta)
EvalLimit(f, n, offset) ==
    LET start == IF offset < 0 THEN 0 ELSE Min({offset, Len(f.rows)})
    IN  Succeed(f.cols, SubSeq(f.rows, start + 1, Min({start + Larger(0, n), Len(f.rows)})), f.meta)

-----------------------------------------------------------------------------
UnitsDiffer(u, v) == u # {} /\ v # {} /\ u # v

\* A right column whose name the left has is renamed; each side keeps its metadata.
Renamed(left, right) ==
    [j \in DOMAIN right |-> IF HasName(left, right[j].name)
                            THEN [right[j] EXCEPT !.name = @ \o "_right"] ELSE right[j]]

EvalJoin(f, right, on, how) ==
    LET matches(l, r) == \A k \in DOMAIN on : CellEq(l[Position(f.cols, on[k].left)], r[Position(right.cols, on[k].right)])
        cols == Renamed(f.cols, right.cols)
        nulls(cs) == [i \in DOMAIN cs |-> Null]
        beside(l) == LET found == SelectSeq(right.rows, LAMBDA r : matches(l, r))
                     IN  IF found # << >> THEN [k \in DOMAIN found |-> l \o found[k]]
                         ELSE IF how \in {"left", "outer"} THEN <<l \o nulls(right.cols)>> ELSE << >>
        rightOnly == IF how \notin {"right", "outer"} THEN << >>
                     ELSE SelectSeq(right.rows, LAMBDA r : \A i \in DOMAIN f.rows : ~matches(f.rows[i], r))
    IN  IF \E k \in DOMAIN on : ~HasName(f.cols, on[k].left) \/ ~HasName(right.cols, on[k].right)
        THEN Answer("UNKNOWN_COLUMN", f)
        ELSE IF \E k \in DOMAIN on : UnitsDiffer(ColUnit(f, on[k].left), ColUnit(right, on[k].right))
        THEN Answer("UNIT_MISMATCH", f)
        ELSE Succeed(f.cols \o cols,
                     FlattenSeq([i \in DOMAIN f.rows |-> beside(f.rows[i])])
                       \o [k \in DOMAIN rightOnly |-> nulls(f.cols) \o rightOnly[k]],
                     [n \in ToSet(Names(cols)) |->
                        MetaOf(right.meta, right.cols[Max({j \in DOMAIN cols : cols[j].name = n})].name)] @@ f.meta)

\* Two columns met as one: the left's metadata, under the one unit the pair states.
Met(f, other, name) ==
    LET left == MetaOf(f.meta, name)
    IN  IF left.unit = {} THEN [left EXCEPT !.unit = ColUnit(other, name)] ELSE left
MeetsRefused(f, other) ==
    IF Names(f.cols) # Names(other.cols) THEN "JOIN_ERROR"
    ELSE IF \E n \in ToSet(Names(f.cols)) : UnitsDiffer(ColUnit(f, n), ColUnit(other, n)) THEN "UNIT_MISMATCH"
    ELSE "None"

EvalUnion(f, other) ==
    IF MeetsRefused(f, other) # "None" THEN Answer(MeetsRefused(f, other), f)
    ELSE Succeed(f.cols, f.rows \o other.rows, [n \in ToSet(Names(f.cols)) |-> Met(f, other, n)])

\* Mutant: except forgets the duplicates of the rows it keeps.
EvalSetOpDistinct(keepPresent, f, other) ==
    IF MeetsRefused(f, other) # "None" THEN Answer(MeetsRefused(f, other), f)
    ELSE Succeed(f.cols, Those(f.rows, LAMBDA r : (f.rows[r] \in ToSet(other.rows)) = keepPresent
                                                  /\ r \in ToSet(Firsts(f.rows))), f.meta)

\* Intersect and Except: the left's rows, by whether the right has one of the same tokens.
EvalSetOp(keepPresent, f, other) ==
    IF MeetsRefused(f, other) # "None" THEN Answer(MeetsRefused(f, other), f)
    ELSE Succeed(f.cols, Those(f.rows, LAMBDA r : (f.rows[r] \in ToSet(other.rows)) = keepPresent), f.meta)

-----------------------------------------------------------------------------
\* Window: the outputs of one partition, its cells in the window's order.
Running(cells) ==
    [k \in DOMAIN cells |-> FloatSum(SelectSeq(SubSeq(cells, 1, k), Numeric))]
RunningDecimal(cells) ==
    [k \in DOMAIN cells |-> DecimalCell(FoldLeft(LAMBDA t, c : IF Exact(c) THEN Add(t, DecimalOf(c)) ELSE t,
                                                 Zero, SubSeq(cells, 1, k)))]
RollingMean(cells) ==
    LET floats == [k \in DOMAIN cells |-> IF cells[k].kind = "decimal" THEN CastToFloat(cells[k]).cell ELSE cells[k]]
        window(k) == SelectSeq(SubSeq(floats, Larger(1, k - 2), k), Numeric)
    IN  [k \in DOMAIN cells |-> FloatAnswer("mean", window(k)).cell]

\* rank is dense: it counts the changes of key up to the row.
WindowCells(fn, decimal, cells, changes) ==
    LET n == Len(cells)
    IN  CASE fn = "rowNumber" -> [k \in 1 .. n |-> IntCell(k)]
          [] fn = "rank" -> [k \in 1 .. n |-> IntCell(Cardinality({j \in 1 .. k : j \in changes}))]
          [] fn = "lag" -> [k \in 1 .. n |-> IF k = 1 THEN Null ELSE cells[k - 1]]
          [] fn = "lead" -> [k \in 1 .. n |-> IF k = n THEN Null ELSE cells[k + 1]]
          [] fn = "cumulSum" -> IF decimal THEN RunningDecimal(cells) ELSE Running(cells)
          [] fn = "rollingMean" -> RollingMean(cells)

WindowType(fn, type) ==
    CASE fn \in {"rowNumber", "rank"} -> "int"
      [] fn = "cumulSum" -> IF type = "decimal" THEN type ELSE "float"
      [] fn = "rollingMean" -> "float"
      [] fn \in {"lag", "lead"} -> type

\* spec is [fn, of, partition, order, as]; a partition name that is no column is left out.
\* The output is a new last column, whatever its name.
EvalWindow(f, spec) ==
    LET known == HasName(f.cols, spec.of)
        type == IF known THEN f.cols[Position(f.cols, spec.of)].type ELSE "string"
        by == SelectSeq(spec.partition, LAMBDA n : HasName(f.cols, n))
        part(r) == Pick(f.rows[r], [k \in DOMAIN by |-> Position(f.cols, by[k])])
        before(i, j) == RowOrder(f.cols, spec.order, f.rows[i], f.rows[j])
        members(r) == SelectSeq([i \in DOMAIN f.rows |-> i], LAMBDA i : part(i) = part(r))
        ordered(r) == LET is == members(r)
                      IN  Pick(is, SortedPositions(Len(is), LAMBDA i, j : before(is[i], is[j]) < 0))
        outs(is) == WindowCells(spec.fn, type = "decimal",
                                [k \in DOMAIN is |-> IF known THEN f.rows[is[k]][Position(f.cols, spec.of)] ELSE Null],
                                {k \in DOMAIN is : k = 1 \/ before(is[k - 1], is[k]) # 0})
        out(r) == LET is == ordered(r) IN outs(is)[CHOOSE k \in DOMAIN is : is[k] = r]
        unit == IF spec.fn \in {"rowNumber", "rank"} THEN {} ELSE ColUnit(f, spec.of)
    IN  IF ~known /\ spec.fn \notin {"rowNumber", "rank"} THEN Answer("UNKNOWN_COLUMN", f)
        ELSE Succeed(Append(f.cols, [name |-> spec.as, type |-> WindowType(spec.fn, type)]),
                     [r \in DOMAIN f.rows |-> Append(f.rows[r], out(r))],
                     (spec.as :> Stated(unit)) @@ f.meta)

-----------------------------------------------------------------------------
\* The columns a pivot makes: the present on values, by their text; two of one text that
\* are equal are one.
OnValues(cells) ==
    LET sorted(s) == Pick(s, SortedPositions(Len(s), LAMBDA i, j : Rank(Text(s[i])) < Rank(Text(s[j]))))
        merged(s) == Those(s, LAMBDA i : \A j \in 1 .. i - 1 : ~(Text(s[j]) = Text(s[i]) /\ CellEq(s[j], s[i])))
    IN  merged(sorted(Once(SelectSeq(cells, LAMBDA c : c # Null))))

\* The rows of a pivot's group have equal index cells, and a NaN equals none but itself:
\* each row that has one is a group of its own.  (One NaN object in two rows, as a join may
\* leave, is not told from two.)
SameIndex(keyed, i, j) == i = j \/ (keyed[i] = keyed[j] /\ NaN \notin ToSet(keyed[i]))

\* spec is [index, on, values, agg].
EvalPivot(f, spec) ==
    LET at == [k \in DOMAIN spec.index |-> Position(f.cols, spec.index[k])]
        on == Position(f.cols, spec.on)
        val == Position(f.cols, spec.values)
        named(ons) == spec.index \o [k \in DOMAIN ons |-> Text(ons[k])]
        keyed == [r \in DOMAIN f.rows |-> Pick(f.rows[r], at)]
        leads == SelectSeq([i \in DOMAIN keyed |-> i], LAMBDA i : \A j \in 1 .. i - 1 : ~SameIndex(keyed, i, j))
        answer(i, cell) == Aggregate(spec.agg, f.cols[val].type,
                                     CellsAt(Those(f.rows, LAMBDA r : SameIndex(keyed, i, r) /\ CellEq(f.rows[r][on], cell)), val))
        pivoted(ons, names) ==
          IF ~IsInjective(names) THEN Answer("TYPE_ERROR", f)
          ELSE Summaries(f, Pick(f.cols, at) \o
                              [k \in DOMAIN ons |-> [name |-> Text(ons[k]), type |-> AggType(spec.agg, f.cols[val].type)]],
                         Pick(keyed, leads),
                         [g \in DOMAIN leads |-> [k \in DOMAIN ons |-> answer(leads[g], ons[k])]],
                         [n \in ToSet(names) |-> IF n \in ToSet(spec.index) THEN MetaOf(f.meta, n)
                                                 ELSE Stated(AggUnit(spec.agg, ColUnit(f, spec.values)))])
        over(ons) == pivoted(ons, named(ons))
    IN  IF \E n \in ToSet(spec.index) \union {spec.on, spec.values} : ~HasName(f.cols, n) THEN Answer("UNKNOWN_COLUMN", f)
        ELSE over(OnValues(CellsAt(f.rows, on)))

EvalUnpivot(f, ids, values) ==
    LET idAt == [k \in DOMAIN ids |-> Position(f.cols, ids[k])]
        valueAt == [k \in DOMAIN values |-> Position(f.cols, values[k])]
        typing == UnpivotTyping([k \in DOMAIN values |-> f.cols[valueAt[k]].type])
        melted(row) == [k \in DOMAIN values |-> Pick(row, idAt) \o <<StrCell(values[k]), row[valueAt[k]]>>]
        rows == FlattenSeq([r \in DOMAIN f.rows |-> melted(f.rows[r])])
        type == IF typing = Unknown THEN TypeFromCells([r \in DOMAIN rows |-> Last(rows[r])]) ELSE typing
        units == {ColUnit(f, n) : n \in ToSet(values)}
    IN  IF \E n \in ToSet(ids) \union ToSet(values) : ~HasName(f.cols, n) THEN Answer("UNKNOWN_COLUMN", f)
        ELSE IF ~IsInjective(ids \o <<"variable", "value">>) \/ type = Refused THEN Answer("TYPE_ERROR", f)
        ELSE Succeed(Pick(f.cols, idAt) \o <<[name |-> "variable", type |-> "string"], [name |-> "value", type |-> type]>>,
                     rows,
                     ("value" :> Stated(IF Cardinality(units) = 1 THEN UNION units ELSE {}))
                       @@ [n \in ToSet(ids) |-> MetaOf(f.meta, n)])

-----------------------------------------------------------------------------
\* One step.  A named source is one no resolver answers for here.
EvalStep(f, t) ==
    CASE t.verb = "Filter"    -> EvalFilter(f, t.pred)
      [] t.verb = "Project"   -> EvalProject(f, t.cols)
      [] t.verb = "Derive"    -> EvalDerive(f, t.name, t.expr)
      [] t.verb = "GroupBy"   -> EvalGroupBy(f, t.keys, t.aggs)
      [] t.verb = "Sort"      -> EvalSort(f, t.by)
      [] t.verb = "Distinct"  -> EvalDistinct(f)
      [] t.verb = "Limit"     -> EvalLimit(f, t.n, t.offset)
      [] t.verb = "Window"    -> EvalWindow(f, t.spec)
      [] t.verb = "Pivot"     -> EvalPivot(f, t.spec)
      [] t.verb = "Unpivot"   -> EvalUnpivot(f, t.ids, t.values)
      [] t.verb = "Join"      -> EvalJoin(f, ToFrame(t.table), t.on, t.how)
      [] t.verb = "Union"     -> EvalUnion(f, ToFrame(t.table))
      [] t.verb = "Intersect" -> EvalSetOp(TRUE, f, ToFrame(t.table))
      [] t.verb = "Except"    -> EvalSetOp(FALSE, f, ToFrame(t.table))
      [] t.verb = "Ref"       -> Answer("UNRESOLVED_SOURCE", f)

\* The fold over the steps, from a table to [err, table].
Pipeline(steps, t) ==
    LET after[k \in 0 .. Len(steps)] ==
          IF k = 0 THEN Answer("None", ToFrame(t))
          ELSE IF after[k - 1].err # "None" THEN after[k - 1] ELSE EvalStep(after[k - 1].frame, steps[k])
        answer(r) == [err |-> r.err, table |-> OfFrame(r.frame)]
    IN  answer(after[Len(steps)])

-----------------------------------------------------------------------------
(***************************************************************************)
(* What changed between two schemas, the change made again, and what it    *)
(* means to who depends on a column (_core/dataframe/schema.py).           *)
(*                                                                         *)
(* A schema is a sequence of fields [name, type, meta]; of metadata there  *)
(* are the unit and the label.                                             *)
(***************************************************************************)
SchemaOf(f) == [i \in DOMAIN f.cols |-> [name |-> f.cols[i].name, type |-> f.cols[i].type, meta |-> MetaOf(f.meta, f.cols[i].name)]]

\* The members of a sequence that are in a set, in order; the fields of some names, and the rest.
Among(s, S) == FoldLeft(LAMBDA kept, x : IF x \in S THEN Append(kept, x) ELSE kept, << >>, s)
FieldsOf(s, names) == Among(s, {f \in ToSet(s) : f.name \in names})
FieldsBut(s, names) == Among(s, {f \in ToSet(s) : f.name \notin names})

Members == <<"unit", "label">>
Changes(before, after) ==
    LET moved == Among(Members, {m \in ToSet(Members) : before[m] # after[m]})
    IN  [k \in DOMAIN moved |-> [member |-> moved[k], before |-> before[moved[k]], after |-> after[moved[k]]]]
\* The changes of a field, each with its name, to the field of that name.
Amendments(f, now) ==
    LET changes == Changes(f.meta, now.meta)
    IN  [k \in DOMAIN changes |-> [name |-> f.name, change |-> changes[k]]]

IDENTITY_DELTA == [added |-> << >>, removed |-> << >>, retyped |-> << >>, amended |-> << >>,
                   reordered |-> FALSE, order |-> << >>]

SchemaDiff(old, target) ==
    LET now(f) == target[Max({i \in DOMAIN target : target[i].name = f.name})]
        common == FieldsOf(old, ToSet(Names(target)))
        added == FieldsBut(target, ToSet(Names(old)))
        retyped == Among(common, {f \in ToSet(common) : now(f).type # f.type})
    IN  [added     |-> added,
         removed   |-> FieldsBut(old, ToSet(Names(target))),
         retyped   |-> [k \in DOMAIN retyped |-> [name |-> retyped[k].name, from |-> retyped[k].type,
                                                  to |-> now(retyped[k]).type]],
         amended   |-> FoldLeft(LAMBDA all, f : all \o Amendments(f, now(f)), << >>, common),
         reordered |-> Names(common) # Names(FieldsOf(target, ToSet(Names(old)))),
         order     |-> IF Names(target) = Names(common) \o Names(added) THEN << >> ELSE Names(target)]

-----------------------------------------------------------------------------
\* A patch is [err, fields]; each step takes its changes in turn, up to the first refusal.
Patched(err, s) == [err |-> err, fields |-> s]
InTurn(r, changes, Step(_, _)) ==
    FoldLeft(LAMBDA acc, c : IF acc.err # "None" THEN acc ELSE Step(acc.fields, c), r, changes)
OfType(s, name, type, fields) ==
    IF ~HasName(s, name) THEN Patched("AbsentColumn", s)
    ELSE IF s[Position(s, name)].type # type THEN Patched("TypeDisagrees", s) ELSE Patched("None", fields)

Removing(s, f) == OfType(s, f.name, f.type, FieldsBut(s, {f.name}))
Retyping(s, r) == OfType(s, r.name, r.from, [i \in DOMAIN s |-> IF s[i].name = r.name THEN [s[i] EXCEPT !.type = r.to] ELSE s[i]])
Amending(s, a) ==
    IF ~HasName(s, a.name) THEN Patched("AbsentColumn", s)
    ELSE IF s[Position(s, a.name)].meta[a.change.member] # a.change.before THEN Patched("MetadataDisagrees", s)
    ELSE Patched("None", [s EXCEPT ![Position(s, a.name)].meta[a.change.member] = a.change.after])
Adding(s, f) == IF HasName(s, f.name) THEN Patched("AlreadyPresent", s) ELSE Patched("None", Append(s, f))
\* An order that repeats a name is no permutation.
Ordering(s, order) ==
    IF order = << >> THEN Patched("None", s)
    ELSE IF ~IsInjective(order) \/ ToSet(order) # ToSet(Names(s)) THEN Patched("OrderMismatch", s)
    ELSE Patched("None", [k \in DOMAIN order |-> s[Position(s, order[k])]])

SchemaPatch(old, delta) ==
    LET removed == InTurn(Patched("None", old), delta.removed, Removing)
        retyped == InTurn(removed, delta.retyped, Retyping)
        amended == InTurn(retyped, delta.amended, Amending)
        added   == InTurn(amended, delta.added, Adding)
    IN  IF ~IsInjective(Names(old)) THEN Patched("DuplicateColumn", old)
        ELSE IF added.err # "None" THEN added ELSE Ordering(added.fields, delta.order)

-----------------------------------------------------------------------------
\* Whether a consumer of some columns may read on.  (What only an extension member decides,
\* "unknown", is left out with those members.)
Classify(dependsOn, delta) ==
    IF \/ \E f \in ToSet(delta.removed) : f.name \in dependsOn
       \/ \E r \in ToSet(delta.retyped) : r.name \in dependsOn /\ ~Widens(r.from, r.to)
       \/ \E k \in DOMAIN delta.amended :
             /\ delta.amended[k].name \in dependsOn
             /\ delta.amended[k].change.member = "unit" /\ delta.amended[k].change.before # {}
    THEN "breaking" ELSE "compatible"
=============================================================================
