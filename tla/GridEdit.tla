------------------------------ MODULE GridEdit ------------------------------
(***************************************************************************)
(* Columnar edits and their history (_core/dataframe/grid_edit.py):        *)
(* apply_op, invert_op, delta_of and the GridEditHistory over one table.   *)
(*                                                                         *)
(* A table is [cols, meta]: its columns in order, each [name, type,        *)
(* cells], and the metadata of the columns that state any, by name.  The   *)
(* schema is read off the columns, which the code keeps in step with it.   *)
(* The evaluator an ApplyTransform calls is a parameter.                   *)
(*                                                                         *)
(* Answers are [err, table] and [err, op]; err is "None" on success.       *)
(***************************************************************************)
EXTENDS CellValues

CONSTANTS EvalPipeline(_, _),   \* a pipeline's name and a table to [err, table]
          Start,      \* the tables a history may begin with
          Ops,        \* the ops a user may make
          KeyField,   \* the column the grid declares as its row identity
          Capacity,   \* GridEditHistory.capacity
          MaxRows,    \* bound: rows AppendRows may reach
          MaxEdits    \* bound: edits in one history, undone ones included
ASSUME CapacityAssumption == Capacity \in Nat

VARIABLES table, undoStack, redoStack,
          past, future,   \* history: the table each undo, and each redo, should give
          edits           \* history: how many edits were made

vars == <<table, undoStack, redoStack, past, future, edits>>

NoOp == [tag |-> "None"]
Refuse(token, t) == [err |-> token, table |-> t]
Done(cols, meta) == [err |-> "None", table |-> [cols |-> cols, meta |-> meta]]

RowCount(t) == IF t.cols = << >> THEN 0 ELSE Len(t.cols[1].cells)
ColNames(t) == {t.cols[i].name : i \in DOMAIN t.cols}
Index(t, name) == CHOOSE i \in DOMAIN t.cols : t.cols[i].name = name
Cells(t, name) == t.cols[Index(t, name)].cells

\* A retyped column states no metadata.
WithColumn(t, col) ==
    LET i == Index(t, col.name)
    IN  Done([t.cols EXCEPT ![i] = col],
             IF t.cols[i].type = col.type THEN t.meta ELSE Restrict(t.meta, DOMAIN t.meta \ {col.name}))

SetCell(op, t) ==
    IF op.col \notin ColNames(t) THEN Refuse("noSuchColumn", t)
    ELSE IF op.row \notin 1 .. RowCount(t) THEN Refuse("rowOutOfRange", t)
    ELSE IF ~Fits(t.cols[Index(t, op.col)].type, op.value) THEN Refuse("cellTypeMismatch", t)
    ELSE WithColumn(t, [t.cols[Index(t, op.col)] EXCEPT !.cells[op.row] = op.value])

SetColumn(op, t) ==
    IF op.column.name \notin ColNames(t) THEN Refuse("noSuchColumn", t)
    ELSE IF Len(op.column.cells) # RowCount(t) THEN Refuse("columnLengthMismatch", t)
    ELSE WithColumn(t, op.column)

\* The index is clamped to 0 .. the column count.
Clamp(i, t) == IF i < 0 THEN 0 ELSE IF i > Len(t.cols) THEN Len(t.cols) ELSE i

InsertColumn(op, t) ==
    IF op.column.name \in ColNames(t) THEN Refuse("duplicateColumn", t)
    ELSE IF t.cols # << >> /\ Len(op.column.cells) # RowCount(t)
         THEN Refuse("columnLengthMismatch", t)
    ELSE Done(InsertAt(t.cols, Clamp(op.index, t) + 1, op.column), t.meta)

\* The columns of other names are kept: all but one, since names are one each (TypeOK).
RemoveColumn(op, t) ==
    IF op.name \notin ColNames(t) THEN Refuse("noSuchColumn", t)
    ELSE Done(RemoveAt(t.cols, Index(t, op.name)),
              Restrict(t.meta, DOMAIN t.meta \ {op.name}))

\* A row is a set of [col, value]; a column it does not name gets null.
CellOf(row, name) ==
    IF \E e \in row : e.col = name THEN (CHOOSE e \in row : e.col = name).value ELSE Null

AppendRows(op, t) ==
    LET entries == UNION {op.rows[i] : i \in DOMAIN op.rows} IN
    IF \E e \in entries : e.col \notin ColNames(t) THEN Refuse("rowShapeUnknownColumn", t)
    ELSE IF \E e \in entries : ~Fits(t.cols[Index(t, e.col)].type, e.value)
         THEN Refuse("cellTypeMismatch", t)
    ELSE Done([i \in DOMAIN t.cols |->
                 [t.cols[i] EXCEPT !.cells = @ \o [r \in DOMAIN op.rows |-> CellOf(op.rows[r], t.cols[i].name)]]],
              t.meta)

ApplyTransform(op, t) ==
    LET answer(r) == IF r.err = "None" THEN Done(r.table.cols, r.table.meta)
                     ELSE Refuse(IF r.err = "Raises" THEN "raises" ELSE "transformRejected", t)
    IN  answer(EvalPipeline(op.pipeline, t))

\* apply_op, of the ops that name cells or columns; and of any op.
ApplyEdit(op, t) ==
    CASE op.tag = "SetCell"      -> SetCell(op, t)
      [] op.tag = "SetColumn"    -> SetColumn(op, t)
      [] op.tag = "InsertColumn" -> InsertColumn(op, t)
      [] op.tag = "RemoveColumn" -> RemoveColumn(op, t)
      [] op.tag = "AppendRows"   -> AppendRows(op, t)

ApplyOp(op, t) == IF op.tag = "ApplyTransform" THEN ApplyTransform(op, t) ELSE ApplyEdit(op, t)

\* Mutant: a removed column comes back at the end.
UndoingAtEnd(op, t) ==
    CASE op.tag = "SetCell"      -> [op EXCEPT !.value = Cells(t, op.col)[op.row]]
      [] op.tag = "SetColumn"    -> [op EXCEPT !.column = t.cols[Index(t, op.column.name)]]
      [] op.tag = "InsertColumn" -> [tag |-> "RemoveColumn", name |-> op.column.name]
      [] op.tag = "RemoveColumn" -> [tag |-> "InsertColumn", index |-> Len(t.cols),
                                     column |-> t.cols[Index(t, op.name)]]

\* What takes an op the table accepts back, read from the table it applies to.
Undoing(op, t) ==
    CASE op.tag = "SetCell"      -> [op EXCEPT !.value = Cells(t, op.col)[op.row]]
      [] op.tag = "SetColumn"    -> [op EXCEPT !.column = t.cols[Index(t, op.column.name)]]
      [] op.tag = "InsertColumn" -> [tag |-> "RemoveColumn", name |-> op.column.name]
      [] op.tag = "RemoveColumn" -> [tag |-> "InsertColumn", index |-> Index(t, op.name) - 1,
                                     column |-> t.cols[Index(t, op.name)]]

\* invert_op; trial is what the op, tried first, gives.
InvertOp(op, t, trial) ==
    IF op.tag \in {"AppendRows", "ApplyTransform"} THEN [err |-> "notInvertible", op |-> NoOp]
    ELSE IF trial.err # "None" THEN [err |-> trial.err, op |-> NoOp]
    ELSE [err |-> "None", op |-> Undoing(op, t)]

-----------------------------------------------------------------------------
\* The row delta: FullRefresh, or the keys an op touched, each with how.
FullRefresh == [full |-> TRUE, rows |-> {}]
RowSet(rows) == [full |-> FALSE, rows |-> rows]
Row(key, change) == [key |-> key, change |-> change]

\* A table without the key column has no row with a key.
Keys(t) ==
    IF KeyField \in ColNames(t) THEN Cells(t, KeyField) ELSE [i \in 1 .. RowCount(t) |-> Null]

CellDelta(op, t, k0, k1) ==
    IF k0[op.row] = Null \/ k1[op.row] = Null THEN FullRefresh
    ELSE IF Cells(t, op.col)[op.row] = op.value THEN RowSet({})
    ELSE IF k0[op.row] = k1[op.row] THEN RowSet({Row(k0[op.row], "changed")})
    ELSE RowSet({Row(k0[op.row], "removed"), Row(k1[op.row], "added")})

ColumnDelta(op, t, k0, k1) ==
    IF k0 # k1 \/ Null \in ToSet(k0) THEN FullRefresh
    ELSE RowSet({Row(k0[i], "changed") :
                   i \in {j \in DOMAIN k0 : Cells(t, op.column.name)[j] # op.column.cells[j]}})

\* Mutant: appended rows are reported whatever keys the table holds already.
AppendDeltaUnchecked(k0, k1) ==
    LET added == SubSeq(k1, Len(k0) + 1, Len(k1))
    IN  IF Null \notin ToSet(added) THEN RowSet({Row(k, "added") : k \in ToSet(added)}) ELSE FullRefresh

AppendDelta(k0, k1) ==
    LET added == SubSeq(k1, Len(k0) + 1, Len(k1))
        fresh == /\ Null \notin ToSet(added)
                 /\ IsInjective(added)
                 /\ ToSet(k0) \intersect ToSet(added) = {}
    IN  IF fresh THEN RowSet({Row(k, "added") : k \in ToSet(added)}) ELSE FullRefresh

\* delta_of; trial is what the op, tried first, gives.
DeltaOf(t, op, trial) ==
    IF op.tag \in {"InsertColumn", "RemoveColumn", "ApplyTransform"} \/ trial.err # "None"
    THEN FullRefresh
    ELSE CASE op.tag = "SetCell"    -> CellDelta(op, t, Keys(t), Keys(trial.table))
           [] op.tag = "SetColumn"  -> ColumnDelta(op, t, Keys(t), Keys(trial.table))
           [] op.tag = "AppendRows" -> AppendDelta(Keys(t), Keys(trial.table))

-----------------------------------------------------------------------------
(***************************************************************************)
(* GridEditHistory.  A gesture that is refused leaves the history as it    *)
(* was.                                                                    *)
(***************************************************************************)
Kept == IF Capacity > 1 THEN Capacity ELSE 1
Trim(s) == SubSeq(s, 1, IF Len(s) > Kept THEN Kept ELSE Len(s))

Init ==
    /\ table \in Start
    /\ undoStack = << >> /\ redoStack = << >>
    /\ past = << >> /\ future = << >> /\ edits = 0

\* An op with no inverse clears what could be undone; any op what could be redone.
AcceptWith(op, result, inverse) ==
    /\ result.err = "None"
    /\ RowCount(result.table) <= MaxRows /\ edits < MaxEdits
    /\ edits' = edits + 1
    /\ table' = result.table
    /\ IF inverse.err = "None"
       THEN /\ undoStack' = Trim(<<[op |-> op, inv |-> inverse.op]>> \o undoStack)
            /\ past' = Trim(<<table>> \o past)
       ELSE undoStack' = << >> /\ past' = << >>
    /\ redoStack' = << >> /\ future' = << >>

Accept(op, result) == AcceptWith(op, result, InvertOp(op, table, result))
Edit(op) == Accept(op, ApplyOp(op, table))

TakeBack(top, result) ==
    /\ result.err = "None"
    /\ table' = result.table
    /\ undoStack' = Tail(undoStack)
    /\ redoStack' = <<top>> \o redoStack
    /\ past' = Tail(past)
    /\ future' = <<table>> \o future
    /\ UNCHANGED edits

\* An entry of a stack has an inverse, so neither of its ops is a transform.
Undo == undoStack # << >> /\ TakeBack(Head(undoStack), ApplyEdit(Head(undoStack).inv, table))

Repeat(top, result) ==
    /\ result.err = "None"
    /\ table' = result.table
    /\ undoStack' = Trim(<<top>> \o undoStack)
    /\ redoStack' = Tail(redoStack)
    /\ past' = Trim(<<table>> \o past)
    /\ future' = Tail(future)
    /\ UNCHANGED edits

Redo == redoStack # << >> /\ Repeat(Head(redoStack), ApplyEdit(Head(redoStack).op, table))

Next == (\E op \in Ops : Edit(op)) \/ Undo \/ Redo

Spec == Init /\ [][Next]_vars

-----------------------------------------------------------------------------
\* Every column has one cell per row, each fitting it; names are one each; the
\* stacks stay within the capacity between them.
TypeOK ==
    /\ \A i, j \in DOMAIN table.cols :
         /\ Len(table.cols[i].cells) = Len(table.cols[j].cells)
         /\ table.cols[i].name = table.cols[j].name => i = j
         /\ \A c \in ToSet(table.cols[i].cells) : Fits(table.cols[i].type, c)
    /\ DOMAIN table.meta \subseteq ColNames(table)
    /\ Len(undoStack) = Len(past) /\ Len(redoStack) = Len(future)
    /\ Len(undoStack) + Len(redoStack) <= Kept
    /\ edits \in 0 .. MaxEdits

\* Whatever mix of edits, undos and redos came before: the next undo gives back
\* the columns the edit was made on, and the next redo those it had made; so no
\* history is stuck on an edit it can neither take back nor repeat, nor holds more
\* edits than its capacity.
GivesBack(op, t) ==
    LET is(r) == r.err = "None" /\ r.table.cols = t.cols IN is(ApplyEdit(op, table))

\* The op the next undo, and the next redo, would apply, with the table it should give.
NextUndo == IF undoStack = << >> THEN {} ELSE {<<Head(undoStack).inv, Head(past)>>}
NextRedo == IF redoStack = << >> THEN {} ELSE {<<Head(redoStack).op, Head(future)>>}
HistoryGivesBack == TypeOK /\ \A step \in NextUndo \union NextRedo : GivesBack(step[1], step[2])

\* invert_op: "The op that undoes op applied to the PRE-state" (grid_edit.py 199):
\* metadata included.
UndoIsExact ==
    undoStack # << >> => ApplyEdit(Head(undoStack).inv, table).table = Head(past)

\* A consumer that holds the rows by key and is sent only the delta misses
\* nothing: a row the delta does not name is the same before and after, and rows
\* an append adds are told apart from those there.  (A transform's delta is all
\* rows.  A SetCell that writes a key another row has is outside: the code names
\* the two rows as one.)
RowsByKey(t) == {[key |-> Keys(t)[i], cells |-> [c \in DOMAIN t.cols |-> t.cols[c].cells[i]]] :
                   i \in 1 .. RowCount(t)}
Keyed(t) == IsInjective(Keys(t)) /\ Null \notin ToSet(Keys(t))

TellsAll(delta, before, after) ==
    LET named(change) == {r.key : r \in {q \in delta.rows : q.change = change}}
        all == {r.key : r \in delta.rows}
    IN  /\ {r \in RowsByKey(before) : r.key \notin all} = {r \in RowsByKey(after) : r.key \notin all}
        /\ named("added") = {r.key : r \in RowsByKey(after)} \ {r.key : r \in RowsByKey(before)}
        /\ named("removed") = {r.key : r \in RowsByKey(before)} \ {r.key : r \in RowsByKey(after)}

DeltaTellsAll ==
    LET told(op, r, delta) ==
          (r.err = "None" /\ Keyed(table) /\ ~delta.full)
            => IF Keyed(r.table) THEN TellsAll(delta, table, r.table) ELSE op.tag = "SetCell"
        tried(op, r) == told(op, r, DeltaOf(table, op, r))
    IN  \A op \in Ops : op.tag # "ApplyTransform" => tried(op, ApplyEdit(op, table))
=============================================================================
