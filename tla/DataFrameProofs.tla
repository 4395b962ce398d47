-------------------------- MODULE DataFrameProofs --------------------------
(***************************************************************************)
(* Proofs about the data frames.  GridEdit: the history gives back what it *)
(* took, for any tables, any edits, any evaluator that answers with        *)
(* tables, and any capacity.  CellValues: a rounding meets its mode, and   *)
(* decimal arithmetic is exact, for any numbers.  ColExprs: what the typer *)
(* decides before a row is read is the type of what the evaluator answers, *)
(* of any frame, any expression and any table an edit makes.               *)
(* Frames: of any two schemas the patch of one with its diff to the other  *)
(* is the other, and so it is of those of the tables of a history.         *)
(***************************************************************************)
EXTENDS DataFrames, SequenceTheorems, FiniteSetTheorems, NaturalsInduction, WellFoundedInduction, TLAPS

CONSTANTS ColumnNames, Types, Values      \* the column names, types and cells there are

(***************************************************************************)
(* Tables and ops as the code's constructors leave them.                   *)
(***************************************************************************)
Column == [name : ColumnNames, type : Types, cells : Seq(Values)]
FitColumn == {c \in Column : \A k \in DOMAIN c.cells : Fits(c.type, c.cells[k])}

IsTable(t) ==
    /\ t.cols \in Seq(FitColumn)
    /\ \A i, j \in DOMAIN t.cols :
         /\ t.cols[i].name = t.cols[j].name => i = j
         /\ Len(t.cols[i].cells) = Len(t.cols[j].cells)
    /\ DOMAIN t.meta \subseteq ColNames(t)

SetCells      == [tag : {"SetCell"}, col : ColumnNames, row : Int, value : Values]
SetColumns    == [tag : {"SetColumn"}, column : FitColumn]
InsertColumns == [tag : {"InsertColumn"}, index : Int, column : FitColumn]
RemoveColumns == [tag : {"RemoveColumn"}, name : ColumnNames]
Appends       == [tag : {"AppendRows"}, rows : Seq(SUBSET [col : ColumnNames, value : Values])]
Invertible    == SetCells \union SetColumns \union InsertColumns \union RemoveColumns

\* A transform that is accepted leaves a table.
Closed(op) == \A t : IsTable(t) /\ ApplyTransform(op, t).err = "None" => IsTable(ApplyTransform(op, t).table)

\* What a history is given.
Lawful ==
    /\ MaxEdits \in Nat
    /\ Null \in Values
    /\ \A t \in Start : IsTable(t)
    /\ \A op \in Ops : op \in Invertible \union Appends \/ op.tag = "ApplyTransform"
    /\ \A op \in Ops : op.tag = "ApplyTransform" => Closed(op)

\* Which column a name is of.
LEMMA IndexOf ==
    ASSUME NEW t, IsTable(t), NEW i \in DOMAIN t.cols
    PROVE  Index(t, t.cols[i].name) = i
  BY DEF Index, IsTable

\* A name the table has is that of the column its index gives.
LEMMA IndexIn ==
    ASSUME NEW t, IsTable(t), NEW name \in ColNames(t)
    PROVE  Index(t, name) \in DOMAIN t.cols /\ t.cols[Index(t, name)].name = name
<1>1. PICK i \in DOMAIN t.cols : name = t.cols[i].name
  BY DEF ColNames
<1>. QED  BY <1>1, IndexOf

\* Every column has as many cells as the table has rows, and fits.
LEMMA Rows ==
    ASSUME NEW t, IsTable(t), NEW i \in DOMAIN t.cols
    PROVE  /\ RowCount(t) = Len(t.cols[i].cells) /\ RowCount(t) \in Nat
           /\ t.cols[i] \in FitColumn /\ t.cols[i] \in Column
<1>1. t.cols \in Seq(FitColumn) /\ t.cols # << >> /\ 1 \in DOMAIN t.cols
  BY DEF IsTable
<1>2. RowCount(t) = Len(t.cols[1].cells) /\ Len(t.cols[i].cells) = Len(t.cols[1].cells)
  BY <1>1 DEF RowCount, IsTable
<1>3. t.cols[i] \in FitColumn
  BY <1>1
<1>4. t.cols[i] \in Column /\ Len(t.cols[i].cells) \in Nat
  BY <1>3 DEF FitColumn, Column
<1>. QED  BY <1>2, <1>3, <1>4

-----------------------------------------------------------------------------
(***************************************************************************)
(* One column in another's place.                                          *)
(***************************************************************************)
\* WithColumn, of a column with the name and length of the one it takes the place of, gives a table.
LEMMA PutColumn ==
    ASSUME NEW t, IsTable(t), NEW i \in DOMAIN t.cols, NEW col \in FitColumn,
           col.name = t.cols[i].name, Len(col.cells) = RowCount(t)
    PROVE  LET r == WithColumn(t, col)
           IN  /\ r.err = "None" /\ IsTable(r.table)
               /\ r.table.cols = [t.cols EXCEPT ![i] = col]
<1>. DEFINE r == WithColumn(t, col)
            cols == [t.cols EXCEPT ![i] = col]
            meta == IF t.cols[i].type = col.type THEN t.meta ELSE Restrict(t.meta, DOMAIN t.meta \ {col.name})
<1>1. r = Done(cols, meta)
  BY IndexOf DEF WithColumn
<1>2. r.err = "None" /\ r.table.cols = cols /\ r.table.meta = meta
  BY <1>1 DEF Done
<1>3. t.cols \in Seq(FitColumn)
  BY DEF IsTable
<1>4. cols \in Seq(FitColumn) /\ DOMAIN cols = DOMAIN t.cols
      /\ \A j \in DOMAIN cols : cols[j] = IF j = i THEN col ELSE t.cols[j]
  BY <1>3
<1>5. \A j \in DOMAIN cols : cols[j].name = t.cols[j].name /\ Len(cols[j].cells) = RowCount(t)
  BY <1>4, Rows
<1>6. DOMAIN meta \subseteq DOMAIN t.meta
  BY DEF Restrict
<1>7. {cols[j].name : j \in DOMAIN cols} = ColNames(t)
  BY <1>4, <1>5 DEF ColNames
<1>. HIDE DEF cols, meta, r
<1>8. IsTable(r.table)
  <2>1. DOMAIN r.table.meta \subseteq ColNames(r.table)
    <3>1. ColNames(r.table) = ColNames(t)
      BY <1>2, <1>7 DEF ColNames
    <3>2. DOMAIN t.meta \subseteq ColNames(t)
      BY DEF IsTable
    <3>. QED  BY <1>2, <1>6, <3>1, <3>2
  <2>2. \A j, k \in DOMAIN cols :
            /\ cols[j].name = cols[k].name => j = k
            /\ Len(cols[j].cells) = Len(cols[k].cells)
    BY <1>4, <1>5 DEF IsTable
  <2>. QED  BY <1>2, <1>4, <2>1, <2>2 DEF IsTable
<1>. QED  BY <1>2, <1>8 DEF cols, r

\* The answer of an edit, as a history uses it: it is accepted, and the columns are these.
Gives(op, t, cols) == ApplyEdit(op, t).err = "None" /\ ApplyEdit(op, t).table.cols = cols

\* An edit that is accepted gives a table, and what undoes it the columns there were.
Turns(op, t) ==
    LET u == ApplyEdit(op, t).table
    IN  IsTable(u) /\ Undoing(op, t) \in Invertible /\ Gives(Undoing(op, t), u, t.cols)

\* Two tables of the same columns answer an edit alike.
Alike(op, s, t) == ApplyEdit(op, t).err = "None" => Gives(op, s, ApplyEdit(op, t).table.cols)

\* A column written whole is taken back by writing the old one whole.
LEMMA SetColumnTurns ==
    ASSUME NEW t, IsTable(t), NEW op \in SetColumns, ApplyEdit(op, t).err = "None"
    PROVE  Turns(op, t) /\ ApplyEdit(op, t).table.cols = [t.cols EXCEPT ![Index(t, op.column.name)] = op.column]
<1>. DEFINE i == Index(t, op.column.name)
            u == ApplyEdit(op, t).table
            inv == Undoing(op, t)
<1>0. op.tag = "SetColumn" /\ op.column \in FitColumn /\ op.column.name \in ColumnNames
  BY DEF SetColumns, FitColumn, Column
<1>1. op.column.name \in ColNames(t) /\ Len(op.column.cells) = RowCount(t) /\ ApplyEdit(op, t) = WithColumn(t, op.column)
  BY <1>0 DEF ApplyEdit, SetColumn, Refuse
<1>2. i \in DOMAIN t.cols /\ t.cols[i].name = op.column.name
  BY <1>1, IndexIn
<1>. HIDE DEF i
<1>3. IsTable(u) /\ u.cols = [t.cols EXCEPT ![i] = op.column]
  BY <1>0, <1>1, <1>2, PutColumn
<1>. HIDE DEF u
<1>4. inv = [op EXCEPT !.column = t.cols[i]] /\ t.cols[i] \in FitColumn /\ RowCount(t) = Len(t.cols[i].cells)
  BY <1>0, <1>2, Rows DEF Undoing, i
<1>5. inv \in SetColumns /\ inv.column = t.cols[i] /\ inv.tag = "SetColumn"
  BY <1>0, <1>4 DEF SetColumns
<1>. HIDE DEF inv
<1>6. t.cols \in Seq(FitColumn)
  BY DEF IsTable
<1>7. i \in DOMAIN u.cols /\ u.cols[i] = op.column /\ [u.cols EXCEPT ![i] = t.cols[i]] = t.cols
  BY <1>2, <1>3, <1>6
<1>8. RowCount(u) = RowCount(t)
  BY <1>1, <1>3, <1>7, Rows
<1>9. inv.column.name \in ColNames(u) /\ inv.column.name = u.cols[i].name /\ Len(inv.column.cells) = RowCount(u)
  BY <1>2, <1>4, <1>5, <1>7, <1>8 DEF ColNames
<1>10. ApplyEdit(inv, u) = WithColumn(u, t.cols[i])
  BY <1>5, <1>9 DEF ApplyEdit, SetColumn
<1>11. Gives(inv, u, t.cols)
  BY <1>3, <1>4, <1>5, <1>7, <1>9, <1>10, PutColumn DEF Gives
<1>12. inv \in Invertible
  BY <1>5 DEF Invertible
<1>. QED  BY <1>3, <1>11, <1>12 DEF Turns, u, inv, i

\* A cell written is taken back by writing what it held.
LEMMA SetCellTurns ==
    ASSUME NEW t, IsTable(t), NEW op \in SetCells, ApplyEdit(op, t).err = "None"
    PROVE  LET i == Index(t, op.col)
           IN  Turns(op, t) /\ ApplyEdit(op, t).table.cols = [t.cols EXCEPT ![i] = [@ EXCEPT !.cells[op.row] = op.value]]
<1>. DEFINE i == Index(t, op.col)
            old == t.cols[i]
            new == [old EXCEPT !.cells[op.row] = op.value]
            u == ApplyEdit(op, t).table
            inv == Undoing(op, t)
<1>0. op.tag = "SetCell" /\ op.col \in ColumnNames /\ op.value \in Values /\ op.row \in Int
  BY DEF SetCells
<1>1. /\ op.col \in ColNames(t) /\ op.row \in 1 .. RowCount(t)
      /\ Fits(old.type, op.value) /\ ApplyEdit(op, t) = WithColumn(t, new)
  BY <1>0 DEF ApplyEdit, SetCell, Refuse
<1>2. i \in DOMAIN t.cols /\ old.name = op.col
  BY <1>1, IndexIn
<1>3. old \in FitColumn /\ old \in Column /\ RowCount(t) = Len(old.cells)
  BY <1>2, Rows
<1>. HIDE DEF i, old
<1>4. old.cells \in Seq(Values) /\ op.row \in DOMAIN old.cells
  BY <1>1, <1>3 DEF Column
<1>5. /\ new \in Column /\ new.name = old.name /\ new.type = old.type
      /\ new.cells = [old.cells EXCEPT ![op.row] = op.value]
  BY <1>0, <1>3, <1>4 DEF Column
<1>. HIDE DEF new
<1>6. /\ DOMAIN new.cells = DOMAIN old.cells /\ Len(new.cells) = Len(old.cells)
      /\ \A k \in DOMAIN new.cells : new.cells[k] = IF k = op.row THEN op.value ELSE old.cells[k]
  BY <1>4, <1>5
<1>7. new \in FitColumn
  BY <1>1, <1>3, <1>5, <1>6 DEF FitColumn
<1>8. IsTable(u) /\ u.cols = [t.cols EXCEPT ![i] = new]
  BY <1>1, <1>2, <1>3, <1>5, <1>6, <1>7, PutColumn DEF old
<1>. HIDE DEF u
<1>9. inv = [op EXCEPT !.value = old.cells[op.row]] /\ old.cells[op.row] \in Values /\ Fits(old.type, old.cells[op.row])
  BY <1>0, <1>3, <1>4 DEF Undoing, Cells, i, old, FitColumn
<1>10. inv \in SetCells /\ inv.tag = "SetCell" /\ inv.col = op.col /\ inv.row = op.row /\ inv.value = old.cells[op.row]
  BY <1>0, <1>9 DEF SetCells
<1>. HIDE DEF inv
<1>11. t.cols \in Seq(FitColumn) /\ old = t.cols[i]
  BY DEF IsTable, old
<1>12. i \in DOMAIN u.cols /\ u.cols[i] = new /\ [u.cols EXCEPT ![i] = old] = t.cols
  BY <1>2, <1>8, <1>11
<1>13. RowCount(u) = RowCount(t) /\ Index(u, op.col) = i /\ op.col \in ColNames(u)
  BY <1>2, <1>3, <1>5, <1>6, <1>8, <1>12, Rows, IndexOf DEF ColNames
<1>14. [new EXCEPT !.cells[op.row] = old.cells[op.row]] = old
  <2>1. [new.cells EXCEPT ![op.row] = old.cells[op.row]] = old.cells
    BY <1>4, <1>5, <1>6
  <2>2. [new EXCEPT !.cells[op.row] = old.cells[op.row]] = [new EXCEPT !.cells = old.cells]
    BY <2>1, <1>5 DEF Column
  <2>. QED  BY <2>2, <1>3, <1>5 DEF Column
<1>15. ApplyEdit(inv, u) = WithColumn(u, old)
  <2>1. ApplyEdit(inv, u) = SetCell(inv, u)
    BY <1>10 DEF ApplyEdit
  <2>2. inv.col \in ColNames(u) /\ inv.row \in 1 .. RowCount(u) /\ Fits(u.cols[Index(u, inv.col)].type, inv.value)
    BY <1>1, <1>5, <1>9, <1>10, <1>12, <1>13
  <2>3. SetCell(inv, u) = WithColumn(u, [u.cols[Index(u, inv.col)] EXCEPT !.cells[inv.row] = inv.value])
    BY <2>2 DEF SetCell
  <2>. QED  BY <1>10, <1>12, <1>13, <1>14, <2>1, <2>3
<1>16. Gives(inv, u, t.cols)
  BY <1>3, <1>5, <1>8, <1>12, <1>13, <1>15, PutColumn DEF Gives
<1>17. inv \in Invertible
  BY <1>10 DEF Invertible
<1>18. u.cols = [t.cols EXCEPT ![i] = [@ EXCEPT !.cells[op.row] = op.value]]
  BY <1>8, <1>11 DEF new
<1>. QED  BY <1>8, <1>16, <1>17, <1>18 DEF Turns, u, inv, i

-----------------------------------------------------------------------------
(***************************************************************************)
(* Columns put in and taken out.                                           *)
(***************************************************************************)
\* u is s with e put in at i; u is s without what is at i.
Inserts(u, s, i, e) ==
    /\ u \in Seq(FitColumn) /\ Len(u) = Len(s) + 1 /\ u[i] = e
    /\ \A j \in 1 .. i - 1 : u[j] = s[j]
    /\ \A j \in i + 1 .. Len(s) + 1 : u[j] = s[j - 1]

Removes(u, s, i) ==
    /\ u \in Seq(FitColumn) /\ Len(u) = Len(s) - 1
    /\ \A j \in 1 .. Len(s) - 1 : u[j] = IF j < i THEN s[j] ELSE s[j + 1]

\* What InsertAt answers, by position.
LEMMA InsertedAt ==
    ASSUME NEW s \in Seq(FitColumn), NEW e \in FitColumn, NEW i \in 1 .. Len(s) + 1
    PROVE  Inserts(InsertAt(s, i, e), s, i, e)
<1>. DEFINE low  == SubSeq(s, 1, i - 1)
            high == SubSeq(s, i, Len(s))
            mid  == <<e>>
            left == low \o mid
<1>1. low \in Seq(FitColumn) /\ Len(low) = i - 1 /\ \A j \in 1 .. i - 1 : low[j] = s[j]
  BY SubSeqProperties
<1>2. high \in Seq(FitColumn) /\ Len(high) = Len(s) - i + 1 /\ \A j \in 1 .. Len(s) - i + 1 : high[j] = s[i + j - 1]
  BY SubSeqProperties
<1>3. mid \in Seq(FitColumn) /\ Len(mid) = 1 /\ mid[1] = e
  OBVIOUS
<1>. HIDE DEF low, high, mid
<1>4. /\ left \in Seq(FitColumn) /\ Len(left) = Len(low) + Len(mid)
      /\ \A j \in 1 .. Len(low) + Len(mid) : left[j] = IF j <= Len(low) THEN low[j] ELSE mid[j - Len(low)]
  BY <1>1, <1>3, ConcatProperties
<1>5. left \in Seq(FitColumn) /\ Len(left) = i /\ \A j \in 1 .. i : left[j] = IF j < i THEN s[j] ELSE e
  BY <1>1, <1>3, <1>4
<1>. HIDE DEF left
<1>. DEFINE u == left \o high
<1>6. /\ u \in Seq(FitColumn) /\ Len(u) = Len(left) + Len(high)
      /\ \A j \in 1 .. Len(left) + Len(high) : u[j] = IF j <= Len(left) THEN left[j] ELSE high[j - Len(left)]
  BY <1>2, <1>5, ConcatProperties
<1>. HIDE DEF u
<1>7. /\ u \in Seq(FitColumn) /\ Len(u) = Len(s) + 1
      /\ \A j \in 1 .. Len(s) + 1 : u[j] = IF j < i THEN s[j] ELSE IF j = i THEN e ELSE s[j - 1]
  <2>1. Len(u) = Len(s) + 1
    BY <1>2, <1>5, <1>6
  <2>2. ASSUME NEW j \in 1 .. Len(s) + 1
        PROVE  u[j] = IF j < i THEN s[j] ELSE IF j = i THEN e ELSE s[j - 1]
    <3>1. CASE j <= i
      BY <1>2, <1>5, <1>6, <3>1
    <3>2. CASE j > i
      <4>1. u[j] = high[j - i] /\ j - i \in 1 .. Len(s) - i + 1
        BY <1>2, <1>5, <1>6, <3>2
      <4>2. high[j - i] = s[i + (j - i) - 1]
        BY <1>2, <4>1
      <4>3. i + (j - i) - 1 = j - 1
        OBVIOUS
      <4>. QED  BY <3>2, <4>1, <4>2, <4>3
    <3>. QED  BY <3>1, <3>2
  <2>. QED  BY <1>6, <2>1, <2>2
<1>8. Inserts(u, s, i, e)
  BY <1>7 DEF Inserts
<1>. QED  BY <1>8 DEF InsertAt, low, high, mid, left, u

\* What RemoveAt answers, by position.
LEMMA RemovedAt ==
    ASSUME NEW s \in Seq(FitColumn), NEW i \in DOMAIN s
    PROVE  Removes(RemoveAt(s, i), s, i)
<1>. DEFINE low  == SubSeq(s, 1, i - 1)
            high == SubSeq(s, i + 1, Len(s))
<1>1. low \in Seq(FitColumn) /\ Len(low) = i - 1 /\ \A j \in 1 .. i - 1 : low[j] = s[j]
  BY SubSeqProperties
<1>2. high \in Seq(FitColumn) /\ Len(high) = Len(s) - i /\ \A j \in 1 .. Len(s) - i : high[j] = s[i + j]
  BY SubSeqProperties
<1>. HIDE DEF low, high
<1>. DEFINE u == low \o high
<1>3. /\ u \in Seq(FitColumn) /\ Len(u) = Len(low) + Len(high)
      /\ \A j \in 1 .. Len(low) + Len(high) : u[j] = IF j <= Len(low) THEN low[j] ELSE high[j - Len(low)]
  BY <1>1, <1>2, ConcatProperties
<1>4. RemoveAt(s, i) = u
  BY DEF RemoveAt, low, high
<1>. HIDE DEF u
<1>5. Len(u) = Len(s) - 1
  BY <1>1, <1>2, <1>3
<1>6. ASSUME NEW j \in 1 .. Len(s) - 1
      PROVE  u[j] = IF j < i THEN s[j] ELSE s[j + 1]
  <2>1. CASE j < i
    BY <1>1, <1>2, <1>3, <2>1
  <2>2. CASE j >= i
    <3>1. u[j] = high[j - (i - 1)] /\ j - (i - 1) \in 1 .. Len(s) - i
      BY <1>1, <1>2, <1>3, <2>2
    <3>2. high[j - (i - 1)] = s[i + (j - (i - 1))] /\ i + (j - (i - 1)) = j + 1
      BY <1>2, <3>1
    <3>. QED  BY <2>2, <3>1, <3>2
  <2>. QED  BY <2>1, <2>2
<1>. QED  BY <1>3, <1>4, <1>5, <1>6 DEF Removes

\* A column put in and taken out again leaves the others where they were.
LEMMA InsertThenRemove ==
    ASSUME NEW s \in Seq(FitColumn), NEW e \in FitColumn, NEW i \in 1 .. Len(s) + 1
    PROVE  RemoveAt(InsertAt(s, i, e), i) = s
<1>. DEFINE u == InsertAt(s, i, e)
            v == RemoveAt(u, i)
<1>1. Inserts(u, s, i, e)
  BY InsertedAt
<1>. HIDE DEF u
<1>2. u \in Seq(FitColumn) /\ Len(u) = Len(s) + 1 /\ i \in DOMAIN u
  BY <1>1 DEF Inserts
<1>3. Removes(v, u, i)
  BY <1>2, RemovedAt
<1>. HIDE DEF v
<1>4. v \in Seq(FitColumn) /\ Len(v) = Len(s) /\ \A j \in 1 .. Len(s) : v[j] = s[j]
  <2>1. v \in Seq(FitColumn) /\ Len(v) = Len(s)
    BY <1>2, <1>3 DEF Removes
  <2>2. ASSUME NEW j \in 1 .. Len(s), j < i
        PROVE  v[j] = s[j]
    <3>1. v[j] = u[j]
      BY <1>2, <1>3, <2>2 DEF Removes
    <3>. QED  BY <1>1, <2>2, <3>1 DEF Inserts
  <2>3. ASSUME NEW j \in 1 .. Len(s), ~(j < i)
        PROVE  v[j] = s[j]
    <3>1. v[j] = u[j + 1]
      BY <1>2, <1>3, <2>3 DEF Removes
    <3>2. j + 1 \in i + 1 .. Len(s) + 1 /\ (j + 1) - 1 = j
      BY <2>3
    <3>3. u[j + 1] = s[(j + 1) - 1]
      BY <1>1, <3>2 DEF Inserts
    <3>. QED  BY <3>1, <3>2, <3>3
  <2>. QED  BY <2>1, <2>2, <2>3
<1>5. v = s
  BY <1>4, SeqEqual
<1>. QED  BY <1>5 DEF u, v

\* A column taken out goes back to where it was.
LEMMA RemoveThenInsert ==
    ASSUME NEW s \in Seq(FitColumn), NEW i \in DOMAIN s
    PROVE  InsertAt(RemoveAt(s, i), i, s[i]) = s
<1>. DEFINE u == RemoveAt(s, i)
            e == s[i]
            v == InsertAt(u, i, e)
<1>0. Removes(u, s, i)
  BY RemovedAt
<1>1. /\ u \in Seq(FitColumn) /\ Len(u) = Len(s) - 1
      /\ \A j \in 1 .. Len(s) - 1 : u[j] = IF j < i THEN s[j] ELSE s[j + 1]
  BY <1>0 DEF Removes
<1>. HIDE DEF u
<1>2. u \in Seq(FitColumn) /\ i \in 1 .. Len(u) + 1 /\ e \in FitColumn
  BY <1>1
<1>. HIDE DEF e
<1>2a. Inserts(v, u, i, e)
  BY <1>2, InsertedAt
<1>. HIDE DEF v
<1>3. /\ v \in Seq(FitColumn) /\ Len(v) = Len(u) + 1 /\ v[i] = e
      /\ \A j \in 1 .. i - 1 : v[j] = u[j]
      /\ \A j \in i + 1 .. Len(u) + 1 : v[j] = u[j - 1]
  BY <1>2a DEF Inserts
<1>4. Len(v) = Len(s) /\ \A j \in 1 .. Len(s) : v[j] = s[j]
  <2>1. Len(v) = Len(s)
    BY <1>1, <1>3
  <2>2. ASSUME NEW j \in 1 .. Len(s), j > i
        PROVE  v[j] = s[j]
    <3>1. v[j] = u[j - 1] /\ j - 1 \in 1 .. Len(s) - 1 /\ ~(j - 1 < i)
      BY <1>1, <1>3, <2>2
    <3>2. u[j - 1] = s[(j - 1) + 1]
      BY <1>1, <3>1
    <3>. QED  BY <3>1, <3>2
  <2>3. v[i] = s[i]
    BY <1>1, <1>3 DEF e
  <2>4. ASSUME NEW j \in 1 .. Len(s), j < i
        PROVE  v[j] = s[j]
    <3>1. j \in 1 .. i - 1 /\ j \in 1 .. Len(s) - 1
      BY <2>4
    <3>2. v[j] = u[j]
      BY <1>3, <3>1
    <3>3. u[j] = s[j]
      BY <1>1, <2>4, <3>1
    <3>. QED  BY <3>2, <3>3
  <2>. QED  BY <2>1, <2>2, <2>3, <2>4
<1>5. v = s
  BY <1>3, <1>4, SeqEqual
<1>. QED  BY <1>5 DEF u, v, e

\* A column put in - anywhere: the index is clamped - is taken back by removing it by name.
LEMMA InsertColumnTurns ==
    ASSUME NEW t, IsTable(t), NEW op \in InsertColumns, ApplyEdit(op, t).err = "None"
    PROVE  Turns(op, t)
<1>. DEFINE k == Clamp(op.index, t) + 1
            col == op.column
            u == ApplyEdit(op, t).table
            inv == Undoing(op, t)
<1>0. op.tag = "InsertColumn" /\ op.index \in Int /\ col \in FitColumn /\ col.name \in ColumnNames
  BY DEF InsertColumns, FitColumn, Column
<1>1. /\ col.name \notin ColNames(t)
      /\ t.cols # << >> => Len(col.cells) = RowCount(t)
      /\ ApplyEdit(op, t) = Done(InsertAt(t.cols, k, col), t.meta)
  BY <1>0 DEF ApplyEdit, InsertColumn, Refuse
<1>2. u.cols = InsertAt(t.cols, k, col) /\ u.meta = t.meta
  BY <1>1 DEF Done
<1>3. t.cols \in Seq(FitColumn) /\ k \in 1 .. Len(t.cols) + 1 /\ DOMAIN t.cols = 1 .. Len(t.cols)
  BY <1>0 DEF IsTable, Clamp
<1>4. inv = [tag |-> "RemoveColumn", name |-> col.name]
  BY <1>0 DEF Undoing
<1>. HIDE DEF k, u, col, inv
<1>5. /\ u.cols \in Seq(FitColumn) /\ Len(u.cols) = Len(t.cols) + 1 /\ u.cols[k] = col
      /\ \A j \in 1 .. k - 1 : u.cols[j] = t.cols[j]
      /\ \A j \in k + 1 .. Len(t.cols) + 1 : u.cols[j] = t.cols[j - 1]
  <2>1. Inserts(u.cols, t.cols, k, col)
    <3>1. t.cols \in Seq(FitColumn) /\ col \in FitColumn /\ k \in 1 .. Len(t.cols) + 1
      BY <1>0, <1>3
    <3>2. Inserts(InsertAt(t.cols, k, col), t.cols, k, col)
      BY ONLY <3>1, InsertedAt
    <3>. QED  BY <1>2, <3>2
  <2>. QED  BY <2>1 DEF Inserts
<1>6. DOMAIN u.cols = 1 .. Len(t.cols) + 1 /\ k \in DOMAIN u.cols /\ u.cols[k] = col
  BY <1>3, <1>5
<1>7. ASSUME NEW j \in DOMAIN u.cols, j # k
      PROVE  \E i \in DOMAIN t.cols : u.cols[j] = t.cols[i] /\ i = IF j < k THEN j ELSE j - 1
  <2>1. CASE j < k
    <3>1. j \in DOMAIN t.cols /\ u.cols[j] = t.cols[j]
      BY <1>3, <1>5, <1>6, <2>1
    <3>. QED  BY <2>1, <3>1
  <2>2. CASE j > k
    <3>1. j - 1 \in DOMAIN t.cols /\ j \in k + 1 .. Len(t.cols) + 1 /\ ~(j < k)
      BY <1>3, <1>6, <2>2
    <3>2. u.cols[j] = t.cols[j - 1]
      BY <1>5, <3>1
    <3>. QED  BY <3>1, <3>2
  <2>. QED  BY <1>3, <1>6, <1>7, <2>1, <2>2
<1>8. \A i, j \in DOMAIN u.cols :
         /\ u.cols[i].name = u.cols[j].name => i = j
         /\ Len(u.cols[i].cells) = Len(u.cols[j].cells)
  <2>1. ASSUME NEW j \in DOMAIN u.cols, j # k
        PROVE  u.cols[j].name # col.name /\ Len(u.cols[j].cells) = Len(col.cells)
    <3>1. PICK i \in DOMAIN t.cols : u.cols[j] = t.cols[i]
      BY <1>7, <2>1
    <3>2. t.cols # << >> /\ t.cols[i].name \in ColNames(t)
      BY <1>3 DEF ColNames
    <3>3. Len(t.cols[i].cells) = RowCount(t)
      BY Rows
    <3>4. col.name # t.cols[i].name
      BY <1>1, <3>2
    <3>5. Len(col.cells) = RowCount(t)
      BY <1>1, <3>2
    <3>. QED  BY <3>1, <3>3, <3>4, <3>5
  <2>2. ASSUME NEW i \in DOMAIN u.cols, NEW j \in DOMAIN u.cols, i # k, j # k
        PROVE  /\ u.cols[i].name = u.cols[j].name => i = j
               /\ Len(u.cols[i].cells) = Len(u.cols[j].cells)
    <3>1. PICK a \in DOMAIN t.cols : u.cols[i] = t.cols[a] /\ a = IF i < k THEN i ELSE i - 1
      BY <1>7, <2>2
    <3>2. PICK b \in DOMAIN t.cols : u.cols[j] = t.cols[b] /\ b = IF j < k THEN j ELSE j - 1
      BY <1>7, <2>2
    <3>3. a = b => i = j
      BY <1>3, <1>6, <2>2, <3>1, <3>2
    <3>. QED  BY <3>1, <3>2, <3>3 DEF IsTable
  <2>. QED  BY <1>6, <2>1, <2>2
<1>9. ColNames(t) \subseteq ColNames(u)
  <2>1. ASSUME NEW i \in DOMAIN t.cols
        PROVE  t.cols[i].name \in ColNames(u)
    <3>1. CASE i < k
      <4>1. i \in DOMAIN u.cols /\ u.cols[i] = t.cols[i]
        BY <1>3, <1>5, <1>6, <3>1
      <4>. QED  BY <4>1 DEF ColNames
    <3>2. CASE i >= k
      <4>1. i + 1 \in DOMAIN u.cols /\ i + 1 \in k + 1 .. Len(t.cols) + 1 /\ (i + 1) - 1 = i
        BY <1>3, <1>6, <3>2
      <4>2. u.cols[i + 1] = t.cols[(i + 1) - 1]
        BY <1>5, <4>1
      <4>. QED  BY <4>1, <4>2 DEF ColNames
    <3>. QED  BY <1>3, <3>1, <3>2
  <2>. QED  BY <2>1 DEF ColNames
<1>10. IsTable(u)
  BY <1>2, <1>5, <1>8, <1>9 DEF IsTable
<1>11. Index(u, col.name) = k /\ col.name \in ColNames(u)
  BY <1>6, <1>10, IndexOf DEF ColNames
<1>12. ApplyEdit(inv, u).err = "None" /\ ApplyEdit(inv, u).table.cols = RemoveAt(u.cols, k)
  BY <1>4, <1>11 DEF ApplyEdit, RemoveColumn, Done
<1>13. Gives(inv, u, t.cols)
  BY <1>0, <1>2, <1>3, <1>12, InsertThenRemove DEF Gives
<1>14. inv \in Invertible
  BY <1>0, <1>4 DEF Invertible, RemoveColumns
<1>. QED  BY <1>10, <1>13, <1>14 DEF Turns, u, inv

\* A column removed is taken back by putting it in where it was.
LEMMA RemoveColumnTurns ==
    ASSUME NEW t, IsTable(t), NEW op \in RemoveColumns, ApplyEdit(op, t).err = "None"
    PROVE  Turns(op, t)
<1>. DEFINE k == Index(t, op.name)
            col == t.cols[k]
            u == ApplyEdit(op, t).table
            inv == Undoing(op, t)
<1>0. op.tag = "RemoveColumn"
  BY DEF RemoveColumns
<1>1. /\ op.name \in ColNames(t)
      /\ ApplyEdit(op, t) = Done(RemoveAt(t.cols, k), Restrict(t.meta, DOMAIN t.meta \ {op.name}))
  BY <1>0 DEF ApplyEdit, RemoveColumn, Refuse
<1>2. u.cols = RemoveAt(t.cols, k) /\ DOMAIN u.meta = DOMAIN t.meta \ {op.name}
  BY <1>1 DEF Done, Restrict
<1>3. k \in DOMAIN t.cols /\ col.name = op.name /\ t.cols \in Seq(FitColumn) /\ DOMAIN t.cols = 1 .. Len(t.cols)
  BY <1>1, IndexIn DEF IsTable
<1>4. inv = [tag |-> "InsertColumn", index |-> k - 1, column |-> col]
  BY <1>0 DEF Undoing
<1>. HIDE DEF k, u, inv
<1>5. /\ u.cols \in Seq(FitColumn) /\ Len(u.cols) = Len(t.cols) - 1
      /\ \A j \in 1 .. Len(t.cols) - 1 : u.cols[j] = IF j < k THEN t.cols[j] ELSE t.cols[j + 1]
  <2>1. Removes(u.cols, t.cols, k)
    BY <1>2, <1>3, RemovedAt
  <2>. QED  BY <2>1 DEF Removes
<1>6. DOMAIN u.cols = 1 .. Len(t.cols) - 1
  BY <1>3, <1>5
<1>7. ASSUME NEW j \in DOMAIN u.cols
      PROVE  \E i \in DOMAIN t.cols : u.cols[j] = t.cols[i] /\ i = IF j < k THEN j ELSE j + 1
  BY <1>3, <1>5, <1>6
<1>8. \A i, j \in DOMAIN u.cols :
         /\ u.cols[i].name = u.cols[j].name => i = j
         /\ Len(u.cols[i].cells) = Len(u.cols[j].cells)
  <2>1. TAKE i, j \in DOMAIN u.cols
  <2>2. PICK a \in DOMAIN t.cols : u.cols[i] = t.cols[a] /\ a = IF i < k THEN i ELSE i + 1
    BY <1>7
  <2>3. PICK b \in DOMAIN t.cols : u.cols[j] = t.cols[b] /\ b = IF j < k THEN j ELSE j + 1
    BY <1>7
  <2>4. a = b => i = j
    BY <1>3, <1>6, <2>2, <2>3
  <2>. QED  BY <2>2, <2>3, <2>4 DEF IsTable
<1>9. ColNames(u) = ColNames(t) \ {op.name}
  <2>1. ASSUME NEW i \in DOMAIN t.cols, i # k
        PROVE  t.cols[i].name \in ColNames(u)
    <3>1. CASE i < k
      <4>1. i \in DOMAIN u.cols /\ u.cols[i] = t.cols[i]
        BY <1>3, <1>5, <1>6, <3>1
      <4>. QED  BY <4>1 DEF ColNames
    <3>2. CASE i > k
      <4>1. i - 1 \in DOMAIN u.cols /\ u.cols[i - 1] = t.cols[(i - 1) + 1]
        BY <1>3, <1>5, <1>6, <3>2
      <4>. QED  BY <4>1, <1>3 DEF ColNames
    <3>. QED  BY <1>3, <2>1, <3>1, <3>2
  <2>2. ASSUME NEW j \in DOMAIN u.cols
        PROVE  u.cols[j].name \in ColNames(t) \ {op.name}
    <3>1. PICK i \in DOMAIN t.cols : u.cols[j] = t.cols[i] /\ i # k
      BY <1>3, <1>6, <1>7
    <3>. QED  BY <1>3, <3>1 DEF ColNames, IsTable
  <2>. QED  BY <1>3, <2>1, <2>2 DEF ColNames
<1>10. IsTable(u)
  BY <1>2, <1>5, <1>8, <1>9 DEF IsTable
<1>11. col \in FitColumn /\ Len(col.cells) = RowCount(t) /\ col \in Column
  BY <1>3, Rows
<1>. HIDE DEF col
<1>12. u.cols # << >> => RowCount(u) = Len(col.cells)
  <2>1. HAVE u.cols # << >>
  <2>2. 1 \in DOMAIN u.cols
    BY <1>5, <2>1
  <2>3. PICK i \in DOMAIN t.cols : u.cols[1] = t.cols[i]
    BY <1>7, <2>2
  <2>. QED  BY <1>10, <1>11, <2>2, <2>3, Rows
<1>13. Clamp(k - 1, u) = k - 1 /\ k - 1 + 1 = k
  BY <1>3, <1>5 DEF Clamp
<1>14. inv.tag = "InsertColumn" /\ inv.column = col /\ inv.index = k - 1 /\ col.name \notin ColNames(u)
  BY <1>3, <1>4, <1>9 DEF col
<1>15. ApplyEdit(inv, u).err = "None" /\ ApplyEdit(inv, u).table.cols = InsertAt(u.cols, k, col)
  <2>1. InsertColumn(inv, u) = Done(InsertAt(u.cols, k, col), u.meta)
    BY <1>12, <1>13, <1>14 DEF InsertColumn
  <2>. QED  BY <1>14, <2>1 DEF ApplyEdit, Done
<1>16. Gives(inv, u, t.cols)
  BY <1>2, <1>3, <1>15, RemoveThenInsert DEF Gives, col
<1>17. inv \in Invertible
  BY <1>3, <1>4, <1>11 DEF Invertible, InsertColumns
<1>. QED  BY <1>10, <1>16, <1>17 DEF Turns, u, inv

-----------------------------------------------------------------------------
(***************************************************************************)
(* Any edit.                                                               *)
(***************************************************************************)
\* So every op with an inverse is taken back by it.
LEMMA EditTurns ==
    ASSUME NEW t, IsTable(t), NEW op \in Invertible, ApplyEdit(op, t).err = "None"
    PROVE  Turns(op, t)
  BY SetCellTurns, SetColumnTurns, InsertColumnTurns, RemoveColumnTurns DEF Invertible

\* Metadata plays no part in what an edit does to the columns.
LEMMA SameColumns ==
    ASSUME NEW s, NEW t, s.cols = t.cols, NEW op \in Invertible
    PROVE  Alike(op, s, t)
<1>1. /\ RowCount(s) = RowCount(t) /\ ColNames(s) = ColNames(t)
      /\ \A name : Index(s, name) = Index(t, name)
      /\ \A i : Clamp(i, s) = Clamp(i, t)
  BY DEF RowCount, ColNames, Index, Clamp
<1>2. ASSUME NEW col
      PROVE  WithColumn(s, col).err = "None" /\ WithColumn(s, col).table.cols = WithColumn(t, col).table.cols
  BY <1>1 DEF WithColumn, Done
<1>3. CASE op \in SetCells
  <2>1. op.tag = "SetCell"
    BY <1>3 DEF SetCells
  <2>2. ApplyEdit(op, s) = SetCell(op, s) /\ ApplyEdit(op, t) = SetCell(op, t)
    BY <2>1 DEF ApplyEdit
  <2>3. SetCell(op, t).err = "None"
          => SetCell(op, s).err = "None" /\ SetCell(op, s).table.cols = SetCell(op, t).table.cols
    BY <1>1, <1>2 DEF SetCell, Refuse
  <2>. QED  BY <2>2, <2>3 DEF Alike, Gives
<1>4. CASE op \in SetColumns
  <2>1. op.tag = "SetColumn"
    BY <1>4 DEF SetColumns
  <2>2. ApplyEdit(op, s) = SetColumn(op, s) /\ ApplyEdit(op, t) = SetColumn(op, t)
    BY <2>1 DEF ApplyEdit
  <2>3. SetColumn(op, t).err = "None"
          => SetColumn(op, s).err = "None" /\ SetColumn(op, s).table.cols = SetColumn(op, t).table.cols
    BY <1>1, <1>2 DEF SetColumn, Refuse
  <2>. QED  BY <2>2, <2>3 DEF Alike, Gives
<1>5. CASE op \in InsertColumns
  <2>1. op.tag = "InsertColumn"
    BY <1>5 DEF InsertColumns
  <2>2. ApplyEdit(op, s) = InsertColumn(op, s) /\ ApplyEdit(op, t) = InsertColumn(op, t)
    BY <2>1 DEF ApplyEdit
  <2>3. InsertColumn(op, t).err = "None"
          => InsertColumn(op, s).err = "None" /\ InsertColumn(op, s).table.cols = InsertColumn(op, t).table.cols
    BY <1>1 DEF InsertColumn, Refuse, Done
  <2>. QED  BY <2>2, <2>3 DEF Alike, Gives
<1>6. CASE op \in RemoveColumns
  <2>1. op.tag = "RemoveColumn"
    BY <1>6 DEF RemoveColumns
  <2>2. ApplyEdit(op, s) = RemoveColumn(op, s) /\ ApplyEdit(op, t) = RemoveColumn(op, t)
    BY <2>1 DEF ApplyEdit
  <2>3. RemoveColumn(op, t).err = "None"
          => RemoveColumn(op, s).err = "None" /\ RemoveColumn(op, s).table.cols = RemoveColumn(op, t).table.cols
    BY <1>1 DEF RemoveColumn, Refuse, Done
  <2>. QED  BY <2>2, <2>3 DEF Alike, Gives
<1>. QED  BY <1>3, <1>4, <1>5, <1>6 DEF Invertible

\* u has the columns of t, with more rows below.
SameShape(u, t) == DOMAIN u.cols = DOMAIN t.cols /\ \A c \in DOMAIN t.cols : u.cols[c].name = t.cols[c].name
Grows(u, t) ==
    /\ SameShape(u, t)
    /\ \A c \in DOMAIN t.cols :
         /\ Len(u.cols[c].cells) >= Len(t.cols[c].cells)
         /\ \A k \in 1 .. Len(t.cols[c].cells) : u.cols[c].cells[k] = t.cols[c].cells[k]

\* Appended rows leave a table, and the rows there were.
LEMMA AppendTable ==
    ASSUME NEW t, IsTable(t), NEW op \in Appends, Null \in Values, ApplyEdit(op, t).err = "None"
    PROVE  IsTable(ApplyEdit(op, t).table) /\ Grows(ApplyEdit(op, t).table, t)
<1>. DEFINE u == ApplyEdit(op, t).table
            entries == UNION {op.rows[i] : i \in DOMAIN op.rows}
            added(i) == [r \in DOMAIN op.rows |-> CellOf(op.rows[r], t.cols[i].name)]
<1>0. op.tag = "AppendRows" /\ op.rows \in Seq(SUBSET [col : ColumnNames, value : Values])
  BY DEF Appends
<1>1. ApplyEdit(op, t) = AppendRows(op, t)
  BY <1>0 DEF ApplyEdit
<1>2. /\ \A e \in entries : e.col \in ColNames(t) /\ Fits(t.cols[Index(t, e.col)].type, e.value)
      /\ u.cols = [i \in DOMAIN t.cols |-> [t.cols[i] EXCEPT !.cells = @ \o added(i)]] /\ u.meta = t.meta
  BY <1>1 DEF AppendRows, Refuse, Done
<1>. HIDE DEF u
<1>3. t.cols \in Seq(FitColumn) /\ DOMAIN t.cols = 1 .. Len(t.cols) /\ Len(t.cols) \in Nat
  BY DEF IsTable
<1>4. ASSUME NEW i \in DOMAIN t.cols
      PROVE  /\ u.cols[i] \in FitColumn /\ u.cols[i].name = t.cols[i].name
             /\ Len(u.cols[i].cells) = Len(t.cols[i].cells) + Len(op.rows)
             /\ \A k \in 1 .. Len(t.cols[i].cells) : u.cols[i].cells[k] = t.cols[i].cells[k]
  <2>. DEFINE old == t.cols[i]
              new == u.cols[i]
  <2>1. old \in FitColumn /\ old \in Column
    BY Rows
  <2>2. new = [old EXCEPT !.cells = old.cells \o added(i)]
    BY <1>2
  <2>3. ASSUME NEW r \in DOMAIN op.rows
        PROVE  added(i)[r] \in Values /\ Fits(old.type, added(i)[r])
    <3>1. added(i)[r] = CellOf(op.rows[r], old.name)
      OBVIOUS
    <3>2. CASE \E e \in op.rows[r] : e.col = old.name
      <4>. DEFINE e == CHOOSE e \in op.rows[r] : e.col = old.name
      <4>1. e \in op.rows[r] /\ e.col = old.name
        BY <3>2
      <4>2. CellOf(op.rows[r], old.name) = e.value
        BY <3>2 DEF CellOf
      <4>. HIDE DEF e
      <4>3. e \in entries /\ e.value \in Values
        BY <1>0, <4>1
      <4>4. Index(t, e.col) = i
        BY <4>1, IndexOf
      <4>. QED  BY <1>2, <3>1, <4>2, <4>3, <4>4
    <3>3. CASE ~ \E e \in op.rows[r] : e.col = old.name
      BY <3>1, <3>3 DEF CellOf, Fits
    <3>. QED  BY <3>2, <3>3
  <2>. DEFINE more == added(i)
  <2>4. more \in Seq(Values) /\ Len(more) = Len(op.rows) /\ DOMAIN more = DOMAIN op.rows
    <3>1. DOMAIN op.rows = 1 .. Len(op.rows) /\ Len(op.rows) \in Nat
      BY <1>0
    <3>2. more \in [1 .. Len(op.rows) -> Values]
      BY <2>3, <3>1
    <3>. HIDE DEF more
    <3>. QED  BY <3>1, <3>2
  <2>5. \A r \in DOMAIN more : Fits(old.type, more[r])
    BY <2>3
  <2>. HIDE DEF more
  <2>6. old.cells \in Seq(Values) /\ \A k \in DOMAIN old.cells : Fits(old.type, old.cells[k])
    BY <2>1 DEF FitColumn, Column
  <2>. DEFINE cells == old.cells \o more
  <2>7. /\ cells \in Seq(Values) /\ Len(cells) = Len(old.cells) + Len(more)
        /\ \A k \in 1 .. Len(old.cells) + Len(more) :
             cells[k] = IF k <= Len(old.cells) THEN old.cells[k] ELSE more[k - Len(old.cells)]
    BY <2>4, <2>6, ConcatProperties
  <2>8. new = [old EXCEPT !.cells = cells]
    BY <2>2 DEF more
  <2>. HIDE DEF cells, old, new
  <2>9. \A k \in DOMAIN cells : Fits(old.type, cells[k])
    <3>0. /\ DOMAIN cells = 1 .. Len(old.cells) + Len(more)
          /\ DOMAIN old.cells = 1 .. Len(old.cells) /\ Len(old.cells) \in Nat
          /\ DOMAIN more = 1 .. Len(more) /\ Len(more) \in Nat
      BY <2>4, <2>6, <2>7
    <3>1. ASSUME NEW k \in DOMAIN cells
          PROVE  Fits(old.type, cells[k])
      <4>1. CASE k <= Len(old.cells)
        <5>1. k \in DOMAIN old.cells /\ cells[k] = old.cells[k]
          BY <2>7, <3>0, <4>1
        <5>. QED  BY <2>6, <5>1
      <4>2. CASE k > Len(old.cells)
        <5>1. k - Len(old.cells) \in DOMAIN more /\ cells[k] = more[k - Len(old.cells)]
          BY <2>7, <3>0, <4>2
        <5>. QED  BY <2>5, <5>1
      <4>. QED  BY <3>0, <4>1, <4>2
    <3>. QED  BY <3>1
  <2>10. new \in Column /\ new.name = old.name /\ new.type = old.type /\ new.cells = cells
    BY <2>1, <2>7, <2>8 DEF Column
  <2>11. new \in FitColumn
    BY <2>9, <2>10 DEF FitColumn
  <2>12. \A k \in 1 .. Len(old.cells) : new.cells[k] = old.cells[k]
    <3>1. Len(old.cells) \in Nat /\ Len(more) \in Nat
      BY <2>4, <2>6
    <3>2. \A k \in 1 .. Len(old.cells) : k \in 1 .. Len(old.cells) + Len(more) /\ k <= Len(old.cells)
      BY <3>1
    <3>. QED  BY <2>7, <2>10, <3>2
  <2>. QED  BY <2>4, <2>7, <2>10, <2>11, <2>12 DEF old, new
<1>5. DOMAIN u.cols = DOMAIN t.cols /\ \A i \in DOMAIN t.cols : u.cols[i].name = t.cols[i].name
  BY <1>2, <1>4
<1>6. u.cols \in Seq(FitColumn)
  <2>1. u.cols \in [1 .. Len(t.cols) -> FitColumn]
    BY <1>2, <1>3, <1>4
  <2>. QED  BY <1>3, <2>1
<1>7. ColNames(u) = ColNames(t)
  BY <1>5 DEF ColNames
<1>8. \A i, j \in DOMAIN u.cols :
         /\ u.cols[i].name = u.cols[j].name => i = j
         /\ Len(u.cols[i].cells) = Len(u.cols[j].cells)
  <2>1. \A i, j \in DOMAIN t.cols : /\ t.cols[i].name = t.cols[j].name => i = j
                                    /\ Len(t.cols[i].cells) = Len(t.cols[j].cells)
    BY DEF IsTable
  <2>2. \A i \in DOMAIN t.cols : Len(u.cols[i].cells) = Len(t.cols[i].cells) + Len(op.rows)
    BY <1>4
  <2>. QED  BY <1>5, <2>1, <2>2
<1>9. DOMAIN u.meta \subseteq ColNames(u)
  BY <1>2, <1>7 DEF IsTable
<1>10. Len(op.rows) \in Nat /\ \A c \in DOMAIN t.cols : Len(t.cols[c].cells) \in Nat
  BY <1>0, Rows
<1>11. Grows(u, t)
  <2>1. SameShape(u, t)
    BY <1>5 DEF SameShape
  <2>2. ASSUME NEW c \in DOMAIN t.cols
        PROVE  Len(u.cols[c].cells) >= Len(t.cols[c].cells)
    <3>1. Len(u.cols[c].cells) = Len(t.cols[c].cells) + Len(op.rows)
      BY <1>4
    <3>2. Len(t.cols[c].cells) \in Nat /\ Len(op.rows) \in Nat
      BY <1>10
    <3>3. \A m, n \in Nat : m + n >= m
      OBVIOUS
    <3>. QED  BY <3>1, <3>2, <3>3
  <2>. QED  BY <1>4, <2>1, <2>2 DEF Grows
<1>. QED  BY <1>6, <1>8, <1>9, <1>11 DEF IsTable, u

-----------------------------------------------------------------------------
(***************************************************************************)
(* The stacks.                                                             *)
(***************************************************************************)
Entries == [op : Invertible, inv : Invertible]

\* An entry takes the later table's columns back to the earlier's, and repeats.
Joins(e, before, after) == Gives(e.inv, after, before.cols) /\ Gives(e.op, before, after.cols)

\* Each entry joins the tables next to it, all the way down both stacks.
Joined ==
    /\ \A k \in DOMAIN undoStack : Joins(undoStack[k], past[k], IF k = 1 THEN table ELSE past[k - 1])
    /\ \A k \in DOMAIN redoStack : Joins(redoStack[k], IF k = 1 THEN table ELSE future[k - 1], future[k])

Stacked ==
    /\ undoStack \in Seq(Entries) /\ redoStack \in Seq(Entries)
    /\ \E S : past \in Seq(S) /\ future \in Seq(S)
    /\ Len(past) = Len(undoStack) /\ Len(future) = Len(redoStack)
    /\ Len(undoStack) + Len(redoStack) <= Kept

HistoryInv == IsTable(table) /\ Stacked /\ Joined /\ edits \in 0 .. MaxEdits

\* A history keeps one edit at least.
LEMMA KeptSome == Kept \in Nat /\ Kept >= 1
  BY CapacityAssumption DEF Kept

\* Whether an entry joins two tables depends on their columns only.
LEMMA JoinsAlike ==
    ASSUME NEW e \in Entries, NEW before, NEW after, Joins(e, before, after),
           NEW b, NEW a, b.cols = before.cols, a.cols = after.cols
    PROVE  Joins(e, b, a)
<1>1. e.inv \in Invertible /\ e.op \in Invertible
  BY DEF Entries
<1>2. Gives(e.inv, a, b.cols)
  BY <1>1, SameColumns DEF Joins, Alike, Gives
<1>3. Gives(e.op, b, a.cols)
  BY <1>1, SameColumns DEF Joins, Alike, Gives
<1>. QED  BY <1>2, <1>3 DEF Joins

\* u is s with x on top, cut to n; u is s without its top.
Tops(u, s, x, n) == Len(u) = n /\ u[1] = x /\ \A k \in 2 .. n : u[k] = s[k - 1]
Drops(u, s) == Len(u) = Len(s) - 1 /\ \A k \in 1 .. Len(s) - 1 : u[k] = s[k + 1]

Cut(n) == IF n > Kept THEN Kept ELSE n

\* A sequence with one more on top.
LEMMA Put ==
    ASSUME NEW S, NEW s \in Seq(S), NEW x \in S
    PROVE  <<x>> \o s \in Seq(S) /\ Tops(<<x>> \o s, s, x, Len(s) + 1)
<1>. DEFINE one == <<x>>
<1>1. one \in Seq(S) /\ Len(one) = 1 /\ one[1] = x
  OBVIOUS
<1>. HIDE DEF one
<1>2. /\ one \o s \in Seq(S) /\ Len(one \o s) = Len(one) + Len(s)
      /\ \A k \in 1 .. Len(one) + Len(s) : (one \o s)[k] = IF k <= Len(one) THEN one[k] ELSE s[k - Len(one)]
  BY <1>1, ConcatProperties
<1>3. Len(s) \in Nat
  OBVIOUS
<1>4. Tops(one \o s, s, x, Len(s) + 1)
  BY <1>1, <1>2, <1>3 DEF Tops
<1>. QED  BY <1>2, <1>4 DEF one

\* And cut to the capacity.
LEMMA Pushed ==
    ASSUME NEW S, NEW s \in Seq(S), NEW x \in S
    PROVE  Trim(<<x>> \o s) \in Seq(S) /\ Tops(Trim(<<x>> \o s), s, x, Cut(Len(s) + 1))
<1>. DEFINE v == <<x>> \o s
            n == IF Len(v) > Kept THEN Kept ELSE Len(v)
            u == SubSeq(v, 1, n)
<1>1. /\ v \in Seq(S) /\ Len(v) = Len(s) + 1 /\ v[1] = x
      /\ \A k \in 2 .. Len(s) + 1 : v[k] = s[k - 1]
  BY Put DEF Tops
<1>2. Trim(<<x>> \o s) = u
  BY DEF Trim
<1>. HIDE DEF v
<1>3. n \in 1 .. Len(v) /\ Len(s) \in Nat
  BY <1>1, KeptSome
<1>4. n = Cut(Len(s) + 1)
  BY <1>1 DEF Cut
<1>. HIDE DEF n
<1>5. /\ u \in Seq(S) /\ Len(u) = n
      /\ \A k \in 1 .. n : u[k] = v[k]
  <2>1. \A k \in 1 .. n : v[k] \in S
    BY <1>1, <1>3
  <2>2. /\ u \in Seq(S) /\ Len(u) = IF 1 <= n THEN n - 1 + 1 ELSE 0
        /\ \A k \in 1 .. n - 1 + 1 : u[k] = v[1 + k - 1]
    BY <1>3, <2>1, SubSeqProperties
  <2>. QED  BY <1>3, <2>2
<1>. HIDE DEF u
<1>6. Tops(u, s, x, n)
  BY <1>1, <1>3, <1>5 DEF Tops
<1>. QED  BY <1>2, <1>4, <1>5, <1>6

\* A sequence without its top.
LEMMA Popped ==
    ASSUME NEW S, NEW s \in Seq(S), s # << >>
    PROVE  /\ Tail(s) \in Seq(S) /\ Drops(Tail(s), s) /\ Head(s) = s[1] /\ Head(s) \in S
           /\ 1 \in DOMAIN s /\ Len(s) \in Nat \ {0}
  BY HeadTailProperties DEF Drops

-----------------------------------------------------------------------------
(***************************************************************************)
(* The steps of the history.                                               *)
(***************************************************************************)
\* An edit that can be taken back goes on top, joined to the table it makes.
LEMMA InvertibleStep ==
    ASSUME Lawful, HistoryInv, NEW op \in Invertible, Accept(op, ApplyEdit(op, table))
    PROVE  HistoryInv'
<1>. DEFINE result == ApplyEdit(op, table)
            e == [op |-> op, inv |-> Undoing(op, table)]
<1>1. result.err = "None" /\ op.tag \notin {"AppendRows", "ApplyTransform"}
  BY DEF Accept, AcceptWith, Invertible, SetCells, SetColumns, InsertColumns, RemoveColumns
<1>2. InvertOp(op, table, result) = [err |-> "None", op |-> Undoing(op, table)]
  BY <1>1 DEF InvertOp
<1>3. /\ table' = result.table /\ edits' = edits + 1 /\ edits < MaxEdits
      /\ undoStack' = Trim(<<e>> \o undoStack) /\ past' = Trim(<<table>> \o past)
      /\ redoStack' = << >> /\ future' = << >>
  BY <1>2 DEF Accept, AcceptWith
<1>4. Turns(op, table) /\ e \in Entries
  BY <1>1, EditTurns DEF HistoryInv, Entries, Turns
<1>5. IsTable(table') /\ Joins(e, table, table')
  BY <1>1, <1>3, <1>4 DEF Turns, Joins, Gives
<1>. HIDE DEF e, result
<1>6. PICK S : past \in Seq(S) /\ future \in Seq(S)
  BY DEF HistoryInv, Stacked
<1>. DEFINE T == S \union {table}
<1>7. undoStack \in Seq(Entries) /\ past \in Seq(T) /\ table \in T /\ Len(past) = Len(undoStack)
  BY <1>6 DEF HistoryInv, Stacked
<1>. HIDE DEF T
<1>8. undoStack' \in Seq(Entries) /\ Tops(undoStack', undoStack, e, Cut(Len(undoStack) + 1))
  BY <1>3, <1>4, <1>7, Pushed
<1>9. past' \in Seq(T) /\ Tops(past', past, table, Cut(Len(past) + 1))
  BY <1>3, <1>7, Pushed
<1>10. redoStack' \in Seq(Entries) /\ future' \in Seq(T) /\ Len(redoStack') = 0 /\ Len(future') = 0
       /\ DOMAIN redoStack' = {}
  BY <1>3
<1>11. Stacked'
  <2>1. Len(undoStack') <= Kept /\ Len(past') = Len(undoStack')
    BY <1>7, <1>8, <1>9, KeptSome DEF Tops, Cut
  <2>2. Kept' = Kept
    BY DEF Kept
  <2>. QED  BY <1>8, <1>9, <1>10, <2>1, <2>2, KeptSome DEF Stacked
<1>12. ASSUME NEW k \in DOMAIN undoStack'
       PROVE  Joins(undoStack'[k], past'[k], IF k = 1 THEN table' ELSE past'[k - 1])
  <2>1. CASE k = 1
    BY <1>5, <1>8, <1>9, <2>1 DEF Tops
  <2>2. CASE k > 1
    <3>1. k \in 2 .. Len(undoStack') /\ k \in 2 .. Len(past') /\ k - 1 \in DOMAIN undoStack
      BY <1>7, <1>8, <1>9, <2>2, KeptSome DEF Tops, Cut
    <3>2. undoStack'[k] = undoStack[k - 1] /\ past'[k] = past[k - 1]
      BY <1>8, <1>9, <3>1 DEF Tops
    <3>3. past'[k - 1] = IF k - 1 = 1 THEN table ELSE past[(k - 1) - 1]
      BY <1>9, <3>1 DEF Tops
    <3>4. Joins(undoStack[k - 1], past[k - 1], IF k - 1 = 1 THEN table ELSE past[(k - 1) - 1])
      BY <3>1 DEF HistoryInv, Joined
    <3>. QED  BY <2>2, <3>2, <3>3, <3>4
  <2>. QED  BY <1>8, <2>1, <2>2
<1>13. Joined'
  BY <1>10, <1>12 DEF Joined
<1>14. (edits \in 0 .. MaxEdits)'
  BY <1>3 DEF HistoryInv, Lawful
<1>. QED  BY <1>5, <1>11, <1>13, <1>14 DEF HistoryInv

\* Rows appended, or a transform: nothing is left to take back.
LEMMA ClearingStep ==
    ASSUME Lawful, HistoryInv, NEW op \in Ops, op.tag \in {"AppendRows", "ApplyTransform"}, Edit(op)
    PROVE  HistoryInv'
<1>. DEFINE result == ApplyOp(op, table)
<1>1. InvertOp(op, table, result).err # "None"
  BY DEF InvertOp
<1>2. /\ result.err = "None" /\ table' = result.table /\ edits' = edits + 1 /\ edits < MaxEdits
      /\ undoStack' = << >> /\ past' = << >> /\ redoStack' = << >> /\ future' = << >>
  BY <1>1 DEF Edit, Accept, AcceptWith
<1>3. IsTable(result.table)
  <2>1. CASE op.tag = "ApplyTransform"
    BY <1>2, <2>1 DEF ApplyOp, Lawful, Closed, HistoryInv
  <2>2. CASE op.tag = "AppendRows"
    <3>1. op \in Appends
      BY <2>2 DEF Lawful, Invertible, SetCells, SetColumns, InsertColumns, RemoveColumns
    <3>2. result = ApplyEdit(op, table)
      BY <2>2 DEF ApplyOp
    <3>. QED  BY <1>2, <3>1, <3>2, AppendTable DEF Lawful, HistoryInv
  <2>. QED  BY <2>1, <2>2
<1>. HIDE DEF result
<1>4. Stacked'
  <2>1. << >> \in Seq(Entries) /\ << >> \in Seq({}) /\ Len(<< >>) = 0
    OBVIOUS
  <2>. QED  BY <1>2, <2>1, KeptSome DEF Stacked, Kept
<1>5. Joined'
  BY <1>2 DEF Joined
<1>6. (edits \in 0 .. MaxEdits)'
  BY <1>2 DEF HistoryInv, Lawful
<1>. QED  BY <1>2, <1>3, <1>4, <1>5, <1>6 DEF HistoryInv

\* What is taken back goes over to the other stack; the table it made is next there.
LEMMA UndoStep ==
    ASSUME HistoryInv, Undo
    PROVE  HistoryInv'
<1>. DEFINE e == Head(undoStack)
<1>1. /\ undoStack # << >> /\ ApplyEdit(e.inv, table).err = "None" /\ table' = ApplyEdit(e.inv, table).table
      /\ undoStack' = Tail(undoStack) /\ past' = Tail(past)
      /\ redoStack' = <<e>> \o redoStack /\ future' = <<table>> \o future
      /\ edits' = edits
  BY DEF Undo, TakeBack
<1>2. PICK S : past \in Seq(S) /\ future \in Seq(S)
  BY DEF HistoryInv, Stacked
<1>. DEFINE T == S \union {table}
<1>3. /\ undoStack \in Seq(Entries) /\ redoStack \in Seq(Entries)
      /\ past \in Seq(T) /\ future \in Seq(T) /\ table \in T
      /\ Len(past) = Len(undoStack) /\ Len(future) = Len(redoStack)
      /\ Len(undoStack) + Len(redoStack) <= Kept
  BY <1>2 DEF HistoryInv, Stacked
<1>. HIDE DEF T
<1>4. /\ undoStack' \in Seq(Entries) /\ Drops(undoStack', undoStack)
      /\ e = undoStack[1] /\ e \in Entries /\ 1 \in DOMAIN undoStack /\ Len(undoStack) \in Nat \ {0}
  BY <1>1, <1>3, Popped
<1>5. past # << >>
  BY <1>3, <1>4
<1>6. past' \in Seq(T) /\ Drops(past', past)
  BY <1>1, <1>3, <1>5, Popped
<1>7. Joins(e, past[1], table)
  BY <1>4 DEF HistoryInv, Joined
<1>8. e.inv \in Invertible /\ table'.cols = past[1].cols
  BY <1>1, <1>4, <1>7 DEF Entries, Joins, Gives
<1>9. IsTable(table')
  BY <1>1, <1>8, EditTurns DEF HistoryInv, Turns
<1>10. Joins(e, table', table)
  BY <1>4, <1>7, <1>8, JoinsAlike
<1>. HIDE DEF e
<1>11. redoStack' \in Seq(Entries) /\ Tops(redoStack', redoStack, e, Len(redoStack) + 1)
  BY <1>1, <1>3, <1>4, Put
<1>12. future' \in Seq(T) /\ Tops(future', future, table, Len(future) + 1)
  BY <1>1, <1>3, Put
<1>13. Len(redoStack) \in Nat /\ Len(redoStack') = Len(future') /\ Len(undoStack') = Len(past')
       /\ Len(undoStack') + Len(redoStack') = Len(undoStack) + Len(redoStack) /\ Kept' = Kept
  BY <1>3, <1>4, <1>6, <1>11, <1>12 DEF Kept, Tops, Drops
<1>14. Stacked'
  BY <1>3, <1>4, <1>6, <1>11, <1>12, <1>13 DEF Stacked
<1>15. ASSUME NEW k \in DOMAIN undoStack'
       PROVE  Joins(undoStack'[k], past'[k], IF k = 1 THEN table' ELSE past'[k - 1])
  <2>1. k \in 1 .. Len(undoStack) - 1 /\ k + 1 \in DOMAIN undoStack /\ k + 1 # 1
    BY <1>3, <1>4 DEF Drops
  <2>2. undoStack'[k] = undoStack[k + 1] /\ past'[k] = past[k + 1] /\ undoStack[k + 1] \in Entries
    BY <1>3, <1>4, <1>6, <2>1 DEF Drops
  <2>3. Joins(undoStack[k + 1], past[k + 1], past[(k + 1) - 1])
    BY <2>1 DEF HistoryInv, Joined
  <2>4. CASE k = 1
    BY <1>8, <2>2, <2>3, <2>4, JoinsAlike
  <2>5. CASE k > 1
    <3>a. Len(past) = Len(undoStack) /\ Len(undoStack) \in Nat
      BY <1>3, <1>4
    <3>0. k - 1 \in 1 .. Len(past) - 1 /\ (k + 1) - 1 = k /\ (k - 1) + 1 = k
      BY <2>1, <2>5, <3>a
    <3>1. \A i \in 1 .. Len(past) - 1 : past'[i] = past[i + 1]
      BY <1>6 DEF Drops
    <3>2. past'[k - 1] = past[k]
      BY <3>0, <3>1
    <3>. QED  BY <2>2, <2>3, <2>5, <3>0, <3>2
  <2>. QED  BY <2>1, <2>4, <2>5
<1>16. ASSUME NEW k \in DOMAIN redoStack'
       PROVE  Joins(redoStack'[k], IF k = 1 THEN table' ELSE future'[k - 1], future'[k])
  <2>1. CASE k = 1
    BY <1>10, <1>11, <1>12, <2>1 DEF Tops
  <2>2. CASE k > 1
    <3>1. k \in 2 .. Len(redoStack) + 1 /\ k \in 2 .. Len(future) + 1 /\ k - 1 \in DOMAIN redoStack
      BY <1>3, <1>11, <2>2 DEF Tops
    <3>2. redoStack'[k] = redoStack[k - 1] /\ future'[k] = future[k - 1]
      BY <1>11, <1>12, <3>1 DEF Tops
    <3>3. future'[k - 1] = IF k - 1 = 1 THEN table ELSE future[(k - 1) - 1]
      BY <1>12, <3>1 DEF Tops
    <3>4. Joins(redoStack[k - 1], IF k - 1 = 1 THEN table ELSE future[(k - 1) - 1], future[k - 1])
      BY <3>1 DEF HistoryInv, Joined
    <3>. QED  BY <2>2, <3>2, <3>3, <3>4
  <2>. QED  BY <1>11, <2>1, <2>2
<1>17. Joined'
  BY <1>15, <1>16 DEF Joined
<1>. QED  BY <1>1, <1>9, <1>14, <1>17 DEF HistoryInv

\* And back.
LEMMA RedoStep ==
    ASSUME HistoryInv, Redo
    PROVE  HistoryInv'
<1>. DEFINE e == Head(redoStack)
<1>1. /\ redoStack # << >> /\ ApplyEdit(e.op, table).err = "None" /\ table' = ApplyEdit(e.op, table).table
      /\ redoStack' = Tail(redoStack) /\ future' = Tail(future)
      /\ undoStack' = Trim(<<e>> \o undoStack) /\ past' = Trim(<<table>> \o past)
      /\ edits' = edits
  BY DEF Redo, Repeat
<1>2. PICK S : past \in Seq(S) /\ future \in Seq(S)
  BY DEF HistoryInv, Stacked
<1>. DEFINE T == S \union {table}
<1>3. /\ undoStack \in Seq(Entries) /\ redoStack \in Seq(Entries)
      /\ past \in Seq(T) /\ future \in Seq(T) /\ table \in T
      /\ Len(past) = Len(undoStack) /\ Len(future) = Len(redoStack)
      /\ Len(undoStack) + Len(redoStack) <= Kept
  BY <1>2 DEF HistoryInv, Stacked
<1>. HIDE DEF T
<1>4. /\ redoStack' \in Seq(Entries) /\ Drops(redoStack', redoStack)
      /\ e = redoStack[1] /\ e \in Entries /\ 1 \in DOMAIN redoStack /\ Len(redoStack) \in Nat \ {0}
  BY <1>1, <1>3, Popped
<1>5. future # << >>
  BY <1>3, <1>4
<1>6. future' \in Seq(T) /\ Drops(future', future)
  BY <1>1, <1>3, <1>5, Popped
<1>7. Joins(e, table, future[1])
  BY <1>4 DEF HistoryInv, Joined
<1>8. e.op \in Invertible /\ table'.cols = future[1].cols
  BY <1>1, <1>4, <1>7 DEF Entries, Joins, Gives
<1>9. IsTable(table')
  BY <1>1, <1>8, EditTurns DEF HistoryInv, Turns
<1>10. Joins(e, table, table')
  BY <1>4, <1>7, <1>8, JoinsAlike
<1>. HIDE DEF e
<1>11. undoStack' \in Seq(Entries) /\ Tops(undoStack', undoStack, e, Cut(Len(undoStack) + 1))
  BY <1>1, <1>3, <1>4, Pushed
<1>12. past' \in Seq(T) /\ Tops(past', past, table, Cut(Len(past) + 1))
  BY <1>1, <1>3, Pushed
<1>13. /\ Len(undoStack) \in Nat /\ Len(undoStack') = Len(undoStack) + 1 /\ Len(past') = Len(undoStack')
       /\ Len(redoStack') = Len(future') /\ Kept' = Kept
       /\ Len(undoStack') + Len(redoStack') = Len(undoStack) + Len(redoStack)
  <2>1. Len(undoStack) \in Nat
    BY <1>3
  <2>2. Len(undoStack) + 1 <= Kept /\ Kept \in Nat
    BY <1>3, <1>4, <2>1, KeptSome
  <2>3. Len(undoStack') = Len(undoStack) + 1 /\ Len(past') = Len(undoStack) + 1
    BY <1>3, <1>11, <1>12, <2>1, <2>2 DEF Tops, Cut
  <2>4. Len(redoStack') = Len(redoStack) - 1 /\ Len(future') = Len(redoStack) - 1
    BY <1>3, <1>4, <1>6 DEF Drops
  <2>5. Kept' = Kept
    BY DEF Kept
  <2>. QED  BY <1>4, <2>1, <2>3, <2>4, <2>5
<1>14. Stacked'
  BY <1>3, <1>4, <1>6, <1>11, <1>12, <1>13 DEF Stacked
<1>15. ASSUME NEW k \in DOMAIN undoStack'
       PROVE  Joins(undoStack'[k], past'[k], IF k = 1 THEN table' ELSE past'[k - 1])
  <2>1. CASE k = 1
    BY <1>10, <1>11, <1>12, <1>13, <2>1 DEF Tops
  <2>2. CASE k > 1
    <3>1. k \in 2 .. Len(undoStack') /\ k \in 2 .. Len(past') /\ k - 1 \in DOMAIN undoStack
      BY <1>3, <1>11, <1>13, <2>2 DEF Tops
    <3>2. undoStack'[k] = undoStack[k - 1] /\ past'[k] = past[k - 1]
      BY <1>11, <1>12, <3>1 DEF Tops
    <3>3. past'[k - 1] = IF k - 1 = 1 THEN table ELSE past[(k - 1) - 1]
      BY <1>12, <3>1 DEF Tops
    <3>4. Joins(undoStack[k - 1], past[k - 1], IF k - 1 = 1 THEN table ELSE past[(k - 1) - 1])
      BY <3>1 DEF HistoryInv, Joined
    <3>. QED  BY <2>2, <3>2, <3>3, <3>4
  <2>. QED  BY <1>11, <2>1, <2>2
<1>16. ASSUME NEW k \in DOMAIN redoStack'
       PROVE  Joins(redoStack'[k], IF k = 1 THEN table' ELSE future'[k - 1], future'[k])
  <2>1. k \in 1 .. Len(redoStack) - 1 /\ k + 1 \in DOMAIN redoStack /\ k + 1 # 1
    BY <1>3, <1>4 DEF Drops
  <2>2. redoStack'[k] = redoStack[k + 1] /\ future'[k] = future[k + 1] /\ redoStack[k + 1] \in Entries
    BY <1>3, <1>4, <1>6, <2>1 DEF Drops
  <2>3. Joins(redoStack[k + 1], future[(k + 1) - 1], future[k + 1])
    BY <2>1 DEF HistoryInv, Joined
  <2>4. CASE k = 1
    BY <1>8, <2>2, <2>3, <2>4, JoinsAlike
  <2>5. CASE k > 1
    <3>a. Len(future) = Len(redoStack) /\ Len(redoStack) \in Nat
      BY <1>3, <1>4
    <3>0. k - 1 \in 1 .. Len(future) - 1 /\ (k + 1) - 1 = k /\ (k - 1) + 1 = k
      BY <2>1, <2>5, <3>a
    <3>1. \A i \in 1 .. Len(future) - 1 : future'[i] = future[i + 1]
      BY <1>6 DEF Drops
    <3>2. future'[k - 1] = future[k]
      BY <3>0, <3>1
    <3>. QED  BY <2>2, <2>3, <2>5, <3>0, <3>2
  <2>. QED  BY <2>1, <2>4, <2>5
<1>17. Joined'
  BY <1>15, <1>16 DEF Joined
<1>. QED  BY <1>1, <1>9, <1>14, <1>17 DEF HistoryInv

-----------------------------------------------------------------------------
(***************************************************************************)
(* The theorem.                                                            *)
(***************************************************************************)
\* A new history is in order.
LEMMA HistoryInvInit ==
    ASSUME Lawful, Init
    PROVE  HistoryInv
<1>1. << >> \in Seq(Entries) /\ << >> \in Seq({}) /\ Len(<< >>) = 0 /\ DOMAIN << >> = {}
  OBVIOUS
<1>2. IsTable(table) /\ edits \in 0 .. MaxEdits
  BY DEF Init, Lawful
<1>3. Stacked
  BY <1>1, KeptSome DEF Init, Stacked
<1>4. Joined
  BY <1>1 DEF Init, Joined
<1>. QED  BY <1>2, <1>3, <1>4 DEF HistoryInv

\* Every step keeps it in order.
LEMMA HistoryInvNext ==
    ASSUME Lawful, HistoryInv, [Next]_vars
    PROVE  HistoryInv'
<1>1. ASSUME NEW op \in Ops, Edit(op)
      PROVE  HistoryInv'
  <2>1. CASE op \in Invertible
    <3>1. ApplyOp(op, table) = ApplyEdit(op, table)
      BY <2>1 DEF ApplyOp, Invertible, SetCells, SetColumns, InsertColumns, RemoveColumns
    <3>. QED  BY <1>1, <2>1, <3>1, InvertibleStep DEF Edit
  <2>2. CASE op \notin Invertible
    <3>1. op.tag \in {"AppendRows", "ApplyTransform"}
      BY <2>2 DEF Lawful, Appends
    <3>. QED  BY <1>1, <3>1, ClearingStep
  <2>. QED  BY <2>1, <2>2
<1>2. CASE Undo
  BY <1>2, UndoStep
<1>3. CASE Redo
  BY <1>3, RedoStep
<1>4. CASE UNCHANGED vars
  <2>1. UNCHANGED <<table, undoStack, redoStack, past, future, edits>>
    BY <1>4 DEF vars
  <2>2. IsTable(table') /\ Kept' = Kept
    BY <2>1 DEF HistoryInv, Kept
  <2>3. Stacked'
    BY <2>1, <2>2 DEF HistoryInv, Stacked
  <2>4. Joined'
    BY <2>1 DEF HistoryInv, Joined
  <2>. QED  BY <2>1, <2>2, <2>3, <2>4 DEF HistoryInv
<1>. QED  BY <1>1, <1>2, <1>3, <1>4 DEF Next

\* A history in order gives back.
LEMMA HistoryInvGivesBack ==
    ASSUME HistoryInv
    PROVE  HistoryGivesBack
<1>1. TypeOK
  <2>1. ASSUME NEW i \in DOMAIN table.cols
        PROVE  \A c \in ToSet(table.cols[i].cells) : Fits(table.cols[i].type, c)
    BY Rows DEF HistoryInv, FitColumn, ToSet
  <2>2. DOMAIN table.meta \subseteq ColNames(table)
    BY DEF HistoryInv, IsTable
  <2>3. \A i, j \in DOMAIN table.cols :
          /\ Len(table.cols[i].cells) = Len(table.cols[j].cells)
          /\ table.cols[i].name = table.cols[j].name => i = j
    BY DEF HistoryInv, IsTable
  <2>. QED  BY <2>1, <2>2, <2>3 DEF TypeOK, HistoryInv, Stacked
<1>2. ASSUME undoStack # << >>
      PROVE  GivesBack(Head(undoStack).inv, Head(past))
  <2>1. undoStack \in Seq(Entries) /\ Len(past) = Len(undoStack) /\ \E S : past \in Seq(S)
    BY DEF HistoryInv, Stacked
  <2>2. 1 \in DOMAIN undoStack /\ Head(undoStack) = undoStack[1]
    BY <1>2, <2>1
  <2>3. Head(past) = past[1]
    BY <1>2, <2>1
  <2>4. Joins(undoStack[1], past[1], table)
    BY <2>2 DEF HistoryInv, Joined
  <2>. QED  BY <2>2, <2>3, <2>4 DEF Joins, Gives, GivesBack
<1>3. ASSUME redoStack # << >>
      PROVE  GivesBack(Head(redoStack).op, Head(future))
  <2>1. redoStack \in Seq(Entries) /\ Len(future) = Len(redoStack) /\ \E S : future \in Seq(S)
    BY DEF HistoryInv, Stacked
  <2>2. 1 \in DOMAIN redoStack /\ Head(redoStack) = redoStack[1]
    BY <1>3, <2>1
  <2>3. Head(future) = future[1]
    BY <1>3, <2>1
  <2>4. Joins(redoStack[1], table, future[1])
    BY <2>2 DEF HistoryInv, Joined
  <2>. QED  BY <2>2, <2>3, <2>4 DEF Joins, Gives, GivesBack
<1>. QED  BY <1>1, <1>2, <1>3 DEF HistoryGivesBack, NextUndo, NextRedo

\* GridEditHistory: whatever mix of edits, undos and redos came before, over whatever
\* tables and with whatever capacity, the next undo gives back the columns its edit
\* was made on and the next redo those it had made; neither is ever refused.
THEOREM UndoAlwaysGivesBack ==
    ASSUME Lawful
    PROVE  Spec => []HistoryGivesBack
<1>1. Init => HistoryInv
  BY HistoryInvInit
<1>2. HistoryInv /\ [Next]_vars => HistoryInv'
  BY HistoryInvNext
<1>3. HistoryInv => HistoryGivesBack
  BY HistoryInvGivesBack
<1>. QED  BY <1>1, <1>2, <1>3, PTL DEF Spec

-----------------------------------------------------------------------------
(***************************************************************************)
(* The row deltas.                                                         *)
(***************************************************************************)
\* The row at a place, as RowsByKey has it.
RowAt(t, i) == [key |-> Keys(t)[i], cells |-> [c \in DOMAIN t.cols |-> t.cols[c].cells[i]]]

Places(t) == 1 .. RowCount(t)

\* Every row has a key, if only null.
LEMMA KeysOf ==
    ASSUME NEW t, IsTable(t)
    PROVE  /\ RowCount(t) \in Nat /\ DOMAIN Keys(t) = Places(t) /\ Len(Keys(t)) = RowCount(t)
           /\ Keys(t) \in Seq(Values \union {Null})
<1>0. RowCount(t) \in Nat
  BY Rows DEF RowCount, IsTable
<1>1. CASE KeyField \in ColNames(t)
  <2>. DEFINE k == Index(t, KeyField)
  <2>1. k \in DOMAIN t.cols /\ Keys(t) = t.cols[k].cells
    BY <1>1, IndexIn DEF Keys, Cells
  <2>. HIDE DEF k
  <2>2. t.cols[k].cells \in Seq(Values) /\ Len(t.cols[k].cells) = RowCount(t)
    BY <2>1, Rows DEF Column
  <2>. QED  BY <2>1, <2>2 DEF Places
<1>2. CASE KeyField \notin ColNames(t)
  <2>. DEFINE nulls == [i \in 1 .. RowCount(t) |-> Null]
  <2>1. Keys(t) = nulls
    BY <1>2 DEF Keys
  <2>2. nulls \in [1 .. RowCount(t) -> {Null}]
    OBVIOUS
  <2>. HIDE DEF nulls
  <2>3. nulls \in Seq({Null}) /\ Len(nulls) = RowCount(t) /\ DOMAIN nulls = 1 .. RowCount(t)
    BY <1>0, <2>2
  <2>4. nulls \in Seq(Values \union {Null})
    BY <1>0, <2>2
  <2>. QED  BY <1>0, <2>1, <2>3, <2>4 DEF Places
<1>. QED  BY <1>1, <1>2

\* Two tables of the same columns, with the same cells at a place, have the same row there.
SameAt(s, t, i) == \A c \in DOMAIN t.cols : s.cols[c].cells[i] = t.cols[c].cells[i]

LEMMA RowsAlike ==
    ASSUME NEW s, NEW t, IsTable(s), IsTable(t), SameShape(s, t),
           NEW i \in Places(s), i \in Places(t), SameAt(s, t, i)
    PROVE  Keys(s)[i] = Keys(t)[i] /\ RowAt(s, i) = RowAt(t, i)
<1>1. ColNames(s) = ColNames(t)
  BY DEF SameShape, ColNames
<1>2. Keys(s)[i] = Keys(t)[i]
  <2>1. CASE KeyField \in ColNames(t)
    <3>. DEFINE k == Index(t, KeyField)
    <3>1. k \in DOMAIN t.cols /\ t.cols[k].name = KeyField
      BY <2>1, IndexIn
    <3>2. Keys(t) = t.cols[k].cells /\ Keys(s) = s.cols[Index(s, KeyField)].cells
      BY <1>1, <2>1 DEF Keys, Cells
    <3>. HIDE DEF k
    <3>3. Index(s, KeyField) = k
      BY <3>1, IndexOf DEF SameShape
    <3>. QED  BY <3>1, <3>2, <3>3 DEF SameAt
  <2>2. CASE KeyField \notin ColNames(t)
    BY <1>1, <2>2 DEF Keys, Places
  <2>. QED  BY <2>1, <2>2
<1>3. [c \in DOMAIN s.cols |-> s.cols[c].cells[i]] = [c \in DOMAIN t.cols |-> t.cols[c].cells[i]]
  BY DEF SameShape, SameAt
<1>. QED  BY <1>2, <1>3 DEF RowAt

Reported(rows) == {r.key : r \in rows}
Marked(rows, change) == {r.key : r \in {q \in rows : q.change = change}}
KeySet(t) == {Keys(t)[i] : i \in Places(t)}

\* A row told of nowhere is at the same place in both.
Untold(all, s, t) == \A i \in Places(s) : Keys(s)[i] \notin all => i \in Places(t) /\ RowAt(s, i) = RowAt(t, i)

LEMMA TellsByPlace ==
    ASSUME NEW before, NEW after, NEW delta,
           Untold(Reported(delta.rows), before, after), Untold(Reported(delta.rows), after, before),
           Marked(delta.rows, "added") = KeySet(after) \ KeySet(before),
           Marked(delta.rows, "removed") = KeySet(before) \ KeySet(after)
    PROVE  TellsAll(delta, before, after)
<1>1. ASSUME NEW t
      PROVE  RowsByKey(t) = {RowAt(t, i) : i \in Places(t)}
  BY DEF RowsByKey, RowAt, Places
<1>2. ASSUME NEW t, NEW i
      PROVE  RowAt(t, i).key = Keys(t)[i]
  BY DEF RowAt
<1>3. ASSUME NEW t
      PROVE  {r.key : r \in RowsByKey(t)} = KeySet(t)
  BY <1>1, <1>2 DEF KeySet
<1>4. ASSUME NEW s, NEW t, Untold(Reported(delta.rows), s, t), NEW r \in RowsByKey(s), r.key \notin Reported(delta.rows)
      PROVE  r \in RowsByKey(t)
  <2>1. PICK i \in Places(s) : r = RowAt(s, i)
    BY <1>1, <1>4
  <2>2. Keys(s)[i] \notin Reported(delta.rows)
    BY <1>2, <1>4, <2>1
  <2>3. i \in Places(t) /\ r = RowAt(t, i)
    BY <1>4, <2>1, <2>2 DEF Untold
  <2>. QED  BY <1>1, <2>3
<1>5. {r \in RowsByKey(before) : r.key \notin Reported(delta.rows)} = {r \in RowsByKey(after) : r.key \notin Reported(delta.rows)}
  BY <1>4
<1>6. Reported(delta.rows) = {r.key : r \in delta.rows}
      /\ \A change : Marked(delta.rows, change) = {r.key : r \in {q \in delta.rows : q.change = change}}
  BY DEF Reported, Marked
<1>. QED  BY <1>3, <1>5, <1>6 DEF TellsAll

\* A delta that says what it must: it does not lose a row, and keys stay keys.
Tells(op, t, u, delta) ==
    (Keyed(t) /\ ~delta.full) => IF Keyed(u) THEN TellsAll(delta, t, u) ELSE op.tag = "SetCell"

\* Rows of a table that change in place and keep their keys.
LEMMA ChangedInPlace ==
    ASSUME NEW t, NEW u, IsTable(t), IsTable(u), SameShape(u, t), RowCount(u) = RowCount(t), Keys(u) = Keys(t),
           NEW S \in SUBSET Places(t), \A i \in Places(t) \ S : SameAt(u, t, i),
           NEW delta, delta.rows = {Row(Keys(t)[i], "changed") : i \in S}
    PROVE  TellsAll(delta, t, u)
<1>. DEFINE key(i) == Keys(t)[i]
<1>0. delta.rows = {Row(key(i), "changed") : i \in S}
  OBVIOUS
<1>. HIDE DEF key
<1>1. Reported(delta.rows) = {key(i) : i \in S}
  <2>1. \A i \in S : Row(key(i), "changed") \in delta.rows /\ Row(key(i), "changed").key = key(i)
    BY <1>0 DEF Row
  <2>2. \A r \in delta.rows : \E i \in S : r = Row(key(i), "changed")
    BY <1>0
  <2>3. ASSUME NEW x \in Reported(delta.rows)
        PROVE  \E i \in S : x = key(i)
    <3>1. PICK r \in delta.rows : x = r.key
      BY DEF Reported
    <3>2. PICK i \in S : r = Row(key(i), "changed")
      BY <2>2
    <3>. QED  BY <2>1, <3>1, <3>2
  <2>4. ASSUME NEW i \in S
        PROVE  key(i) \in Reported(delta.rows)
    <3>. DEFINE r == Row(key(i), "changed")
    <3>1. r \in delta.rows /\ r.key = key(i)
      BY <2>1
    <3>. HIDE DEF r
    <3>. QED  BY <3>1 DEF Reported
  <2>. QED  BY <2>3, <2>4
<1>2. Marked(delta.rows, "added") = {} /\ Marked(delta.rows, "removed") = {}
  BY <1>0 DEF Marked, Row
<1>3. KeySet(u) = KeySet(t) /\ Places(u) = Places(t)
  BY DEF KeySet, Places
<1>4. ASSUME NEW i \in Places(t), Keys(t)[i] \notin Reported(delta.rows)
      PROVE  RowAt(u, i) = RowAt(t, i)
  <2>1. i \notin S
    BY <1>1, <1>4 DEF key
  <2>. QED  BY <1>3, <2>1, RowsAlike
<1>5. Untold(Reported(delta.rows), t, u) /\ Untold(Reported(delta.rows), u, t)
  BY <1>3, <1>4 DEF Untold
<1>. QED  BY <1>2, <1>3, <1>5, TellsByPlace

\* One row, which is given another key.
LEMMA Rekeyed ==
    ASSUME NEW t, NEW u, IsTable(t), IsTable(u), SameShape(u, t), RowCount(u) = RowCount(t),
           NEW r \in Places(t), \A i \in Places(t) \ {r} : SameAt(u, t, i),
           Keyed(t), Keyed(u), Keys(u)[r] # Keys(t)[r],
           NEW delta, delta.rows = {Row(Keys(t)[r], "removed"), Row(Keys(u)[r], "added")}
    PROVE  TellsAll(delta, t, u)
<1>1. Reported(delta.rows) = {Keys(t)[r], Keys(u)[r]}
  BY DEF Reported, Row
<1>2. Marked(delta.rows, "added") = {Keys(u)[r]} /\ Marked(delta.rows, "removed") = {Keys(t)[r]}
  <2>1. \A k : /\ Row(k, "added").key = k /\ Row(k, "removed").key = k
               /\ Row(k, "added").change = "added" /\ Row(k, "removed").change = "removed"
    BY DEF Row
  <2>2. {q \in delta.rows : q.change = "added"} = {Row(Keys(u)[r], "added")}
    BY <2>1
  <2>3. {q \in delta.rows : q.change = "removed"} = {Row(Keys(t)[r], "removed")}
    BY <2>1
  <2>. QED  BY <2>1, <2>2, <2>3 DEF Marked
<1>3. Places(u) = Places(t) /\ DOMAIN Keys(t) = Places(t) /\ DOMAIN Keys(u) = Places(t)
  BY KeysOf DEF Places
<1>4. ASSUME NEW i \in Places(t), i # r
      PROVE  Keys(u)[i] = Keys(t)[i] /\ RowAt(u, i) = RowAt(t, i)
  BY <1>3, <1>4, RowsAlike
<1>5. \A i, j \in Places(t) : /\ Keys(t)[i] = Keys(t)[j] => i = j
                              /\ Keys(u)[i] = Keys(u)[j] => i = j
  BY <1>3 DEF Keyed, IsInjective
<1>6. KeySet(u) \ KeySet(t) = {Keys(u)[r]}
  BY <1>3, <1>4, <1>5 DEF KeySet
<1>7. KeySet(t) \ KeySet(u) = {Keys(t)[r]}
  BY <1>3, <1>4, <1>5 DEF KeySet
<1>8. Untold(Reported(delta.rows), t, u) /\ Untold(Reported(delta.rows), u, t)
  BY <1>1, <1>3, <1>4 DEF Untold
<1>. QED  BY <1>2, <1>6, <1>7, <1>8, TellsByPlace

\* A cell written.
LEMMA SetCellTells ==
    ASSUME NEW t, IsTable(t), NEW op \in SetCells, ApplyEdit(op, t).err = "None"
    PROVE  Tells(op, t, ApplyEdit(op, t).table, DeltaOf(t, op, ApplyEdit(op, t)))
<1>. DEFINE u == ApplyEdit(op, t).table
            delta == DeltaOf(t, op, ApplyEdit(op, t))
            i == Index(t, op.col)
            r == op.row
<1>0. op.tag = "SetCell" /\ op.row \in Int
  BY DEF SetCells
<1>1. op.col \in ColNames(t) /\ r \in Places(t)
  BY <1>0 DEF ApplyEdit, SetCell, Refuse, Places
<1>2. i \in DOMAIN t.cols
  BY <1>1, IndexIn
<1>3. IsTable(u) /\ u.cols = [t.cols EXCEPT ![i] = [@ EXCEPT !.cells[r] = op.value]]
  BY SetCellTurns DEF Turns
<1>4. delta = CellDelta(op, t, Keys(t), Keys(u)) /\ Cells(t, op.col)[r] = t.cols[i].cells[r]
  BY <1>0 DEF DeltaOf, Cells
<1>. HIDE DEF u, i, delta
<1>5. t.cols[i] \in Column /\ RowCount(t) = Len(t.cols[i].cells) /\ t.cols \in Seq(FitColumn)
  BY <1>2, Rows DEF IsTable
<1>6. t.cols[i].cells \in Seq(Values) /\ r \in DOMAIN t.cols[i].cells
  BY <1>1, <1>5 DEF Column, Places
<1>7. /\ DOMAIN u.cols = DOMAIN t.cols
      /\ \A c \in DOMAIN t.cols : c # i => u.cols[c] = t.cols[c]
      /\ u.cols[i].name = t.cols[i].name
      /\ u.cols[i].cells = [t.cols[i].cells EXCEPT ![r] = op.value]
  BY <1>2, <1>3, <1>5 DEF Column
<1>8. SameShape(u, t) /\ Len(u.cols[i].cells) = Len(t.cols[i].cells)
  BY <1>6, <1>7 DEF SameShape
<1>9. RowCount(u) = RowCount(t)
  BY <1>2, <1>3, <1>5, <1>7, <1>8, Rows
<1>10. \A k \in Places(t) \ {r} : SameAt(u, t, k)
  BY <1>5, <1>6, <1>7 DEF SameAt, Places
<1>11. op.value = t.cols[i].cells[r] => SameAt(u, t, r)
  BY <1>6, <1>7 DEF SameAt
<1>12. \A k \in Places(t) : SameAt(u, t, k) => Keys(u)[k] = Keys(t)[k]
  BY <1>3, <1>8, <1>9, RowsAlike DEF Places
<1>13. Keys(u)[r] = Keys(t)[r] => Keys(u) = Keys(t)
  <2>. SUFFICES ASSUME Keys(u)[r] = Keys(t)[r]
                PROVE  Keys(u) = Keys(t)
    OBVIOUS
  <2>1. \A k \in Places(t) : Keys(u)[k] = Keys(t)[k]
    BY <1>10, <1>12
  <2>2. DOMAIN Keys(t) = Places(t) /\ DOMAIN Keys(u) = Places(t)
    BY <1>3, <1>9, KeysOf DEF Places
  <2>3. Keys(t) \in Seq(Values \union {Null}) /\ Keys(u) \in Seq(Values \union {Null})
    BY <1>3, KeysOf
  <2>. QED  BY <2>1, <2>2, <2>3
<1>14. ASSUME Keyed(t), ~delta.full, Keyed(u)
       PROVE  TellsAll(delta, t, u)
  <2>0. delta # FullRefresh
    BY <1>14 DEF FullRefresh
  <2>1. CASE op.value = t.cols[i].cells[r]
    <3>1. delta.rows = {}
      BY <1>4, <2>0, <2>1 DEF CellDelta, RowSet
    <3>2. \A k \in Places(t) \ {} : SameAt(u, t, k)
      BY <1>10, <1>11, <2>1
    <3>3. Keys(u) = Keys(t)
      BY <1>1, <1>11, <1>12, <1>13, <2>1
    <3>4. delta.rows = {Row(Keys(t)[k], "changed") : k \in {}}
      BY <3>1
    <3>. QED  BY <1>3, <1>8, <1>9, <3>2, <3>3, <3>4, ChangedInPlace
  <2>2. CASE op.value # t.cols[i].cells[r] /\ Keys(u)[r] = Keys(t)[r]
    <3>1. delta.rows = {Row(Keys(t)[r], "changed")}
      BY <1>4, <2>0, <2>2 DEF CellDelta, RowSet
    <3>2. delta.rows = {Row(Keys(t)[k], "changed") : k \in {r}}
      BY <3>1
    <3>. QED  BY <1>1, <1>3, <1>8, <1>9, <1>10, <1>13, <2>2, <3>2, ChangedInPlace
  <2>3. CASE op.value # t.cols[i].cells[r] /\ Keys(u)[r] # Keys(t)[r]
    <3>1. delta.rows = {Row(Keys(t)[r], "removed"), Row(Keys(u)[r], "added")}
      BY <1>4, <2>0, <2>3 DEF CellDelta, RowSet
    <3>. QED  BY <1>1, <1>3, <1>8, <1>9, <1>10, <1>14, <2>3, <3>1, Rekeyed
  <2>. QED  BY <2>1, <2>2, <2>3
<1>. QED  BY <1>0, <1>14 DEF Tells, u, delta

\* A column written whole.
LEMMA SetColumnTells ==
    ASSUME NEW t, IsTable(t), NEW op \in SetColumns, ApplyEdit(op, t).err = "None"
    PROVE  Tells(op, t, ApplyEdit(op, t).table, DeltaOf(t, op, ApplyEdit(op, t)))
<1>. DEFINE u == ApplyEdit(op, t).table
            delta == DeltaOf(t, op, ApplyEdit(op, t))
            i == Index(t, op.column.name)
<1>0. op.tag = "SetColumn" /\ op.column \in Column
  BY DEF SetColumns, FitColumn
<1>1. op.column.name \in ColNames(t) /\ Len(op.column.cells) = RowCount(t)
  BY <1>0 DEF ApplyEdit, SetColumn, Refuse
<1>2. i \in DOMAIN t.cols /\ t.cols[i].name = op.column.name
  BY <1>1, IndexIn
<1>3. IsTable(u) /\ u.cols = [t.cols EXCEPT ![i] = op.column]
  BY SetColumnTurns DEF Turns
<1>4. delta = ColumnDelta(op, t, Keys(t), Keys(u)) /\ Cells(t, op.column.name) = t.cols[i].cells
  BY <1>0 DEF DeltaOf, Cells
<1>. HIDE DEF u, i, delta
<1>5. t.cols \in Seq(FitColumn) /\ DOMAIN Keys(t) = Places(t)
  BY KeysOf DEF IsTable
<1>6. /\ DOMAIN u.cols = DOMAIN t.cols /\ u.cols[i] = op.column
      /\ \A c \in DOMAIN t.cols : c # i => u.cols[c] = t.cols[c]
  BY <1>2, <1>3, <1>5
<1>7. SameShape(u, t)
  BY <1>2, <1>6 DEF SameShape
<1>8. RowCount(u) = RowCount(t)
  BY <1>1, <1>2, <1>3, <1>6, Rows
<1>9. ASSUME Keyed(t), ~delta.full
      PROVE  Keyed(u) /\ TellsAll(delta, t, u)
  <2>. DEFINE S == {j \in Places(t) : t.cols[i].cells[j] # op.column.cells[j]}
  <2>1. Keys(u) = Keys(t) /\ delta.rows = {Row(Keys(t)[j], "changed") : j \in S}
    BY <1>4, <1>5, <1>9 DEF ColumnDelta, FullRefresh, RowSet
  <2>2. \A j \in Places(t) \ S : SameAt(u, t, j)
    BY <1>6 DEF SameAt
  <2>3. S \in SUBSET Places(t)
    OBVIOUS
  <2>. HIDE DEF S
  <2>4. TellsAll(delta, t, u)
    BY <1>3, <1>7, <1>8, <2>1, <2>2, <2>3, ChangedInPlace
  <2>. QED  BY <1>9, <2>1, <2>4 DEF Keyed
<1>. QED  BY <1>9 DEF Tells, u, delta

\* Rows that are appended.
LEMMA AppendTells ==
    ASSUME NEW t, IsTable(t), NEW op \in Appends, Null \in Values, ApplyEdit(op, t).err = "None"
    PROVE  Tells(op, t, ApplyEdit(op, t).table, DeltaOf(t, op, ApplyEdit(op, t)))
<1>. DEFINE u == ApplyEdit(op, t).table
            delta == DeltaOf(t, op, ApplyEdit(op, t))
            more == SubSeq(Keys(u), Len(Keys(t)) + 1, Len(Keys(u)))
            n == RowCount(t)
            m == RowCount(u)
<1>1. IsTable(u) /\ Grows(u, t)
  BY AppendTable
<1>2. delta = AppendDelta(Keys(t), Keys(u))
  BY DEF DeltaOf, Appends
<1>3. n \in Nat /\ m \in Nat /\ DOMAIN Keys(t) = 1 .. n /\ DOMAIN Keys(u) = 1 .. m /\ Len(Keys(t)) = n /\ Len(Keys(u)) = m
      /\ Keys(u) \in Seq(Values \union {Null})
  BY <1>1, KeysOf DEF Places
<1>4. n <= m /\ \A i \in 1 .. n : SameAt(u, t, i)
  <2>1. CASE t.cols = << >>
    <3>1. u.cols = << >>
      <4>1. DOMAIN u.cols = {} /\ u.cols \in Seq(FitColumn)
        BY <1>1, <2>1 DEF Grows, SameShape, IsTable
      <4>. QED  BY <4>1, EmptySeq
    <3>2. n = 0 /\ m = 0
      BY <2>1, <3>1 DEF RowCount
    <3>. QED  BY <3>2
  <2>2. CASE t.cols # << >>
    <3>1. 1 \in DOMAIN t.cols
      BY <2>2 DEF IsTable
    <3>2. n = Len(t.cols[1].cells) /\ m = Len(u.cols[1].cells)
      BY <1>1, <3>1, Rows DEF Grows, SameShape
    <3>3. n <= m
      BY <1>1, <1>3, <3>1, <3>2 DEF Grows
    <3>4. \A c \in DOMAIN t.cols : Len(t.cols[c].cells) = n
      BY Rows
    <3>. HIDE DEF n, m, u
    <3>5. \A i \in 1 .. n : SameAt(u, t, i)
      BY <1>1, <3>4 DEF Grows, SameAt
    <3>. QED  BY <3>3, <3>5
  <2>. QED  BY <2>1, <2>2
<1>5. \A i \in 1 .. n : i \in Places(u) /\ i \in Places(t) /\ Keys(u)[i] = Keys(t)[i] /\ RowAt(u, i) = RowAt(t, i)
  <2>1. ASSUME NEW i \in 1 .. n
        PROVE  i \in Places(u) /\ i \in Places(t)
    BY <1>3, <1>4 DEF Places
  <2>. QED  BY <1>1, <1>4, <2>1, RowsAlike DEF Grows
<1>. HIDE DEF u, delta
<1>6. ASSUME Keyed(t), ~delta.full
      PROVE  Keyed(u) /\ TellsAll(delta, t, u)
  <2>1. /\ Null \notin ToSet(more) /\ IsInjective(more) /\ ToSet(Keys(t)) \intersect ToSet(more) = {}
        /\ delta.rows = {Row(k, "added") : k \in ToSet(more)}
    BY <1>2, <1>6 DEF AppendDelta, FullRefresh, RowSet
  <2>2. /\ DOMAIN more = 1 .. m - n
        /\ \A j \in 1 .. m - n : more[j] = Keys(u)[n + j]
    BY <1>3, <1>4
  <2>. DEFINE new == n + 1 .. m
  <2>3. ToSet(more) = {Keys(u)[i] : i \in new}
    <3>1. ASSUME NEW i \in new
          PROVE  Keys(u)[i] \in ToSet(more)
      <4>1. i - n \in 1 .. m - n /\ n + (i - n) = i
        BY <1>3
      <4>. QED  BY <2>2, <4>1 DEF ToSet
    <3>2. ASSUME NEW j \in DOMAIN more
          PROVE  more[j] \in {Keys(u)[i] : i \in new}
      <4>1. n + j \in new
        BY <1>3, <2>2
      <4>. QED  BY <2>2, <4>1
    <3>. QED  BY <3>1, <3>2 DEF ToSet
  <2>4. \A i, j \in new : Keys(u)[i] = Keys(u)[j] => i = j
    <3>1. ASSUME NEW i \in new, NEW j \in new, Keys(u)[i] = Keys(u)[j]
          PROVE  i = j
      <4>1. i - n \in DOMAIN more /\ n + (i - n) = i /\ j - n \in DOMAIN more /\ n + (j - n) = j
        BY <1>3, <2>2
      <4>2. more[i - n] = more[j - n]
        BY <2>2, <3>1, <4>1
      <4>3. i - n = j - n
        BY <2>1, <4>1, <4>2 DEF IsInjective
      <4>. QED  BY <1>3, <4>3
    <3>. QED  BY <3>1
  <2>5. Places(t) = 1 .. n /\ Places(u) = 1 .. m
    BY DEF Places
  <2>6. \A i \in 1 .. m : i \in 1 .. n \/ i \in new
    BY <1>3
  <2>. HIDE DEF more, new, n, m
  <2>7. \A i \in 1 .. n, j \in new : Keys(t)[i] # Keys(u)[j]
    BY <1>3, <2>1, <2>3 DEF ToSet
  <2>8. Keyed(u)
    <3>1. IsInjective(Keys(u))
      <4>1. ASSUME NEW i \in 1 .. m, NEW j \in 1 .. m, Keys(u)[i] = Keys(u)[j]
            PROVE  i = j
        <5>1. CASE i \in 1 .. n /\ j \in 1 .. n
          BY <1>3, <1>5, <1>6, <4>1, <5>1 DEF Keyed, IsInjective
        <5>2. CASE i \in new /\ j \in new
          BY <2>4, <4>1, <5>2
        <5>3. CASE i \in 1 .. n /\ j \in new
          BY <1>5, <2>7, <4>1, <5>3
        <5>4. CASE i \in new /\ j \in 1 .. n
          BY <1>5, <2>7, <4>1, <5>4
        <5>. QED  BY <2>6, <5>1, <5>2, <5>3, <5>4
      <4>. QED  BY <1>3, <4>1 DEF IsInjective
    <3>2. ASSUME NEW i \in 1 .. m
          PROVE  Keys(u)[i] # Null
      <4>1. CASE i \in 1 .. n
        BY <1>3, <1>5, <1>6, <4>1 DEF Keyed, ToSet
      <4>2. CASE i \in new
        BY <2>1, <2>3, <4>2
      <4>. QED  BY <2>6, <4>1, <4>2
    <3>. QED  BY <1>3, <3>1, <3>2 DEF Keyed, ToSet
  <2>9. Reported(delta.rows) = ToSet(more) /\ Marked(delta.rows, "added") = ToSet(more) /\ Marked(delta.rows, "removed") = {}
    <3>1. \A k : Row(k, "added").key = k /\ Row(k, "added").change = "added"
      BY DEF Row
    <3>2. {q \in delta.rows : q.change = "added"} = delta.rows /\ {q \in delta.rows : q.change = "removed"} = {}
      BY <2>1, <3>1
    <3>3. {r.key : r \in delta.rows} = ToSet(more)
      <4>1. ASSUME NEW k \in ToSet(more)
            PROVE  \E r \in delta.rows : r.key = k
        BY <2>1, <3>1
      <4>2. ASSUME NEW r \in delta.rows
            PROVE  r.key \in ToSet(more)
        BY <2>1, <3>1
      <4>. QED  BY <4>1, <4>2
    <3>. QED  BY <3>2, <3>3 DEF Reported, Marked
  <2>10. KeySet(t) = {Keys(t)[i] : i \in 1 .. n} /\ KeySet(u) = {Keys(u)[i] : i \in 1 .. m}
    BY <2>5 DEF KeySet
  <2>11. KeySet(u) \ KeySet(t) = ToSet(more) /\ KeySet(t) \ KeySet(u) = {}
    <3>1. \A i \in new : i \in 1 .. m
      BY <1>3 DEF new
    <3>2. ASSUME NEW k \in KeySet(u) \ KeySet(t)
          PROVE  k \in ToSet(more)
      <4>1. PICK i \in 1 .. m : k = Keys(u)[i]
        BY <2>10
      <4>2. i \notin 1 .. n
        BY <1>5, <2>10, <3>2, <4>1
      <4>. QED  BY <2>3, <2>6, <4>1, <4>2
    <3>3. ASSUME NEW k \in ToSet(more)
          PROVE  k \in KeySet(u) /\ k \notin KeySet(t)
      <4>1. PICK i \in new : k = Keys(u)[i]
        BY <2>3
      <4>. QED  BY <2>7, <2>10, <3>1, <4>1
    <3>4. ASSUME NEW k \in KeySet(t)
          PROVE  k \in KeySet(u)
      BY <1>5, <2>5, <2>10
    <3>. QED  BY <3>2, <3>3, <3>4
  <2>12. Untold(Reported(delta.rows), t, u)
    BY <1>5, <2>5 DEF Untold
  <2>13. Untold(Reported(delta.rows), u, t)
    BY <1>5, <2>3, <2>5, <2>6, <2>9 DEF Untold
  <2>. QED  BY <2>8, <2>9, <2>11, <2>12, <2>13, TellsByPlace
<1>. QED  BY <1>6 DEF Tells, u, delta

\* Of a history in order, a consumer told only the delta misses no row.
LEMMA EveryRowTold ==
    ASSUME Lawful, HistoryInv
    PROVE  DeltaTellsAll
<1>0. IsTable(table)
  BY DEF HistoryInv
<1>1. ASSUME NEW op \in Ops, op.tag # "ApplyTransform", ApplyEdit(op, table).err = "None"
      PROVE  Tells(op, table, ApplyEdit(op, table).table, DeltaOf(table, op, ApplyEdit(op, table)))
  <2>1. op \in Invertible \union Appends /\ Null \in Values
    BY <1>1 DEF Lawful
  <2>2. CASE op \in SetCells
    BY <1>0, <1>1, <2>2, SetCellTells
  <2>3. CASE op \in SetColumns
    BY <1>0, <1>1, <2>3, SetColumnTells
  <2>4. CASE op \in Appends
    BY <1>0, <1>1, <2>1, <2>4, AppendTells
  <2>5. CASE op \in InsertColumns \union RemoveColumns
    BY <2>5 DEF InsertColumns, RemoveColumns, DeltaOf, FullRefresh, Tells
  <2>. QED  BY <2>1, <2>2, <2>3, <2>4, <2>5 DEF Invertible
<1>. QED  BY <1>1 DEF DeltaTellsAll, Tells

\* grid_edit.py, delta_of: of every table a history reaches and every edit a user may
\* make of it, a consumer told only the delta misses no row.
THEOREM DeltasTellEveryRow ==
    ASSUME Lawful
    PROVE  Spec => []DeltaTellsAll
<1>1. Init => HistoryInv
  BY HistoryInvInit
<1>2. HistoryInv /\ [Next]_vars => HistoryInv'
  BY HistoryInvNext
<1>3. HistoryInv => DeltaTellsAll
  BY EveryRowTold
<1>. QED  BY <1>1, <1>2, <1>3, PTL DEF Spec

-----------------------------------------------------------------------------
(***************************************************************************)
(* Exact decimals.                                                         *)
(***************************************************************************)
\* What is left beside an integer v of num / den, e, is what a mode leaves there.
Leaves(mode, v, num, den, e) ==
    LET low  == 0 <= e /\ e < den
        high == -den < e /\ e <= 0
        near == -den <= 2 * e /\ 2 * e <= den
        tie  == 2 * e \in {den, -den}
        away == IF num >= 0 THEN e <= 0 ELSE e >= 0
    IN  /\ mode = "floor" => low
        /\ mode = "ceiling" => high
        /\ mode = "down" => IF num >= 0 THEN low ELSE high
        /\ mode = "up" => IF num >= 0 THEN high ELSE low
        /\ mode = "half-up" => near /\ (tie => away)
        /\ mode = "half-down" => near /\ (tie => ~away)
        /\ mode = "half-even" => near /\ (tie => v % 2 = 0)

\* A value whose residue is what its mode leaves is the rounding the mode names.
LEMMA Residue ==
    ASSUME NEW mode \in Modes, NEW v \in Int, NEW num \in Int, NEW den \in Nat \ {0},
           NEW e \in Int, num = v * den + e, Leaves(mode, v, num, den, e)
    PROVE  IsRounding(mode, v, num, den)
<1>. DEFINE p == v * den
<1>1. p \in Int /\ num = p + e /\ (v + 1) * den = p + den /\ (v - 1) * den = p - den
  BY Z3
<1>2. num - v * den = e
  BY <1>1
<1>3. v * den <= num <=> e >= 0
  BY <1>1
<1>4. v * den >= num <=> e <= 0
  BY <1>1
<1>5. num < (v + 1) * den <=> e < den
  BY <1>1
<1>6. (v - 1) * den < num <=> -den < e
  BY <1>1
<1>. HIDE DEF p
<1>7. CASE mode = "floor"
  BY <1>2, <1>3, <1>4, <1>5, <1>6, <1>7 DEF IsRounding, Magnitude, Leaves
<1>8. CASE mode = "ceiling"
  BY <1>2, <1>3, <1>4, <1>5, <1>6, <1>8 DEF IsRounding, Magnitude, Leaves
<1>9. CASE mode = "down"
  BY <1>2, <1>3, <1>4, <1>5, <1>6, <1>9 DEF IsRounding, Magnitude, Leaves
<1>10. CASE mode = "up"
  BY <1>2, <1>3, <1>4, <1>5, <1>6, <1>10 DEF IsRounding, Magnitude, Leaves
<1>11. CASE mode = "half-up"
  BY <1>2, <1>3, <1>4, <1>5, <1>6, <1>11 DEF IsRounding, Magnitude, Leaves
<1>12. CASE mode = "half-down"
  BY <1>2, <1>3, <1>4, <1>5, <1>6, <1>12 DEF IsRounding, Magnitude, Leaves
<1>13. CASE mode = "half-even"
  BY <1>2, <1>3, <1>4, <1>5, <1>6, <1>13 DEF IsRounding, Magnitude, Leaves
<1>. QED  BY <1>7, <1>8, <1>9, <1>10, <1>11, <1>12, <1>13 DEF Modes

\* The answered integer is one, and what is left beside it is what the mode leaves.
Left(mode, v, num, den) == v \in Int /\ \E e \in Int : num = v * den + e /\ Leaves(mode, v, num, den, e)

LEMMA RoundingLeaves ==
    ASSUME NEW mode \in Modes, NEW num \in Int, NEW den \in Nat \ {0}
    PROVE  Left(mode, Signed(num < 0, RoundQuotient(mode, num < 0, Magnitude(num), den)), num, den)
<1>. DEFINE q == Magnitude(num) \div den
            r == Magnitude(num) % den
            up == RoundQuotient(mode, num < 0, Magnitude(num), den)
            v == Signed(num < 0, up)
            bumps == 2 * r > den \/ (2 * r = den /\ q % 2 = 1)
            e == IF num < 0 THEN (IF up = q THEN -r ELSE den - r) ELSE (IF up = q THEN r ELSE r - den)
<1>1. q \in Nat /\ r \in 0 .. den - 1 /\ Magnitude(num) = q * den + r
  BY Z3 DEF Magnitude
<1>2. /\ up = q \/ (up = q + 1 /\ r # 0)
      /\ mode = "down" => up = q
      /\ mode = "up" => (r = 0 \/ up = q + 1)
      /\ mode = "ceiling" => (r = 0 \/ up = IF num < 0 THEN q ELSE q + 1)
      /\ mode = "floor" => (r = 0 \/ up = IF num < 0 THEN q + 1 ELSE q)
      /\ mode = "half-up" => (r = 0 \/ up = IF 2 * r < den THEN q ELSE q + 1)
      /\ mode = "half-down" => up = IF 2 * r <= den THEN q ELSE q + 1
      /\ mode = "half-even" => (r = 0 \/ up = IF 2 * r < den \/ (2 * r = den /\ q % 2 = 0) THEN q ELSE q + 1)
  <2>1. CASE mode = "floor"
    BY <1>1, <2>1 DEF RoundQuotient
  <2>2. CASE mode = "ceiling"
    BY <1>1, <2>2 DEF RoundQuotient
  <2>3. CASE mode = "down"
    BY <1>1, <2>3 DEF RoundQuotient
  <2>4. CASE mode = "up"
    BY <1>1, <2>4 DEF RoundQuotient
  <2>5. CASE mode = "half-up"
    BY <1>1, <2>5 DEF RoundQuotient
  <2>6. CASE mode = "half-down"
    BY <1>1, <2>6 DEF RoundQuotient
  <2>7. CASE mode = "half-even"
    <3>1. up = IF r # 0 /\ bumps THEN q + 1 ELSE q
      BY <2>7 DEF RoundQuotient
    <3>. HIDE DEF q, r, up
    <3>. QED  BY <1>1, <2>7, <3>1
  <2>. QED  BY <2>1, <2>2, <2>3, <2>4, <2>5, <2>6, <2>7 DEF Modes
<1>3. v = IF num < 0 THEN -up ELSE up
  BY DEF Signed
<1>4. Magnitude(num) = IF num < 0 THEN -num ELSE num
  BY DEF Magnitude
<1>5. e \in Int /\ v \in Int
  BY <1>1, <1>2, <1>3
<1>. HIDE DEF q, r, up, v
<1>6. num = v * den + e
  <2>1. (q + 1) * den = q * den + den /\ (-q) * den = -(q * den) /\ (-(q + 1)) * den = -(q * den) - den
    BY <1>1, Z3
  <2>. QED  BY <1>1, <1>2, <1>3, <1>4, <2>1
<1>7. Leaves(mode, v, num, den, e)
  BY <1>1, <1>2, <1>3 DEF Leaves
<1>8. \E x \in Int : num = v * den + x /\ Leaves(mode, v, num, den, x)
  <2>. HIDE DEF e
  <2>. QED  BY <1>5, <1>6, <1>7
<1>. QED  BY <1>5, <1>8 DEF v, up, Left

\* _round_quotient: whatever the mode, the sign, the numerator and the denominator, the
\* integer answered is the one the mode gives the exact quotient.
THEOREM RoundingMeetsItsMode ==
    ASSUME NEW mode \in Modes, NEW num \in Int, NEW den \in Nat \ {0}
    PROVE  IsRounding(mode, Signed(num < 0, RoundQuotient(mode, num < 0, Magnitude(num), den)), num, den)
  BY RoundingLeaves, Residue DEF Left

-----------------------------------------------------------------------------
(***************************************************************************)
(* The typer and the evaluator.  First what each rule of the evaluator     *)
(* answers, whatever it is given; then that what a node is typed to admits *)
(* what it answers, node by node; then whole expressions, and frames.      *)
(***************************************************************************)
ColumnTypes == {"string", "int", "float", "decimal", "bool", "date"}

\* A record of the fields a cell has.
IsCell(c) == c = Cell(c.kind, c.n, c.d, c.s)

\* An answer is a cell of the kind, null or a refusal.
Yields(kind, x) == x.err = "None" => IsCell(x.cell) /\ (x.cell = Null \/ x.cell.kind = kind)

\* Cells know their kind.
LEMMA NullCell == IsCell(Null) /\ Null.kind = "null"
  BY DEF IsCell, Null, Cell

\* A built cell is one, of the kind it was built with.
LEMMA BuiltCell ==
    ASSUME NEW kind, NEW n, NEW d, NEW s
    PROVE  IsCell(Cell(kind, n, d, s)) /\ Cell(kind, n, d, s).kind = kind
  BY DEF IsCell, Cell

\* What an answer of a built cell yields.
LEMMA GoodCell ==
    ASSUME NEW kind, NEW n, NEW d, NEW s
    PROVE  Yields(kind, Good(Cell(kind, n, d, s)))
  BY BuiltCell DEF Yields, Good

\* A null answer is of any kind.
LEMMA GoodNull == ASSUME NEW kind PROVE Yields(kind, Good(Null))
  BY NullCell DEF Yields, Good

\* A refusal answers no cell, so it yields any kind.
LEMMA Refusal == ASSUME NEW kind, NEW token, token # "None" PROVE Yields(kind, Fail(token))
  BY DEF Yields, Fail

\* The refusal of a type is one.
LEMMA RefusalYields == ASSUME NEW kind PROVE Yields(kind, TypeError)
  BY Refusal DEF TypeError

\* The cells the arithmetic builds are of their kinds.
LEMMA GoodInt == ASSUME NEW n PROVE Yields("int", Good(IntCell(n)))
  BY GoodCell DEF IntCell

\* A built bool, string, decimal and float likewise.
LEMMA GoodBool == ASSUME NEW b PROVE Yields("bool", Good(BoolCell(b)))
  BY GoodCell DEF BoolCell
LEMMA GoodString == ASSUME NEW s PROVE Yields("string", Good(StrCell(s)))
  BY GoodCell DEF StrCell
LEMMA GoodDecimal == ASSUME NEW a PROVE Yields("decimal", Good(DecimalCell(a)))
  BY GoodCell DEF DecimalCell
LEMMA BuiltFloat == ASSUME NEW n, NEW d PROVE IsCell(FloatCell(n, d)) /\ FloatCell(n, d).kind = "float"
  BY BuiltCell DEF FloatCell
LEMMA GoodFloat == ASSUME NEW n, NEW d PROVE Yields("float", Good(FloatCell(n, d)))
  BY GoodCell DEF FloatCell

-----------------------------------------------------------------------------
\* Arithmetic of exact operands, a decimal among them, answers a decimal.
LEMMA DecimalArithYields ==
    ASSUME NEW op \in ArithOps, NEW x, NEW y
    PROVE  Yields("decimal", DecimalArith(op, x, y))
<1>. USE GoodDecimal, GoodNull, RefusalYields
<1>1. CASE op = "add"
  BY <1>1 DEF DecimalArith
<1>2. CASE op = "sub"
  BY <1>2 DEF DecimalArith
<1>3. CASE op = "mul"
  BY <1>3 DEF DecimalArith
<1>4. CASE op = "div"
  BY <1>4 DEF DecimalArith
<1>5. CASE op = "mod"
  BY <1>5 DEF DecimalArith
<1>. QED  BY <1>1, <1>2, <1>3, <1>4, <1>5 DEF ArithOps

\* Arithmetic of two ints answers an int, a division a float.
LEMMA IntArithYields ==
    ASSUME NEW op \in ArithOps, NEW x, NEW y
    PROVE  Yields(IF op = "div" THEN "float" ELSE "int", IntArith(op, x, y))
<1>. USE GoodInt, GoodFloat, GoodNull
<1>1. CASE op = "add"
  BY <1>1 DEF IntArith
<1>2. CASE op = "sub"
  BY <1>2 DEF IntArith
<1>3. CASE op = "mul"
  BY <1>3 DEF IntArith
<1>4. CASE op = "div"
  BY <1>4 DEF IntArith
<1>5. CASE op = "mod"
  BY <1>5 DEF IntArith
<1>. QED  BY <1>1, <1>2, <1>3, <1>4, <1>5 DEF ArithOps

\* Floating arithmetic answers a float.
LEMMA FloatArithYields ==
    ASSUME NEW op \in ArithOps, NEW a, NEW b
    PROVE  Yields("float", FloatArith(op, a, b))
  BY GoodFloat, GoodNull, RefusalYields DEF FloatArith

\* A null operand of an arithmetic is the answer.
LEMMA ArithNull ==
    ASSUME NEW op, NEW a, NEW b, Null \in {a, b}
    PROVE  Arith(op, a, b) = Good(Null)
  BY DEF Arith

\* Arithmetic by its operands' kinds.  A decimal among them: a decimal.
LEMMA ArithDecimal ==
    ASSUME NEW op \in ArithOps, NEW a, NEW b, "decimal" \in {a.kind, b.kind}
    PROVE  Yields("decimal", Arith(op, a, b))
<1>1. CASE Null \in {a, b}
  BY <1>1, ArithNull, GoodNull
<1>2. CASE Null \notin {a, b} /\ Exact(a) /\ Exact(b)
  BY <1>2, DecimalArithYields DEF Arith
<1>3. CASE Null \notin {a, b} /\ ~(Exact(a) /\ Exact(b))
  <2>1. ~Numeric(a) \/ ~Numeric(b)
    BY DEF Numeric
  <2>. QED  BY <1>3, <2>1, RefusalYields DEF Arith
<1>. QED  BY <1>1, <1>2, <1>3

\* Two ints: an int, or the float of a division.
LEMMA ArithInt ==
    ASSUME NEW op \in ArithOps, NEW a, NEW b, a.kind = "int", b.kind = "int"
    PROVE  Yields(IF op = "div" THEN "float" ELSE "int", Arith(op, a, b))
<1>1. CASE Null \in {a, b}
  BY <1>1, ArithNull, GoodNull
<1>2. CASE Null \notin {a, b}
  BY <1>2, IntArithYields DEF Arith, Numeric
<1>. QED  BY <1>1, <1>2

\* A float and no decimal: a float.
LEMMA ArithFloat ==
    ASSUME NEW op \in ArithOps, NEW a, NEW b, "decimal" \notin {a.kind, b.kind}, "float" \in {a.kind, b.kind}
    PROVE  Yields("float", Arith(op, a, b))
<1>1. CASE Null \in {a, b}
  BY <1>1, ArithNull, GoodNull
<1>2. CASE Null \notin {a, b}
  BY <1>2, FloatArithYields, RefusalYields DEF Arith, Numeric
<1>. QED  BY <1>1, <1>2

\* A comparison answers a bool, null or a refusal.
LEMMA ComparisonYields ==
    ASSUME NEW op, NEW a, NEW b
    PROVE  Yields("bool", Comparison(op, a, b))
  BY GoodBool, GoodNull, RefusalYields DEF Comparison

\* So does a connective.
LEMMA LogicalYields ==
    ASSUME NEW op, NEW a, NEW b
    PROVE  Yields("bool", Logical(op, a, b))
  BY GoodBool, GoodNull, RefusalYields DEF Logical

\* So does a negation.
LEMMA NotYields ==
    ASSUME NEW c
    PROVE  Yields("bool", NotCell(c))
  BY GoodBool, GoodNull, RefusalYields DEF NotCell

-----------------------------------------------------------------------------
\* A cast to int answers an int.
LEMMA CastToIntYields ==
    ASSUME NEW c, IsCell(c)
    PROVE  Yields("int", CastToInt(c))
<1>. USE GoodInt, RefusalYields
<1>1. CASE c.kind = "int"
  BY <1>1 DEF CastToInt, Yields, Good
<1>2. CASE c.kind = "bool"
  BY <1>2 DEF CastToInt
<1>3. CASE c.kind = "float"
  BY <1>3, Refusal DEF CastToInt
<1>4. CASE c.kind = "decimal"
  BY <1>4 DEF CastToInt, IntIn32
<1>5. CASE c.kind = "string"
  BY <1>5 DEF CastToInt, Read
<1>6. CASE c.kind \notin {"int", "bool", "float", "decimal", "string"}
  BY <1>6 DEF CastToInt
<1>. QED  BY <1>1, <1>2, <1>3, <1>4, <1>5, <1>6

\* A cast to float answers a float.
LEMMA CastToFloatYields ==
    ASSUME NEW c
    PROVE  Yields("float", CastToFloat(c))
<1>. USE GoodFloat, RefusalYields
<1>1. CASE Numeric(c)
  BY <1>1 DEF CastToFloat, Numeric
<1>2. CASE c.kind = "decimal"
  BY <1>2 DEF CastToFloat, Numeric
<1>3. CASE c.kind = "string"
  <2>1. Yields("float", Good(NaN))
    BY DEF NaN, FloatCell
  <2>. QED  BY <1>3, <2>1 DEF CastToFloat, Read, Numeric
<1>4. CASE ~Numeric(c) /\ c.kind \notin {"decimal", "string"}
  BY <1>4 DEF CastToFloat
<1>. QED  BY <1>1, <1>2, <1>3, <1>4

\* A cast to decimal answers a decimal.
LEMMA CastToDecimalYields ==
    ASSUME NEW c
    PROVE  Yields("decimal", CastToDecimal(c))
<1>. USE GoodDecimal, RefusalYields
<1>1. CASE Exact(c)
  BY <1>1 DEF CastToDecimal, Exact
<1>2. CASE c.kind = "float"
  BY <1>2 DEF CastToDecimal, Exact
<1>3. CASE c.kind = "string"
  BY <1>3 DEF CastToDecimal, Read, Exact
<1>4. CASE ~Exact(c) /\ c.kind \notin {"float", "string"}
  BY <1>4 DEF CastToDecimal
<1>. QED  BY <1>1, <1>2, <1>3, <1>4

\* A cast answers a cell of the type it names.
LEMMA CastYields ==
    ASSUME NEW type \in ColumnTypes, NEW c, IsCell(c)
    PROVE  Yields(type, CastCell(type, c))
<1>0. CASE c = Null
  BY <1>0, GoodNull DEF CastCell
<1>1. CASE c # Null /\ type = "string"
  BY <1>1, GoodString DEF CastCell
<1>2. CASE c # Null /\ type = "decimal"
  BY <1>2, CastToDecimalYields DEF CastCell
<1>3. CASE c # Null /\ type = "float"
  BY <1>3, CastToFloatYields DEF CastCell
<1>4. CASE c # Null /\ type = "int"
  BY <1>4, CastToIntYields DEF CastCell
<1>5. CASE c # Null /\ type = "bool"
  <2>1. c.kind = "bool" => Yields("bool", Good(c))
    BY DEF Yields, Good
  <2>. QED  BY <1>5, <2>1, GoodBool, RefusalYields DEF CastCell
<1>6. CASE c # Null /\ type = "date"
  BY <1>6, GoodCell, RefusalYields DEF CastCell
<1>. QED  BY <1>0, <1>1, <1>2, <1>3, <1>4, <1>5, <1>6 DEF ColumnTypes

\* A rounding answers a decimal.
LEMMA RoundedYields ==
    ASSUME NEW mode, NEW scale, NEW c
    PROVE  Yields("decimal", RoundedCell(mode, scale, c))
  BY GoodDecimal, GoodNull, RefusalYields DEF RoundedCell

\* So does a rounded quotient.
LEMMA QuotientYields ==
    ASSUME NEW mode, NEW scale, NEW a, NEW b
    PROVE  Yields("decimal", QuotientCell(mode, scale, a, b))
  BY GoodDecimal, GoodNull, RefusalYields DEF QuotientCell

\* The cast and factor a Convert stands for answers a float.
LEMMA ScaledYields ==
    ASSUME NEW factor, NEW c, IsCell(c)
    PROVE  Yields("float", ScaledAnswer(factor, c))
<1>. DEFINE f == CastCell("float", c)
            q == CHOOSE q \in factor : TRUE
<1>1. Yields("float", f)
  BY CastYields DEF ColumnTypes
<1>2. CASE f.err # "None" \/ factor = {}
  BY <1>1, <1>2 DEF ScaledAnswer
<1>3. CASE ~(f.err # "None" \/ factor = {})
  <2>1. ScaledAnswer(factor, c) = Arith("mul", f.cell, FloatCell(q[1], q[2]))
    BY <1>3 DEF ScaledAnswer
  <2>2. f.cell = Null \/ f.cell.kind = "float"
    BY <1>1, <1>3 DEF Yields
  <2>3. FloatCell(q[1], q[2]).kind = "float" /\ "mul" \in ArithOps
    BY BuiltFloat DEF ArithOps
  <2>. HIDE DEF f, q
  <2>4. Yields("float", Arith("mul", f.cell, FloatCell(q[1], q[2])))
    <3>1. CASE f.cell = Null
      BY <3>1, ArithNull, GoodNull
    <3>2. CASE f.cell.kind = "float"
      BY <2>3, <3>2, ArithFloat
    <3>. QED  BY <2>2, <3>1, <3>2
  <2>. QED  BY <2>1, <2>4
<1>. QED  BY <1>2, <1>3

\* round, floor and ceil answer a decimal of a decimal, and a float of any other number.
LEMMA RoundYields ==
    ASSUME NEW fn \in {"round", "floor", "ceil"}, NEW c
    PROVE  Yields(IF c.kind = "decimal" THEN "decimal" ELSE "float", RoundFn(fn, c))
  BY RoundedYields, GoodFloat, RefusalYields, Refusal DEF RoundFn

\* abs answers a cell of the kind it is given.
LEMMA AbsYields ==
    ASSUME NEW c, IsCell(c)
    PROVE  Yields(c.kind, AbsFn(c))
<1>. DEFINE m == [c EXCEPT !.n = Magnitude(@)]
<1>1. m = Cell(c.kind, Magnitude(c.n), c.d, c.s)
  BY DEF IsCell, Cell
<1>2. Yields(c.kind, Good(m))
  BY <1>1, GoodCell
<1>. QED  BY <1>2, RefusalYields DEF AbsFn

\* A power of an int by an int that is not negative is an int; any power of two numbers is one.
LEMMA PowYields ==
    ASSUME NEW x, NEW y
    PROVE  LET p == Pow(x, y)
           IN  /\ x.kind = "int" /\ y.kind = "int" /\ y.n >= 0 => Yields("int", p)
               /\ Yields("int", p) \/ Yields("float", p)
<1>. USE GoodFloat, GoodInt, GoodNull, RefusalYields
<1>1. CASE Null \in {x, y}
  BY <1>1 DEF Pow
<1>2. CASE Null \notin {x, y} /\ ("decimal" \in {x.kind, y.kind} \/ ~Numeric(x) \/ y.kind # "int")
  BY <1>2 DEF Pow
<1>3. CASE ~(Null \in {x, y}) /\ ~("decimal" \in {x.kind, y.kind} \/ ~Numeric(x) \/ y.kind # "int")
  <2>1. CASE x.kind = "int" /\ y.n >= 0
    <3>1. Den(x) # 0
      BY <2>1 DEF Den
    <3>2. Pow(x, y) = IntIn32(Power(x.n, y.n))
      BY <1>3, <2>1, <3>1 DEF Pow
    <3>. QED  BY <3>2 DEF IntIn32
  <2>2. CASE ~(x.kind = "int" /\ y.n >= 0)
    BY <1>3, <2>2 DEF Pow, NaN
  <2>. QED  BY <2>1, <2>2
<1>. QED  BY <1>1, <1>2, <1>3

-----------------------------------------------------------------------------
(***************************************************************************)
(* A type and an answer.                                                   *)
(***************************************************************************)
TypeSpace == ColumnTypes \union {Absent, Unknown}

\* A cell an expression of the type may answer: a float column may hold ints.
Admits(t, c) ==
    /\ t = Absent => c = Null
    /\ t \in ColumnTypes => c = Null \/ c.kind = t \/ (t = "float" /\ c.kind = "int")

Sound(t, x) == x.err = "None" => IsCell(x.cell) /\ Admits(t, x.cell)

\* The marks of the typer are no column types.
LEMMA TypesDistinct == Absent \notin ColumnTypes /\ Unknown \notin ColumnTypes /\ Absent # Unknown
  BY DEF Absent, Unknown, ColumnTypes

\* What yields cells of a type is sound for it, and for the type that is not known.
LEMMA YieldsSound ==
    ASSUME NEW t \in ColumnTypes, NEW x, Yields(t, x)
    PROVE  Sound(t, x) /\ Sound(Unknown, x)
  BY TypesDistinct DEF Yields, Sound, Admits

\* Whatever is answered is sound for the type that is not known.
LEMMA YieldsUnknown ==
    ASSUME NEW kind, NEW x, Yields(kind, x)
    PROVE  Sound(Unknown, x)
  BY TypesDistinct DEF Yields, Sound, Admits

\* A null is sound for any type.
LEMMA NullSound ==
    ASSUME NEW t
    PROVE  Sound(t, Good(Null))
  BY NullCell DEF Sound, Admits, Good

\* So is a refusal.
LEMMA RefusalSound ==
    ASSUME NEW t, NEW x, x.err # "None"
    PROVE  Sound(t, x)
  BY DEF Sound

\* The cell of an answer, and what is known of it.
LEMMA CellOfType ==
    ASSUME NEW t \in TypeSpace, NEW c, IsCell(c), Admits(t, c)
    PROVE  /\ t = Absent => c = Null
           /\ t \in ColumnTypes \ {"float"} => c = Null \/ c.kind = t
           /\ t = "float" => c = Null \/ c.kind \in {"int", "float"}
  BY DEF Admits, ColumnTypes

\* A binary operator answers what its operands' types were typed to.
LEMMA BinarySound ==
    ASSUME NEW op \in ArithOps \union Comparisons \union {"and", "or"}, NEW s \in TypeSpace, NEW t \in TypeSpace,
           NEW a, NEW b, IsCell(a), IsCell(b), Admits(s, a), Admits(t, b)
    PROVE  Sound(TypingBinary(op, s, t), BinaryAnswer(op, a, b))
<1>. DEFINE typed == TypingBinary(op, s, t)
<1>1. CASE op \in Comparisons
  <2>1. BinaryAnswer(op, a, b) = Comparison(op, a, b) /\ op \notin {"and", "or"}
    BY <1>1 DEF BinaryAnswer, ArithOps, Comparisons
  <2>2. Sound("bool", Comparison(op, a, b)) /\ Sound(Unknown, Comparison(op, a, b))
    BY ComparisonYields, YieldsSound DEF ColumnTypes
  <2>3. CASE Absent \in {s, t}
    <3>1. Null \in {a, b}
      BY <2>3 DEF Admits
    <3>2. Comparison(op, a, b) = Good(Null)
      BY <3>1 DEF Comparison
    <3>. QED  BY <2>1, <3>2, NullSound
  <2>4. CASE Absent \notin {s, t}
    <3>1. typed \in {"bool", Unknown}
      BY <1>1, <2>1, <2>4 DEF TypingBinary
    <3>. QED  BY <2>1, <2>2, <3>1
  <2>. QED  BY <2>3, <2>4
<1>2. CASE op \in {"and", "or"}
  <2>1. BinaryAnswer(op, a, b) = Logical(op, a, b)
    BY <1>2 DEF BinaryAnswer, ArithOps, Comparisons
  <2>2. Sound("bool", Logical(op, a, b)) /\ Sound(Unknown, Logical(op, a, b))
    BY LogicalYields, YieldsSound DEF ColumnTypes
  <2>3. CASE s = Absent /\ t = Absent
    <3>1. a = Null /\ b = Null
      BY <2>3 DEF Admits
    <3>2. Logical(op, a, b) = Good(Null)
      <4>1. BoolCell(op = "or") # Null
        BY DEF BoolCell, Null, Cell
      <4>. QED  BY <3>1, <4>1, NullCell DEF Logical
    <3>. QED  BY <2>1, <3>2, NullSound
  <2>4. CASE ~(s = Absent /\ t = Absent)
    <3>1. typed \in {"bool", Unknown}
      <4>1. CASE {s, t} \subseteq {Absent, "bool"}
        <5>1. {s, t} \ {Absent} = {"bool"}
          BY <2>4, <4>1 DEF Absent
        <5>2. Cardinality({"bool"}) = 1
          BY FS_Singleton
        <5>3. JoinAll({s, t}) = "bool"
          BY <5>1, <5>2 DEF JoinAll
        <5>. QED  BY <1>2, <4>1, <5>3 DEF TypingBinary
      <4>2. CASE ~({s, t} \subseteq {Absent, "bool"})
        BY <1>2, <4>2 DEF TypingBinary
      <4>. QED  BY <4>1, <4>2
    <3>. QED  BY <2>1, <2>2, <3>1
  <2>. QED  BY <2>3, <2>4
<1>3. CASE op \in ArithOps
  <2>1. BinaryAnswer(op, a, b) = Arith(op, a, b) /\ op \notin Comparisons \union {"and", "or"}
    BY <1>3 DEF BinaryAnswer, ArithOps, Comparisons
  <2>. DEFINE x == Arith(op, a, b)
  <2>2. CASE Null \in {a, b}
    BY <2>1, <2>2, ArithNull, NullSound
  <2>3. CASE Null \notin {a, b}
    <3>1. Sound(Unknown, x)
      <4>1. CASE "decimal" \in {a.kind, b.kind}
        BY <1>3, <4>1, ArithDecimal, YieldsUnknown
      <4>2. CASE a.kind = "int" /\ b.kind = "int"
        BY <1>3, <4>2, ArithInt, YieldsUnknown
      <4>3. CASE "decimal" \notin {a.kind, b.kind} /\ "float" \in {a.kind, b.kind}
        BY <1>3, <4>3, ArithFloat, YieldsUnknown
      <4>4. CASE {"decimal", "float"} \intersect {a.kind, b.kind} = {} /\ ~(a.kind = "int" /\ b.kind = "int")
        <5>1. x = TypeError
          BY <2>3, <4>4 DEF Arith, Numeric
        <5>. QED  BY <5>1, RefusalYields, YieldsUnknown
      <4>. QED  BY <4>1, <4>2, <4>3, <4>4
    <3>2. s # Absent /\ t # Absent
      BY <2>3 DEF Admits
    <3>3. CASE typed = Unknown
      BY <2>1, <3>1, <3>3
    <3>4. CASE s = "int" /\ t = "int"
      <4>1. a.kind = "int" /\ b.kind = "int"
        BY <2>3, <3>4, CellOfType DEF ColumnTypes
      <4>2. typed = IF op = "div" THEN "float" ELSE "int"
        BY <2>1, <3>2, <3>4 DEF TypingBinary, AreNumeric
      <4>3. Yields(typed, x)
        BY <1>3, <4>1, <4>2, ArithInt
      <4>. QED  BY <2>1, <4>2, <4>3, YieldsSound DEF ColumnTypes
    <3>5. CASE AreNumeric(s, t) /\ ~(s = "int" /\ t = "int") /\ typed # Unknown
      <4>1. a.kind \in {"int", "float"} /\ b.kind \in {"int", "float"}
        BY <2>3, <3>5, CellOfType DEF ColumnTypes, AreNumeric
      <4>2. typed = "float"
        BY <2>1, <3>2, <3>5 DEF TypingBinary
      <4>3. Yields("float", x) \/ Yields("int", x)
        <5>1. CASE a.kind = "int" /\ b.kind = "int"
          BY <1>3, <5>1, ArithInt
        <5>2. CASE ~(a.kind = "int" /\ b.kind = "int")
          BY <1>3, <4>1, <5>2, ArithFloat
        <5>. QED  BY <5>1, <5>2
      <4>4. Sound("float", x)
        BY <4>3 DEF Yields, Sound, Admits, ColumnTypes, Absent
      <4>. QED  BY <2>1, <4>2, <4>4
    <3>6. CASE ~AreNumeric(s, t) /\ typed # Unknown
      <4>1. typed = "decimal" /\ AreExact(s, t) /\ "decimal" \in {s, t}
        BY <2>1, <3>2, <3>6 DEF TypingBinary, AreExact, AreNumeric
      <4>2. "decimal" \in {a.kind, b.kind}
        BY <2>3, <4>1, CellOfType DEF ColumnTypes
      <4>. QED  BY <1>3, <2>1, <4>1, <4>2, ArithDecimal, YieldsSound DEF ColumnTypes
    <3>. QED  BY <3>3, <3>4, <3>5, <3>6
  <2>. QED  BY <2>2, <2>3
<1>. QED  BY <1>1, <1>2, <1>3

-----------------------------------------------------------------------------
\* A set of numbers has a least one.
LEMMA Least ==
    ASSUME NEW T, T \subseteq Nat, T # {}
    PROVE  \E m \in T : \A n \in T : m <= n
<1>1. PICK m \in T : \A n \in T : ~ (<<n, m>> \in OpToRel(<, Nat))
  BY WFMin, NatLessThanWellFounded
<1>2. \A n \in T : ~ (n < m)
  BY <1>1 DEF OpToRel
<1>. QED  BY <1>2

\* It is what Min answers.
LEMMA MinIn ==
    ASSUME NEW T, T \subseteq Nat, T # {}
    PROVE  Min(T) \in T
  BY Least DEF Min

\* The exact join: every type that is not absent is the one joined.
LEMMA JoinOfType ==
    ASSUME NEW T, IsFiniteSet(T)
    PROVE  \A t \in T : t = Absent \/ JoinAll(T) \in {t, Unknown}
<1>. DEFINE present == T \ {Absent}
<1>1. IsFiniteSet(present)
  BY FS_RemoveElement
<1>2. CASE Cardinality(present) = 1
  <2>1. PICK one : present = {one}
    BY <1>1, <1>2, FS_Singleton
  <2>2. JoinAll(T) = one
    BY <1>2, <2>1 DEF JoinAll
  <2>. QED  BY <2>1, <2>2
<1>3. CASE Cardinality(present) # 1
  BY <1>3 DEF JoinAll
<1>. QED  BY <1>2, <1>3

\* The members of a sequence are finitely many.
LEMMA MembersFinite ==
    ASSUME NEW n \in Nat, NEW s, DOMAIN s = 1 .. n
    PROVE  IsFiniteSet(ToSet(s))
<1>1. IsFiniteSet(1 .. n)
  BY FS_Interval
<1>2. [k \in 1 .. n |-> s[k]] \in Surjection(1 .. n, ToSet(s))
  BY DEF Surjection, ToSet
<1>. QED  BY <1>1, <1>2, FS_Surjection

\* An answer sound for one of the types joined is sound for the join.
LEMMA JoinSound ==
    ASSUME NEW T, IsFiniteSet(T), T \subseteq TypeSpace, NEW t \in T, NEW x, Sound(t, x)
    PROVE  Sound(JoinAll(T), x)
<1>1. t = Absent \/ JoinAll(T) \in {t, Unknown}
  BY JoinOfType
<1>2. CASE JoinAll(T) = t
  BY <1>2
<1>3. CASE JoinAll(T) = Unknown
  BY <1>3, TypesDistinct DEF Sound, Admits
<1>4. CASE t = Absent
  BY <1>4 DEF Sound, Admits
<1>. QED  BY <1>1, <1>2, <1>3, <1>4

\* The operands of a node: as many answers as types, each sound for its own.
Operands(ts, xs, n) ==
    /\ n \in Nat /\ DOMAIN ts = 1 .. n /\ DOMAIN xs = 1 .. n /\ Len(ts) = n /\ Len(xs) = n
    /\ \A k \in 1 .. n : ts[k] \in TypeSpace /\ Sound(ts[k], xs[k])

\* The first non-null operand is sound for the join of the operands' types.
LEMMA CoalesceSound ==
    ASSUME NEW ts, NEW xs, NEW n, Operands(ts, xs, n)
    PROVE  Sound(JoinAll(ToSet(ts)), CoalesceAnswer(xs))
<1>. DEFINE stops == {k \in DOMAIN xs : xs[k].err # "None" \/ xs[k].cell # Null}
<1>1. n \in Nat /\ DOMAIN xs = 1 .. n /\ DOMAIN ts = 1 .. n
  BY DEF Operands
<1>2. CASE stops = {}
  BY <1>2, NullSound DEF CoalesceAnswer
<1>3. CASE stops # {}
  <2>1. Min(stops) \in stops
    <3>1. stops \subseteq Nat
      BY <1>1
    <3>. HIDE DEF stops
    <3>. QED  BY <1>3, <3>1, MinIn
  <2>2. CoalesceAnswer(xs) = xs[Min(stops)]
    BY <1>3 DEF CoalesceAnswer
  <2>3. Min(stops) \in 1 .. n
    BY <1>1, <2>1
  <2>. DEFINE k == Min(stops)
  <2>. HIDE DEF k
  <2>4. k \in 1 .. n /\ CoalesceAnswer(xs) = xs[k]
    BY <2>2, <2>3 DEF k
  <2>5. Sound(ts[k], xs[k]) /\ ts[k] \in ToSet(ts) /\ ToSet(ts) \subseteq TypeSpace
    BY <1>1, <2>4 DEF Operands, ToSet
  <2>6. IsFiniteSet(ToSet(ts))
    BY <1>1, MembersFinite
  <2>. QED  BY <2>4, <2>5, <2>6, JoinSound
<1>. QED  BY <1>2, <1>3

\* The arm taken is sound for the join of the arms' types.
LEMMA CaseSound ==
    ASSUME NEW ts, NEW xs, NEW n, Operands(ts, xs, n), n % 2 = 1
    PROVE  Sound(JoinAll(ThenArms(ts)), CaseAnswer(xs))
<1>. DEFINE settles(x) == x.err # "None" \/ x.cell = BoolCell(TRUE)
            stops == {k \in 1 .. Len(xs) \div 2 : settles(xs[2*k - 1])}
<1>1. n \in Nat /\ DOMAIN xs = 1 .. n /\ DOMAIN ts = 1 .. n /\ n # 0
  BY DEF Operands
<1>2. Len(xs) = n /\ Len(ts) = n
  BY DEF Operands
<1>3. \A k \in 1 .. n \div 2 : 2*k \in 1 .. n /\ 2*k - 1 \in 1 .. n
  BY <1>1
<1>4. /\ ThenArms(ts) \subseteq ToSet(ts)
      /\ ts[n] \in ThenArms(ts)
      /\ \A k \in 1 .. n \div 2 : ts[2*k] \in ThenArms(ts)
  BY <1>1, <1>2, <1>3 DEF ThenArms, ToSet
<1>5. IsFiniteSet(ThenArms(ts)) /\ ThenArms(ts) \subseteq TypeSpace
  <2>1. IsFiniteSet(ToSet(ts))
    BY <1>1, MembersFinite
  <2>2. ToSet(ts) \subseteq TypeSpace
    BY <1>1 DEF ToSet, Operands
  <2>. QED  BY <1>4, <2>1, <2>2, FS_Subset
<1>6. ASSUME NEW k \in 1 .. n, ts[k] \in ThenArms(ts)
      PROVE  Sound(JoinAll(ThenArms(ts)), xs[k])
  BY <1>5, <1>6, JoinSound DEF Operands
<1>7. CASE stops = {}
  <2>1. CaseAnswer(xs) = xs[n]
    BY <1>2, <1>7 DEF CaseAnswer, Last
  <2>. QED  BY <1>1, <1>4, <1>6, <2>1
<1>8. CASE stops # {}
  <2>. DEFINE k == Min(stops)
              arm == IF xs[2*k - 1].err # "None" THEN xs[2*k - 1] ELSE xs[2*k]
  <2>1. k \in stops
    <3>. HIDE DEF settles
    <3>1. stops \subseteq Nat
      BY <1>1, <1>2
    <3>. HIDE DEF stops
    <3>. QED  BY <1>8, <3>1, MinIn
  <2>2. CaseAnswer(xs) = arm
    BY <1>8 DEF CaseAnswer
  <2>3. k \in 1 .. n \div 2
    BY <1>2, <2>1
  <2>. HIDE DEF k
  <2>4. Sound(JoinAll(ThenArms(ts)), xs[2*k])
    BY <1>3, <1>4, <1>6, <2>3
  <2>. QED  BY <2>2, <2>4, RefusalSound
<1>. QED  BY <1>7, <1>8

\* A membership answers a bool, or null: always, of a null subject.
LEMMA InListYields ==
    ASSUME NEW subject, NEW items, NEW n \in Nat, DOMAIN items = 1 .. n
    PROVE  /\ Yields("bool", InListAnswer(subject, items))
           /\ subject = Null => InListAnswer(subject, items) = Good(Null)
<1>. DEFINE verdict(x) == IF x.err # "None" \/ x.cell = Null THEN x ELSE Comparison("eq", subject, x.cell)
            xs == [k \in DOMAIN items |-> verdict(items[k])]
            settles(x) == x.err # "None" \/ x.cell = BoolCell(TRUE)
            stops == {k \in DOMAIN xs : settles(xs[k])}
<1>1. CASE subject = Null
  BY <1>1, GoodNull DEF InListAnswer
<1>2. CASE subject # Null /\ stops = {}
  <2>1. InListAnswer(subject, items) \in {Good(Null), Good(BoolCell(FALSE))}
    BY <1>2 DEF InListAnswer
  <2>. QED  BY <1>2, <2>1, GoodNull, GoodBool
<1>3. CASE subject # Null /\ stops # {}
  <2>1. InListAnswer(subject, items) = xs[Min(stops)]
    BY <1>3 DEF InListAnswer
  <2>2. DOMAIN xs = 1 .. n
    OBVIOUS
  <2>. HIDE DEF xs, settles
  <2>5. stops \subseteq Nat
    BY <2>2
  <2>7. \A k \in stops : settles(xs[k])
    OBVIOUS
  <2>. HIDE DEF stops
  <2>6. IsCell(BoolCell(TRUE)) /\ BoolCell(TRUE).kind = "bool"
    BY BuiltCell DEF BoolCell
  <2>3. Min(stops) \in stops
    BY <1>3, <2>5, MinIn
  <2>4. \A k \in stops : Yields("bool", xs[k])
    BY <2>6, <2>7 DEF Yields, settles
  <2>. QED  BY <1>3, <2>1, <2>3, <2>4
<1>. QED  BY <1>1, <1>2, <1>3

-----------------------------------------------------------------------------
(***************************************************************************)
(* The fold of least and greatest.  FoldLeft chooses a function on the     *)
(* subsets of a sequence's domain; that there is one, and what it gives a  *)
(* prefix, is shown by the least length where it would fail.               *)
(***************************************************************************)
Better(fn, best, c) ==
    IF best.err # "None" THEN best
    ELSE IF ~Comparable(best.cell, c) THEN TypeError
    ELSE IF (fn = "least") # (CompareCells(best.cell, c) <= 0) THEN Good(c) ELSE best

IsFold(f, fn, first, s, n) ==
    /\ DOMAIN f = SUBSET (1 .. n)
    /\ \A r \in SUBSET (1 .. n) : f[r] = IF r = {} THEN first ELSE Better(fn, f[r \ {Max(r)}], s[Max(r)])

\* A range has a greatest, its end.
LEMMA MaxOf ==
    ASSUME NEW n \in Nat, NEW r \in SUBSET (1 .. n), n \in r
    PROVE  Max(r) = n
<1>1. \A x \in r : (\A y \in r : x >= y) => x = n
  OBVIOUS
<1>2. \A y \in r : n >= y
  OBVIOUS
<1>. QED  BY <1>1, <1>2 DEF Max

\* There is a fold over every length.
LEMMA FoldExists ==
    ASSUME NEW fn, NEW first, NEW s, NEW n \in Nat
    PROVE  \E f : IsFold(f, fn, first, s, n)
<1>. DEFINE T == {m \in Nat : ~ \E f : IsFold(f, fn, first, s, m)}
<1>. SUFFICES ASSUME T # {}
              PROVE  FALSE
  OBVIOUS
<1>1. PICK m \in T : \A k \in T : m <= k
  BY Least
<1>2. CASE m = 0
  <2>. DEFINE f == [r \in SUBSET (1 .. 0) |-> first]
  <2>1. SUBSET (1 .. 0) = {{}}
    OBVIOUS
  <2>2. IsFold(f, fn, first, s, 0)
    BY <2>1 DEF IsFold
  <2>. QED  BY <1>1, <1>2, <2>2
<1>3. CASE m # 0
  <2>1. m - 1 \in Nat /\ m - 1 \notin T
    BY <1>1, <1>3
  <2>2. PICK g : IsFold(g, fn, first, s, m - 1)
    BY <2>1
  <2>. DEFINE f == [r \in SUBSET (1 .. m) |-> IF m \in r THEN Better(fn, g[r \ {m}], s[m]) ELSE g[r]]
  <2>3. ASSUME NEW r \in SUBSET (1 .. m)
        PROVE  f[r] = IF r = {} THEN first ELSE Better(fn, f[r \ {Max(r)}], s[Max(r)])
    <3>1. CASE m \in r
      <4>1. Max(r) = m
        BY <1>1, <3>1, MaxOf
      <4>2. r \ {m} \in SUBSET (1 .. m) /\ m \notin r \ {m}
        OBVIOUS
      <4>3. f[r \ {m}] = g[r \ {m}]
        BY <4>2
      <4>4. f[r] = Better(fn, g[r \ {m}], s[m])
        BY <3>1
      <4>. QED  BY <3>1, <4>1, <4>3, <4>4
    <3>2. CASE m \notin r
      <4>1. r \in SUBSET (1 .. m - 1)
        BY <1>1, <3>2
      <4>2. f[r] = g[r] /\ f[r \ {Max(r)}] = g[r \ {Max(r)}]
        BY <3>2
      <4>. QED  BY <2>2, <4>1, <4>2 DEF IsFold
    <3>. QED  BY <3>1, <3>2
  <2>4. DOMAIN f = SUBSET (1 .. m)
    OBVIOUS
  <2>. HIDE DEF f
  <2>5. IsFold(f, fn, first, s, m)
    BY <2>3, <2>4 DEF IsFold
  <2>. QED  BY <1>1, <2>5
<1>. QED  BY <1>2, <1>3

\* What is kept so far is one of the cells, or the refusal of a pair that does not compare.
OneOf(x, cells) == x.err # "None" \/ x.cell \in cells

\* What a fold keeps of the cells is one of them, or a refusal.
LEMMA FoldKeeps ==
    ASSUME NEW fn, NEW first, NEW s, NEW n \in Nat, NEW cells, NEW f, IsFold(f, fn, first, s, n),
           OneOf(first, cells), \A k \in 1 .. n : s[k] \in cells
    PROVE  OneOf(f[1 .. n], cells)
<1>. DEFINE T == {i \in Nat : i <= n /\ ~OneOf(f[1 .. i], cells)}
<1>. SUFFICES ASSUME T # {}
              PROVE  FALSE
  BY DEF T
<1>1. PICK i \in T : \A j \in T : i <= j
  BY Least
<1>2. 1 .. i \in SUBSET (1 .. n)
  BY <1>1
<1>3. CASE i = 0
  <2>1. 1 .. i = {}
    BY <1>3
  <2>. QED  BY <1>1, <1>2, <2>1 DEF IsFold
<1>4. CASE i # 0
  <2>1. i \in 1 .. i /\ i - 1 \in Nat /\ i - 1 <= n /\ i - 1 \notin T
    BY <1>1, <1>4
  <2>2. Max(1 .. i) = i
    BY <1>1, <2>1, MaxOf
  <2>3. ASSUME NEW x
        PROVE  x \in (1 .. i) \ {i} <=> x \in 1 .. i - 1
    BY <1>1
  <2>4. (1 .. i) \ {i} = 1 .. i - 1
    BY <2>3
  <2>5. f[1 .. i] = Better(fn, f[1 .. i - 1], s[i])
    BY <1>2, <2>1, <2>2, <2>4 DEF IsFold
  <2>6. s[i] \in cells /\ OneOf(f[1 .. i - 1], cells)
    BY <1>1, <1>4, <2>1
  <2>. DEFINE best == f[1 .. i - 1]
  <2>. HIDE DEF best
  <2>7. OneOf(best, cells) => OneOf(Better(fn, best, s[i]), cells)
    BY <2>6 DEF OneOf, Better, Good, TypeError, Fail
  <2>. QED  BY <1>1, <2>5, <2>6, <2>7 DEF best
<1>. QED  BY <1>3, <1>4

\* LeastOrGreatest is such a fold.
LEMMA LeastOrGreatestKeeps ==
    ASSUME NEW fn, NEW S, NEW args \in Seq(S), args # << >>
    PROVE  OneOf(LeastOrGreatest(fn, args), ToSet(args))
<1>. DEFINE s == Tail(args)
            first == Good(Head(args))
            n == Len(args) - 1
            F(f) == f = [r \in SUBSET DOMAIN s |->
                           IF r = {} THEN first ELSE Better(fn, f[r \ {Max(r)}], s[Max(r)])]
            c == CHOOSE f : F(f)
<1>1. LeastOrGreatest(fn, args) = c[DOMAIN s]
  BY DEF LeastOrGreatest, FoldLeft, MapThenFoldSet, Better
<1>2. n \in Nat /\ DOMAIN s = 1 .. n /\ \A k \in 1 .. n : s[k] = args[k + 1] /\ k + 1 \in DOMAIN args
  OBVIOUS
<1>3. Head(args) \in ToSet(args) /\ \A k \in 1 .. n : s[k] \in ToSet(args)
  BY <1>2 DEF ToSet
<1>4. OneOf(first, ToSet(args))
  BY <1>3 DEF OneOf, Good
<1>. HIDE DEF s, first, n
<1>5. \E f : F(f)
  <2>1. PICK f : IsFold(f, fn, first, s, n)
    BY <1>2, FoldExists
  <2>. DEFINE g == [r \in SUBSET (1 .. n) |-> f[r]]
  <2>2. \A r \in SUBSET (1 .. n) : g[r] = IF r = {} THEN first ELSE Better(fn, g[r \ {Max(r)}], s[Max(r)])
    BY <2>1 DEF IsFold
  <2>3. g = [r \in SUBSET (1 .. n) |-> IF r = {} THEN first ELSE Better(fn, g[r \ {Max(r)}], s[Max(r)])]
    BY <2>2
  <2>. HIDE DEF g
  <2>4. F(g)
    BY <1>2, <2>3
  <2>. QED  BY <2>4
<1>6. F(c)
  <2>. HIDE DEF F
  <2>. QED  BY <1>5
<1>. HIDE DEF c
<1>7. IsFold(c, fn, first, s, n)
  BY <1>2, <1>6 DEF IsFold
<1>. QED  BY <1>1, <1>2, <1>3, <1>4, <1>7, FoldKeeps
\* What a function of one operand answers.
LEMMA ApplyUnaryIs ==
    ASSUME NEW fn \in Unary, NEW cells
    PROVE  ApplyScalar(fn, cells) = IF Len(cells) # 1 THEN Fail("ARITY_ERROR") ELSE ApplyUnary(fn, cells[1])
<1>1. fn # "pow" /\ fn \notin {"least", "greatest", "concat"}
  BY DEF Unary
<1>. QED  BY <1>1 DEF ApplyScalar

\* What pow answers.
LEMMA ApplyPowIs ==
    ASSUME NEW cells
    PROVE  ApplyScalar("pow", cells) = IF Len(cells) # 2 THEN Fail("ARITY_ERROR") ELSE Pow(cells[1], cells[2])
<1>1. "pow" \notin Unary /\ "pow" \notin {"least", "greatest", "concat"}
  BY DEF Unary
<1>. QED  BY <1>1 DEF ApplyScalar

\* What concat answers.
LEMMA ApplyConcatIs ==
    ASSUME NEW cells
    PROVE  \E text : ApplyScalar("concat", cells) = IF cells = << >> THEN Fail("ARITY_ERROR")
              ELSE IF Null \in ToSet(cells) THEN Good(Null) ELSE Good(StrCell(text))
<1>1. "concat" \notin Unary /\ "concat" \in {"least", "greatest", "concat"}
  BY DEF Unary
<1>. QED  BY <1>1 DEF ApplyScalar

\* What least and greatest answer.
LEMMA ApplyLeastIs ==
    ASSUME NEW fn \in {"least", "greatest"}, NEW cells
    PROVE  ApplyScalar(fn, cells) = IF cells = << >> THEN Fail("ARITY_ERROR")
              ELSE IF Null \in ToSet(cells) THEN Good(Null) ELSE LeastOrGreatest(fn, cells)
<1>1. fn \notin Unary /\ fn \in {"least", "greatest", "concat"} /\ fn # "pow" /\ fn # "concat"
  BY DEF Unary
<1>. QED  BY <1>1 DEF ApplyScalar

\* What a function of one operand is typed to.
LEMMA TypingUnaryIs ==
    ASSUME NEW fn \in Unary, NEW ts, NEW last
    PROVE  TypingApply(fn, ts, last) = IF Len(ts) # 1 \/ ts[1] = Absent THEN Absent ELSE TypingUnary(fn, ts[1])
<1>1. fn # "pow" /\ fn \notin {"least", "greatest"} /\ fn # "concat"
  BY DEF Unary
<1>. QED  BY <1>1 DEF TypingApply

\* What pow is typed to.
LEMMA TypingPowIs ==
    ASSUME NEW ts, NEW last
    PROVE  TypingApply("pow", ts, last) = IF Len(ts) # 2 THEN Absent ELSE TypingPow(ts, last)
<1>1. "pow" \notin Unary /\ "pow" \notin {"least", "greatest"} /\ "pow" # "concat"
  BY DEF Unary
<1>. QED  BY <1>1 DEF TypingApply

\* What concat is typed to.
LEMMA TypingConcatIs ==
    ASSUME NEW ts, NEW last
    PROVE  TypingApply("concat", ts, last) = IF ts = << >> \/ Absent \in ToSet(ts) THEN Absent ELSE "string"
<1>1. "concat" \notin Unary /\ "concat" \notin {"least", "greatest"} /\ "pow" # "concat"
  BY DEF Unary
<1>. QED  BY <1>1 DEF TypingApply

\* What least and greatest are typed to.
LEMMA TypingLeastIs ==
    ASSUME NEW fn \in {"least", "greatest"}, NEW ts, NEW last
    PROVE  TypingApply(fn, ts, last) = IF ts = << >> \/ Absent \in ToSet(ts) THEN Absent ELSE JoinAll(ToSet(ts))
<1>1. fn \notin Unary /\ fn # "pow" /\ fn # "concat"
  BY DEF Unary
<1>. QED  BY <1>1 DEF TypingApply


-----------------------------------------------------------------------------
(***************************************************************************)
(* Node by node.                                                           *)
(***************************************************************************)
\* The cells of operands that all answered.
Taken(ts, cells, n) ==
    /\ n \in Nat /\ DOMAIN ts = 1 .. n /\ DOMAIN cells = 1 .. n /\ Len(ts) = n /\ Len(cells) = n
    /\ cells \in Seq({cells[k] : k \in 1 .. n})
    /\ \A k \in 1 .. n : ts[k] \in TypeSpace /\ IsCell(cells[k]) /\ Admits(ts[k], cells[k])

\* An int and a float are both sound for a float column.
LEMMA NumberSound ==
    ASSUME NEW x, Yields("int", x) \/ Yields("float", x)
    PROVE  Sound("float", x) /\ Sound(Unknown, x)
  BY DEF Yields, Sound, Admits, ColumnTypes, Absent, Unknown

\* A scalar function of one operand answers what it was typed to.
LEMMA UnarySound ==
    ASSUME NEW fn \in Unary, NEW t \in TypeSpace, NEW c, IsCell(c), Admits(t, c)
    PROVE  Sound(IF t = Absent THEN Absent ELSE TypingUnary(fn, t), ApplyUnary(fn, c))
<1>1. CASE c = Null
  BY <1>1, NullSound DEF ApplyUnary
<1>2. CASE c # Null
  <2>0. t # Absent
    BY <1>2 DEF Admits
  <2>1. CASE fn = "abs"
    <3>1. ApplyUnary(fn, c) = AbsFn(c) /\ Yields(c.kind, AbsFn(c))
      BY <1>2, <2>1, AbsYields DEF ApplyUnary
    <3>2. TypingUnary(fn, t) = IF t \in {"int", "float", "decimal"} THEN t ELSE Unknown
      BY <2>1 DEF TypingUnary
    <3>3. t \in {"int", "decimal"} => c.kind = t
      BY <1>2, CellOfType DEF ColumnTypes
    <3>4. t = "float" => c.kind \in {"int", "float"}
      BY <1>2, CellOfType DEF ColumnTypes
    <3>5. Sound(Unknown, AbsFn(c))
      BY <3>1, YieldsUnknown
    <3>6. t \in {"int", "decimal"} => Sound(t, AbsFn(c))
      BY <3>1, <3>3, YieldsSound DEF ColumnTypes
    <3>7. t = "float" => Sound(t, AbsFn(c))
      BY <3>1, <3>4, NumberSound
    <3>. QED  BY <2>0, <3>1, <3>2, <3>5, <3>6, <3>7
  <2>2. CASE fn \in {"round", "floor", "ceil"}
    <3>1. /\ ApplyUnary(fn, c) = RoundFn(fn, c)
          /\ Yields(IF c.kind = "decimal" THEN "decimal" ELSE "float", RoundFn(fn, c))
      BY <1>2, <2>2, RoundYields DEF ApplyUnary
    <3>2. TypingUnary(fn, t) = IF t \in {"decimal", Unknown} THEN t ELSE "float"
      BY <2>2 DEF TypingUnary
    <3>3. t = "decimal" => c.kind = "decimal"
      BY <1>2, CellOfType DEF ColumnTypes
    <3>4. t \in ColumnTypes \ {"decimal"} => c.kind # "decimal"
      BY <1>2, CellOfType DEF ColumnTypes
    <3>5. Sound(Unknown, RoundFn(fn, c))
      BY <3>1, YieldsUnknown
    <3>6. t = "decimal" => Sound("decimal", RoundFn(fn, c))
      BY <3>1, <3>3, YieldsSound DEF ColumnTypes
    <3>7. t \in ColumnTypes \ {"decimal"} => Sound("float", RoundFn(fn, c))
      BY <3>1, <3>4, YieldsSound DEF ColumnTypes
    <3>. QED  BY <2>0, <3>1, <3>2, <3>5, <3>6, <3>7 DEF TypeSpace
  <2>3. CASE fn = "length"
    <3>1. Yields("int", ApplyUnary(fn, c))
      BY <1>2, <2>3, GoodInt, RefusalYields DEF ApplyUnary
    <3>2. TypingUnary(fn, t) = "int"
      BY <2>3 DEF TypingUnary
    <3>. QED  BY <2>0, <3>1, <3>2, YieldsSound DEF ColumnTypes
  <2>. QED  BY <2>1, <2>2, <2>3 DEF Unary
<1>. QED  BY <1>1, <1>2

\* So does a power, an int only where a literal exponent that is not negative says so.
LEMMA PowSound ==
    ASSUME NEW ts, NEW cells, Taken(ts, cells, 2), NEW last, last.tag = "Lit" => cells[2] = last.cell
    PROVE  Sound(TypingPow(ts, last), Pow(cells[1], cells[2]))
<1>. DEFINE p == Pow(cells[1], cells[2])
<1>1. ToSet(ts) = {ts[1], ts[2]}
  BY DEF Taken, ToSet
<1>2. 1 \in 1 .. 2 /\ 2 \in 1 .. 2
  OBVIOUS
<1>3. CASE Null \in {cells[1], cells[2]}
  BY <1>3, NullSound DEF Pow
<1>4. CASE Null \notin {cells[1], cells[2]}
  <2>1. Absent \notin ToSet(ts)
    BY <1>1, <1>2, <1>4 DEF Taken, Admits
  <2>2. (Yields("int", p) \/ Yields("float", p))
        /\ (cells[1].kind = "int" /\ cells[2].kind = "int" /\ cells[2].n >= 0 => Yields("int", p))
    BY PowYields
  <2>. HIDE DEF p
  <2>3. Sound("float", p) /\ Sound(Unknown, p)
    BY <2>2, NumberSound
  <2>4. CASE last.tag = "Lit" /\ last.cell.kind = "int" /\ ts[1] = "int" /\ last.cell.n >= 0
    <3>1. cells[1].kind = "int"
      BY <1>2, <1>4, <2>4, CellOfType DEF ColumnTypes, Taken
    <3>2. Sound("int", p)
      BY <2>2, <2>4, <3>1, YieldsSound DEF ColumnTypes
    <3>. QED  BY <2>1, <2>3, <2>4, <3>2 DEF TypingPow, p
  <2>5. CASE ~(last.tag = "Lit" /\ last.cell.kind = "int" /\ ts[1] = "int" /\ last.cell.n >= 0)
    <3>1. TypingPow(ts, last) \in {"float", Unknown}
      BY <2>1, <2>5 DEF TypingPow
    <3>. QED  BY <2>3, <3>1 DEF p
  <2>. QED  BY <2>4, <2>5
<1>. QED  BY <1>3, <1>4

ScalarFns == Unary \union {"pow", "least", "greatest", "concat"}

\* So does any scalar function, of any number of operands.
LEMMA ApplySound ==
    ASSUME NEW fn \in ScalarFns, NEW ts, NEW cells, NEW n, Taken(ts, cells, n), NEW last,
           n # 0 /\ last.tag = "Lit" => cells[n] = last.cell
    PROVE  Sound(TypingApply(fn, ts, last), ApplyScalar(fn, cells))
<1>0. n \in Nat /\ DOMAIN ts = 1 .. n /\ DOMAIN cells = 1 .. n /\ Len(ts) = n /\ Len(cells) = n
  BY DEF Taken
<1>r. ASSUME NEW t PROVE Sound(t, Fail("ARITY_ERROR"))
  <2>1. Fail("ARITY_ERROR").err # "None"
    BY DEF Fail
  <2>. QED  BY <2>1, RefusalSound
<1>1. CASE fn \in Unary
  <2>1. CASE n # 1
    <3>1. ApplyScalar(fn, cells) = Fail("ARITY_ERROR")
      BY <1>0, <1>1, <2>1, ApplyUnaryIs
    <3>. QED  BY <3>1, <1>r
  <2>2. CASE n = 1
    <3>1. ApplyScalar(fn, cells) = ApplyUnary(fn, cells[1])
      BY <1>0, <1>1, <2>2, ApplyUnaryIs
    <3>2. TypingApply(fn, ts, last) = IF ts[1] = Absent THEN Absent ELSE TypingUnary(fn, ts[1])
      BY <1>0, <1>1, <2>2, TypingUnaryIs
    <3>3. ts[1] \in TypeSpace /\ IsCell(cells[1]) /\ Admits(ts[1], cells[1])
      BY <1>0, <2>2 DEF Taken
    <3>. QED  BY <1>1, <3>1, <3>2, <3>3, UnarySound
  <2>. QED  BY <2>1, <2>2
<1>2. CASE fn = "pow"
  <2>1. CASE n # 2
    <3>1. ApplyScalar(fn, cells) = Fail("ARITY_ERROR")
      BY <1>0, <1>2, <2>1, ApplyPowIs
    <3>. QED  BY <3>1, <1>r
  <2>2. CASE n = 2
    <3>1. ApplyScalar(fn, cells) = Pow(cells[1], cells[2])
      BY <1>0, <1>2, <2>2, ApplyPowIs
    <3>2. TypingApply(fn, ts, last) = TypingPow(ts, last)
      BY <1>0, <1>2, <2>2, TypingPowIs
    <3>. QED  BY <2>2, <3>1, <3>2, PowSound
  <2>. QED  BY <2>1, <2>2
<1>3. CASE fn \in {"least", "greatest", "concat"}
  <2>0. PICK text : fn = "concat" =>
             ApplyScalar(fn, cells) = IF cells = << >> THEN Fail("ARITY_ERROR")
                                      ELSE IF Null \in ToSet(cells) THEN Good(Null) ELSE Good(StrCell(text))
    BY ApplyConcatIs
  <2>1. CASE cells = << >>
    <3>1. ApplyScalar(fn, cells) = Fail("ARITY_ERROR")
      BY <1>3, <2>0, <2>1, ApplyLeastIs
    <3>. QED  BY <3>1, <1>r
  <2>2. CASE cells # << >> /\ Null \in ToSet(cells)
    <3>1. ApplyScalar(fn, cells) = Good(Null)
      BY <1>3, <2>0, <2>2, ApplyLeastIs
    <3>. QED  BY <3>1, NullSound
  <2>3. CASE cells # << >> /\ Null \notin ToSet(cells)
    <3>1. n # 0
      BY <2>3 DEF Taken
    <3>2. ts # << >>
      BY <1>0, <3>1
    <3>3. Absent \notin ToSet(ts)
      BY <1>0, <2>3 DEF ToSet, Taken, Admits
    <3>4. CASE fn = "concat"
      <4>1. ApplyScalar(fn, cells) = Good(StrCell(text))
        BY <2>0, <2>3, <3>4
      <4>2. TypingApply(fn, ts, last) = "string"
        BY <3>2, <3>3, <3>4, TypingConcatIs
      <4>. QED  BY <4>1, <4>2, GoodString, YieldsSound DEF ColumnTypes
    <3>5. CASE fn \in {"least", "greatest"}
      <4>. DEFINE x == LeastOrGreatest(fn, cells)
      <4>1. ApplyScalar(fn, cells) = x
        BY <2>3, <3>5, ApplyLeastIs
      <4>2. TypingApply(fn, ts, last) = JoinAll(ToSet(ts))
        BY <3>2, <3>3, <3>5, TypingLeastIs
      <4>3. OneOf(x, ToSet(cells))
        BY <2>3, LeastOrGreatestKeeps DEF Taken
      <4>. HIDE DEF x
      <4>4. CASE x.err # "None"
        BY <4>1, <4>4, RefusalSound
      <4>5. CASE x.err = "None"
        <5>1. PICK k \in 1 .. n : x.cell = cells[k]
          BY <1>0, <4>3, <4>5 DEF OneOf, ToSet
        <5>2. Sound(ts[k], x) /\ ts[k] \in ToSet(ts) /\ ToSet(ts) \subseteq TypeSpace
          BY <1>0, <5>1 DEF Sound, Taken, ToSet
        <5>3. IsFiniteSet(ToSet(ts))
          BY <1>0, MembersFinite
        <5>. QED  BY <4>1, <4>2, <5>2, <5>3, JoinSound
      <4>. QED  BY <4>4, <4>5
    <3>. QED  BY <1>3, <3>4, <3>5
  <2>. QED  BY <2>1, <2>2, <2>3
<1>. QED  BY <1>1, <1>2, <1>3 DEF ScalarFns

-----------------------------------------------------------------------------
(***************************************************************************)
(* What the decoder's constructors leave of a node.                        *)
(***************************************************************************)
StrictTags == {"Binary", "Not", "Cast", "IsNull", "ApplyFn", "Quotient", "Rounded", "Scaled", "Convert"}
Tags == StrictTags \union {"Col", "Lit", "Param", "InParam", "InCells", "InList", "Coalesce", "Case"}
BinaryOps == ArithOps \union Comparisons \union {"and", "or"}

IsNode(node) ==
    /\ node.tag \in Tags
    /\ node.tag = "Lit" => IsCell(node.cell) /\ (node.cell = Null \/ node.cell.kind \in ColumnTypes)
    /\ node.tag = "Binary" => node.op \in BinaryOps
    /\ node.tag = "Cast" => node.type \in ColumnTypes
    /\ node.tag = "ApplyFn" => node.fn \in ScalarFns
    /\ node.tag = "InCells" => \E m \in Nat : DOMAIN node.cells = 1 .. m

\* How many operands a node has.
HasArity(node, n) ==
    /\ node.tag \in {"Not", "Cast", "IsNull", "Rounded", "Scaled", "Convert", "InParam", "InCells"} => n = 1
    /\ node.tag \in {"Binary", "Quotient"} => n = 2
    /\ node.tag = "InList" => n >= 1
    /\ node.tag = "Case" => n % 2 = 1

\* Operands none of which refused give their cells.
LEMMA TakenCells ==
    ASSUME NEW ts, NEW xs, NEW n, Operands(ts, xs, n), Failures(xs) = {}
    PROVE  Taken(ts, CellsOf(xs), n) /\ \A k \in 1 .. n : CellsOf(xs)[k] = xs[k].cell
<1>. DEFINE cells == CellsOf(xs)
            S == {cells[k] : k \in 1 .. n}
<1>1. n \in Nat /\ DOMAIN xs = 1 .. n /\ DOMAIN ts = 1 .. n /\ Len(ts) = n
  BY DEF Operands
<1>2. cells = [k \in 1 .. n |-> xs[k].cell]
  BY <1>1 DEF CellsOf
<1>3. cells \in [1 .. n -> S]
  BY <1>2
<1>4. cells \in Seq(S) /\ Len(cells) = n
  BY <1>1, <1>3
<1>5. \A k \in 1 .. n : xs[k].err = "None"
  BY <1>1 DEF Failures
<1>6. \A k \in 1 .. n : ts[k] \in TypeSpace /\ IsCell(xs[k].cell) /\ Admits(ts[k], xs[k].cell)
  BY <1>5 DEF Operands, Sound
<1>7. DOMAIN cells = 1 .. n /\ \A k \in 1 .. n : cells[k] = xs[k].cell
  BY <1>2
<1>. HIDE DEF cells, S
<1>8. Taken(ts, cells, n)
  BY <1>1, <1>4, <1>6, <1>7 DEF Taken, S
<1>. QED  BY <1>7, <1>8 DEF cells

\* A type that passes through an absent operand.
LEMMA ThroughSound ==
    ASSUME NEW s \in TypeSpace, NEW t, NEW c, Admits(s, c), NEW x, Sound(t, x), c = Null => Sound(Absent, x)
    PROVE  Sound(IF s = Absent THEN Absent ELSE t, x)
<1>1. CASE s = Absent
  BY <1>1 DEF Admits
<1>2. CASE s # Absent
  BY <1>2
<1>. QED  BY <1>1, <1>2

\* A null, and a refusal, are sound for an absent operand.
LEMMA NullAbsent ==
    ASSUME NEW x, x.err # "None" \/ x = Good(Null)
    PROVE  Sound(Absent, x)
  BY NullSound, RefusalSound

\* A null operand stays null through every node that types it so.
LEMMA NullStays ==
    ASSUME NEW mode, NEW scale, NEW type, NEW factor, NEW op, NEW b
    PROVE  /\ Sound(Absent, CastCell(type, Null))
           /\ Sound(Absent, RoundedCell(mode, scale, Null))
           /\ Sound(Absent, NotCell(Null))
           /\ Sound(Absent, ScaledAnswer(factor, Null))
           /\ Sound(Absent, QuotientCell(mode, scale, Null, b))
           /\ Sound(Absent, QuotientCell(mode, scale, b, Null))
<1>0. TypeError.err # "None" /\ Good(Null).err = "None" /\ Good(Null).cell = Null
  BY DEF TypeError, Fail, Good
<1>1. CastCell(type, Null) = Good(Null) /\ CastCell("float", Null) = Good(Null)
  BY DEF CastCell
<1>2. RoundedCell(mode, scale, Null) \in {TypeError, Good(Null)}
  BY DEF RoundedCell
<1>3. NotCell(Null) = Good(Null)
  BY NullCell DEF NotCell
<1>4. QuotientCell(mode, scale, Null, b) \in {TypeError, Good(Null)}
      /\ QuotientCell(mode, scale, b, Null) \in {TypeError, Good(Null)}
  BY DEF QuotientCell
<1>5. ScaledAnswer(factor, Null) = Good(Null)
  <2>1. CASE factor = {}
    BY <1>0, <1>1, <2>1 DEF ScaledAnswer
  <2>2. CASE factor # {}
    <3>1. ASSUME NEW y PROVE Arith("mul", Null, y) = Good(Null)
      BY ArithNull
    <3>. QED  BY <1>0, <1>1, <2>2, <3>1 DEF ScaledAnswer
  <2>. QED  BY <2>1, <2>2
<1>6. Sound(Absent, TypeError) /\ Sound(Absent, Good(Null))
  BY <1>0, NullAbsent
<1>. QED  BY <1>1, <1>2, <1>3, <1>4, <1>5, <1>6

\* A node over the cells its operands answered.
LEMMA StrictSound ==
    ASSUME NEW node, IsNode(node), node.tag \in StrictTags, NEW n, HasArity(node, n), NEW ts, NEW cells,
           Taken(ts, cells, n), NEW cols, NEW last, n # 0 /\ last.tag = "Lit" => cells[n] = last.cell
    PROVE  Sound(NodeType(cols, node, ts, last), StrictAnswer(node, cells))
<1>. DEFINE typed == NodeType(cols, node, ts, last)
            x == StrictAnswer(node, cells)
<1>0. \A k \in 1 .. n : ts[k] \in TypeSpace /\ IsCell(cells[k]) /\ Admits(ts[k], cells[k])
  BY DEF Taken
<1>a. n = 1 => ts[1] \in TypeSpace /\ IsCell(cells[1]) /\ Admits(ts[1], cells[1])
  BY <1>0
<1>b. n = 2 => /\ ts[1] \in TypeSpace /\ IsCell(cells[1]) /\ Admits(ts[1], cells[1])
               /\ ts[2] \in TypeSpace /\ IsCell(cells[2]) /\ Admits(ts[2], cells[2])
  BY <1>0
<1>1. CASE node.tag = "Binary"
  <2>1. typed = TypingBinary(node.op, ts[1], ts[2]) /\ x = BinaryAnswer(node.op, cells[1], cells[2])
    BY <1>1 DEF NodeType, StrictAnswer
  <2>2. n = 2 /\ node.op \in BinaryOps
    BY <1>1 DEF HasArity, IsNode
  <2>. QED  BY <1>b, <2>1, <2>2, BinarySound DEF BinaryOps
<1>2. CASE node.tag = "Not"
  <2>1. typed = (IF ts[1] \in {Absent, "bool"} THEN ts[1] ELSE Unknown) /\ x = NotCell(cells[1])
    BY <1>2 DEF NodeType, StrictAnswer
  <2>2. n = 1
    BY <1>2 DEF HasArity
  <2>3. Sound("bool", x) /\ Sound(Unknown, x)
    BY <2>1, NotYields, YieldsSound DEF ColumnTypes
  <2>4. ts[1] = Absent => Sound(Absent, x)
    BY <1>a, <2>1, <2>2, NullStays DEF Admits
  <2>. QED  BY <2>1, <2>3, <2>4
<1>3. CASE node.tag = "Cast"
  <2>1. typed = (IF ts[1] = Absent THEN Absent ELSE node.type) /\ x = CastCell(node.type, cells[1])
    BY <1>3 DEF NodeType, StrictAnswer
  <2>2. n = 1 /\ node.type \in ColumnTypes
    BY <1>3 DEF HasArity, IsNode
  <2>3. Sound(node.type, x)
    BY <1>a, <2>1, <2>2, CastYields, YieldsSound
  <2>4. cells[1] = Null => Sound(Absent, x)
    BY <2>1, NullStays
  <2>. QED  BY <1>a, <2>1, <2>2, <2>3, <2>4, ThroughSound
<1>4. CASE node.tag = "IsNull"
  <2>. DEFINE b == cells[1] = Null
  <2>1. typed = "bool" /\ x = Good(BoolCell(b))
    BY <1>4 DEF NodeType, StrictAnswer
  <2>. HIDE DEF b
  <2>. QED  BY <2>1, GoodBool, YieldsSound DEF ColumnTypes
<1>5. CASE node.tag = "ApplyFn"
  <2>1. typed = TypingApply(node.fn, ts, last) /\ x = ApplyScalar(node.fn, cells)
    BY <1>5 DEF NodeType, StrictAnswer
  <2>2. node.fn \in ScalarFns
    BY <1>5 DEF IsNode
  <2>. QED  BY <2>1, <2>2, ApplySound
<1>6. CASE node.tag = "Quotient"
  <2>1. typed = (IF Absent \in {ts[1], ts[2]} THEN Absent
                 ELSE IF AreExact(ts[1], ts[2]) THEN "decimal" ELSE Unknown)
        /\ x = QuotientCell(node.mode, node.scale, cells[1], cells[2])
    BY <1>6 DEF NodeType, StrictAnswer
  <2>2. n = 2
    BY <1>6 DEF HasArity
  <2>3. Sound("decimal", x) /\ Sound(Unknown, x)
    BY <2>1, QuotientYields, YieldsSound DEF ColumnTypes
  <2>4. Absent \in {ts[1], ts[2]} => Sound(Absent, x)
    BY <1>b, <2>1, <2>2, NullStays DEF Admits
  <2>. QED  BY <2>1, <2>3, <2>4
<1>7. CASE node.tag = "Rounded"
  <2>. DEFINE t == IF ts[1] \in {"int", "decimal"} THEN "decimal" ELSE Unknown
  <2>1. typed = (IF ts[1] = Absent THEN Absent ELSE t) /\ x = RoundedCell(node.mode, node.scale, cells[1])
    BY <1>7 DEF NodeType, StrictAnswer
  <2>2. n = 1
    BY <1>7 DEF HasArity
  <2>3. Sound(t, x)
    BY <2>1, RoundedYields, YieldsSound DEF ColumnTypes
  <2>4. cells[1] = Null => Sound(Absent, x)
    BY <2>1, NullStays
  <2>. QED  BY <1>a, <2>1, <2>2, <2>3, <2>4, ThroughSound
<1>8. CASE node.tag = "Scaled"
  <2>1. typed = (IF ts[1] = Absent THEN Absent ELSE "float") /\ x = ScaledAnswer(node.factor, cells[1])
    BY <1>8 DEF NodeType, StrictAnswer
  <2>2. n = 1
    BY <1>8 DEF HasArity
  <2>3. Sound("float", x)
    BY <1>a, <2>1, <2>2, ScaledYields, YieldsSound DEF ColumnTypes
  <2>4. cells[1] = Null => Sound(Absent, x)
    BY <2>1, NullStays
  <2>. QED  BY <1>a, <2>1, <2>2, <2>3, <2>4, ThroughSound
<1>9. CASE node.tag = "Convert"
  <2>1. x = TypeError
    BY <1>9 DEF StrictAnswer
  <2>. QED  BY <2>1, RefusalSound DEF TypeError, Fail
<1>. QED  BY <1>1, <1>2, <1>3, <1>4, <1>5, <1>6, <1>7, <1>8, <1>9 DEF StrictTags

-----------------------------------------------------------------------------
\* The types of a node's operands.
Typed(ts, n) == n \in Nat /\ DOMAIN ts = 1 .. n /\ Len(ts) = n /\ \A k \in 1 .. n : ts[k] \in TypeSpace

\* What the typer answers is a column type, absent or unknown.
LEMMA JoinInSpace ==
    ASSUME NEW T, T \subseteq TypeSpace
    PROVE  JoinAll(T) \in TypeSpace
<1>. DEFINE present == T \ {Absent}
<1>1. CASE present = {} \/ (present # {} /\ Cardinality(present) # 1)
  BY <1>1 DEF JoinAll, TypeSpace
<1>2. CASE present # {} /\ Cardinality(present) = 1
  <2>1. JoinAll(T) = CHOOSE t \in present : TRUE
    BY <1>2 DEF JoinAll
  <2>2. (CHOOSE t \in present : TRUE) \in present
    BY <1>2
  <2>. QED  BY <2>1, <2>2
<1>. QED  BY <1>1, <1>2

\* So of a scalar function.
LEMMA ApplyInSpace ==
    ASSUME NEW fn \in ScalarFns, NEW ts, NEW n, Typed(ts, n), NEW last
    PROVE  TypingApply(fn, ts, last) \in TypeSpace
<1>1. ToSet(ts) \subseteq TypeSpace
  BY DEF Typed, ToSet
<1>2. CASE fn \in Unary
  <2>1. CASE Len(ts) # 1 \/ ts[1] = Absent
    BY <1>2, <2>1, TypingUnaryIs DEF TypeSpace
  <2>2. CASE Len(ts) = 1 /\ ts[1] # Absent
    <3>1. ts[1] \in TypeSpace
      BY <2>2 DEF Typed
    <3>2. TypingUnary(fn, ts[1]) \in {ts[1], Unknown, "float", "int"}
      BY <1>2 DEF TypingUnary, Unary
    <3>3. TypingApply(fn, ts, last) = TypingUnary(fn, ts[1])
      BY <1>2, <2>2, TypingUnaryIs
    <3>. QED  BY <3>1, <3>2, <3>3 DEF TypeSpace, ColumnTypes
  <2>. QED  BY <2>1, <2>2
<1>3. CASE fn = "pow"
  <2>1. TypingPow(ts, last) \in {Absent, Unknown, "int", "float"}
    BY DEF TypingPow
  <2>. QED  BY <1>3, <2>1, TypingPowIs DEF TypeSpace, ColumnTypes
<1>4. CASE fn \in {"least", "greatest"}
  BY <1>1, <1>4, TypingLeastIs, JoinInSpace DEF TypeSpace
<1>5. CASE fn = "concat"
  BY <1>5, TypingConcatIs DEF TypeSpace, ColumnTypes
<1>. QED  BY <1>2, <1>3, <1>4, <1>5 DEF ScalarFns

\* So of a binary operator.
LEMMA BinaryInSpace ==
    ASSUME NEW op, NEW s \in TypeSpace, NEW t \in TypeSpace
    PROVE  TypingBinary(op, s, t) \in TypeSpace
<1>1. JoinAll({s, t}) \in TypeSpace
  BY JoinInSpace
<1>2. {Absent, Unknown, "bool", "float", "int", "decimal"} \subseteq TypeSpace
  BY DEF TypeSpace, ColumnTypes
<1>. QED  BY <1>1, <1>2 DEF TypingBinary

\* The position of a column is one of the schema's, where the schema has the name.
LEMMA PositionIn ==
    ASSUME NEW cols, NEW w \in Nat, DOMAIN cols = 1 .. w, NEW name, HasName(cols, name)
    PROVE  Position(cols, name) \in 1 .. w /\ cols[Position(cols, name)].name = name
<1>. DEFINE at == {i \in DOMAIN cols : cols[i].name = name}
<1>1. at \subseteq Nat /\ at # {}
  BY DEF HasName
<1>2. Min(at) \in at
  BY <1>1, MinIn
<1>. QED  BY <1>2 DEF Position

\* A schema of column types, and a row of cells they admit.
IsSchema(cols, w) == w \in Nat /\ DOMAIN cols = 1 .. w /\ \A i \in 1 .. w : cols[i].type \in ColumnTypes
FitsRow(cols, w, row) == \A i \in 1 .. w : IsCell(row[i]) /\ Admits(cols[i].type, row[i])

\* So of any node.
LEMMA NodeInSpace ==
    ASSUME NEW cols, NEW w, IsSchema(cols, w), NEW node, IsNode(node), NEW n, HasArity(node, n),
           NEW ts, Typed(ts, n), NEW last
    PROVE  NodeType(cols, node, ts, last) \in TypeSpace
<1>. DEFINE typed == NodeType(cols, node, ts, last)
<1>0. {Absent, Unknown, "bool", "float", "int", "decimal"} \subseteq TypeSpace /\ ColumnTypes \subseteq TypeSpace
  BY DEF TypeSpace, ColumnTypes
<1>a. n = 1 \/ n = 2 => ts[1] \in TypeSpace
  BY DEF Typed
<1>b. n = 2 => ts[2] \in TypeSpace
  BY DEF Typed
<1>c. ToSet(ts) \subseteq TypeSpace
  BY DEF ToSet, Typed
<1>1. CASE node.tag = "Binary"
  <2>1. typed = TypingBinary(node.op, ts[1], ts[2])
    BY <1>1 DEF NodeType
  <2>2. n = 2
    BY <1>1 DEF HasArity
  <2>. QED  BY <1>a, <1>b, <2>1, <2>2, BinaryInSpace
<1>2. CASE node.tag = "Not"
  <2>1. typed = IF ts[1] \in {Absent, "bool"} THEN ts[1] ELSE Unknown
    BY <1>2 DEF NodeType
  <2>. QED  BY <1>0, <2>1
<1>3. CASE node.tag = "Cast"
  <2>1. typed = IF ts[1] = Absent THEN Absent ELSE node.type
    BY <1>3 DEF NodeType
  <2>2. node.type \in ColumnTypes
    BY <1>3 DEF IsNode
  <2>. QED  BY <1>0, <2>1, <2>2
<1>4. CASE node.tag \in {"IsNull", "InList", "InParam", "InCells"}
  <2>1. typed = "bool" \/ typed = IF ts[1] = Absent THEN Absent ELSE "bool"
    BY <1>4 DEF NodeType
  <2>. QED  BY <1>0, <2>1
<1>5. CASE node.tag = "ApplyFn"
  <2>1. typed = TypingApply(node.fn, ts, last)
    BY <1>5 DEF NodeType
  <2>2. node.fn \in ScalarFns
    BY <1>5 DEF IsNode
  <2>. QED  BY <2>1, <2>2, ApplyInSpace
<1>6. CASE node.tag = "Quotient"
  <2>1. typed = IF Absent \in {ts[1], ts[2]} THEN Absent ELSE IF AreExact(ts[1], ts[2]) THEN "decimal" ELSE Unknown
    BY <1>6 DEF NodeType
  <2>. QED  BY <1>0, <2>1
<1>7. CASE node.tag = "Rounded"
  <2>1. typed = IF ts[1] = Absent THEN Absent ELSE IF ts[1] \in {"int", "decimal"} THEN "decimal" ELSE Unknown
    BY <1>7 DEF NodeType
  <2>. QED  BY <1>0, <2>1
<1>8. CASE node.tag \in {"Scaled", "Convert"}
  <2>1. typed = IF ts[1] = Absent THEN Absent ELSE "float"
    BY <1>8 DEF NodeType
  <2>. QED  BY <1>0, <2>1
<1>9. CASE node.tag = "Col"
  <2>1. typed = IF HasName(cols, node.name) THEN cols[Position(cols, node.name)].type ELSE Unknown
    BY <1>9 DEF NodeType
  <2>2. HasName(cols, node.name) => cols[Position(cols, node.name)].type \in ColumnTypes
    BY PositionIn DEF IsSchema
  <2>. QED  BY <1>0, <2>1, <2>2
<1>10. CASE node.tag = "Lit"
  <2>1. typed = IF node.cell = Null THEN Absent ELSE node.cell.kind
    BY <1>10 DEF NodeType
  <2>2. node.cell = Null \/ node.cell.kind \in ColumnTypes
    BY <1>10 DEF IsNode
  <2>. QED  BY <1>0, <2>1, <2>2
<1>11. CASE node.tag = "Param"
  <2>1. typed = Unknown
    BY <1>11 DEF NodeType
  <2>. QED  BY <1>0, <2>1
<1>12. CASE node.tag = "Coalesce"
  <2>1. typed = JoinAll(ToSet(ts))
    BY <1>12 DEF NodeType
  <2>. QED  BY <1>c, <2>1, JoinInSpace
<1>13. CASE node.tag = "Case"
  <2>1. typed = JoinAll(ThenArms(ts))
    BY <1>13 DEF NodeType
  <2>2. n \in Nat /\ n % 2 = 1 /\ Len(ts) = n
    BY <1>13 DEF HasArity, Typed
  <2>3. n \in 1 .. n /\ \A k \in 1 .. n \div 2 : 2*k \in 1 .. n
    BY <2>2
  <2>4. ThenArms(ts) \subseteq TypeSpace
    BY <2>2, <2>3 DEF ThenArms, Typed
  <2>. QED  BY <2>1, <2>4, JoinInSpace
<1>. QED  BY <1>1, <1>2, <1>3, <1>4, <1>5, <1>6, <1>7, <1>8, <1>9, <1>10, <1>11, <1>12, <1>13
          DEF IsNode, Tags, StrictTags

-----------------------------------------------------------------------------
\* What a strict node answers: the first refusal among its operands, or what its rule does with their cells.
LEMMA StrictIs ==
    ASSUME NEW cols, NEW row, NEW node, node.tag \in StrictTags, NEW xs
    PROVE  NodeAnswer(cols, row, node, xs) =
              IF Unscaled(node) THEN Fail("UNBOUND_PARAM")
              ELSE IF Failures(xs) # {} THEN xs[Min(Failures(xs))] ELSE StrictAnswer(node, CellsOf(xs))
<1>1. node.tag \notin {"Col", "Lit", "Param", "InParam", "InCells", "Coalesce", "Case", "InList"}
  BY DEF StrictTags
<1>2. CASE Unscaled(node)
  BY <1>1, <1>2 DEF NodeAnswer
<1>3. CASE ~Unscaled(node)
  BY <1>1, <1>3 DEF NodeAnswer, OrElse
<1>. QED  BY <1>2, <1>3

\* A node's answer is sound for its type.
LEMMA NodeSound ==
    ASSUME NEW cols, NEW w, IsSchema(cols, w), NEW row, FitsRow(cols, w, row),
           NEW node, IsNode(node), NEW n, HasArity(node, n), NEW ts, NEW xs, Operands(ts, xs, n),
           NEW last, n # 0 /\ last.tag = "Lit" => xs[n] = Good(last.cell)
    PROVE  Sound(NodeType(cols, node, ts, last), NodeAnswer(cols, row, node, xs))
<1>. DEFINE typed == NodeType(cols, node, ts, last)
            x == NodeAnswer(cols, row, node, xs)
<1>0. n \in Nat /\ DOMAIN xs = 1 .. n /\ DOMAIN ts = 1 .. n /\ Len(xs) = n /\ Len(ts) = n
  BY DEF Operands
<1>u. ASSUME node.tag \in {"Param", "InParam"} PROVE x = Fail("UNBOUND_PARAM")
  BY <1>u DEF NodeAnswer, Unscaled
<1>f. Fail("UNBOUND_PARAM").err # "None" /\ Fail("UNKNOWN_COLUMN").err # "None"
  BY DEF Fail
<1>1. CASE node.tag \in StrictTags
  <2>1. CASE Unscaled(node)
    <3>1. x = Fail("UNBOUND_PARAM")
      BY <1>1, <2>1, StrictIs
    <3>. QED  BY <1>f, <3>1, RefusalSound
  <2>2. CASE ~Unscaled(node) /\ Failures(xs) # {}
    <3>1. Failures(xs) \subseteq Nat /\ Failures(xs) \subseteq DOMAIN xs
      BY <1>0 DEF Failures
    <3>2. Min(Failures(xs)) \in Failures(xs)
      BY <2>2, <3>1, MinIn
    <3>3. x = xs[Min(Failures(xs))]
      BY <1>1, <2>2, StrictIs
    <3>4. x.err # "None"
      BY <3>2, <3>3 DEF Failures
    <3>. QED  BY <3>4, RefusalSound
  <2>3. CASE ~Unscaled(node) /\ Failures(xs) = {}
    <3>. DEFINE cells == CellsOf(xs)
    <3>1. x = StrictAnswer(node, cells)
      BY <1>1, <2>3, StrictIs
    <3>2. Taken(ts, cells, n) /\ \A k \in 1 .. n : cells[k] = xs[k].cell
      BY <2>3, TakenCells
    <3>3. n # 0 /\ last.tag = "Lit" => cells[n] = last.cell
      BY <1>0, <3>2 DEF Good
    <3>. HIDE DEF cells
    <3>. QED  BY <1>1, <3>1, <3>2, <3>3, StrictSound
  <2>. QED  BY <2>1, <2>2, <2>3
<1>2. CASE node.tag = "Col"
  <2>1. CASE HasName(cols, node.name)
    <3>. DEFINE at == Position(cols, node.name)
    <3>1. at \in 1 .. w
      BY <2>1, PositionIn DEF IsSchema
    <3>2. x = Good(row[at]) /\ typed = cols[at].type
      BY <1>2, <2>1 DEF NodeAnswer, NodeType, Unscaled
    <3>. HIDE DEF at
    <3>3. IsCell(row[at]) /\ Admits(cols[at].type, row[at])
      BY <3>1 DEF FitsRow
    <3>. QED  BY <3>2, <3>3 DEF Sound, Good
  <2>2. CASE ~HasName(cols, node.name)
    <3>1. x = Fail("UNKNOWN_COLUMN")
      BY <1>2, <2>2 DEF NodeAnswer, Unscaled
    <3>. QED  BY <1>f, <3>1, RefusalSound
  <2>. QED  BY <2>1, <2>2
<1>3. CASE node.tag = "Lit"
  <2>1. x = Good(node.cell) /\ typed = IF node.cell = Null THEN Absent ELSE node.cell.kind
    BY <1>3 DEF NodeAnswer, NodeType, Unscaled
  <2>2. IsCell(node.cell)
    BY <1>3 DEF IsNode
  <2>3. node.cell = Null \/ (node.cell.kind \in ColumnTypes /\ typed = node.cell.kind)
    BY <1>3, <2>1 DEF IsNode
  <2>4. CASE node.cell = Null
    BY <2>1, <2>4, NullSound
  <2>5. CASE node.cell # Null
    BY <2>1, <2>2, <2>3, <2>5, YieldsSound DEF Yields, Good
  <2>. QED  BY <2>4, <2>5
<1>4. CASE node.tag \in {"Param", "InParam"}
  BY <1>4, <1>f, <1>u, RefusalSound
<1>5. CASE node.tag \in {"InCells", "InList"}
  <2>1. n >= 1 /\ 1 \in 1 .. n
    BY <1>0, <1>5 DEF HasArity
  <2>2. typed = IF ts[1] = Absent THEN Absent ELSE "bool"
    BY <1>5 DEF NodeType
  <2>3. ts[1] \in TypeSpace /\ Sound(ts[1], xs[1])
    BY <2>1 DEF Operands
  <2>4. CASE xs[1].err # "None"
    <3>1. x = xs[1]
      BY <1>5, <2>4 DEF NodeAnswer, Unscaled
    <3>. QED  BY <2>4, <3>1, RefusalSound
  <2>5. CASE xs[1].err = "None"
    <3>1. PICK items : x = InListAnswer(xs[1].cell, items) /\ \E m \in Nat : DOMAIN items = 1 .. m
      <4>1. CASE node.tag = "InCells"
        <5>. DEFINE items == [k \in DOMAIN node.cells |-> Good(node.cells[k])]
        <5>1. x = InListAnswer(xs[1].cell, items)
          BY <2>5, <4>1 DEF NodeAnswer, Unscaled
        <5>2. DOMAIN items = DOMAIN node.cells /\ \E m \in Nat : DOMAIN node.cells = 1 .. m
          BY <4>1 DEF IsNode
        <5>. QED  BY <5>1, <5>2
      <4>2. CASE node.tag = "InList"
        <5>1. x = InListAnswer(xs[1].cell, Tail(xs))
          BY <2>5, <4>2 DEF NodeAnswer, Unscaled
        <5>2. DOMAIN Tail(xs) = 1 .. n - 1 /\ n - 1 \in Nat
          BY <1>0, <2>1
        <5>. QED  BY <5>1, <5>2
      <4>. QED  BY <1>5, <4>1, <4>2
    <3>2. Yields("bool", x) /\ (xs[1].cell = Null => x = Good(Null))
      BY <3>1, InListYields
    <3>3. Sound("bool", x)
      BY <3>2, YieldsSound DEF ColumnTypes
    <3>4. ts[1] = Absent => x = Good(Null)
      BY <2>3, <2>5, <3>2 DEF Sound, Admits
    <3>. QED  BY <2>2, <3>3, <3>4, NullSound
  <2>. QED  BY <2>4, <2>5
<1>6. CASE node.tag = "Coalesce"
  <2>1. x = CoalesceAnswer(xs) /\ typed = JoinAll(ToSet(ts))
    BY <1>6 DEF NodeAnswer, NodeType, Unscaled
  <2>. QED  BY <2>1, CoalesceSound
<1>7. CASE node.tag = "Case"
  <2>1. x = CaseAnswer(xs) /\ typed = JoinAll(ThenArms(ts))
    BY <1>7 DEF NodeAnswer, NodeType, Unscaled
  <2>2. n % 2 = 1
    BY <1>7 DEF HasArity
  <2>. QED  BY <2>1, <2>2, CaseSound
<1>. QED  BY <1>1, <1>2, <1>3, <1>4, <1>5, <1>6, <1>7 DEF IsNode, Tags

-----------------------------------------------------------------------------
(***************************************************************************)
(* The whole expression: the recursive functions that answer and type it.  *)
(***************************************************************************)
IsExpr(e, n) ==
    /\ n \in Nat \ {0} /\ DOMAIN e = 1 .. n /\ Len(e) = n
    /\ \A i \in 1 .. n : IsNode(e[i]) /\ HasArity(e[i], Len(e[i].args)) /\ e[i].args \in Seq(1 .. i - 1)

\* What the operands of a node were given.
Given(e, i, f) == [k \in DOMAIN e[i].args |-> f[e[i].args[k]]]
LastOf(e, i) == IF e[i].args = << >> THEN e[i] ELSE e[Last(e[i].args)]

AnswersTo(cols, row, e, m, f) ==
    /\ DOMAIN f = 1 .. m
    /\ \A i \in 1 .. m : f[i] = NodeAnswer(cols, row, e[i], Given(e, i, f))
TypesTo(cols, e, m, f) ==
    /\ DOMAIN f = 1 .. m
    /\ \A i \in 1 .. m : f[i] = NodeType(cols, e[i], Given(e, i, f), LastOf(e, i))

\* Of two that agree below a node, its operands were given the same.
LEMMA GivenAlike ==
    ASSUME NEW e, NEW n, IsExpr(e, n), NEW i \in 1 .. n, NEW f, NEW g, \A k \in 1 .. i - 1 : f[k] = g[k]
    PROVE  Given(e, i, f) = Given(e, i, g)
<1>1. e[i].args \in Seq(1 .. i - 1)
  BY DEF IsExpr
<1>2. \A k \in DOMAIN e[i].args : e[i].args[k] \in 1 .. i - 1
  BY <1>1
<1>. QED  BY <1>2 DEF Given

\* The nodes are answered one after the other, so all of them are.
LEMMA AnswersExist ==
    ASSUME NEW cols, NEW row, NEW e, NEW n, IsExpr(e, n)
    PROVE  \E f : AnswersTo(cols, row, e, n, f)
<1>. DEFINE P(m) == \E f : AnswersTo(cols, row, e, m, f)
            bad == {m \in 0 .. n : ~P(m)}
<1>0. n \in Nat
  BY DEF IsExpr
<1>s. SUFFICES ASSUME ~P(n) PROVE FALSE
  OBVIOUS
<1>1. bad # {}
  <2>1. n \in bad
    <3>. HIDE DEF P
    <3>. QED  BY <1>0, <1>s
  <2>. QED  BY <2>1
<1>2. bad \subseteq Nat
  OBVIOUS
<1>3. PICK m \in bad : \A k \in bad : m <= k
  <2>. HIDE DEF bad
  <2>. QED  BY <1>1, <1>2, Least
<1>p. P(0)
  <2>1. AnswersTo(cols, row, e, 0, [i \in 1 .. 0 |-> 0])
    BY DEF AnswersTo
  <2>. QED  BY <2>1
<1>5. m \in 1 .. n /\ ~P(m) /\ P(m - 1)
  <2>. HIDE DEF P
  <2>1. m \in 0 .. n /\ ~P(m) /\ \A k \in 0 .. n : ~P(k) => m <= k
    BY <1>3
  <2>2. m # 0
    BY <1>p, <2>1
  <2>. QED  BY <1>0, <2>1, <2>2
<1>6. PICK f : AnswersTo(cols, row, e, m - 1, f)
  BY <1>5
<1>. DEFINE top == NodeAnswer(cols, row, e[m], Given(e, m, f))
            g == [i \in 1 .. m |-> IF i = m THEN top ELSE f[i]]
<1>7. DOMAIN g = 1 .. m /\ g[m] = top /\ \A i \in 1 .. m - 1 : g[i] = f[i]
  BY <1>5
<1>. HIDE DEF g
<1>8. ASSUME NEW i \in 1 .. m PROVE g[i] = NodeAnswer(cols, row, e[i], Given(e, i, g))
  <2>1. Given(e, i, g) = Given(e, i, f)
    <3>1. i \in 1 .. n /\ \A k \in 1 .. i - 1 : g[k] = f[k]
      BY <1>0, <1>5, <1>7
    <3>. QED  BY <3>1, GivenAlike
  <2>2. CASE i = m
    BY <1>7, <2>1, <2>2
  <2>3. CASE i # m
    <3>1. i \in 1 .. m - 1
      BY <1>5, <2>3
    <3>. QED  BY <1>6, <1>7, <2>1, <3>1 DEF AnswersTo
  <2>. QED  BY <2>2, <2>3
<1>9. AnswersTo(cols, row, e, m, g)
  BY <1>7, <1>8 DEF AnswersTo
<1>. QED  BY <1>5, <1>9

\* The answer of an expression is the last of its nodes'.
LEMMA EvalIs ==
    ASSUME NEW cols, NEW row, NEW e, NEW n, IsExpr(e, n)
    PROVE  \E f : AnswersTo(cols, row, e, n, f) /\ EvalExpr(cols, row, e) = f[n]
<1>. DEFINE B(f, i) == NodeAnswer(cols, row, e[i], Given(e, i, f))
            a == CHOOSE f : f = [i \in DOMAIN e |-> B(f, i)]
<1>1. EvalExpr(cols, row, e) = a[Len(e)]
  BY DEF EvalExpr, Given
<1>2. PICK f : AnswersTo(cols, row, e, n, f)
  BY AnswersExist
<1>3. DOMAIN e = 1 .. n /\ Len(e) = n
  BY DEF IsExpr
<1>s. PICK g : g = [i \in DOMAIN e |-> B(f, i)]
  OBVIOUS
<1>4. \A i \in 1 .. n : Given(e, i, g) = Given(e, i, f)
  <2>1. \A i \in 1 .. n : g[i] = f[i]
    BY <1>2, <1>3, <1>s DEF AnswersTo
  <2>2. \A i \in 1 .. n : \A k \in 1 .. i - 1 : g[k] = f[k]
    BY <2>1, <1>3 DEF IsExpr
  <2>. QED  BY <2>2, GivenAlike
<1>5. g = [i \in DOMAIN e |-> B(g, i)]
  BY <1>3, <1>4, <1>s
<1>. HIDE DEF B
<1>6. a = [i \in DOMAIN e |-> B(a, i)]
  BY <1>5
<1>. HIDE DEF a
<1>7. AnswersTo(cols, row, e, n, a)
  BY <1>3, <1>6 DEF AnswersTo, B
<1>. QED  BY <1>1, <1>3, <1>7

\* And typed, one after the other.
LEMMA TypesExist ==
    ASSUME NEW cols, NEW e, NEW n, IsExpr(e, n)
    PROVE  \E f : TypesTo(cols, e, n, f)
<1>. DEFINE P(m) == \E f : TypesTo(cols, e, m, f)
            bad == {m \in 0 .. n : ~P(m)}
<1>0. n \in Nat
  BY DEF IsExpr
<1>s. SUFFICES ASSUME ~P(n) PROVE FALSE
  OBVIOUS
<1>1. bad # {}
  <2>1. n \in bad
    <3>. HIDE DEF P
    <3>. QED  BY <1>0, <1>s
  <2>. QED  BY <2>1
<1>2. bad \subseteq Nat
  OBVIOUS
<1>3. PICK m \in bad : \A k \in bad : m <= k
  <2>. HIDE DEF bad
  <2>. QED  BY <1>1, <1>2, Least
<1>p. P(0)
  <2>1. TypesTo(cols, e, 0, [i \in 1 .. 0 |-> 0])
    BY DEF TypesTo
  <2>. QED  BY <2>1
<1>5. m \in 1 .. n /\ ~P(m) /\ P(m - 1)
  <2>. HIDE DEF P
  <2>1. m \in 0 .. n /\ ~P(m) /\ \A k \in 0 .. n : ~P(k) => m <= k
    BY <1>3
  <2>2. m # 0
    BY <1>p, <2>1
  <2>. QED  BY <1>0, <2>1, <2>2
<1>6. PICK f : TypesTo(cols, e, m - 1, f)
  BY <1>5
<1>. DEFINE top == NodeType(cols, e[m], Given(e, m, f), LastOf(e, m))
            g == [i \in 1 .. m |-> IF i = m THEN top ELSE f[i]]
<1>7. DOMAIN g = 1 .. m /\ g[m] = top /\ \A i \in 1 .. m - 1 : g[i] = f[i]
  BY <1>5
<1>. HIDE DEF g
<1>8. ASSUME NEW i \in 1 .. m PROVE g[i] = NodeType(cols, e[i], Given(e, i, g), LastOf(e, i))
  <2>1. Given(e, i, g) = Given(e, i, f)
    <3>1. i \in 1 .. n /\ \A k \in 1 .. i - 1 : g[k] = f[k]
      BY <1>0, <1>5, <1>7
    <3>. QED  BY <3>1, GivenAlike
  <2>2. CASE i = m
    BY <1>7, <2>1, <2>2
  <2>3. CASE i # m
    <3>1. i \in 1 .. m - 1
      BY <1>5, <2>3
    <3>. QED  BY <1>6, <1>7, <2>1, <3>1 DEF TypesTo
  <2>. QED  BY <2>2, <2>3
<1>9. TypesTo(cols, e, m, g)
  BY <1>7, <1>8 DEF TypesTo
<1>. QED  BY <1>5, <1>9

\* The type of an expression is the last of its nodes'.
LEMMA TypingIs ==
    ASSUME NEW cols, NEW e, NEW n, IsExpr(e, n)
    PROVE  \E f : TypesTo(cols, e, n, f) /\ Typing(cols, e) = f[n]
<1>. DEFINE B(f, i) == NodeType(cols, e[i], Given(e, i, f), LastOf(e, i))
            a == CHOOSE f : f = [i \in DOMAIN e |-> B(f, i)]
<1>1. Typing(cols, e) = a[Len(e)]
  BY DEF Typing, TypingOf, Given, LastOf
<1>2. PICK f : TypesTo(cols, e, n, f)
  BY TypesExist
<1>3. DOMAIN e = 1 .. n /\ Len(e) = n
  BY DEF IsExpr
<1>s. PICK g : g = [i \in DOMAIN e |-> B(f, i)]
  OBVIOUS
<1>4. \A i \in 1 .. n : Given(e, i, g) = Given(e, i, f)
  <2>1. \A i \in 1 .. n : g[i] = f[i]
    BY <1>2, <1>3, <1>s DEF TypesTo
  <2>2. \A i \in 1 .. n : \A k \in 1 .. i - 1 : g[k] = f[k]
    BY <2>1, <1>3 DEF IsExpr
  <2>. QED  BY <2>2, GivenAlike
<1>5. g = [i \in DOMAIN e |-> B(g, i)]
  BY <1>3, <1>4, <1>s
<1>. HIDE DEF B
<1>6. a = [i \in DOMAIN e |-> B(a, i)]
  BY <1>5
<1>. HIDE DEF a
<1>7. TypesTo(cols, e, n, a)
  BY <1>3, <1>6 DEF TypesTo, B
<1>. QED  BY <1>1, <1>3, <1>7

\* Every node's answer is sound for its type, the operands' before the node's.
LEMMA NodesSound ==
    ASSUME NEW cols, NEW w, IsSchema(cols, w), NEW row, FitsRow(cols, w, row), NEW e, NEW n, IsExpr(e, n),
           NEW xs, AnswersTo(cols, row, e, n, xs), NEW ts, TypesTo(cols, e, n, ts)
    PROVE  Sound(ts[n], xs[n]) /\ ts[n] \in TypeSpace
<1>. DEFINE P(i) == Sound(ts[i], xs[i]) /\ ts[i] \in TypeSpace
            bad == {i \in 1 .. n : ~P(i)}
<1>0. n \in Nat /\ n \in 1 .. n
  BY DEF IsExpr
<1>s. SUFFICES ASSUME ~P(n) PROVE FALSE
  OBVIOUS
<1>1. bad # {} /\ bad \subseteq Nat
  <2>. HIDE DEF P
  <2>. QED  BY <1>0, <1>s
<1>2. PICK m \in bad : \A i \in bad : m <= i
  <2>. HIDE DEF bad
  <2>. QED  BY <1>1, Least
<1>3. m \in 1 .. n /\ ~P(m) /\ \A i \in 1 .. m - 1 : P(i)
  <2>. HIDE DEF P
  <2>. QED  BY <1>0, <1>2
<1>. DEFINE args == e[m].args
            k == Len(args)
            gts == Given(e, m, ts)
            gxs == Given(e, m, xs)
<1>4. IsNode(e[m]) /\ HasArity(e[m], k) /\ args \in Seq(1 .. m - 1)
  BY <1>3 DEF IsExpr
<1>5. k \in Nat /\ DOMAIN args = 1 .. k /\ \A j \in 1 .. k : args[j] \in 1 .. m - 1
  BY <1>4
<1>6. gts = [j \in 1 .. k |-> ts[args[j]]] /\ gxs = [j \in 1 .. k |-> xs[args[j]]]
  BY <1>5 DEF Given
<1>7. Len(gts) = k /\ Len(gxs) = k
  <2>. DEFINE S == {ts[args[j]] : j \in 1 .. k}
              X == {xs[args[j]] : j \in 1 .. k}
  <2>1. gts \in [1 .. k -> S] /\ gxs \in [1 .. k -> X]
    BY <1>6
  <2>. QED  BY <1>5, <2>1
<1>8. \A j \in 1 .. k : gts[j] = ts[args[j]] /\ gxs[j] = xs[args[j]] /\ P(args[j])
  BY <1>3, <1>5, <1>6
<1>9. DOMAIN gts = 1 .. k /\ DOMAIN gxs = 1 .. k
  BY <1>6
<1>10. /\ ts[m] = NodeType(cols, e[m], gts, LastOf(e, m))
       /\ xs[m] = NodeAnswer(cols, row, e[m], gxs)
  BY <1>3 DEF AnswersTo, TypesTo
<1>11. k # 0 /\ LastOf(e, m).tag = "Lit" => gxs[k] = Good(LastOf(e, m).cell)
  <2>1. SUFFICES ASSUME k # 0, LastOf(e, m).tag = "Lit" PROVE gxs[k] = Good(LastOf(e, m).cell)
    OBVIOUS
  <2>2. args # << >> /\ k \in 1 .. k /\ Last(args) = args[k]
    BY <1>5, <2>1 DEF Last
  <2>3. LastOf(e, m) = e[args[k]] /\ args[k] \in 1 .. n /\ gxs[k] = xs[args[k]]
    BY <1>0, <1>3, <1>5, <1>6, <2>2 DEF LastOf
  <2>4. xs[args[k]] = NodeAnswer(cols, row, e[args[k]], Given(e, args[k], xs))
    BY <2>3 DEF AnswersTo
  <2>. DEFINE node == e[args[k]]
              given == Given(e, args[k], xs)
  <2>5. node.tag = "Lit"
    BY <2>1, <2>3
  <2>. HIDE DEF node, given
  <2>6. NodeAnswer(cols, row, node, given) = Good(node.cell)
    BY <2>5 DEF NodeAnswer, Unscaled
  <2>. QED  BY <2>3, <2>4, <2>6 DEF node, given
<1>. HIDE DEF gts, gxs, k, args
<1>12. Operands(gts, gxs, k) /\ Typed(gts, k)
  BY <1>5, <1>7, <1>8, <1>9 DEF Operands, Typed
<1>13. ts[m] \in TypeSpace
  BY <1>4, <1>10, <1>12, NodeInSpace
<1>14. Sound(ts[m], xs[m])
  BY <1>4, <1>10, <1>11, <1>12, NodeSound
<1>. QED  BY <1>3, <1>13, <1>14

-----------------------------------------------------------------------------
(***************************************************************************)
(* Frames.                                                                 *)
(***************************************************************************)
\* Of any frame whose rows fit its schema and any expression the decoder makes, what the typer
\* decides before a row is read is the type of every cell the evaluator answers.
THEOREM TypingDecidesCells ==
    ASSUME NEW f, NEW w, IsSchema(f.cols, w), \A r \in DOMAIN f.rows : FitsRow(f.cols, w, f.rows[r]),
           NEW e, NEW n, IsExpr(e, n)
    PROVE  TypingIsSound(f, e)
<1>. DEFINE t == Typing(f.cols, e)
            x(r) == EvalExpr(f.cols, f.rows[r], e)
            cells == {a.cell : a \in {b \in ToSet([r \in DOMAIN f.rows |-> x(r)]) : b.err = "None"}}
<1>1. PICK ts : TypesTo(f.cols, e, n, ts) /\ t = ts[n]
  BY TypingIs
<1>2. ASSUME NEW r \in DOMAIN f.rows PROVE Sound(t, x(r)) /\ t \in TypeSpace
  <2>1. PICK xs : AnswersTo(f.cols, f.rows[r], e, n, xs) /\ x(r) = xs[n]
    BY EvalIs
  <2>. HIDE DEF t, x
  <2>. QED  BY <1>1, <2>1, NodesSound
<1>3. ASSUME NEW c \in cells PROVE Admits(t, c) /\ t \in TypeSpace
  <2>. HIDE DEF t, x
  <2>1. PICK r \in DOMAIN f.rows : c = x(r).cell /\ x(r).err = "None"
    BY DEF ToSet
  <2>. QED  BY <1>2, <2>1 DEF Sound
<1>. HIDE DEF x
<1>4. TypingIsSound(f, e) = CASE t = Absent  -> cells \subseteq {Null}
                               [] t = Unknown -> TRUE
                               [] OTHER       -> \A c \in cells : Fits(t, c)
  BY DEF TypingIsSound, x
<1>. HIDE DEF t, cells
<1>5. CASE t = Absent
  <2>1. cells \subseteq {Null}
    BY <1>3, <1>5 DEF Admits
  <2>. QED  BY <1>4, <1>5, <2>1, TypesDistinct
<1>6. CASE t = Unknown
  BY <1>4, <1>6, TypesDistinct
<1>7. CASE t # Absent /\ t # Unknown
  <2>1. \A c \in cells : Fits(t, c)
    BY <1>3, <1>7 DEF Admits, TypeSpace, Fits, Widens
  <2>. QED  BY <1>4, <1>7, <2>1
<1>. QED  BY <1>5, <1>6, <1>7

\* A conversion resolved is a node with the operand the conversion had.
LEMMA ResolvedIsExpr ==
    ASSUME NEW meta, NEW e, NEW n, IsExpr(e, n)
    PROVE  IsExpr(Resolved(meta, e), n)
<1>. DEFINE r == Resolved(meta, e)
<1>1. n \in Nat \ {0} /\ DOMAIN e = 1 .. n
      /\ \A i \in 1 .. n : IsNode(e[i]) /\ HasArity(e[i], Len(e[i].args)) /\ e[i].args \in Seq(1 .. i - 1)
  BY DEF IsExpr
<1>2. DOMAIN r = 1 .. n
  BY <1>1 DEF Resolved
<1>3. \A i \in 1 .. n : e[i].tag # "Convert" => r[i] = e[i]
  BY <1>1 DEF Resolved
<1>4. \A i \in 1 .. n : e[i].tag = "Convert" => r[i].tag = "Scaled" /\ r[i].args = e[i].args
  BY <1>1 DEF Resolved
<1>5. Len(r) = n
  <2>. DEFINE S == {r[i] : i \in 1 .. n}
  <2>1. r = [i \in 1 .. n |-> r[i]]
    BY <1>1 DEF Resolved
  <2>. HIDE DEF r
  <2>2. r \in Seq(S)
    BY <1>1, <2>1
  <2>. QED  BY <1>1, <1>2, <2>2
<1>. HIDE DEF r
<1>6. ASSUME NEW i \in 1 .. n
      PROVE  IsNode(r[i]) /\ HasArity(r[i], Len(r[i].args)) /\ r[i].args \in Seq(1 .. i - 1)
  <2>1. CASE e[i].tag # "Convert"
    BY <1>1, <1>3, <2>1
  <2>2. CASE e[i].tag = "Convert"
    <3>1. r[i].tag = "Scaled" /\ r[i].args = e[i].args
      BY <1>4, <2>2
    <3>2. Len(e[i].args) = 1
      BY <1>1, <2>2 DEF HasArity
    <3>3. IsNode(r[i])
      BY <3>1 DEF IsNode, Tags, StrictTags
    <3>4. HasArity(r[i], 1)
      BY <3>1 DEF HasArity
    <3>. QED  BY <1>1, <3>1, <3>2, <3>3, <3>4
  <2>. QED  BY <2>1, <2>2
<1>. QED  BY <1>1, <1>2, <1>5, <1>6 DEF IsExpr, r

\* What the expressions are made of.
Typable ==
    /\ Types \subseteq ColumnTypes
    /\ \A v \in Values : IsCell(v)
    /\ \A x \in DOMAIN Exprs : \E n : IsExpr(Exprs[x], n)

\* The frame read off a table: a row is the cells its columns have there.
LEMMA FrameFits ==
    ASSUME NEW t, IsTable(t), Typable,
           \A i \in DOMAIN t.cols : t.cols[i].type = "decimal" => \A c \in ToSet(t.cols[i].cells) : c.kind # "int"
    PROVE  LET f == ToFrame(t)
           IN  IsSchema(f.cols, Len(t.cols)) /\ \A r \in DOMAIN f.rows : FitsRow(f.cols, Len(t.cols), f.rows[r])
<1>. DEFINE w == Len(t.cols)
            f == ToFrame(t)
            last(i) == Max({j \in DOMAIN t.cols : t.cols[j].name = t.cols[i].name})
            at(cells, r) == IF r \in DOMAIN cells THEN cells[r] ELSE Null
<1>1. w \in Nat /\ DOMAIN t.cols = 1 .. w
  BY DEF IsTable
<1>2. ASSUME NEW i \in DOMAIN t.cols PROVE last(i) = i
  <2>1. {j \in DOMAIN t.cols : t.cols[j].name = t.cols[i].name} = {i}
    BY DEF IsTable
  <2>2. i \in Int /\ (CHOOSE x \in {i} : \A y \in {i} : x >= y) = i
    BY <1>1
  <2>. QED  BY <2>1, <2>2 DEF Max
<1>3. f.cols = [i \in DOMAIN t.cols |-> [name |-> t.cols[i].name, type |-> t.cols[i].type]]
  BY DEF ToFrame
<1>4. \A r \in DOMAIN f.rows : f.rows[r] = [i \in DOMAIN t.cols |-> at(t.cols[last(i)].cells, r)]
  BY DEF ToFrame
<1>. HIDE DEF f, last, at, w
<1>5. ASSUME NEW i \in 1 .. w
      PROVE  t.cols[i].type \in ColumnTypes /\ f.cols[i].type = t.cols[i].type
  <2>1. t.cols[i] \in Column
    BY <1>1, Rows
  <2>. QED  BY <1>1, <1>3, <2>1 DEF Column, Typable
<1>6. ASSUME NEW r \in DOMAIN f.rows, NEW i \in 1 .. w
      PROVE  IsCell(f.rows[r][i]) /\ Admits(f.cols[i].type, f.rows[r][i])
  <2>. DEFINE cells == t.cols[i].cells
              c == at(cells, r)
  <2>1. f.rows[r][i] = c
    <3>1. f.rows[r] = [k \in DOMAIN t.cols |-> at(t.cols[last(k)].cells, r)]
      BY <1>4
    <3>2. f.rows[r][i] = at(t.cols[last(i)].cells, r)
      BY <1>1, <3>1
    <3>. QED  BY <1>1, <1>2, <3>2
  <2>2. CASE r \notin DOMAIN cells
    <3>1. c = Null
      BY <2>2 DEF at
    <3>. QED  BY <2>1, <3>1, NullCell DEF Admits
  <2>3. CASE r \in DOMAIN cells
    <3>1. c = cells[r] /\ c \in ToSet(cells)
      BY <2>3 DEF at, ToSet
    <3>2. t.cols[i] \in FitColumn /\ t.cols[i] \in Column
      BY <1>1, Rows
    <3>3. cells \in Seq(Values) /\ Fits(t.cols[i].type, cells[r])
      BY <2>3, <3>2 DEF FitColumn, Column
    <3>4. IsCell(c)
      BY <2>3, <3>1, <3>3 DEF Typable
    <3>5. t.cols[i].type = "decimal" => c.kind # "int"
      BY <1>1, <3>1
    <3>. HIDE DEF c, cells
    <3>6. Admits(t.cols[i].type, c)
      BY <1>5, <3>1, <3>3, <3>5, TypesDistinct DEF Fits, Widens, Admits
    <3>. QED  BY <1>5, <2>1, <3>4, <3>6
  <2>. QED  BY <2>2, <2>3
<1>7. IsSchema(f.cols, w)
  BY <1>1, <1>3, <1>5 DEF IsSchema
<1>8. \A r \in DOMAIN f.rows : FitsRow(f.cols, w, f.rows[r])
  BY <1>6 DEF FitsRow
<1>. QED  BY <1>7, <1>8 DEF f, w

\* DecidedTypesHold, whatever edits, undos and redos made the table.
THEOREM DecidedTypesAlwaysHold ==
    ASSUME Lawful, Typable
    PROVE  Spec => []DecidedTypesHold
<1>1. HistoryInv => DecidedTypesHold
  <2>1. SUFFICES ASSUME IsTable(table), DecimalsOnly, NEW x \in DOMAIN Exprs
                 PROVE  TypingIsSound(Frame, Resolved(Frame.meta, Exprs[x]))
    BY DEF HistoryInv, DecidedTypesHold
  <2>. DEFINE w == Len(table.cols)
  <2>2. IsSchema(Frame.cols, w) /\ \A r \in DOMAIN Frame.rows : FitsRow(Frame.cols, w, Frame.rows[r])
    BY <2>1, FrameFits DEF DecimalsOnly, Frame
  <2>3. PICK n : IsExpr(Exprs[x], n)
    BY <2>1 DEF Typable
  <2>4. IsExpr(Resolved(Frame.meta, Exprs[x]), n)
    BY <2>3, ResolvedIsExpr
  <2>. QED  BY <2>2, <2>4, TypingDecidesCells
<1>. QED  BY <1>1, HistoryInvInit, HistoryInvNext, PTL DEF Spec
-----------------------------------------------------------------------------
(***************************************************************************)
(* Exact decimals at any scale: powers of ten, the canonical form, the two *)
(* roundings a pipeline may name, and the arithmetic.                      *)
(***************************************************************************)
\* g holds the powers of ten up to the n-th.
PowersTo(n, g) == g = [i \in 0 .. n |-> IF i = 0 THEN 1 ELSE 10 * g[i - 1]]

\* Each prefix of the powers of ten is there.
LEMMA PowersExist ==
    ASSUME NEW n \in Nat
    PROVE  \E g : PowersTo(n, g)
<1>. DEFINE P(m) == \E g : PowersTo(m, g)
            bad == {m \in Nat : ~P(m)}
<1>s. SUFFICES ASSUME ~P(n) PROVE FALSE
  OBVIOUS
<1>1. bad # {} /\ bad \subseteq Nat
  <2>1. n \in bad
    <3>. HIDE DEF P
    <3>. QED  BY <1>s
  <2>. QED  BY <2>1
<1>2. PICK m \in bad : \A k \in bad : m <= k
  <2>. HIDE DEF bad
  <2>. QED  BY <1>1, Least
<1>3. P(0)
  <2>. DEFINE g == [i \in 0 .. 0 |-> 1]
  <2>1. PowersTo(0, g)
    BY DEF PowersTo
  <2>. QED  BY <2>1
<1>4. m \in Nat \ {0} /\ ~P(m) /\ P(m - 1)
  <2>. HIDE DEF P
  <2>1. m \in Nat /\ ~P(m) /\ \A k \in Nat : ~P(k) => m <= k
    BY <1>2
  <2>2. m # 0
    BY <1>3, <2>1
  <2>. QED  BY <2>1, <2>2
<1>5. PICK f : PowersTo(m - 1, f)
  BY <1>4
<1>. DEFINE g == [i \in 0 .. m |-> IF i = m THEN 10 * f[m - 1] ELSE f[i]]
<1>6. f = [i \in 0 .. m - 1 |-> IF i = 0 THEN 1 ELSE 10 * f[i - 1]]
  BY <1>5 DEF PowersTo
<1>7. ASSUME NEW i \in 0 .. m PROVE g[i] = IF i = 0 THEN 1 ELSE 10 * g[i - 1]
  <2>1. CASE i = m
    BY <1>4, <2>1
  <2>2. CASE i # m
    <3>1. i \in 0 .. m - 1 /\ (i # 0 => i - 1 \in 0 .. m /\ i - 1 # m)
      BY <1>4, <2>2
    <3>2. f[i] = IF i = 0 THEN 1 ELSE 10 * f[i - 1]
      BY <1>6, <3>1
    <3>. QED  BY <2>2, <3>1, <3>2
  <2>. QED  BY <2>1, <2>2
<1>8. PowersTo(m, g)
  BY <1>7 DEF PowersTo
<1>. QED  BY <1>4, <1>8

\* Two prefixes agree where both are.
LEMMA PowersAgree ==
    ASSUME NEW n \in Nat, NEW m \in 0 .. n, NEW f, NEW g, PowersTo(m, f), PowersTo(n, g)
    PROVE  \A k \in 0 .. m : f[k] = g[k]
<1>. DEFINE bad == {k \in 0 .. m : f[k] # g[k]}
<1>s. SUFFICES ASSUME bad # {} PROVE FALSE
  OBVIOUS
<1>1. bad \subseteq Nat
  OBVIOUS
<1>2. PICK k \in bad : \A j \in bad : k <= j
  <2>. HIDE DEF bad
  <2>. QED  BY <1>s, <1>1, Least
<1>3. /\ f[k] = IF k = 0 THEN 1 ELSE 10 * f[k - 1]
      /\ g[k] = IF k = 0 THEN 1 ELSE 10 * g[k - 1]
  <2>1. k \in 0 .. m /\ k \in 0 .. n
    BY <1>2
  <2>. QED  BY <2>1 DEF PowersTo
<1>4. k # 0 => f[k - 1] = g[k - 1]
  BY <1>2
<1>. QED  BY <1>2, <1>3, <1>4

\* PowerOfTen is the function its equation names.
LEMMA PowerIs == PowerOfTen = [k \in Nat |-> IF k = 0 THEN 1 ELSE 10 * PowerOfTen[k - 1]]
<1>. DEFINE at(k) == CHOOSE g : PowersTo(k, g)
            F == [k \in Nat |-> at(k)[k]]
<1>1. \A k \in Nat : PowersTo(k, at(k))
  BY PowersExist
<1>. HIDE DEF at
<1>2. ASSUME NEW k \in Nat PROVE F[k] = IF k = 0 THEN 1 ELSE 10 * F[k - 1]
  <2>1. at(k)[k] = IF k = 0 THEN 1 ELSE 10 * at(k)[k - 1]
    BY <1>1 DEF PowersTo
  <2>2. ASSUME k # 0 PROVE at(k)[k - 1] = at(k - 1)[k - 1]
    <3>1. k - 1 \in 0 .. k /\ k - 1 \in Nat /\ k - 1 \in 0 .. k - 1
      BY <2>2
    <3>2. PowersTo(k - 1, at(k - 1)) /\ PowersTo(k, at(k))
      BY <1>1, <3>1
    <3>. QED  BY <3>1, <3>2, PowersAgree
  <2>. QED  BY <2>1, <2>2
<1>3. F = [k \in Nat |-> IF k = 0 THEN 1 ELSE 10 * F[k - 1]]
  BY <1>2
<1>. HIDE DEF F
<1>4. \E f : f = [k \in Nat |-> IF k = 0 THEN 1 ELSE 10 * f[k - 1]]
  BY <1>3
<1>. QED  BY <1>4 DEF PowerOfTen

LEMMA PowerStep == PowerOfTen[0] = 1 /\ \A k \in Nat : PowerOfTen[k + 1] = 10 * PowerOfTen[k]
<1>1. PowerOfTen[0] = 1
  BY PowerIs
<1>2. ASSUME NEW k \in Nat PROVE PowerOfTen[k + 1] = 10 * PowerOfTen[k]
  <2>. DEFINE j == k + 1
  <2>1. j \in Nat /\ j # 0 /\ j - 1 = k
    OBVIOUS
  <2>. HIDE DEF j
  <2>2. PowerOfTen[j] = 10 * PowerOfTen[j - 1]
    BY <2>1, PowerIs
  <2>. QED  BY <2>1, <2>2 DEF j
<1>. QED  BY <1>1, <1>2

\* A power of ten is positive.
LEMMA PowerPositive == \A k \in Nat : PowerOfTen[k] \in Nat \ {0}
<1>. DEFINE bad == {k \in Nat : PowerOfTen[k] \notin Nat \ {0}}
<1>s. SUFFICES ASSUME bad # {} PROVE FALSE
  OBVIOUS
<1>1. bad \subseteq Nat
  OBVIOUS
<1>2. PICK k \in bad : \A j \in bad : k <= j
  <2>. HIDE DEF bad
  <2>. QED  BY <1>s, <1>1, Least
<1>3. k \in Nat /\ k # 0
  BY <1>2, PowerStep
<1>4. k - 1 \in Nat /\ k - 1 \notin bad
  BY <1>2, <1>3
<1>5. PowerOfTen[k] = 10 * PowerOfTen[k - 1]
  BY <1>3, PowerIs
<1>. QED  BY <1>2, <1>4, <1>5

\* Powers multiply where exponents add.
LEMMA PowerAdds ==
    ASSUME NEW i \in Nat
    PROVE  \A j \in Nat : PowerOfTen[i + j] = PowerOfTen[i] * PowerOfTen[j]
<1>. DEFINE bad == {j \in Nat : PowerOfTen[i + j] # PowerOfTen[i] * PowerOfTen[j]}
<1>s. SUFFICES ASSUME bad # {} PROVE FALSE
  OBVIOUS
<1>1. bad \subseteq Nat
  OBVIOUS
<1>2. PICK j \in bad : \A h \in bad : j <= h
  <2>. HIDE DEF bad
  <2>. QED  BY <1>s, <1>1, Least
<1>3. j \in Nat /\ j # 0
  BY <1>2, PowerStep, PowerPositive
<1>. DEFINE h == j - 1
<1>4. h \in Nat /\ h \notin bad /\ j = h + 1 /\ i + h \in Nat /\ i + j = (i + h) + 1
  BY <1>2, <1>3
<1>5. PowerOfTen[i + h] = PowerOfTen[i] * PowerOfTen[h]
  BY <1>4
<1>. HIDE DEF h
<1>6. PowerOfTen[i + j] = 10 * PowerOfTen[i + h] /\ PowerOfTen[j] = 10 * PowerOfTen[h]
  BY <1>4, PowerStep
<1>7. PowerOfTen[i] \in Nat /\ PowerOfTen[h] \in Nat
  BY <1>4, PowerPositive
<1>8. PowerOfTen[i] * (10 * PowerOfTen[h]) = 10 * (PowerOfTen[i] * PowerOfTen[h])
  BY <1>7, Z3
<1>9. PowerOfTen[i + j] # PowerOfTen[i] * PowerOfTen[j]
  BY <1>2
<1>. QED  BY <1>5, <1>6, <1>8, <1>9

\* A decimal: any number of any scale.
Number == [n : Int, s : Nat]

\* r is n / 10^s, and no record of a smaller scale is.
Rendered(r, n, s) ==
    /\ r \in Number /\ r.s \in 0 .. s /\ Scaled(r, s) = n
    /\ \A u \in 0 .. r.s - 1 : \A k \in Int : k * PowerOfTen[s - u] # n

\* _render: whatever number is rendered, the answer is that number at its least scale.
LEMMA RenderIs ==
    ASSUME NEW n \in Int, NEW s \in Nat
    PROVE  Rendered(Render(n, s), n, s)
<1>. DEFINE Even(t) == n % PowerOfTen[s - t] = 0
            T == {t \in 0 .. s : Even(t)}
            Is(t) == t \in 0 .. s /\ Even(t) /\ \A u \in 0 .. t - 1 : ~Even(u)
            t == CHOOSE u \in 0 .. s : Even(u) /\ \A w \in 0 .. u - 1 : ~Even(w)
            r == Render(n, s)
            p == PowerOfTen[s - t]
<1>1. Even(s)
  <2>1. PowerOfTen[s - s] = 1
    BY PowerStep
  <2>. QED  BY <2>1
<1>2. Is(t)
  <2>. HIDE DEF Even
  <2>1. T \subseteq Nat /\ T # {}
    BY <1>1
  <2>2. PICK u \in T : \A w \in T : u <= w
    <3>. HIDE DEF T
    <3>. QED  BY <2>1, Least
  <2>3. u \in 0 .. s /\ Even(u) /\ \A w \in 0 .. u - 1 : ~Even(w)
    BY <2>2
  <2>. QED  BY <2>3
<1>3. r = [n |-> n \div p, s |-> t]
  BY DEF Render
<1>4. t \in 0 .. s /\ n % p = 0 /\ s - t \in Nat /\ \A u \in 0 .. t - 1 : n % PowerOfTen[s - u] # 0
  BY <1>2
<1>. HIDE DEF t
<1>5. p \in Nat \ {0}
  BY <1>4, PowerPositive
<1>6. r.s = t /\ r.n = n \div p
  BY <1>3
<1>7. (n \div p) * p = n /\ n \div p \in Int
  <2>. HIDE DEF p
  <2>. QED  BY <1>4, <1>5, Z3
<1>8. r \in Number
  BY <1>3, <1>4, <1>7 DEF Number
<1>. HIDE DEF r
<1>9. Scaled(r, s) = n
  BY <1>6, <1>7 DEF Scaled
<1>10. ASSUME NEW u \in 0 .. r.s - 1, NEW k \in Int PROVE k * PowerOfTen[s - u] # n
  <2>. DEFINE d == PowerOfTen[s - u]
  <2>1. d \in Nat \ {0}
    BY <1>4, <1>6, PowerPositive
  <2>2. n % d # 0
    BY <1>4, <1>6
  <2>. HIDE DEF d
  <2>3. (k * d) % d = 0
    BY <2>1, Z3
  <2>4. k * d # n
    BY <2>2, <2>3
  <2>. QED  BY <2>4 DEF d
<1>11. r.s \in 0 .. s
  BY <1>4, <1>6
<1>12. Rendered(r, n, s)
  BY <1>8, <1>9, <1>10, <1>11 DEF Rendered
<1>. QED  BY <1>12 DEF r

\* What is left grows with the fraction, and is of the same sign and size beside it.
LEMMA LeftScales ==
    ASSUME NEW mode \in Modes, NEW v, NEW num \in Int, NEW den \in Nat \ {0}, NEW k \in Nat \ {0},
           Left(mode, v, num, den)
    PROVE  Left(mode, v, num * k, den * k)
<1>1. PICK e \in Int : v \in Int /\ num = v * den + e /\ Leaves(mode, v, num, den, e)
  BY DEF Left
<1>. DEFINE n == num * k
            d == den * k
            x == e * k
<1>2. n \in Int /\ d \in Nat \ {0} /\ x \in Int
  BY <1>1, Z3
<1>3. n = v * d + x
  BY <1>1, Z3
<1>4. /\ 0 <= e <=> 0 <= x
      /\ e <= 0 <=> x <= 0
      /\ num >= 0 <=> n >= 0
  BY <1>1, Z3
<1>5. /\ e < den <=> x < d
      /\ -den < e <=> -d < x
  BY <1>1, Z3
<1>6. /\ -den <= 2 * e <=> -d <= 2 * x
      /\ 2 * e <= den <=> 2 * x <= d
      /\ 2 * e = den <=> 2 * x = d
      /\ 2 * e = -den <=> 2 * x = -d
  BY <1>1, Z3
<1>. HIDE DEF n, d, x
<1>7. Leaves(mode, v, n, d, x)
  BY <1>1, <1>2, <1>4, <1>5, <1>6 DEF Leaves
<1>8. Left(mode, v, n, d)
  BY <1>1, <1>2, <1>3, <1>7 DEF Left
<1>. QED  BY <1>8 DEF n, d

\* What is left beside the answer makes it the rounding the mode names.
LEMMA LeftRounds ==
    ASSUME NEW mode \in Modes, NEW v, NEW num \in Int, NEW den \in Nat \ {0}, Left(mode, v, num, den)
    PROVE  IsRounding(mode, v, num, den)
  BY Residue DEF Left

\* quantize: whatever the mode, the scale and the decimal.
LEMMA QuantizeRounds ==
    ASSUME NEW mode \in Modes, NEW scale \in Nat, NEW a \in Number
    PROVE  QuantizeIsCorrect(mode, scale, a)
<1>. DEFINE q == Quantize(mode, scale, a)
            den == PowerOfTen[a.s - scale]
            v == Signed(a.n < 0, RoundQuotient(mode, a.n < 0, Magnitude(a.n), den))
<1>1. a.n \in Int /\ a.s \in Nat
  BY DEF Number
<1>2. CASE a.s <= scale
  BY <1>2 DEF QuantizeIsCorrect, Quantize
<1>3. CASE a.s > scale
  <2>1. a.s - scale \in Nat /\ ~(a.s <= scale)
    BY <1>1, <1>3
  <2>2. q = Render(v, scale)
    BY <2>1 DEF Quantize
  <2>3. den \in Nat \ {0}
    BY <2>1, PowerPositive
  <2>. HIDE DEF den
  <2>4. Left(mode, v, a.n, den)
    BY <1>1, <2>3, RoundingLeaves
  <2>. HIDE DEF v, q
  <2>5. v \in Int /\ IsRounding(mode, v, a.n, den)
    BY <1>1, <2>3, <2>4, LeftRounds DEF Left
  <2>6. q.s \in 0 .. scale /\ Scaled(q, scale) = v
    BY <2>2, <2>5, RenderIs DEF Rendered
  <2>7. q.s <= scale /\ IsRounding(mode, Scaled(q, scale), a.n, den)
    BY <2>5, <2>6
  <2>. QED  BY <2>1, <2>7 DEF QuantizeIsCorrect, q, den
<1>. QED  BY <1>1, <1>2, <1>3

\* divide: whatever the mode, the scale, the dividend and the divisor, which is not zero.
LEMMA DivideRounds ==
    ASSUME NEW mode \in Modes, NEW scale \in Nat, NEW a \in Number, NEW b \in Number, b.n # 0
    PROVE  DivideIsCorrect(mode, scale, a, b)
<1>. DEFINE e == b.s - a.s + scale
            signed == Signed(b.n < 0, a.n)
            num == IF e >= 0 THEN signed * PowerOfTen[e] ELSE signed
            den == IF e >= 0 THEN Magnitude(b.n) ELSE Magnitude(b.n) * PowerOfTen[-e]
            k == IF e >= 0 THEN PowerOfTen[a.s] ELSE PowerOfTen[scale + b.s]
            v == Signed(num < 0, RoundQuotient(mode, num < 0, Magnitude(num), den))
            q == Divide(mode, scale, a, b)
<1>1. a.n \in Int /\ a.s \in Nat /\ b.n \in Int /\ b.s \in Nat /\ e \in Int
  BY DEF Number
<1>2. signed \in Int /\ Magnitude(b.n) \in Nat \ {0} /\ Magnitude(signed) = Magnitude(a.n)
  BY <1>1 DEF Signed, Magnitude
<1>3. e >= 0 => e \in Nat /\ PowerOfTen[e] \in Nat \ {0}
  BY <1>1, PowerPositive
<1>4. ~(e >= 0) => -e \in Nat /\ PowerOfTen[-e] \in Nat \ {0}
  <2>1. ~(e >= 0) => -e \in Nat
    BY <1>1
  <2>. QED  BY <2>1, PowerPositive
<1>5. k \in Nat \ {0}
  BY <1>1, PowerPositive
<1>6. num \in Int /\ den \in Nat \ {0}
  <2>1. CASE e >= 0
    BY <1>2, <1>3, <2>1, Z3
  <2>2. CASE ~(e >= 0)
    <3>1. Magnitude(b.n) * PowerOfTen[-e] \in Nat \ {0}
      BY <1>2, <1>4, <2>2, Z3
    <3>. QED  BY <1>2, <2>2, <3>1
  <2>. QED  BY <2>1, <2>2
<1>7. (num < 0) = ((a.n < 0) # (b.n < 0) /\ a.n # 0)
  <2>1. (signed < 0) = ((a.n < 0) # (b.n < 0) /\ a.n # 0)
    BY <1>1 DEF Signed
  <2>2. num < 0 <=> signed < 0
    <3>. HIDE DEF signed
    <3>1. CASE e >= 0
      BY <1>2, <1>3, <3>1, Z3
    <3>2. CASE ~(e >= 0)
      BY <3>2
    <3>. QED  BY <3>1, <3>2
  <2>. QED  BY <2>1, <2>2
<1>8. Magnitude(num) = IF e >= 0 THEN Magnitude(a.n) * PowerOfTen[e] ELSE Magnitude(a.n)
  <2>1. CASE e >= 0
    <3>. DEFINE p == PowerOfTen[e]
    <3>1. Magnitude(signed * p) = Magnitude(signed) * p
      <4>. HIDE DEF p, signed
      <4>1. p \in Nat \ {0}
        BY <1>3, <2>1 DEF p
      <4>2. (-signed) * p = -(signed * p) /\ (signed * p < 0 <=> signed < 0)
        BY <1>2, <4>1, Z3
      <4>. QED  BY <4>2 DEF Magnitude
    <3>. QED  BY <1>2, <2>1, <3>1
  <2>2. CASE ~(e >= 0)
    BY <1>2, <2>2
  <2>. QED  BY <2>1, <2>2
<1>9. q = Render(v, scale)
  BY <1>7, <1>8 DEF Divide
<1>. HIDE DEF v, q
<1>10. Left(mode, v, num, den)
  <2>. HIDE DEF num, den
  <2>. QED  BY <1>6, RoundingLeaves DEF v
<1>11. Left(mode, v, num * k, den * k)
  <2>. HIDE DEF num, den, k
  <2>. QED  BY <1>5, <1>6, <1>10, LeftScales
<1>12. num * k = signed * PowerOfTen[scale + b.s] /\ den * k = Magnitude(b.n) * PowerOfTen[a.s]
  <2>1. CASE e >= 0
    <3>1. scale + b.s = e + a.s
      BY <1>1
    <3>2. PowerOfTen[e + a.s] = PowerOfTen[e] * PowerOfTen[a.s]
      BY <1>1, <1>3, <2>1, PowerAdds
    <3>3. PowerOfTen[e] \in Nat /\ PowerOfTen[a.s] \in Nat
      BY <1>1, <1>3, <2>1, PowerPositive
    <3>. HIDE DEF signed, e
    <3>4. (signed * PowerOfTen[e]) * PowerOfTen[a.s] = signed * (PowerOfTen[e] * PowerOfTen[a.s])
      BY <1>2, <3>3, Z3
    <3>. QED  BY <2>1, <3>1, <3>2, <3>4
  <2>2. CASE ~(e >= 0)
    <3>1. a.s = -e + (scale + b.s) /\ scale + b.s \in Nat
      BY <1>1
    <3>2. PowerOfTen[-e + (scale + b.s)] = PowerOfTen[-e] * PowerOfTen[scale + b.s]
      BY <1>4, <2>2, <3>1, PowerAdds
    <3>3. PowerOfTen[-e] \in Nat /\ PowerOfTen[scale + b.s] \in Nat
      BY <1>4, <2>2, <3>1, PowerPositive
    <3>. HIDE DEF e
    <3>4. (Magnitude(b.n) * PowerOfTen[-e]) * PowerOfTen[scale + b.s]
            = Magnitude(b.n) * (PowerOfTen[-e] * PowerOfTen[scale + b.s])
      BY <1>2, <3>3, Z3
    <3>. QED  BY <2>2, <3>1, <3>2, <3>4
  <2>. QED  BY <2>1, <2>2
<1>13. v \in Int /\ IsRounding(mode, v, num * k, den * k)
  <2>1. num * k \in Int /\ den * k \in Nat \ {0}
    <3>. HIDE DEF num, den, k
    <3>. QED  BY <1>5, <1>6, Z3
  <2>. HIDE DEF num, den, k
  <2>. QED  BY <1>11, <2>1, LeftRounds DEF Left
<1>14. q.s \in 0 .. scale /\ Scaled(q, scale) = v
  BY <1>9, <1>13, RenderIs DEF Rendered
<1>15. /\ q.s <= scale
       /\ IsRounding(mode, Scaled(q, scale), signed * PowerOfTen[scale + b.s], Magnitude(b.n) * PowerOfTen[a.s])
  <2>. HIDE DEF num, den, k, signed
  <2>. QED  BY <1>12, <1>13, <1>14
<1>. QED  BY <1>15 DEF DivideIsCorrect, q

\* The canonical decimals, as decimal_text answers them.
Canonical == {a \in Number : a = Render(a.n, a.s)}

\* The canonical zero is Zero.
LEMMA ZeroIsCanonical ==
    ASSUME NEW a \in Canonical, a.n = 0
    PROVE  a = Zero
<1>. DEFINE Divides(x) == 0 % PowerOfTen[a.s - x] = 0
            First(x) == x \in 0 .. a.s /\ Divides(x) /\ \A u \in 0 .. x - 1 : ~Divides(u)
            t == CHOOSE x \in 0 .. a.s : Divides(x) /\ \A u \in 0 .. x - 1 : ~Divides(u)
<1>1. a.s \in Nat /\ a \in Number /\ a = Render(0, a.s)
  BY DEF Canonical, Number
<1>2. PowerOfTen[a.s - 0] \in Nat \ {0} /\ PowerOfTen[a.s] \in Nat \ {0}
  BY <1>1, PowerPositive
<1>3. 0 % PowerOfTen[a.s - 0] = 0
  BY <1>2, Z3
<1>4. First(0)
  BY <1>1, <1>3
<1>5. First(t)
  BY <1>4
<1>6. t = 0
  BY <1>1, <1>3, <1>5
<1>7. a = [n |-> 0 \div PowerOfTen[a.s - t], s |-> t]
  BY <1>1 DEF Render
<1>. HIDE DEF t
<1>8. a.s = 0
  BY <1>6, <1>7
<1>. QED  BY <1>1, <1>8 DEF Number, Zero

\* What is rounded: decimals in canonical form, and cells whose numbers are of the kind's.
Numbers ==
    /\ Decimals \subseteq Canonical
    /\ \A c \in Values : Exact(c) => DecimalOf(c) \in Number

\* RoundingIsCorrect, whatever edits, undos and redos made the table.
THEOREM RoundingIsAlwaysCorrect ==
    ASSUME Lawful, Numbers
    PROVE  Spec => []RoundingIsCorrect
<1>1. HistoryInv => RoundingIsCorrect
  <2>1. SUFFICES ASSUME IsTable(table), NEW mode \in Modes, NEW scale \in 0 .. MaxScale, NEW a \in Dividends
                 PROVE  /\ QuantizeIsCorrect(mode, scale, a)
                        /\ \A b \in Decimals \ {Zero} : DivideIsCorrect(mode, scale, a, b)
    BY DEF HistoryInv, RoundingIsCorrect
  <2>2. scale \in Nat
    BY <2>1, MaxScaleAssumption
  <2>3. a \in Number
    <3>1. CASE edits = 0
      BY <2>1, <3>1 DEF Dividends, Numbers, Canonical
    <3>2. CASE edits # 0
      <4>1. PICK i \in DOMAIN table.cols : \E c \in ToSet(table.cols[i].cells) : Exact(c) /\ a = DecimalOf(c)
        BY <2>1, <3>2 DEF Dividends
      <4>2. PICK c \in ToSet(table.cols[i].cells) : Exact(c) /\ a = DecimalOf(c)
        BY <4>1
      <4>3. table.cols[i] \in Column
        BY <2>1, Rows
      <4>4. c \in Values
        BY <4>2, <4>3 DEF Column, ToSet
      <4>. QED  BY <4>2, <4>4 DEF Numbers
    <3>. QED  BY <3>1, <3>2
  <2>4. QuantizeIsCorrect(mode, scale, a)
    BY <2>1, <2>2, <2>3, QuantizeRounds
  <2>5. ASSUME NEW b \in Decimals \ {Zero} PROVE DivideIsCorrect(mode, scale, a, b)
    <3>1. b \in Canonical /\ b \in Number /\ b.n # 0
      BY <2>5, ZeroIsCanonical DEF Numbers, Canonical
    <3>. QED  BY <2>1, <2>2, <2>3, <3>1, DivideRounds
  <2>. QED  BY <2>4, <2>5
<1>. QED  BY <1>1, HistoryInvInit, HistoryInvNext, PTL DEF Spec

-----------------------------------------------------------------------------
\* Two decimals are one number.
Same(n, s, m, t) == n * PowerOfTen[t] = m * PowerOfTen[s]

\* Of two records of one number, neither has the smaller scale if both are of the least.
LEMMA NoneIsSmaller ==
    ASSUME NEW n \in Int, NEW s \in Nat, NEW m \in Int, NEW t \in Nat, Same(n, s, m, t),
           NEW r, NEW q, Rendered(r, n, s), Rendered(q, m, t)
    PROVE  ~(q.s < r.s)
<1>. SUFFICES ASSUME q.s < r.s PROVE FALSE
  OBVIOUS
<1>. DEFINE w == q.s
            x == PowerOfTen[w]
            y == PowerOfTen[s - w]
            z == PowerOfTen[t - w]
            k == q.n
<1>0. w \in Nat /\ w <= t /\ r.s \in Nat /\ w < r.s /\ r.s <= s
  BY DEF Rendered, Number
<1>1. k \in Int /\ k * z = m /\ \A u \in 0 .. r.s - 1 : \A j \in Int : j * PowerOfTen[s - u] # n
  BY DEF Rendered, Number, Scaled
<1>2. s - w \in Nat /\ t - w \in Nat /\ s = w + (s - w) /\ t = w + (t - w)
  <2>. HIDE DEF w
  <2>. QED  BY <1>0
<1>3. PowerOfTen[s] = x * y /\ PowerOfTen[t] = x * z
  BY <1>0, <1>2, PowerAdds
<1>4. x \in Nat \ {0} /\ y \in Nat \ {0} /\ z \in Nat \ {0}
  BY <1>0, <1>2, PowerPositive
<1>5. k * y # n
  <2>1. w \in 0 .. r.s - 1
    BY <1>0
  <2>. QED  BY <1>1, <2>1
<1>6. n * (x * z) = (k * z) * (x * y)
  BY <1>1, <1>3 DEF Same
<1>. HIDE DEF w, x, y, z, k
<1>7. n * (x * z) = (k * y) * (x * z)
  BY <1>1, <1>4, <1>6, Z3
<1>8. x * z \in Nat \ {0} /\ k * y \in Int
  BY <1>1, <1>4, Z3
<1>. DEFINE a == x * z
            b == k * y
<1>9. n * a = b * a /\ a \in Nat \ {0} /\ b \in Int
  BY <1>7, <1>8
<1>. HIDE DEF a, b
<1>10. n = b
  BY <1>9, Z3
<1>. QED  BY <1>5, <1>10 DEF b

\* try_canonical: two decimals have one canonical form exactly when they are one number.
THEOREM CanonicalFormIsUnique ==
    ASSUME NEW n \in Int, NEW s \in Nat, NEW m \in Int, NEW t \in Nat
    PROVE  Render(n, s) = Render(m, t) <=> Same(n, s, m, t)
<1>. DEFINE r == Render(n, s)
            q == Render(m, t)
<1>1. Rendered(r, n, s) /\ Rendered(q, m, t)
  BY RenderIs
<1>. HIDE DEF r, q
<1>2. ASSUME r.s = q.s
      PROVE  Same(n, s, m, t) <=> r.n = q.n
  <2>. DEFINE w == r.s
              x == PowerOfTen[w]
              y == PowerOfTen[s - w]
              z == PowerOfTen[t - w]
              k == r.n
              j == q.n
  <2>1. /\ w \in Nat /\ w <= t /\ w <= s /\ k \in Int /\ j \in Int
        /\ k * y = n /\ j * z = m
    BY <1>1, <1>2 DEF Rendered, Number, Scaled
  <2>2. s - w \in Nat /\ t - w \in Nat /\ s = w + (s - w) /\ t = w + (t - w)
    BY <2>1
  <2>3. PowerOfTen[s] = x * y /\ PowerOfTen[t] = x * z
    BY <2>1, <2>2, PowerAdds
  <2>4. x \in Nat \ {0} /\ y \in Nat \ {0} /\ z \in Nat \ {0}
    BY <2>1, <2>2, PowerPositive
  <2>5. Same(n, s, m, t) <=> (k * y) * (x * z) = (j * z) * (x * y)
    BY <2>1, <2>3 DEF Same
  <2>. HIDE DEF w, x, y, z, k, j
  <2>. DEFINE a == (x * y) * z
  <2>6. (k * y) * (x * z) = k * a /\ (j * z) * (x * y) = j * a
    BY <2>1, <2>4, Z3
  <2>7. a \in Nat \ {0}
    BY <2>4, Z3
  <2>. HIDE DEF a
  <2>8. k * a = j * a <=> k = j
    BY <2>1, <2>7, Z3
  <2>. QED  BY <2>5, <2>6, <2>8 DEF k, j
<1>3. CASE Same(n, s, m, t)
  <2>1. Same(m, t, n, s)
    BY <1>3 DEF Same
  <2>2. ~(q.s < r.s) /\ ~(r.s < q.s)
    BY <1>1, <1>3, <2>1, NoneIsSmaller
  <2>3. r.s = q.s
    BY <1>1, <2>2 DEF Rendered, Number
  <2>4. r.n = q.n
    BY <1>2, <1>3, <2>3
  <2>. QED  BY <1>1, <1>3, <2>3, <2>4 DEF Rendered, Number, r, q
<1>4. CASE ~Same(n, s, m, t)
  <2>1. r.s = q.s => r.n # q.n
    BY <1>2, <1>4
  <2>. QED  BY <1>4, <2>1 DEF r, q
<1>. QED  BY <1>3, <1>4

\* What is rendered is canonical: rendering it again changes nothing.
LEMMA RenderIsCanonical ==
    ASSUME NEW n \in Int, NEW s \in Nat
    PROVE  Render(n, s) \in Canonical
<1>. DEFINE r == Render(n, s)
            p == PowerOfTen[s - r.s]
<1>0. Rendered(r, n, s)
  BY RenderIs
<1>. HIDE DEF r
<1>1. r \in Number /\ r.n \in Int /\ r.s \in Nat /\ r.n * p = n
  BY <1>0 DEF Rendered, Number, Scaled
<1>2. Same(r.n, r.s, n, s)
  <2>1. s - r.s \in Nat /\ r.s \in Nat /\ s = r.s + (s - r.s)
    BY <1>0, <1>1 DEF Rendered
  <2>2. PowerOfTen[s] = PowerOfTen[r.s] * p
    BY <2>1, PowerAdds
  <2>3. p \in Nat /\ PowerOfTen[r.s] \in Nat
    BY <2>1, PowerPositive
  <2>. HIDE DEF p
  <2>4. r.n * (PowerOfTen[r.s] * p) = (r.n * p) * PowerOfTen[r.s]
    BY <1>1, <2>3, Z3
  <2>. QED  BY <1>1, <2>2, <2>4 DEF Same
<1>3. Render(r.n, r.s) = r
  BY <1>1, <1>2, CanonicalFormIsUnique DEF r
<1>4. r \in Canonical
  BY <1>1, <1>3 DEF Canonical
<1>. QED  BY <1>4 DEF r

\* Two numbers brought to their common scale are integers, and equal when they are one number.
LEMMA AtCommonScale ==
    ASSUME NEW a \in Number, NEW b \in Number
    PROVE  LET s == Larger(a.s, b.s)
           IN  /\ s \in Nat /\ Scaled(a, s) \in Int /\ Scaled(b, s) \in Int
               /\ Scaled(a, s) = Scaled(b, s) <=> Same(a.n, a.s, b.n, b.s)
<1>. DEFINE s == Larger(a.s, b.s)
            x == PowerOfTen[s - a.s]
            y == PowerOfTen[s - b.s]
            u == PowerOfTen[a.s]
            v == PowerOfTen[b.s]
            n == a.n
            m == b.n
<1>1. n \in Int /\ m \in Int /\ a.s \in Nat /\ b.s \in Nat
  BY DEF Number
<1>2. s \in Nat /\ s - a.s \in Nat /\ s - b.s \in Nat /\ s = a.s + (s - a.s) /\ s = b.s + (s - b.s)
  BY <1>1 DEF Larger
<1>3. x \in Nat \ {0} /\ y \in Nat \ {0} /\ u \in Nat \ {0} /\ v \in Nat \ {0}
  BY <1>1, <1>2, PowerPositive
<1>4. u * x = v * y
  <2>1. PowerOfTen[a.s + (s - a.s)] = u * x /\ PowerOfTen[b.s + (s - b.s)] = v * y
    BY <1>1, <1>2, PowerAdds
  <2>. HIDE DEF s, x, y, u, v
  <2>. QED  BY <1>2, <2>1
<1>5. Scaled(a, s) = n * x /\ Scaled(b, s) = m * y
  BY DEF Scaled
<1>6. Same(a.n, a.s, b.n, b.s) <=> n * v = m * u
  BY DEF Same
<1>. HIDE DEF s, x, y, u, v, n, m
<1>7. n * x \in Int /\ m * y \in Int
  BY <1>1, <1>3, Z3
<1>. DEFINE k == u * x
<1>8. k \in Nat \ {0}
  BY <1>3, Z3
<1>9. (n * x) * (u * v) = (n * v) * k
  BY <1>1, <1>3, Z3
<1>10. (m * y) * (u * v) = (m * u) * k
  <2>1. (m * y) * (u * v) = (m * u) * (v * y)
    BY <1>1, <1>3, Z3
  <2>. QED  BY <1>4, <2>1
<1>11. u * v \in Nat \ {0} /\ n * v \in Int /\ m * u \in Int
  BY <1>1, <1>3, Z3
<1>. DEFINE A == n * x
            B == m * y
            C == n * v
            D == m * u
            w == u * v
<1>12. A = B <=> C = D
  <2>1. A \in Int /\ B \in Int /\ C \in Int /\ D \in Int /\ w \in Nat \ {0} /\ A * w = C * k /\ B * w = D * k
    BY <1>7, <1>9, <1>10, <1>11
  <2>. HIDE DEF A, B, C, D, w, k
  <2>2. A = B => C = D
    <3>1. A = B => C * k = D * k
      BY <2>1
    <3>. QED  BY <1>8, <2>1, <3>1, Z3
  <2>3. C = D => A = B
    <3>1. C = D => A * w = B * w
      BY <2>1
    <3>. QED  BY <2>1, <3>1, Z3
  <2>. QED  BY <2>2, <2>3
<1>. QED  BY <1>2, <1>5, <1>6, <1>7, <1>12 DEF s

\* add, sub, mul and compare: the answers are the exact ones, in canonical form, and canonical
\* decimals compare equal when they are one text.
THEOREM ArithmeticIsExact ==
    ASSUME NEW a \in Canonical, NEW b \in Canonical
    PROVE  LET s == Larger(a.s, b.s)
           IN  /\ {Add(a, b), Sub(a, b), Mul(a, b)} \subseteq Canonical
               /\ Add(a, b).s <= s /\ Scaled(Add(a, b), s) = Scaled(a, s) + Scaled(b, s)
               /\ Sub(a, b).s <= s /\ Scaled(Sub(a, b), s) = Scaled(a, s) - Scaled(b, s)
               /\ Mul(a, b).s <= a.s + b.s /\ Scaled(Mul(a, b), a.s + b.s) = a.n * b.n
               /\ Compare(a, b) = 0 <=> a = b
<1>. DEFINE s == Larger(a.s, b.s)
            x == Scaled(a, s)
            y == Scaled(b, s)
<1>1. /\ a \in Number /\ a.n \in Int /\ a.s \in Nat /\ a = Render(a.n, a.s)
      /\ b \in Number /\ b.n \in Int /\ b.s \in Nat /\ b = Render(b.n, b.s)
  BY DEF Canonical, Number
<1>2. s \in Nat /\ x \in Int /\ y \in Int /\ (x = y <=> Same(a.n, a.s, b.n, b.s))
  BY <1>1, AtCommonScale
<1>3. Add(a, b) = Render(x + y, s)
  BY DEF Add
<1>4. Sub(a, b) = Render(x - y, s)
  <2>. DEFINE c == Negate(b)
  <2>1. c.s = b.s /\ c.n = -b.n
    BY <1>1 DEF Negate, Number
  <2>2. Sub(a, b) = Render(x + Scaled(c, s), s)
    BY <2>1 DEF Sub, Add
  <2>3. Scaled(c, s) = -y
    <3>1. PowerOfTen[s - b.s] \in Nat
      <4>1. s - b.s \in Nat
        BY <1>1 DEF Larger
      <4>. QED  BY <4>1, PowerPositive
    <3>2. (-b.n) * PowerOfTen[s - b.s] = -(b.n * PowerOfTen[s - b.s])
      BY <1>1, <3>1, Z3
    <3>. QED  BY <2>1, <3>2 DEF Scaled
  <2>. HIDE DEF x, y, s, c
  <2>4. x + Scaled(c, s) = x - y
    BY <1>2, <2>3
  <2>. QED  BY <2>2, <2>4
<1>5. Compare(a, b) = 0 <=> x = y
  <2>1. Compare(a, b) = IF x < y THEN -1 ELSE IF x > y THEN 1 ELSE 0
    BY DEF Compare
  <2>. HIDE DEF x, y
  <2>. QED  BY <1>2, <2>1
<1>6. a = b <=> Same(a.n, a.s, b.n, b.s)
  BY <1>1, CanonicalFormIsUnique
<1>7. Compare(a, b) = 0 <=> a = b
  BY <1>2, <1>5, <1>6
<1>8. Mul(a, b) = Render(a.n * b.n, a.s + b.s) /\ a.n * b.n \in Int /\ a.s + b.s \in Nat
  <2>1. a.n * b.n \in Int
    BY <1>1, Z3
  <2>. QED  BY <1>1, <2>1 DEF Mul
<1>. HIDE DEF x, y, s
<1>9. ASSUME NEW n \in Int, NEW t \in Nat
      PROVE  Render(n, t) \in Canonical /\ Render(n, t).s <= t /\ Scaled(Render(n, t), t) = n
  BY RenderIs, RenderIsCanonical DEF Rendered
<1>10. x + y \in Int /\ x - y \in Int
  BY <1>2
<1>11. /\ Add(a, b) \in Canonical /\ Add(a, b).s <= s /\ Scaled(Add(a, b), s) = x + y
       /\ Sub(a, b) \in Canonical /\ Sub(a, b).s <= s /\ Scaled(Sub(a, b), s) = x - y
  BY <1>2, <1>3, <1>4, <1>9, <1>10
<1>12. Mul(a, b) \in Canonical /\ Mul(a, b).s <= a.s + b.s /\ Scaled(Mul(a, b), a.s + b.s) = a.n * b.n
  BY <1>8, <1>9
<1>. QED  BY <1>7, <1>11, <1>12 DEF x, y, s

-----------------------------------------------------------------------------
(***************************************************************************)
(* Schema deltas (schema.py).  The folds of diff and patch, by the turn    *)
(* each takes: what is folded over a sequence is one turn more than what   *)
(* is folded over its front.                                               *)
(***************************************************************************)
\* The field of a name, and the turns there are.
FieldNamed(s, name) == s[Max({i \in DOMAIN s : s[i].name = name})]
Keeping(S) == [turn |-> "keep", of |-> S]
AmendingTo(target) == [turn |-> "amendments", of |-> target]
Changing(turn) == [turn |-> turn, of |-> {}]

\* A change to a schema.
Change(turn, s, c) ==
    CASE turn = "remove" -> Removing(s, c)
      [] turn = "retype" -> Retyping(s, c)
      [] turn = "amend"  -> Amending(s, c)
      [] turn = "add"    -> Adding(s, c)

\* One turn: keep what is in a set, tell the amendments of a field, or change a schema.
Turn(how, acc, c) ==
    IF how.turn = "keep" THEN IF c \in how.of THEN Append(acc, c) ELSE acc
    ELSE IF how.turn = "amendments" THEN acc \o Amendments(c, FieldNamed(how.of, c.name))
    ELSE IF acc.err # "None" THEN acc ELSE Change(how.turn, acc.fields, c)

\* The fold, over every part of the sequence that ends at its last.
TurnFold(f, how, first, s) ==
    f = [r \in SUBSET DOMAIN s |-> IF r = {} THEN first ELSE Turn(how, f[r \ {Max(r)}], s[Max(r)])]
FoldedWith(how, first, s) == (CHOOSE f : TurnFold(f, how, first, s))[DOMAIN s]

\* What is kept of a sequence is such a fold.
LEMMA AmongIs ==
    ASSUME NEW s, NEW S
    PROVE  Among(s, S) = FoldedWith(Keeping(S), << >>, s)
<1>. DEFINE P(f) == f = [r \in SUBSET DOMAIN s |->
                           IF r = {} THEN << >>
                           ELSE IF s[Max(r)] \in S THEN Append(f[r \ {Max(r)}], s[Max(r)])
                             ELSE f[r \ {Max(r)}]]
            Q(f) == TurnFold(f, Keeping(S), << >>, s)
<1>1. Among(s, S) = (CHOOSE f : P(f))[DOMAIN s]
  BY DEF Among, FoldLeft, MapThenFoldSet
<1>2. ASSUME NEW f
      PROVE  P(f) <=> Q(f)
  BY DEF TurnFold, Turn, Keeping
<1>. HIDE DEF P
<1>3. (CHOOSE f : P(f)) = (CHOOSE f : Q(f))
  <2>. HIDE DEF Q
  <2>. QED  BY ONLY <1>2, Zenon
<1>. QED  BY <1>1, <1>3 DEF FoldedWith

\* What it is at every length.
Folds(f, how, first, s, m) ==
    /\ DOMAIN f = SUBSET (1 .. m)
    /\ \A r \in SUBSET (1 .. m) : f[r] = IF r = {} THEN first ELSE Turn(how, f[r \ {Max(r)}], s[Max(r)])

\* There is such a fold, whatever the sequence.
LEMMA TurnsExist ==
    ASSUME NEW how, NEW first, NEW S, NEW s \in Seq(S)
    PROVE  \E f : TurnFold(f, how, first, s)
<1>. DEFINE T == {m \in Nat : ~ \E f : Folds(f, how, first, s, m)}
<1>1. SUFFICES T = {}
  <2>1. Len(s) \in Nat /\ DOMAIN s = 1 .. Len(s)
    OBVIOUS
  <2>2. PICK f : Folds(f, how, first, s, Len(s))
    BY <1>1, <2>1
  <2>. DEFINE g == [r \in SUBSET (1 .. Len(s)) |-> f[r]]
  <2>3. \A r \in SUBSET (1 .. Len(s)) : g[r] = IF r = {} THEN first ELSE Turn(how, g[r \ {Max(r)}], s[Max(r)])
    BY <2>2 DEF Folds
  <2>4. g = [r \in SUBSET (1 .. Len(s)) |-> IF r = {} THEN first ELSE Turn(how, g[r \ {Max(r)}], s[Max(r)])]
    BY <2>3
  <2>. HIDE DEF g
  <2>. QED  BY <2>1, <2>4 DEF TurnFold
<1>2. SUFFICES ASSUME T # {}
               PROVE  FALSE
  OBVIOUS
<1>3. PICK m \in T : \A k \in T : m <= k
  BY <1>2, Least
<1>4. CASE m = 0
  <2>. DEFINE f == [r \in SUBSET (1 .. 0) |-> first]
  <2>1. SUBSET (1 .. 0) = {{}}
    OBVIOUS
  <2>2. Folds(f, how, first, s, 0)
    BY <2>1 DEF Folds
  <2>. QED  BY <1>3, <1>4, <2>2
<1>5. CASE m # 0
  <2>1. m - 1 \in Nat /\ m - 1 \notin T
    BY <1>3, <1>5
  <2>2. PICK g : Folds(g, how, first, s, m - 1)
    BY <2>1
  <2>. DEFINE f == [r \in SUBSET (1 .. m) |-> IF m \in r THEN Turn(how, g[r \ {m}], s[m]) ELSE g[r]]
  <2>3. ASSUME NEW r \in SUBSET (1 .. m)
        PROVE  f[r] = IF r = {} THEN first ELSE Turn(how, f[r \ {Max(r)}], s[Max(r)])
    <3>1. CASE m \in r
      <4>1. Max(r) = m
        BY <1>3, <3>1, MaxOf
      <4>2. r \ {m} \in SUBSET (1 .. m) /\ m \notin r \ {m}
        OBVIOUS
      <4>3. f[r \ {m}] = g[r \ {m}]
        BY <4>2
      <4>4. f[r] = Turn(how, g[r \ {m}], s[m])
        BY <3>1
      <4>. QED  BY <3>1, <4>1, <4>3, <4>4
    <3>2. CASE m \notin r
      <4>1. r \in SUBSET (1 .. m - 1)
        BY <1>3, <3>2
      <4>2. f[r] = g[r] /\ f[r \ {Max(r)}] = g[r \ {Max(r)}]
        BY <3>2
      <4>. QED  BY <2>2, <4>1, <4>2 DEF Folds
    <3>. QED  BY <3>1, <3>2
  <2>4. DOMAIN f = SUBSET (1 .. m)
    OBVIOUS
  <2>. HIDE DEF f
  <2>5. Folds(f, how, first, s, m)
    BY <2>3, <2>4 DEF Folds
  <2>. QED  BY <1>3, <2>5
<1>. QED  BY <1>4, <1>5

\* So the fold is what it is at every length.
LEMMA TurnsAre ==
    ASSUME NEW how, NEW first, NEW S, NEW s \in Seq(S)
    PROVE  \E f : FoldedWith(how, first, s) = f[1 .. Len(s)] /\ Folds(f, how, first, s, Len(s))
<1>. DEFINE c == CHOOSE f : TurnFold(f, how, first, s)
<1>1. TurnFold(c, how, first, s)
  BY TurnsExist
<1>2. FoldedWith(how, first, s) = c[DOMAIN s]
  BY DEF FoldedWith
<1>. HIDE DEF c
<1>3. DOMAIN s = 1 .. Len(s)
  OBVIOUS
<1>4. ASSUME NEW r \in SUBSET (1 .. Len(s))
      PROVE  c[r] = IF r = {} THEN first ELSE Turn(how, c[r \ {Max(r)}], s[Max(r)])
  BY <1>1, <1>3 DEF TurnFold
<1>5. DOMAIN c = SUBSET (1 .. Len(s))
  BY <1>1, <1>3 DEF TurnFold
<1>6. Folds(c, how, first, s, Len(s))
  BY <1>4, <1>5 DEF Folds
<1>. QED  BY <1>2, <1>3, <1>6

\* Over no sequence nothing is folded; over one more, one turn more.
LEMMA NoTurn ==
    ASSUME NEW how, NEW first
    PROVE  FoldedWith(how, first, << >>) = first
<1>1. << >> \in Seq({}) /\ Len(<< >>) = 0 /\ 1 .. 0 = {}
  OBVIOUS
<1>2. PICK f : FoldedWith(how, first, << >>) = f[1 .. Len(<< >>)] /\ Folds(f, how, first, << >>, Len(<< >>))
  BY <1>1, TurnsAre
<1>. QED  BY <1>1, <1>2 DEF Folds

\* And one turn more for one element more.
LEMMA OneTurn ==
    ASSUME NEW how, NEW first, NEW S, NEW s \in Seq(S), NEW x \in S
    PROVE  FoldedWith(how, first, Append(s, x)) = Turn(how, FoldedWith(how, first, s), x)
<1>. DEFINE n == Len(s)
            t == Append(s, x)
<1>1. n \in Nat /\ t \in Seq(S) /\ Len(t) = n + 1 /\ t[n + 1] = x /\ \A i \in 1 .. n : t[i] = s[i]
  OBVIOUS
<1>. HIDE DEF t
<1>2. PICK f : FoldedWith(how, first, s) = f[1 .. Len(s)] /\ Folds(f, how, first, s, Len(s))
  BY TurnsAre
<1>3. PICK g : FoldedWith(how, first, t) = g[1 .. Len(t)] /\ Folds(g, how, first, t, Len(t))
  BY <1>1, TurnsAre
<1>0. n = Len(s)
  OBVIOUS
<1>. HIDE DEF n
<1>4. \A k \in Nat : k >= 1 => Max(1 .. k) = k /\ (1 .. k) \ {k} = 1 .. k - 1
  <2>. SUFFICES ASSUME NEW k \in Nat, k >= 1
                PROVE  Max(1 .. k) = k /\ (1 .. k) \ {k} = 1 .. k - 1
    OBVIOUS
  <2>1. k \in 1 .. k /\ 1 .. k \in SUBSET (1 .. k)
    OBVIOUS
  <2>2. ASSUME NEW y
        PROVE  y \in (1 .. k) \ {k} <=> y \in 1 .. k - 1
    OBVIOUS
  <2>. QED  BY <2>1, <2>2, MaxOf
<1>5. \A k \in Nat : k <= n => f[1 .. k] = g[1 .. k]
  <2>. DEFINE T == {k \in Nat : k <= n /\ f[1 .. k] # g[1 .. k]}
  <2>. SUFFICES ASSUME T # {}
                PROVE  FALSE
    OBVIOUS
  <2>1. PICK k \in T : \A j \in T : k <= j
    BY Least
  <2>2. k \in Nat /\ k <= n /\ 1 .. k \in SUBSET (1 .. n) /\ 1 .. k \in SUBSET (1 .. Len(t))
    BY <1>1, <2>1
  <2>3. CASE k = 0
    <3>1. 1 .. k = {}
      BY <2>3
    <3>. QED  BY <1>2, <1>3, <2>1, <2>2, <3>1 DEF Folds
  <2>4. CASE k # 0
    <3>1. k - 1 \in Nat /\ k - 1 <= n /\ ~(k <= k - 1)
      BY <1>1, <2>2, <2>4
    <3>2. f[1 .. k - 1] = g[1 .. k - 1]
      BY <2>1, <3>1
    <3>3. Max(1 .. k) = k /\ (1 .. k) \ {k} = 1 .. k - 1 /\ 1 .. k # {}
      BY <1>4, <2>2, <2>4
    <3>4. f[1 .. k] = Turn(how, f[1 .. k - 1], s[k])
      BY <1>0, <1>2, <2>2, <3>3 DEF Folds
    <3>5. g[1 .. k] = Turn(how, g[1 .. k - 1], t[k])
      BY <1>3, <2>2, <3>3 DEF Folds
    <3>6. t[k] = s[k]
      BY <1>1, <2>2, <2>4
    <3>. QED  BY <2>1, <3>2, <3>4, <3>5, <3>6
  <2>. QED  BY <2>3, <2>4
<1>. DEFINE k == n + 1
<1>6. k \in Nat /\ k >= 1 /\ k - 1 = n /\ n <= n /\ n \in Nat
  BY <1>1
<1>7. Len(t) = k /\ t[k] = x
  BY <1>1
<1>. HIDE DEF k
<1>8. Max(1 .. k) = k /\ (1 .. k) \ {k} = 1 .. n /\ 1 .. k # {} /\ 1 .. k \in SUBSET (1 .. k)
  <2>1. Max(1 .. k) = k /\ (1 .. k) \ {k} = 1 .. k - 1
    BY <1>4, <1>6
  <2>2. 1 \in 1 .. k
    BY <1>6
  <2>. QED  BY <1>6, <2>1, <2>2
<1>9. g[1 .. k] = Turn(how, g[1 .. n], x)
  BY <1>3, <1>7, <1>8 DEF Folds
<1>10. f[1 .. n] = g[1 .. n]
  BY <1>5, <1>6
<1>. QED  BY <1>0, <1>2, <1>3, <1>7, <1>9, <1>10 DEF t

\* A sequence that is not empty is a shorter one and its last.
LEMMA Longer ==
    ASSUME NEW S, NEW s \in Seq(S), Len(s) # 0
    PROVE  \E u \in Seq(S), x \in S : s = Append(u, x) /\ Len(u) = Len(s) - 1
<1>. DEFINE n == Len(s)
            u == [i \in 1 .. n - 1 |-> s[i]]
<1>1. n \in Nat /\ n >= 1 /\ n - 1 \in Nat /\ DOMAIN s = 1 .. n
  OBVIOUS
<1>2. u \in Seq(S) /\ Len(u) = n - 1
  <2>1. u \in [1 .. n - 1 -> S]
    BY <1>1
  <2>. QED  BY <1>1, <2>1
<1>3. s[n] \in S
  BY <1>1
<1>4. s = Append(u, s[n])
  <2>. HIDE DEF n
  <2>1. n = Len(s)
    BY DEF n
  <2>2. Append(u, s[n]) \in Seq(S) /\ Len(Append(u, s[n])) = n
    BY <1>1, <1>2, <1>3
  <2>3. \A i \in 1 .. n : Append(u, s[n])[i] = s[i]
    BY <1>1, <1>2
  <2>. QED  BY <2>1, <2>2, <2>3
<1>. QED  BY <1>2, <1>3, <1>4

\* What a sequence holds with one more.
LEMMA HoldsOneMore ==
    ASSUME NEW S, NEW s \in Seq(S), NEW x \in S
    PROVE  /\ Append(s, x) \in Seq(S)
           /\ ToSet(Append(s, x)) = ToSet(s) \union {x}
           /\ ToSet(s) \subseteq S /\ ToSet(<< >>) = {}
<1>1. /\ DOMAIN s = 1 .. Len(s) /\ DOMAIN Append(s, x) = 1 .. Len(s) + 1 /\ Len(s) \in Nat
      /\ \A i \in 1 .. Len(s) : Append(s, x)[i] = s[i]
      /\ Append(s, x)[Len(s) + 1] = x
  OBVIOUS
<1>2. \A y \in ToSet(Append(s, x)) : y \in ToSet(s) \union {x}
  BY <1>1 DEF ToSet
<1>3. \A y \in ToSet(s) \union {x} : y \in ToSet(Append(s, x))
  BY <1>1 DEF ToSet
<1>. QED  BY <1>2, <1>3 DEF ToSet

\* What is kept of one element more.
LEMMA AmongOne ==
    ASSUME NEW X, NEW s \in Seq(X), NEW x \in X, NEW S
    PROVE  /\ Among(<< >>, S) = << >>
           /\ Among(Append(s, x), S) = IF x \in S THEN Append(Among(s, S), x) ELSE Among(s, S)
<1>1. Among(<< >>, S) = << >>
  BY AmongIs, NoTurn
<1>2. FoldedWith(Keeping(S), << >>, Append(s, x)) = Turn(Keeping(S), FoldedWith(Keeping(S), << >>, s), x)
  BY OneTurn
<1>3. Among(Append(s, x), S) = Turn(Keeping(S), Among(s, S), x)
  BY <1>2, AmongIs
<1>. QED  BY <1>1, <1>3 DEF Turn, Keeping

\* The fields of a schema that has no two of one name.
Distinct(s) == \A i, j \in DOMAIN s : s[i].name = s[j].name => i = j

\* One field more is one of another name.
LEMMA DistinctOneMore ==
    ASSUME NEW S, NEW s \in Seq(S), NEW x \in S
    PROVE  Distinct(Append(s, x)) <=> Distinct(s) /\ \A f \in ToSet(s) : f.name # x.name
<1>1. /\ DOMAIN s = 1 .. Len(s) /\ DOMAIN Append(s, x) = 1 .. Len(s) + 1 /\ Len(s) \in Nat
      /\ \A i \in 1 .. Len(s) : Append(s, x)[i] = s[i]
      /\ Append(s, x)[Len(s) + 1] = x
  OBVIOUS
<1>2. ASSUME Distinct(Append(s, x))
      PROVE  Distinct(s) /\ \A f \in ToSet(s) : f.name # x.name
  <2>1. Distinct(s)
    BY <1>1, <1>2 DEF Distinct
  <2>2. ASSUME NEW i \in 1 .. Len(s)
        PROVE  s[i].name # x.name
    BY <1>1, <1>2 DEF Distinct
  <2>. QED  BY <1>1, <2>1, <2>2 DEF ToSet
<1>3. ASSUME Distinct(s), \A f \in ToSet(s) : f.name # x.name
      PROVE  Distinct(Append(s, x))
  <2>1. \A i \in 1 .. Len(s) : s[i].name # x.name
    BY <1>1, <1>3 DEF ToSet
  <2>. QED  BY <1>1, <1>3, <2>1 DEF Distinct
<1>. QED  BY <1>2, <1>3

\* What is among a set is there, in the sequence and in the set, and no two are of one name.
AmongHolds(s, S, X) ==
    /\ Among(s, S) \in Seq(X) /\ ToSet(Among(s, S)) = ToSet(s) \intersect S
    /\ Distinct(s) => Distinct(Among(s, S))

\* So it is of whatever is kept.
LEMMA AmongIn ==
    ASSUME NEW X, NEW s \in Seq(X), NEW S
    PROVE  AmongHolds(s, S, X)
<1>. DEFINE T == {n \in Nat : \E t \in Seq(X) : Len(t) = n /\ ~AmongHolds(t, S, X)}
<1>1. SUFFICES ASSUME T # {}
               PROVE  FALSE
  OBVIOUS
<1>2. PICK n \in T : \A k \in T : n <= k
  BY <1>1, Least
<1>3. PICK t \in Seq(X) : Len(t) = n /\ ~AmongHolds(t, S, X)
  BY <1>2
<1>4. \A u \in Seq(X) : Len(u) \in Nat /\ (~AmongHolds(u, S, X) => Len(u) \in T)
  OBVIOUS
<1>. HIDE DEF T
<1>5. CASE n = 0
  <2>1. t = << >>
    BY <1>3, <1>5
  <2>2. Among(<< >>, S) = << >>
    BY AmongIs, NoTurn
  <2>3. ToSet(<< >>) = {}
    BY DEF ToSet
  <2>. QED  BY <1>3, <2>1, <2>2, <2>3 DEF AmongHolds, Distinct
<1>6. CASE n # 0
  <2>1. PICK u \in Seq(X), x \in X : t = Append(u, x) /\ Len(u) = n - 1
    BY <1>3, <1>6, Longer
  <2>2. AmongHolds(u, S, X)
    BY <1>2, <1>3, <1>4, <2>1
  <2>3. Among(t, S) = IF x \in S THEN Append(Among(u, S), x) ELSE Among(u, S)
    BY <2>1, AmongOne
  <2>4. ToSet(t) = ToSet(u) \union {x} /\ (Distinct(t) <=> Distinct(u) /\ \A f \in ToSet(u) : f.name # x.name)
    BY <2>1, HoldsOneMore, DistinctOneMore
  <2>. DEFINE w == Among(u, S)
  <2>5. w \in Seq(X) /\ ToSet(w) = ToSet(u) \intersect S /\ (Distinct(u) => Distinct(w))
    BY <2>2 DEF AmongHolds
  <2>. HIDE DEF w
  <2>6. /\ Append(w, x) \in Seq(X) /\ ToSet(Append(w, x)) = ToSet(w) \union {x}
        /\ Distinct(Append(w, x)) <=> Distinct(w) /\ \A f \in ToSet(w) : f.name # x.name
    BY <2>5, HoldsOneMore, DistinctOneMore
  <2>7. CASE x \in S
    <3>1. Among(t, S) = Append(w, x)
      BY <2>3, <2>7 DEF w
    <3>. QED  BY <1>3, <2>4, <2>5, <2>6, <2>7, <3>1 DEF AmongHolds
  <2>8. CASE x \notin S
    <3>1. Among(t, S) = w
      BY <2>3, <2>8 DEF w
    <3>. QED  BY <1>3, <2>4, <2>5, <2>8, <3>1 DEF AmongHolds
  <2>. QED  BY <2>7, <2>8
<1>. QED  BY <1>5, <1>6

\* To take twice is to take what is in both; what a set has beside the sequence is nothing to it.
AmongLaws(s, S, R) ==
    /\ Among(Among(s, S), R) = Among(s, S \intersect R)
    /\ (\A x \in ToSet(s) : x \in S <=> x \in R) => Among(s, S) = Among(s, R)
    /\ ToSet(s) \subseteq S => Among(s, S) = s
    /\ ToSet(s) \intersect S = {} => Among(s, S) = << >>

\* So it is, of any sequence and sets.
LEMMA AmongAlike ==
    ASSUME NEW X, NEW s \in Seq(X), NEW S, NEW R
    PROVE  AmongLaws(s, S, R)
<1>. DEFINE T == {n \in Nat : \E t \in Seq(X) : Len(t) = n /\ ~AmongLaws(t, S, R)}
<1>1. SUFFICES ASSUME T # {}
               PROVE  FALSE
  OBVIOUS
<1>2. PICK n \in T : \A k \in T : n <= k
  BY <1>1, Least
<1>3. PICK t \in Seq(X) : Len(t) = n /\ ~AmongLaws(t, S, R)
  BY <1>2
<1>4. \A u \in Seq(X) : Len(u) \in Nat /\ (~AmongLaws(u, S, R) => Len(u) \in T)
  OBVIOUS
<1>. HIDE DEF T
<1>5. CASE n = 0
  <2>1. t = << >>
    BY <1>3, <1>5
  <2>2. \A U : Among(<< >>, U) = << >>
    BY AmongIs, NoTurn
  <2>. QED  BY <1>3, <2>1, <2>2 DEF AmongLaws
<1>6. CASE n # 0
  <2>1. PICK u \in Seq(X), x \in X : t = Append(u, x) /\ Len(u) = n - 1
    BY <1>3, <1>6, Longer
  <2>2. AmongLaws(u, S, R)
    BY <1>2, <1>3, <1>4, <2>1
  <2>3. \A U : Among(t, U) = IF x \in U THEN Append(Among(u, U), x) ELSE Among(u, U)
    BY <2>1, AmongOne
  <2>4. ToSet(t) = ToSet(u) \union {x}
    BY <2>1, HoldsOneMore
  <2>5. Among(u, S) \in Seq(X)
    BY AmongIn DEF AmongHolds
  <2>6. Among(Append(Among(u, S), x), R) =
          IF x \in R THEN Append(Among(Among(u, S), R), x) ELSE Among(Among(u, S), R)
    BY <2>5, AmongOne
  <2>7. Among(Among(t, S), R) = Among(t, S \intersect R)
    BY <2>2, <2>3, <2>6 DEF AmongLaws
  <2>8. (\A y \in ToSet(t) : y \in S <=> y \in R) => Among(t, S) = Among(t, R)
    BY <2>2, <2>3, <2>4 DEF AmongLaws
  <2>9. ToSet(t) \subseteq S => Among(t, S) = t
    BY <2>1, <2>2, <2>3, <2>4 DEF AmongLaws
  <2>10. ToSet(t) \intersect S = {} => Among(t, S) = << >>
    BY <2>2, <2>3, <2>4 DEF AmongLaws
  <2>. QED  BY <1>3, <2>7, <2>8, <2>9, <2>10 DEF AmongLaws
<1>. QED  BY <1>5, <1>6

\* Of two sequences joined, it is what each has.
LEMMA AmongJoined ==
    ASSUME NEW X, NEW s \in Seq(X), NEW t \in Seq(X), NEW S
    PROVE  Among(s \o t, S) = Among(s, S) \o Among(t, S)
<1>. DEFINE P(w) == Among(s \o w, S) = Among(s, S) \o Among(w, S)
            T == {n \in Nat : \E w \in Seq(X) : Len(w) = n /\ ~P(w)}
<1>1. SUFFICES ASSUME T # {}
               PROVE  FALSE
  OBVIOUS
<1>2. PICK n \in T : \A k \in T : n <= k
  BY <1>1, Least
<1>3. PICK w \in Seq(X) : Len(w) = n /\ ~P(w)
  BY <1>2
<1>4. \A u \in Seq(X) : Len(u) \in Nat /\ (~P(u) => Len(u) \in T)
  OBVIOUS
<1>. HIDE DEF T
<1>0. Among(s, S) \in Seq(X)
  BY AmongIn DEF AmongHolds
<1>5. CASE n = 0
  <2>1. w = << >>
    BY <1>3, <1>5
  <2>2. Among(<< >>, S) = << >>
    BY AmongIs, NoTurn
  <2>3. s \o << >> = s /\ Among(s, S) \o << >> = Among(s, S)
    BY <1>0
  <2>. QED  BY <1>3, <2>1, <2>2, <2>3
<1>6. CASE n # 0
  <2>1. PICK u \in Seq(X), x \in X : w = Append(u, x) /\ Len(u) = n - 1
    BY <1>3, <1>6, Longer
  <2>2. P(u)
    <3>. HIDE DEF P
    <3>. QED  BY <1>2, <1>3, <1>4, <2>1
  <2>3. s \o Append(u, x) = Append(s \o u, x) /\ s \o u \in Seq(X)
    BY <2>1
  <2>4. Among(Append(s \o u, x), S) = IF x \in S THEN Append(Among(s \o u, S), x) ELSE Among(s \o u, S)
    BY <2>3, AmongOne
  <2>5. Among(w, S) = IF x \in S THEN Append(Among(u, S), x) ELSE Among(u, S)
    BY <2>1, AmongOne
  <2>6. Among(u, S) \in Seq(X)
    BY AmongIn DEF AmongHolds
  <2>. DEFINE p == Among(s, S)
              q == Among(u, S)
  <2>7. p \in Seq(X) /\ q \in Seq(X)
    BY <1>0, <2>6
  <2>. HIDE DEF p, q
  <2>8. p \o Append(q, x) = Append(p \o q, x)
    BY <2>7
  <2>. QED  BY <1>3, <2>1, <2>2, <2>3, <2>4, <2>5, <2>8 DEF p, q
<1>. QED  BY <1>5, <1>6

-----------------------------------------------------------------------------
\* A schema: fields of two members of metadata, no two of one name.
IsField(f) == f = [name |-> f.name, type |-> f.type, meta |-> [unit |-> f.meta.unit, label |-> f.meta.label]]
IsFields(s) == s \in Seq(ToSet(s)) /\ Distinct(s) /\ \A f \in ToSet(s) : IsField(f)
NamesIn(s) == {f.name : f \in ToSet(s)}

\* A name finds its field, at its one place.
LEMMA NamedField ==
    ASSUME NEW s, s \in Seq(ToSet(s)), Distinct(s)
    PROVE  /\ ToSet(Names(s)) = NamesIn(s) /\ \A n : HasName(s, n) <=> n \in NamesIn(s)
           /\ \A i \in DOMAIN s : Position(s, s[i].name) = i /\ FieldNamed(s, s[i].name) = s[i]
           /\ \A f \in ToSet(s) : /\ Position(s, f.name) \in DOMAIN s /\ s[Position(s, f.name)] = f
                                  /\ FieldNamed(s, f.name) = f
<1>1. \A n : HasName(s, n) <=> n \in NamesIn(s)
  BY DEF HasName, NamesIn, ToSet
<1>2. ToSet(Names(s)) = NamesIn(s)
  BY DEF ToSet, Names, NamesIn
<1>3. ASSUME NEW i \in DOMAIN s
      PROVE  Position(s, s[i].name) = i /\ FieldNamed(s, s[i].name) = s[i]
  <2>1. {j \in DOMAIN s : s[j].name = s[i].name} = {i}
    BY DEF Distinct
  <2>2. i \in Int
    OBVIOUS
  <2>3. Max({i}) = i /\ Min({i}) = i
    BY <2>2 DEF Max, Min
  <2>. QED  BY <2>1, <2>3 DEF Position, FieldNamed
<1>4. \A f \in ToSet(s) : \E i \in DOMAIN s : f = s[i]
  BY DEF ToSet
<1>. QED  BY <1>1, <1>2, <1>3, <1>4

\* What a step that names a type asks of the schema.
LEMMA OfTypeIs ==
    ASSUME NEW s, s \in Seq(ToSet(s)), Distinct(s), NEW n, NEW type, NEW t
    PROVE  LET r == OfType(s, n, type, t)
           IN  /\ r.err = "None" <=> \E f \in ToSet(s) : f.name = n /\ f.type = type
               /\ r.err = "None" => r.fields = t
<1>1. HasName(s, n) => \E f \in ToSet(s) : f.name = n
  BY DEF HasName, ToSet
<1>2. ASSUME NEW f \in ToSet(s), f.name = n
      PROVE  HasName(s, n) /\ s[Position(s, n)] = f /\ \A g \in ToSet(s) : g.name = n => g = f
  <2>1. HasName(s, n) /\ s[Position(s, n)] = f
    BY <1>2, NamedField DEF NamesIn
  <2>2. \A g \in ToSet(s) : s[Position(s, g.name)] = g
    BY NamedField
  <2>. QED  BY <1>2, <2>1, <2>2
<1>3. CASE HasName(s, n)
  <2>1. PICK f \in ToSet(s) : f.name = n
    BY <1>1, <1>3
  <2>2. s[Position(s, n)] = f /\ \A g \in ToSet(s) : g.name = n => g = f
    BY <1>2, <2>1
  <2>. QED  BY <1>3, <2>1, <2>2 DEF OfType, Patched
<1>4. CASE ~HasName(s, n)
  <2>1. \A f \in ToSet(s) : f.name # n
    BY <1>2, <1>4
  <2>. QED  BY <1>4, <2>1 DEF OfType, Patched
<1>. QED  BY <1>3, <1>4

\* The changes made in turn are one fold each.
LEMMA RemovesInTurn ==
    ASSUME NEW r, NEW cs
    PROVE  InTurn(r, cs, Removing) = FoldedWith(Changing("remove"), r, cs)
<1>. DEFINE P(f) == f = [u \in SUBSET DOMAIN cs |-> IF u = {} THEN r
                           ELSE IF f[u \ {Max(u)}].err # "None" THEN f[u \ {Max(u)}]
                             ELSE Removing(f[u \ {Max(u)}].fields, cs[Max(u)])]
            Q(f) == TurnFold(f, Changing("remove"), r, cs)
<1>1. InTurn(r, cs, Removing) = (CHOOSE f : P(f))[DOMAIN cs]
  BY DEF InTurn, FoldLeft, MapThenFoldSet
<1>2. ASSUME NEW f
      PROVE  P(f) <=> Q(f)
  BY DEF TurnFold, Turn, Changing, Change
<1>. HIDE DEF P
<1>3. (CHOOSE f : P(f)) = (CHOOSE f : Q(f))
  <2>. HIDE DEF Q
  <2>. QED  BY ONLY <1>2, Zenon
<1>. QED  BY <1>1, <1>3 DEF FoldedWith

\* The retypings,
LEMMA RetypesInTurn ==
    ASSUME NEW r, NEW cs
    PROVE  InTurn(r, cs, Retyping) = FoldedWith(Changing("retype"), r, cs)
<1>. DEFINE P(f) == f = [u \in SUBSET DOMAIN cs |-> IF u = {} THEN r
                           ELSE IF f[u \ {Max(u)}].err # "None" THEN f[u \ {Max(u)}]
                             ELSE Retyping(f[u \ {Max(u)}].fields, cs[Max(u)])]
            Q(f) == TurnFold(f, Changing("retype"), r, cs)
<1>1. InTurn(r, cs, Retyping) = (CHOOSE f : P(f))[DOMAIN cs]
  BY DEF InTurn, FoldLeft, MapThenFoldSet
<1>2. ASSUME NEW f
      PROVE  P(f) <=> Q(f)
  BY DEF TurnFold, Turn, Changing, Change
<1>. HIDE DEF P
<1>3. (CHOOSE f : P(f)) = (CHOOSE f : Q(f))
  <2>. HIDE DEF Q
  <2>. QED  BY ONLY <1>2, Zenon
<1>. QED  BY <1>1, <1>3 DEF FoldedWith

\* the amendments,
LEMMA AmendsInTurn ==
    ASSUME NEW r, NEW cs
    PROVE  InTurn(r, cs, Amending) = FoldedWith(Changing("amend"), r, cs)
<1>. DEFINE P(f) == f = [u \in SUBSET DOMAIN cs |-> IF u = {} THEN r
                           ELSE IF f[u \ {Max(u)}].err # "None" THEN f[u \ {Max(u)}]
                             ELSE Amending(f[u \ {Max(u)}].fields, cs[Max(u)])]
            Q(f) == TurnFold(f, Changing("amend"), r, cs)
<1>1. InTurn(r, cs, Amending) = (CHOOSE f : P(f))[DOMAIN cs]
  BY DEF InTurn, FoldLeft, MapThenFoldSet
<1>2. ASSUME NEW f
      PROVE  P(f) <=> Q(f)
  BY DEF TurnFold, Turn, Changing, Change
<1>. HIDE DEF P
<1>3. (CHOOSE f : P(f)) = (CHOOSE f : Q(f))
  <2>. HIDE DEF Q
  <2>. QED  BY ONLY <1>2, Zenon
<1>. QED  BY <1>1, <1>3 DEF FoldedWith

\* and the additions.
LEMMA AddsInTurn ==
    ASSUME NEW r, NEW cs
    PROVE  InTurn(r, cs, Adding) = FoldedWith(Changing("add"), r, cs)
<1>. DEFINE P(f) == f = [u \in SUBSET DOMAIN cs |-> IF u = {} THEN r
                           ELSE IF f[u \ {Max(u)}].err # "None" THEN f[u \ {Max(u)}]
                             ELSE Adding(f[u \ {Max(u)}].fields, cs[Max(u)])]
            Q(f) == TurnFold(f, Changing("add"), r, cs)
<1>1. InTurn(r, cs, Adding) = (CHOOSE f : P(f))[DOMAIN cs]
  BY DEF InTurn, FoldLeft, MapThenFoldSet
<1>2. ASSUME NEW f
      PROVE  P(f) <=> Q(f)
  BY DEF TurnFold, Turn, Changing, Change
<1>. HIDE DEF P
<1>3. (CHOOSE f : P(f)) = (CHOOSE f : Q(f))
  <2>. HIDE DEF Q
  <2>. QED  BY ONLY <1>2, Zenon
<1>. QED  BY <1>1, <1>3 DEF FoldedWith

\* One change more, and its turn: none once one was refused.
LEMMA ChangesInTurn ==
    ASSUME NEW turn \in {"remove", "retype", "amend", "add"}, NEW r, NEW X, NEW cs \in Seq(X), NEW c \in X
    PROVE  LET acc == FoldedWith(Changing(turn), r, cs)
           IN  FoldedWith(Changing(turn), r, Append(cs, c)) =
             IF acc.err # "None" THEN acc ELSE Change(turn, acc.fields, c)
<1>1. FoldedWith(Changing(turn), r, Append(cs, c)) =
        Turn(Changing(turn), FoldedWith(Changing(turn), r, cs), c)
  BY OneTurn
<1>. QED  BY <1>1 DEF Turn, Changing

\* What is left of a schema is a schema.
LEMMA LeftIsSchema ==
    ASSUME NEW s, IsFields(s), NEW S
    PROVE  IsFields(Among(s, S)) /\ ToSet(Among(s, S)) = ToSet(s) \intersect S
<1>. DEFINE w == Among(s, S)
            X == ToSet(s)
<1>1. w \in Seq(X) /\ ToSet(w) = ToSet(s) \intersect S /\ (Distinct(s) => Distinct(w))
  BY AmongIn DEF AmongHolds, IsFields
<1>. HIDE DEF w, X
<1>2. w \in Seq(ToSet(w))
  BY <1>1 DEF ToSet
<1>. QED  BY <1>1, <1>2 DEF IsFields, w, X

\* Removals go through when each field is there with its type, and leave the others.
Removable(s, rs) == \A r \in ToSet(rs) : \E f \in ToSet(s) : f.name = r.name /\ f.type = r.type

RemovedIs(s, rs) ==
    LET r == FoldedWith(Changing("remove"), Patched("None", s), rs)
    IN  /\ r.err = "None" <=> Removable(s, rs)
        /\ r.err = "None" => r.fields = FieldsBut(s, NamesIn(rs))

\* So they do, in whatever order they are made.
LEMMA Removed ==
    ASSUME NEW s, IsFields(s), NEW X, NEW rs \in Seq(X), Distinct(rs)
    PROVE  RemovedIs(s, rs)
<1>. DEFINE T == {n \in Nat : \E t \in Seq(X) : Len(t) = n /\ Distinct(t) /\ ~RemovedIs(s, t)}
<1>1. SUFFICES ASSUME T # {}
               PROVE  FALSE
  OBVIOUS
<1>2. PICK n \in T : \A k \in T : n <= k
  BY <1>1, Least
<1>3. PICK t \in Seq(X) : Len(t) = n /\ Distinct(t) /\ ~RemovedIs(s, t)
  BY <1>2
<1>4. \A u \in Seq(X) : Len(u) \in Nat /\ (Distinct(u) /\ ~RemovedIs(s, u) => Len(u) \in T)
  OBVIOUS
<1>. HIDE DEF T
<1>5. CASE n = 0
  <2>1. t = << >>
    BY <1>3, <1>5
  <2>2. FoldedWith(Changing("remove"), Patched("None", s), << >>) = Patched("None", s)
    BY NoTurn
  <2>3. ToSet(<< >>) = {} /\ NamesIn(<< >>) = {}
    BY DEF ToSet, NamesIn
  <2>4. FieldsBut(s, {}) = s
    <3>1. ToSet(s) \subseteq {f \in ToSet(s) : f.name \notin {}}
      OBVIOUS
    <3>. QED  BY <3>1, AmongAlike DEF FieldsBut, IsFields, AmongLaws
  <2>5. Removable(s, << >>) /\ Patched("None", s).err = "None" /\ Patched("None", s).fields = s
    BY <2>3 DEF Removable, Patched
  <2>6. RemovedIs(s, << >>)
    BY <2>2, <2>3, <2>4, <2>5 DEF RemovedIs
  <2>. QED  BY <1>3, <2>1, <2>6
<1>6. CASE n # 0
  <2>1. PICK u \in Seq(X), x \in X : t = Append(u, x) /\ Len(u) = n - 1
    BY <1>3, <1>6, Longer
  <2>2. Distinct(u) /\ \A f \in ToSet(u) : f.name # x.name
    BY <1>3, <2>1, DistinctOneMore
  <2>3. RemovedIs(s, u)
    BY <1>2, <1>3, <1>4, <2>1, <2>2
  <2>. DEFINE acc == FoldedWith(Changing("remove"), Patched("None", s), u)
              w == acc.fields
              r == FoldedWith(Changing("remove"), Patched("None", s), t)
  <2>4. r = IF acc.err # "None" THEN acc ELSE Removing(w, x)
    BY <2>1, ChangesInTurn DEF Change
  <2>5. ToSet(t) = ToSet(u) \union {x}
    BY <2>1, HoldsOneMore
  <2>6. NamesIn(t) = NamesIn(u) \union {x.name}
    BY <2>5 DEF NamesIn
  <2>7. x.name \notin NamesIn(u)
    BY <2>2 DEF NamesIn
  <2>8. (acc.err = "None" <=> Removable(s, u)) /\ (acc.err = "None" => w = FieldsBut(s, NamesIn(u)))
    BY <2>3 DEF RemovedIs
  <2>. HIDE DEF acc
  <2>9. CASE acc.err # "None"
    <3>1. r = acc
      BY <2>4, <2>9
    <3>2. ~Removable(s, t)
      BY <2>5, <2>8, <2>9 DEF Removable
    <3>. QED  BY <1>3, <2>9, <3>1, <3>2 DEF RemovedIs
  <2>10. CASE acc.err = "None"
    <3>. DEFINE S == {f \in ToSet(s) : f.name \notin NamesIn(u)}
    <3>1. w = Among(s, S)
      BY <2>8, <2>10 DEF FieldsBut
    <3>2. IsFields(w) /\ ToSet(w) = ToSet(s) \intersect S
      BY <3>1, LeftIsSchema
    <3>3. r = OfType(w, x.name, x.type, FieldsBut(w, {x.name}))
      BY <2>4, <2>10 DEF Removing
    <3>4. /\ r.err = "None" <=> \E f \in ToSet(w) : f.name = x.name /\ f.type = x.type
          /\ r.err = "None" => r.fields = FieldsBut(w, {x.name})
      <4>1. w \in Seq(ToSet(w)) /\ Distinct(w)
        BY <3>2 DEF IsFields
      <4>. DEFINE p == OfType(w, x.name, x.type, FieldsBut(w, {x.name}))
      <4>. HIDE DEF w
      <4>2. /\ p.err = "None" <=> \E f \in ToSet(w) : f.name = x.name /\ f.type = x.type
            /\ p.err = "None" => p.fields = FieldsBut(w, {x.name})
        BY <4>1, OfTypeIs
      <4>. HIDE DEF p, r
      <4>3. r = p
        BY <3>3 DEF p
      <4>. QED  BY <4>2, <4>3
    <3>5. (\E f \in ToSet(w) : f.name = x.name /\ f.type = x.type)
            <=> (\E f \in ToSet(s) : f.name = x.name /\ f.type = x.type)
      BY <2>7, <3>2
    <3>6. r.err = "None" <=> Removable(s, t)
      BY <2>5, <2>8, <2>10, <3>4, <3>5 DEF Removable
    <3>7. FieldsBut(w, {x.name}) = FieldsBut(s, NamesIn(t))
      <4>. DEFINE B == {f \in ToSet(w) : f.name \notin {x.name}}
                  C == {f \in ToSet(s) : f.name \notin NamesIn(t)}
      <4>1. FieldsBut(w, {x.name}) = Among(Among(s, S), B)
        BY <3>1 DEF FieldsBut
      <4>2. Among(Among(s, S), B) = Among(s, S \intersect B)
        BY AmongAlike DEF AmongLaws, IsFields
      <4>3. \A f \in ToSet(s) : f \in S \intersect B <=> f \in C
        BY <2>6, <3>2
      <4>4. Among(s, S \intersect B) = Among(s, C)
        <5>. HIDE DEF S, B, C
        <5>1. s \in Seq(ToSet(s))
          BY DEF IsFields
        <5>. DEFINE K == S \intersect B
        <5>. HIDE DEF K
        <5>2. AmongLaws(s, K, C)
          BY <5>1, AmongAlike
        <5>3. \A f \in ToSet(s) : f \in K <=> f \in C
          BY <4>3 DEF K
        <5>. QED  BY <5>2, <5>3 DEF AmongLaws, K
      <4>. QED  BY <4>1, <4>2, <4>4 DEF FieldsBut
    <3>. QED  BY <1>3, <3>4, <3>6, <3>7 DEF RemovedIs
  <2>. QED  BY <2>9, <2>10
<1>. QED  BY <1>5, <1>6

\* A sequence is one of what it holds.
LEMMA OfItsOwn ==
    ASSUME NEW X, NEW s \in Seq(X)
    PROVE  s \in Seq(ToSet(s))
BY DEF ToSet

\* A schema whose fields are changed but for their names is a schema of the same names.
LEMMA SameNames ==
    ASSUME NEW s, IsFields(s), NEW q, q = [i \in DOMAIN s |-> q[i]],
           \A i \in DOMAIN s : q[i].name = s[i].name /\ IsField(q[i])
    PROVE  IsFields(q) /\ NamesIn(q) = NamesIn(s) /\ Names(q) = Names(s)
<1>1. s \in Seq(ToSet(s)) /\ DOMAIN q = DOMAIN s /\ Len(s) \in Nat /\ DOMAIN s = 1 .. Len(s)
  BY DEF IsFields
<1>2. q \in [1 .. Len(s) -> ToSet(q)]
  BY <1>1 DEF ToSet
<1>3. q \in Seq(ToSet(q))
  BY <1>1, <1>2
<1>4. Distinct(q)
  BY <1>1 DEF Distinct, IsFields
<1>5. \A f \in ToSet(q) : IsField(f)
  BY <1>1 DEF ToSet
<1>6. NamesIn(q) = NamesIn(s)
  <2>1. \A i \in DOMAIN s : q[i] \in ToSet(q) /\ s[i] \in ToSet(s)
    BY <1>1 DEF ToSet
  <2>2. \A n \in NamesIn(q) : \E i \in DOMAIN s : n = q[i].name
    BY <1>1 DEF ToSet, NamesIn
  <2>3. \A n \in NamesIn(s) : \E i \in DOMAIN s : n = s[i].name
    BY <1>1 DEF ToSet, NamesIn
  <2>4. ASSUME NEW n \in NamesIn(q)
        PROVE  n \in NamesIn(s)
    <3>1. PICK i \in DOMAIN s : n = q[i].name
      BY <2>2
    <3>2. n = s[i].name /\ s[i] \in ToSet(s)
      BY <2>1, <3>1
    <3>. QED  BY <3>2 DEF NamesIn
  <2>5. \A n \in NamesIn(s) : n \in NamesIn(q)
    BY <2>1, <2>3 DEF NamesIn
  <2>. QED  BY <2>4, <2>5
<1>7. Names(q) = Names(s)
  BY <1>1 DEF Names
<1>. QED  BY <1>3, <1>4, <1>5, <1>6, <1>7 DEF IsFields

\* A field with the type that is told of its name, if one is.
Retype(f, rs) == [f EXCEPT !.type = IF f.name \in NamesIn(rs) THEN FieldNamed(rs, f.name).to ELSE f.type]

\* Nothing else of the field changes.
LEMMA RetypeIs ==
    ASSUME NEW f, IsField(f), NEW rs
    PROVE  /\ IsField(Retype(f, rs)) /\ Retype(f, rs).name = f.name /\ Retype(f, rs).meta = f.meta
           /\ Retype(f, rs).type = IF f.name \in NamesIn(rs) THEN FieldNamed(rs, f.name).to ELSE f.type
           /\ f.name \notin NamesIn(rs) => Retype(f, rs) = f
BY DEF IsField, Retype

\* Retypings go through when each field is there with the type it is told from.
Retypable(s, rs) == \A r \in ToSet(rs) : \E f \in ToSet(s) : f.name = r.name /\ f.type = r.from
RetypedIs(s, rs) ==
    LET r == FoldedWith(Changing("retype"), Patched("None", s), rs)
    IN  /\ r.err = "None" <=> Retypable(s, rs)
        /\ r.err = "None" => r.fields = [i \in DOMAIN s |-> Retype(s[i], rs)]

\* So they do, in whatever order they are made.
LEMMA Retyped ==
    ASSUME NEW s, IsFields(s), NEW X, NEW rs \in Seq(X), Distinct(rs)
    PROVE  RetypedIs(s, rs)
<1>. DEFINE T == {n \in Nat : \E t \in Seq(X) : Len(t) = n /\ Distinct(t) /\ ~RetypedIs(s, t)}
<1>1. SUFFICES ASSUME T # {}
               PROVE  FALSE
  OBVIOUS
<1>2. PICK n \in T : \A k \in T : n <= k
  BY <1>1, Least
<1>3. PICK t \in Seq(X) : Len(t) = n /\ Distinct(t) /\ ~RetypedIs(s, t)
  BY <1>2
<1>4. \A u \in Seq(X) : Len(u) \in Nat /\ (Distinct(u) /\ ~RetypedIs(s, u) => Len(u) \in T)
  OBVIOUS
<1>. HIDE DEF T
<1>0. \A i \in DOMAIN s : IsField(s[i]) /\ s[i] \in ToSet(s)
  BY DEF IsFields, ToSet
<1>5. CASE n = 0
  <2>1. t = << >>
    BY <1>3, <1>5
  <2>2. FoldedWith(Changing("retype"), Patched("None", s), << >>) = Patched("None", s)
    BY NoTurn
  <2>3. ToSet(<< >>) = {} /\ NamesIn(<< >>) = {}
    BY DEF ToSet, NamesIn
  <2>4. \A i \in DOMAIN s : Retype(s[i], << >>) = s[i]
    BY <1>0, <2>3, RetypeIs
  <2>5. [i \in DOMAIN s |-> Retype(s[i], << >>)] = s
    <3>1. s = [i \in DOMAIN s |-> s[i]]
      BY DEF IsFields
    <3>. QED  BY <2>4, <3>1
  <2>6. Retypable(s, << >>) /\ Patched("None", s).err = "None" /\ Patched("None", s).fields = s
    BY <2>3 DEF Retypable, Patched
  <2>7. RetypedIs(s, << >>)
    BY <2>2, <2>5, <2>6 DEF RetypedIs
  <2>. QED  BY <1>3, <2>1, <2>7
<1>6. CASE n # 0
  <2>1. PICK u \in Seq(X), x \in X : t = Append(u, x) /\ Len(u) = n - 1
    BY <1>3, <1>6, Longer
  <2>2. Distinct(u) /\ \A f \in ToSet(u) : f.name # x.name
    BY <1>3, <2>1, DistinctOneMore
  <2>3. RetypedIs(s, u)
    BY <1>2, <1>3, <1>4, <2>1, <2>2
  <2>. DEFINE acc == FoldedWith(Changing("retype"), Patched("None", s), u)
              w == acc.fields
              r == FoldedWith(Changing("retype"), Patched("None", s), t)
  <2>4. r = IF acc.err # "None" THEN acc ELSE Retyping(w, x)
    BY <2>1, ChangesInTurn DEF Change
  <2>5. ToSet(t) = ToSet(u) \union {x}
    BY <2>1, HoldsOneMore
  <2>6. NamesIn(t) = NamesIn(u) \union {x.name}
    BY <2>5 DEF NamesIn
  <2>7. x.name \notin NamesIn(u)
    BY <2>2 DEF NamesIn
  <2>8. (acc.err = "None" <=> Retypable(s, u))
          /\ (acc.err = "None" => w = [i \in DOMAIN s |-> Retype(s[i], u)])
    BY <2>3 DEF RetypedIs
  <2>. HIDE DEF acc
  <2>9. CASE acc.err # "None"
    <3>1. r = acc
      BY <2>4, <2>9
    <3>2. ~Retypable(s, t)
      BY <2>5, <2>8, <2>9 DEF Retypable
    <3>. QED  BY <1>3, <2>9, <3>1, <3>2 DEF RetypedIs
  <2>10. CASE acc.err = "None"
    <3>. DEFINE q == [i \in DOMAIN w |-> IF w[i].name = x.name THEN [w[i] EXCEPT !.type = x.to] ELSE w[i]]
    <3>1. w = [i \in DOMAIN s |-> Retype(s[i], u)]
      BY <2>8, <2>10
    <3>2. DOMAIN w = DOMAIN s /\ \A i \in DOMAIN s : w[i] = Retype(s[i], u) /\ w[i].name = s[i].name
            /\ IsField(w[i])
      BY <1>0, <3>1, RetypeIs
    <3>. HIDE DEF w
    <3>3. w = [i \in DOMAIN s |-> w[i]]
      BY <3>1, <3>2
    <3>4. IsFields(w)
      BY <3>2, <3>3, SameNames
    <3>5. w \in Seq(ToSet(w)) /\ Distinct(w)
      BY <3>4 DEF IsFields
    <3>6. r = OfType(w, x.name, x.from, q)
      BY <2>4, <2>10 DEF Retyping
    <3>. HIDE DEF q, r
    <3>7. /\ r.err = "None" <=> \E f \in ToSet(w) : f.name = x.name /\ f.type = x.from
          /\ r.err = "None" => r.fields = q
      <4>. DEFINE p == OfType(w, x.name, x.from, q)
      <4>1. /\ p.err = "None" <=> \E f \in ToSet(w) : f.name = x.name /\ f.type = x.from
            /\ p.err = "None" => p.fields = q
        BY <3>5, OfTypeIs
      <4>. QED  BY <3>6, <4>1
    <3>8. (\E f \in ToSet(w) : f.name = x.name /\ f.type = x.from)
            <=> (\E f \in ToSet(s) : f.name = x.name /\ f.type = x.from)
      <4>1. \A i \in DOMAIN s : s[i].name = x.name => w[i] = s[i]
        BY <1>0, <2>7, <3>2, RetypeIs
      <4>2. \A f \in ToSet(w) : \E i \in DOMAIN s : f = w[i] /\ s[i] \in ToSet(s)
        BY <1>0, <3>2 DEF ToSet
      <4>3. \A f \in ToSet(s) : \E i \in DOMAIN s : f = s[i] /\ w[i] \in ToSet(w)
        BY <3>2 DEF ToSet
      <4>4. ASSUME NEW f \in ToSet(w), f.name = x.name, f.type = x.from
            PROVE  \E g \in ToSet(s) : g.name = x.name /\ g.type = x.from
        BY <3>2, <4>1, <4>2, <4>4
      <4>5. ASSUME NEW f \in ToSet(s), f.name = x.name, f.type = x.from
            PROVE  \E g \in ToSet(w) : g.name = x.name /\ g.type = x.from
        BY <4>1, <4>3, <4>5
      <4>. QED  BY <4>4, <4>5
    <3>9. r.err = "None" <=> Retypable(s, t)
      BY <2>5, <2>8, <2>10, <3>7, <3>8 DEF Retypable
    <3>10. q = [i \in DOMAIN s |-> Retype(s[i], t)]
      <4>1. u \in Seq(ToSet(u)) /\ t \in Seq(ToSet(t))
        BY <1>3, <2>1, OfItsOwn
      <4>2. \A g \in ToSet(u) : FieldNamed(u, g.name) = g /\ FieldNamed(t, g.name) = g
        BY <1>3, <2>2, <2>5, <4>1, NamedField
      <4>3. FieldNamed(t, x.name) = x
        BY <1>3, <2>5, <4>1, NamedField
      <4>4. ASSUME NEW i \in DOMAIN s
            PROVE  q[i] = Retype(s[i], t)
        <5>1. CASE s[i].name = x.name
          <6>1. w[i] = s[i]
            BY <1>0, <2>7, <3>2, <5>1, RetypeIs
          <6>2. q[i] = [s[i] EXCEPT !.type = x.to]
            BY <3>2, <5>1, <6>1 DEF q
          <6>. QED  BY <2>6, <4>3, <5>1, <6>2 DEF Retype
        <5>2. CASE s[i].name # x.name
          <6>1. q[i] = Retype(s[i], u)
            BY <3>2, <5>2 DEF q
          <6>2. s[i].name \in NamesIn(t) <=> s[i].name \in NamesIn(u)
            BY <2>6, <5>2
          <6>3. s[i].name \in NamesIn(u) => FieldNamed(u, s[i].name) = FieldNamed(t, s[i].name)
            BY <4>2 DEF NamesIn
          <6>. QED  BY <6>1, <6>2, <6>3 DEF Retype
        <5>. QED  BY <5>1, <5>2
      <4>. QED  BY <3>2, <4>4 DEF q
    <3>. QED  BY <1>3, <3>7, <3>9, <3>10 DEF RetypedIs, r
  <2>. QED  BY <2>9, <2>10
<1>. QED  BY <1>5, <1>6

\* Additions go through when no name is there yet, and come after.
Addable(s, rs) == \A r \in ToSet(rs) : r.name \notin NamesIn(s)
AddedIs(s, rs) ==
    LET r == FoldedWith(Changing("add"), Patched("None", s), rs)
    IN  /\ r.err = "None" <=> Addable(s, rs)
        /\ r.err = "None" => r.fields = s \o rs

\* The names of two schemas joined.
LEMMA NamesJoined ==
    ASSUME NEW X, NEW s \in Seq(X), NEW t \in Seq(X)
    PROVE  /\ s \o t \in Seq(X) /\ ToSet(s \o t) = ToSet(s) \union ToSet(t)
           /\ NamesIn(s \o t) = NamesIn(s) \union NamesIn(t)
           /\ Names(s \o t) = Names(s) \o Names(t)
           /\ Distinct(s \o t) <=> Distinct(s) /\ Distinct(t) /\ NamesIn(s) \intersect NamesIn(t) = {}
<1>. DEFINE m == Len(s)
            n == Len(t)
            c == s \o t
<1>1. /\ c \in Seq(X) /\ m \in Nat /\ n \in Nat /\ Len(c) = m + n /\ DOMAIN c = 1 .. m + n
      /\ DOMAIN s = 1 .. m /\ DOMAIN t = 1 .. n
      /\ \A i \in 1 .. m : c[i] = s[i] /\ i \in 1 .. m + n
      /\ \A i \in 1 .. n : c[i + m] = t[i] /\ i + m \in 1 .. m + n
      /\ \A i \in 1 .. m + n : i \in 1 .. m \/ (i - m \in 1 .. n /\ c[i] = t[i - m] /\ i = (i - m) + m)
  OBVIOUS
<1>. HIDE DEF m, n, c
<1>2. ToSet(c) = ToSet(s) \union ToSet(t)
  <2>1. \A x \in ToSet(c) : x \in ToSet(s) \union ToSet(t)
    BY <1>1 DEF ToSet
  <2>2. \A x \in ToSet(s) : x \in ToSet(c)
    BY <1>1 DEF ToSet
  <2>3. ASSUME NEW x \in ToSet(t)
        PROVE  x \in ToSet(c)
    <3>1. PICK i \in 1 .. n : x = t[i]
      BY <1>1 DEF ToSet
    <3>2. x = c[i + m] /\ i + m \in DOMAIN c
      BY <1>1, <3>1
    <3>. QED  BY <3>2 DEF ToSet
  <2>. QED  BY <2>1, <2>2, <2>3
<1>3. NamesIn(c) = NamesIn(s) \union NamesIn(t)
  BY <1>2 DEF NamesIn
<1>4. Names(c) = Names(s) \o Names(t)
  <2>1. Names(s) = [i \in 1 .. m |-> s[i].name] /\ Names(t) = [i \in 1 .. n |-> t[i].name]
          /\ Names(c) = [i \in 1 .. m + n |-> c[i].name]
    BY <1>1 DEF Names
  <2>. DEFINE Y == NamesIn(c)
              p == Names(s)
              q == Names(t)
  <2>2. p \in Seq(Y) /\ Len(p) = m /\ q \in Seq(Y) /\ Len(q) = n
    <3>1. \A i \in 1 .. m : s[i].name \in Y
      BY <1>1, <1>3 DEF NamesIn, ToSet
    <3>2. \A i \in 1 .. n : t[i].name \in Y
      BY <1>1, <1>3 DEF NamesIn, ToSet
    <3>. HIDE DEF Y
    <3>3. p = [i \in 1 .. m |-> s[i].name] /\ q = [i \in 1 .. n |-> t[i].name]
      BY <2>1
    <3>. HIDE DEF p, q
    <3>4. p \in [1 .. m -> Y]
      BY <3>1, <3>3
    <3>5. q \in [1 .. n -> Y]
      BY <3>2, <3>3
    <3>6. p \in Seq(Y) /\ Len(p) = m
      BY <1>1, <3>4
    <3>7. q \in Seq(Y) /\ Len(q) = n
      BY <1>1, <3>5
    <3>. QED  BY <3>6, <3>7
  <2>3. /\ \A i \in 1 .. m : p[i] = c[i].name
        /\ \A i \in 1 .. n : q[i] = c[i + m].name
    BY <1>1, <2>1
  <2>. HIDE DEF p, q, Y
  <2>4. p \o q = [i \in 1 .. m + n |-> c[i].name]
    <3>1. Len(p \o q) = m + n /\ p \o q \in Seq(Y)
      BY <2>2, ConcatProperties
    <3>2. \A i \in 1 .. m + n : (p \o q)[i] = c[i].name
      BY <1>1, <2>2, <2>3
    <3>3. DOMAIN (p \o q) = 1 .. m + n
      BY <1>1, <3>1
    <3>. DEFINE v == p \o q
    <3>. HIDE DEF v
    <3>4. v = [i \in DOMAIN v |-> v[i]]
      <4>1. v \in Seq(Y)
        BY <3>1 DEF v
      <4>. QED  BY <4>1
    <3>5. DOMAIN v = 1 .. m + n /\ \A i \in 1 .. m + n : v[i] = c[i].name
      BY <3>2, <3>3 DEF v
    <3>. QED  BY <3>4, <3>5 DEF v
  <2>. QED  BY <2>1, <2>4 DEF p, q
<1>5. Distinct(c) <=> Distinct(s) /\ Distinct(t) /\ NamesIn(s) \intersect NamesIn(t) = {}
  <2>1. ASSUME Distinct(c)
        PROVE  Distinct(s) /\ Distinct(t) /\ NamesIn(s) \intersect NamesIn(t) = {}
    <3>0. \A i, j \in 1 .. m + n : c[i].name = c[j].name => i = j
      BY <1>1, <2>1 DEF Distinct
    <3>1. Distinct(s)
      BY <1>1, <3>0 DEF Distinct
    <3>2. Distinct(t)
      <4>. SUFFICES ASSUME NEW i \in 1 .. n, NEW j \in 1 .. n, t[i].name = t[j].name
                    PROVE  i = j
        BY <1>1 DEF Distinct
      <4>1. i + m = j + m
        BY <1>1, <3>0
      <4>. QED  BY <1>1, <4>1
    <3>3. ASSUME NEW i \in 1 .. m, NEW j \in 1 .. n
          PROVE  s[i].name # t[j].name
      <4>1. c[i].name = s[i].name /\ c[j + m].name = t[j].name /\ i # j + m
        BY <1>1
      <4>2. i \in 1 .. m + n /\ j + m \in 1 .. m + n
        BY <1>1
      <4>. QED  BY <3>0, <4>1, <4>2
    <3>4. NamesIn(s) \intersect NamesIn(t) = {}
      BY <1>1, <3>3 DEF NamesIn, ToSet
    <3>. QED  BY <3>1, <3>2, <3>4
  <2>2. ASSUME Distinct(s), Distinct(t), NamesIn(s) \intersect NamesIn(t) = {}
        PROVE  Distinct(c)
    <3>1. ASSUME NEW i \in 1 .. m, NEW j \in 1 .. n
          PROVE  s[i].name # t[j].name
      <4>1. s[i] \in ToSet(s) /\ t[j] \in ToSet(t)
        BY <1>1 DEF ToSet
      <4>2. s[i].name \in NamesIn(s) /\ t[j].name \in NamesIn(t)
        BY <4>1 DEF NamesIn
      <4>. QED  BY <2>2, <4>2
    <3>2. \A i, j \in 1 .. m : s[i].name = s[j].name => i = j
      BY <1>1, <2>2 DEF Distinct
    <3>3. \A i, j \in 1 .. n : t[i].name = t[j].name => i = j
      BY <1>1, <2>2 DEF Distinct
    <3>. SUFFICES ASSUME NEW i \in 1 .. m + n, NEW j \in 1 .. m + n, c[i].name = c[j].name
                  PROVE  i = j
      BY <1>1 DEF Distinct
    <3>4. CASE i \in 1 .. m /\ j \in 1 .. m
      BY <1>1, <3>2, <3>4
    <3>5. CASE i \in 1 .. m /\ j \notin 1 .. m
      BY <1>1, <3>1, <3>5
    <3>6. CASE i \notin 1 .. m /\ j \in 1 .. m
      BY <1>1, <3>1, <3>6
    <3>7. CASE i \notin 1 .. m /\ j \notin 1 .. m
      <4>1. i - m = j - m
        BY <1>1, <3>3, <3>7
      <4>. QED  BY <1>1, <4>1
    <3>. QED  BY <3>4, <3>5, <3>6, <3>7
  <2>. QED  BY <2>1, <2>2
<1>. QED  BY <1>1, <1>2, <1>3, <1>4, <1>5 DEF c

\* One more joined is joined with one more.
LEMMA JoinedOneMore ==
    ASSUME NEW X, NEW s \in Seq(X), NEW t \in Seq(X), NEW x \in X
    PROVE  s \o Append(t, x) = Append(s \o t, x)
OBVIOUS

\* So they do.
LEMMA FieldsAdded ==
    ASSUME NEW X, NEW s \in Seq(X), NEW rs \in Seq(X), Distinct(rs)
    PROVE  AddedIs(s, rs)
<1>. DEFINE T == {n \in Nat : \E t \in Seq(X) : Len(t) = n /\ Distinct(t) /\ ~AddedIs(s, t)}
<1>1. SUFFICES ASSUME T # {}
               PROVE  FALSE
  OBVIOUS
<1>2. PICK n \in T : \A k \in T : n <= k
  BY <1>1, Least
<1>3. PICK t \in Seq(X) : Len(t) = n /\ Distinct(t) /\ ~AddedIs(s, t)
  BY <1>2
<1>4. \A u \in Seq(X) : Len(u) \in Nat /\ (Distinct(u) /\ ~AddedIs(s, u) => Len(u) \in T)
  OBVIOUS
<1>. HIDE DEF T
<1>5. CASE n = 0
  <2>1. t = << >>
    BY <1>3, <1>5
  <2>2. FoldedWith(Changing("add"), Patched("None", s), << >>) = Patched("None", s)
    BY NoTurn
  <2>3. Addable(s, << >>) /\ Patched("None", s).err = "None" /\ Patched("None", s).fields = s
          /\ s \o << >> = s
    BY DEF Addable, Patched, ToSet
  <2>4. AddedIs(s, << >>)
    BY <2>2, <2>3 DEF AddedIs
  <2>. QED  BY <1>3, <2>1, <2>4
<1>6. CASE n # 0
  <2>1. PICK u \in Seq(X), x \in X : t = Append(u, x) /\ Len(u) = n - 1
    BY <1>3, <1>6, Longer
  <2>2. Distinct(u) /\ \A f \in ToSet(u) : f.name # x.name
    BY <1>3, <2>1, DistinctOneMore
  <2>3. AddedIs(s, u)
    BY <1>2, <1>3, <1>4, <2>1, <2>2
  <2>. DEFINE acc == FoldedWith(Changing("add"), Patched("None", s), u)
              w == acc.fields
              r == FoldedWith(Changing("add"), Patched("None", s), t)
  <2>4. r = IF acc.err # "None" THEN acc ELSE Adding(w, x)
    <3>1. Change("add", w, x) = Adding(w, x)
      BY DEF Change
    <3>. QED  BY <2>1, <3>1, ChangesInTurn
  <2>5. ToSet(t) = ToSet(u) \union {x}
    BY <2>1, HoldsOneMore
  <2>7. x.name \notin NamesIn(u)
    BY <2>2 DEF NamesIn
  <2>8. (acc.err = "None" <=> Addable(s, u)) /\ (acc.err = "None" => w = s \o u)
    BY <2>3 DEF AddedIs
  <2>. HIDE DEF acc, r
  <2>9. CASE acc.err # "None"
    <3>1. r = acc
      BY <2>4, <2>9
    <3>2. ~Addable(s, t)
      BY <2>5, <2>8, <2>9 DEF Addable
    <3>. QED  BY <1>3, <2>9, <3>1, <3>2 DEF AddedIs, r
  <2>10. CASE acc.err = "None"
    <3>1. w = s \o u /\ NamesIn(s \o u) = NamesIn(s) \union NamesIn(u)
      BY <2>8, <2>10, NamesJoined
    <3>2. HasName(w, x.name) <=> x.name \in NamesIn(s)
      <4>1. HasName(w, x.name) <=> x.name \in NamesIn(w)
        BY DEF HasName, NamesIn, ToSet
      <4>. QED  BY <2>7, <3>1, <4>1
    <3>3. r.err = "None" <=> ~HasName(w, x.name)
      BY <2>4, <2>10 DEF Adding, Patched
    <3>4. r.err = "None" => r.fields = Append(w, x)
      BY <2>4, <2>10 DEF Adding, Patched
    <3>5. Append(w, x) = s \o t
      <4>1. s \o Append(u, x) = Append(s \o u, x)
        BY <2>1, JoinedOneMore
      <4>. QED  BY <2>1, <3>1, <4>1
    <3>6. r.err = "None" <=> Addable(s, t)
      BY <2>5, <2>8, <2>10, <3>2, <3>3 DEF Addable
    <3>. QED  BY <1>3, <3>4, <3>5, <3>6 DEF AddedIs, r
  <2>. QED  BY <2>9, <2>10
<1>. QED  BY <1>5, <1>6

\* One member of one field's metadata changed.
AmendmentOf(n, m, b, a) == [name |-> n, change |-> [member |-> m, before |-> b, after |-> a]]
PutMember(w, n, m, a) == [i \in DOMAIN w |-> IF w[i].name = n THEN [w[i] EXCEPT !.meta[m] = a] ELSE w[i]]

PutHolds(w, n, m, a, q) ==
    /\ IsFields(q) /\ DOMAIN q = DOMAIN w /\ q = [i \in DOMAIN w |-> q[i]]
    /\ \A i \in DOMAIN w : /\ q[i].name = w[i].name /\ q[i].type = w[i].type /\ IsField(q[i])
                           /\ q[i].meta.unit = IF w[i].name = n /\ m = "unit" THEN a ELSE w[i].meta.unit
                           /\ q[i].meta.label = IF w[i].name = n /\ m = "label" THEN a ELSE w[i].meta.label

\* It stays a schema, and nothing else of it changes.
LEMMA PutIs ==
    ASSUME NEW w, IsFields(w), NEW n, NEW m \in {"unit", "label"}, NEW a
    PROVE  PutHolds(w, n, m, a, PutMember(w, n, m, a))
<1>. DEFINE q == PutMember(w, n, m, a)
<1>1. q = [i \in DOMAIN w |-> q[i]] /\ DOMAIN q = DOMAIN w
  BY DEF PutMember
<1>2. ASSUME NEW i \in DOMAIN w
      PROVE  /\ q[i].name = w[i].name /\ q[i].type = w[i].type /\ IsField(q[i])
             /\ q[i].meta.unit = IF w[i].name = n /\ m = "unit" THEN a ELSE w[i].meta.unit
             /\ q[i].meta.label = IF w[i].name = n /\ m = "label" THEN a ELSE w[i].meta.label
  <2>1. IsField(w[i])
    BY DEF IsFields, ToSet
  <2>2. q[i] = IF w[i].name = n THEN [w[i] EXCEPT !.meta[m] = a] ELSE w[i]
    BY DEF PutMember
  <2>. HIDE DEF q
  <2>. DEFINE f == w[i]
              g == q[i]
  <2>3. f = [name |-> f.name, type |-> f.type, meta |-> [unit |-> f.meta.unit, label |-> f.meta.label]]
    BY <2>1 DEF IsField
  <2>4. g = IF f.name = n THEN [f EXCEPT !.meta[m] = a] ELSE f
    BY <2>2
  <2>. HIDE DEF f, g
  <2>5. CASE f.name # n
    <3>1. g = f
      BY <2>4, <2>5
    <3>. QED  BY <2>1, <2>5, <3>1 DEF f, g
  <2>6. CASE f.name = n /\ m = "unit"
    <3>1. g = [name |-> f.name, type |-> f.type, meta |-> [unit |-> a, label |-> f.meta.label]]
      BY <2>3, <2>4, <2>6
    <3>2. /\ g.name = f.name /\ g.type = f.type /\ g.meta.unit = a /\ g.meta.label = f.meta.label
          /\ IsField(g)
      BY <3>1 DEF IsField
    <3>. QED  BY <2>6, <3>2 DEF f, g
  <2>7. CASE f.name = n /\ m = "label"
    <3>1. g = [name |-> f.name, type |-> f.type, meta |-> [unit |-> f.meta.unit, label |-> a]]
      BY <2>3, <2>4, <2>7
    <3>2. /\ g.name = f.name /\ g.type = f.type /\ g.meta.unit = f.meta.unit /\ g.meta.label = a
          /\ IsField(g)
      BY <3>1 DEF IsField
    <3>. QED  BY <2>7, <3>2 DEF f, g
  <2>. QED  BY <2>5, <2>6, <2>7
<1>3. IsFields(q)
  <2>. HIDE DEF q
  <2>. QED  BY <1>1, <1>2, SameNames
<1>. HIDE DEF q
<1>4. PutHolds(w, n, m, a, q)
  BY <1>1, <1>2, <1>3 DEF PutHolds
<1>. QED  BY <1>4 DEF q

\* An amendment goes through when the member is as it was told to be.
LEMMA AmendOne ==
    ASSUME NEW w, IsFields(w), NEW n, NEW m \in {"unit", "label"}, NEW b, NEW a
    PROVE  LET r == Amending(w, AmendmentOf(n, m, b, a))
           IN  /\ r.err = "None" <=> \E f \in ToSet(w) : f.name = n /\ f.meta[m] = b
               /\ r.err = "None" => r.fields = PutMember(w, n, m, a)
<1>. DEFINE r == Amending(w, AmendmentOf(n, m, b, a))
            p == Position(w, n)
<1>0. w \in Seq(ToSet(w)) /\ Distinct(w)
  BY DEF IsFields
<1>1. AmendmentOf(n, m, b, a).name = n /\ AmendmentOf(n, m, b, a).change.member = m
        /\ AmendmentOf(n, m, b, a).change.before = b /\ AmendmentOf(n, m, b, a).change.after = a
  BY DEF AmendmentOf
<1>2. r = IF ~HasName(w, n) THEN Patched("AbsentColumn", w)
          ELSE IF w[p].meta[m] # b THEN Patched("MetadataDisagrees", w)
          ELSE Patched("None", [w EXCEPT ![p].meta[m] = a])
  BY <1>1 DEF Amending
<1>. HIDE DEF r, p
<1>3. CASE ~HasName(w, n)
  <2>1. \A f \in ToSet(w) : f.name # n
    BY <1>3 DEF HasName, ToSet
  <2>. QED  BY <1>2, <1>3, <2>1 DEF r, Patched
<1>4. CASE HasName(w, n)
  <2>1. PICK j \in DOMAIN w : w[j].name = n
    BY <1>4 DEF HasName
  <2>2. p = j
    BY <1>0, <2>1, NamedField DEF p
  <2>3. \A i \in DOMAIN w : w[i].name = n <=> i = j
    BY <1>0, <2>1 DEF Distinct
  <2>4. (\E f \in ToSet(w) : f.name = n /\ f.meta[m] = b) <=> w[j].meta[m] = b
    <3>1. \A f \in ToSet(w) : \E i \in DOMAIN w : f = w[i]
      BY DEF ToSet
    <3>2. w[j] \in ToSet(w)
      BY DEF ToSet
    <3>. QED  BY <2>1, <2>3, <3>1, <3>2
  <2>5. [w EXCEPT ![p].meta[m] = a] = PutMember(w, n, m, a)
    <3>1. w = [i \in DOMAIN w |-> w[i]]
      BY <1>0
    <3>2. [w EXCEPT ![p].meta[m] = a] =
            [i \in DOMAIN w |-> IF i = p THEN [w[i] EXCEPT !.meta[m] = a] ELSE w[i]]
      BY <3>1
    <3>3. \A i \in DOMAIN w : (IF i = p THEN [w[i] EXCEPT !.meta[m] = a] ELSE w[i]) =
            (IF w[i].name = n THEN [w[i] EXCEPT !.meta[m] = a] ELSE w[i])
      BY <2>2, <2>3
    <3>. QED  BY <3>2, <3>3 DEF PutMember
  <2>. QED  BY <1>2, <1>4, <2>2, <2>4, <2>5 DEF r, Patched
<1>. QED  BY <1>3, <1>4

\* The changes of a field, unit before label.
UnitTold(f, g) == AmendmentOf(f.name, "unit", f.meta.unit, g.meta.unit)
LabelTold(f, g) == AmendmentOf(f.name, "label", f.meta.label, g.meta.label)

\* A sequence with one more, place by place.
LEMMA OneMore ==
    ASSUME NEW X, NEW s \in Seq(X), NEW x \in X
    PROVE  /\ Append(s, x) \in Seq(X) /\ Append(s, x) = [i \in DOMAIN Append(s, x) |-> Append(s, x)[i]]
           /\ DOMAIN Append(s, x) = 1 .. Len(s) + 1 /\ Len(s) \in Nat
           /\ \A i \in 1 .. Len(s) : Append(s, x)[i] = s[i]
           /\ Append(s, x)[Len(s) + 1] = x
<1>. DEFINE p == Append(s, x)
<1>1. p \in Seq(X)
  OBVIOUS
<1>2. p = [i \in DOMAIN p |-> p[i]]
  <2>. HIDE DEF p
  <2>. QED  BY <1>1
<1>3. /\ DOMAIN p = 1 .. Len(s) + 1 /\ Len(s) \in Nat
      /\ \A i \in 1 .. Len(s) : p[i] = s[i]
      /\ p[Len(s) + 1] = x
  OBVIOUS
<1>. QED  BY <1>1, <1>2, <1>3

\* One and one more.
LEMMA OneThenOne ==
    ASSUME NEW X, NEW s \in Seq(X), Len(s) = 1, NEW x \in X
    PROVE  Append(s, x) = <<s[1], x>>
<1>. DEFINE p == Append(s, x)
            n == Len(s)
<1>1. /\ p = [i \in DOMAIN p |-> p[i]] /\ DOMAIN p = 1 .. n + 1 /\ n \in Nat
      /\ \A i \in 1 .. n : p[i] = s[i]
      /\ p[n + 1] = x
  BY OneMore
<1>2. n = 1
  OBVIOUS
<1>. HIDE DEF p, n
<1>3. DOMAIN p = 1 .. 2 /\ p[1] = s[1] /\ p[2] = x
  BY <1>1, <1>2
<1>4. p = [i \in 1 .. 2 |-> p[i]]
  BY <1>1, <1>3
<1>. DEFINE q == <<s[1], x>>
<1>5. q = [i \in 1 .. 2 |-> q[i]] /\ q[1] = s[1] /\ q[2] = x
  OBVIOUS
<1>. HIDE DEF q
<1>6. \A i \in 1 .. 2 : p[i] = q[i]
  BY <1>3, <1>5
<1>. QED  BY <1>4, <1>5, <1>6 DEF p, q

\* Which they are.
LEMMA AmendmentsAre ==
    ASSUME NEW f, NEW g
    PROVE  Amendments(f, g) =
             IF f.meta.unit # g.meta.unit
             THEN IF f.meta.label # g.meta.label THEN <<UnitTold(f, g), LabelTold(f, g)>>
               ELSE <<UnitTold(f, g)>>
             ELSE IF f.meta.label # g.meta.label THEN <<LabelTold(f, g)>> ELSE << >>
<1>. DEFINE S == {m \in ToSet(Members) : f.meta[m] # g.meta[m]}
            X == {"unit", "label"}
            one == <<"unit">>
<1>0. X = {"unit", "label"} /\ "unit" \in X /\ "label" \in X
  OBVIOUS
<1>. HIDE DEF X
<1>1. << >> \in Seq(X) /\ one \in Seq(X) /\ Append(<< >>, "unit") = one /\ Append(one, "label") = Members
  <2>1. Append(<< >>, "unit") = one
    OBVIOUS
  <2>2. Append(one, "label") = Members
    <3>1. one \in Seq({"unit", "label"}) /\ Len(one) = 1 /\ one[1] = "unit"
      OBVIOUS
    <3>. HIDE DEF one
    <3>2. Append(one, "label") = <<one[1], "label">>
      BY <3>1, OneThenOne
    <3>. QED  BY <3>1, <3>2 DEF Members
  <2>3. << >> \in Seq(X) /\ one \in Seq(X)
    BY <1>0
  <2>. QED  BY <2>1, <2>2, <2>3
<1>. HIDE DEF one
<1>2. ToSet(Members) = X
  <2>1. ToSet(<< >>) = {}
    BY DEF ToSet
  <2>2. ToSet(Append(<< >>, "unit")) = ToSet(<< >>) \union {"unit"}
    BY <1>0, <1>1, HoldsOneMore
  <2>3. ToSet(Append(one, "label")) = ToSet(one) \union {"label"}
    BY <1>0, <1>1, HoldsOneMore
  <2>. QED  BY <1>0, <1>1, <2>1, <2>2, <2>3
<1>3. /\ "unit" \in S <=> f.meta.unit # g.meta.unit
      /\ "label" \in S <=> f.meta.label # g.meta.label
  BY <1>0, <1>2
<1>. HIDE DEF S
<1>4. Among(one, S) = IF "unit" \in S THEN one ELSE << >>
  <2>1. Among(<< >>, S) = << >>
    BY AmongIs, NoTurn
  <2>2. Among(Append(<< >>, "unit"), S) =
          IF "unit" \in S THEN Append(Among(<< >>, S), "unit") ELSE Among(<< >>, S)
    <3>. DEFINE nil == << >>
                unit == "unit"
    <3>1. nil \in Seq(X) /\ unit \in X
      BY <1>0, <1>1
    <3>. HIDE DEF nil, unit
    <3>2. Among(Append(nil, unit), S) = IF unit \in S THEN Append(Among(nil, S), unit) ELSE Among(nil, S)
      BY <3>1, AmongOne
    <3>. QED  BY <3>2 DEF nil, unit
  <2>. QED  BY <1>1, <2>1, <2>2
<1>5. Among(Members, S) = IF "label" \in S THEN Append(Among(one, S), "label") ELSE Among(one, S)
  <2>1. Among(Append(one, "label"), S) =
          IF "label" \in S THEN Append(Among(one, S), "label") ELSE Among(one, S)
    BY <1>0, <1>1, AmongOne
  <2>. QED  BY <1>1, <2>1
<1>. DEFINE moved == Among(Members, S)
<1>6. Amendments(f, g) =
        [k \in DOMAIN moved |-> AmendmentOf(f.name, moved[k], f.meta[moved[k]], g.meta[moved[k]])]
  <2>. DEFINE c == [k \in DOMAIN moved |->
                      [member |-> moved[k], before |-> f.meta[moved[k]], after |-> g.meta[moved[k]]]]
  <2>1. Changes(f.meta, g.meta) = c
    BY DEF Changes, S
  <2>2. Amendments(f, g) = [k \in DOMAIN c |-> [name |-> f.name, change |-> c[k]]]
    BY <2>1 DEF Amendments
  <2>3. DOMAIN c = DOMAIN moved
          /\ \A k \in DOMAIN moved : c[k] =
          [member |-> moved[k], before |-> f.meta[moved[k]], after |-> g.meta[moved[k]]]
    OBVIOUS
  <2>. HIDE DEF c, moved
  <2>. QED  BY <2>2, <2>3 DEF AmendmentOf
<1>7. CASE f.meta.unit # g.meta.unit /\ f.meta.label # g.meta.label
  <2>1. moved = <<"unit", "label">>
    BY <1>1, <1>3, <1>4, <1>5, <1>7 DEF Members
  <2>2. DOMAIN <<"unit", "label">> = {1, 2}
    OBVIOUS
  <2>. HIDE DEF moved
  <2>. QED  BY <1>6, <1>7, <2>1, <2>2 DEF UnitTold, LabelTold
<1>8. CASE f.meta.unit # g.meta.unit /\ f.meta.label = g.meta.label
  <2>1. moved = <<"unit">>
    BY <1>3, <1>4, <1>5, <1>8 DEF one
  <2>. HIDE DEF moved
  <2>. QED  BY <1>6, <1>8, <2>1 DEF UnitTold, LabelTold
<1>9. CASE f.meta.unit = g.meta.unit /\ f.meta.label # g.meta.label
  <2>1. moved = <<"label">>
    <3>1. moved = Append(<< >>, "label")
      BY <1>3, <1>4, <1>5, <1>9
    <3>. QED  BY <3>1
  <2>. HIDE DEF moved
  <2>. QED  BY <1>6, <1>9, <2>1 DEF UnitTold, LabelTold
<1>10. CASE f.meta.unit = g.meta.unit /\ f.meta.label = g.meta.label
  <2>1. moved = << >>
    BY <1>3, <1>4, <1>5, <1>10
  <2>. HIDE DEF moved
  <2>. QED  BY <1>6, <1>10, <2>1 DEF UnitTold, LabelTold
<1>. QED  BY <1>7, <1>8, <1>9, <1>10

\* A field with what one field's metadata has become in another.
Amend(h, f, g) ==
    [h EXCEPT !.meta = [unit  |-> IF f.meta.unit = g.meta.unit THEN h.meta.unit ELSE g.meta.unit,
                        label |-> IF f.meta.label = g.meta.label THEN h.meta.label ELSE g.meta.label]]

\* Nothing else of the field changes.
LEMMA AmendIs ==
    ASSUME NEW h, IsField(h), NEW f, NEW g
    PROVE  /\ IsField(Amend(h, f, g)) /\ Amend(h, f, g).name = h.name /\ Amend(h, f, g).type = h.type
           /\ Amend(h, f, g).meta.unit = IF f.meta.unit = g.meta.unit THEN h.meta.unit ELSE g.meta.unit
           /\ Amend(h, f, g).meta.label = IF f.meta.label = g.meta.label THEN h.meta.label ELSE g.meta.label
<1>. DEFINE u == IF f.meta.unit = g.meta.unit THEN h.meta.unit ELSE g.meta.unit
            l == IF f.meta.label = g.meta.label THEN h.meta.label ELSE g.meta.label
            q == Amend(h, f, g)
<1>1. q = [h EXCEPT !.meta = [unit |-> u, label |-> l]]
  BY DEF Amend
<1>2. h = [name |-> h.name, type |-> h.type, meta |-> [unit |-> h.meta.unit, label |-> h.meta.label]]
  BY DEF IsField
<1>. HIDE DEF u, l, q
<1>3. q = [name |-> h.name, type |-> h.type, meta |-> [unit |-> u, label |-> l]]
  BY <1>1, <1>2
<1>4. IsField(q) /\ q.name = h.name /\ q.type = h.type /\ q.meta.unit = u /\ q.meta.label = l
  BY <1>3 DEF IsField
<1>. QED  BY <1>4 DEF u, l, q

\* Fields that are alike member by member are one.
LEMMA OneField ==
    ASSUME NEW f, IsField(f), NEW g, IsField(g),
           f.name = g.name, f.type = g.type, f.meta.unit = g.meta.unit, f.meta.label = g.meta.label
    PROVE  f = g
BY DEF IsField

\* What the changes from one field to another ask of a schema, and make of it.
CanAmend(w, f, g) ==
    /\ f.meta.unit # g.meta.unit => \E h \in ToSet(w) : h.name = f.name /\ h.meta.unit = f.meta.unit
    /\ f.meta.label # g.meta.label => \E h \in ToSet(w) : h.name = f.name /\ h.meta.label = f.meta.label
FieldAmended(w, f, g) == [i \in DOMAIN w |-> IF w[i].name = f.name THEN Amend(w[i], f, g) ELSE w[i]]

\* One more amendment, and its turn.
LEMMA AmendTurn ==
    ASSUME NEW first, NEW cs, cs \in Seq(ToSet(cs)), NEW x
    PROVE  LET acc == FoldedWith(Changing("amend"), first, cs)
               r == FoldedWith(Changing("amend"), first, Append(cs, x))
           IN  /\ Append(cs, x) \in Seq(ToSet(Append(cs, x)))
               /\ r = IF acc.err # "None" THEN acc ELSE Amending(acc.fields, x)
<1>. DEFINE X == ToSet(cs) \union {x}
<1>1. ToSet(cs) \subseteq X /\ x \in X
  OBVIOUS
<1>. HIDE DEF X
<1>2. cs \in Seq(X)
  BY <1>1 DEF ToSet
<1>3. Append(cs, x) \in Seq(X)
  BY <1>1, <1>2
<1>4. Append(cs, x) \in Seq(ToSet(Append(cs, x)))
  BY <1>3, OfItsOwn
<1>5. \A s : Change("amend", s, x) = Amending(s, x)
  BY DEF Change
<1>. QED  BY <1>1, <1>2, <1>4, <1>5, ChangesInTurn

\* The amendments of one field.
AmendsBlock(w, f, g, acc, r) ==
    /\ acc.err # "None" => r.err # "None"
    /\ acc.err = "None" => (r.err = "None" <=> CanAmend(w, f, g))
    /\ r.err = "None" => r.fields = FieldAmended(w, f, g)

\* The two members of a field are apart: neither amendment disturbs what the other asks.
LEMMA AmendBlock ==
    ASSUME NEW first, NEW cs, cs \in Seq(ToSet(cs)), NEW f, NEW g, NEW w,
           LET acc == FoldedWith(Changing("amend"), first, cs) IN acc.err = "None" => acc.fields = w,
           IsFields(w)
    PROVE  AmendsBlock(w, f, g, FoldedWith(Changing("amend"), first, cs),
             FoldedWith(Changing("amend"), first, cs \o Amendments(f, g)))
<1>. DEFINE acc == FoldedWith(Changing("amend"), first, cs)
            r == FoldedWith(Changing("amend"), first, cs \o Amendments(f, g))
            u == UnitTold(f, g)
            l == LabelTold(f, g)
            n == f.name
            w1 == PutMember(w, n, "unit", g.meta.unit)
<1>0. acc.err = "None" => acc.fields = w
  OBVIOUS
<1>1. \A i \in DOMAIN w : IsField(w[i]) /\ w[i] \in ToSet(w)
  BY DEF IsFields, ToSet
<1>2. \A i \in DOMAIN w : LET a == Amend(w[i], f, g)
        IN  /\ IsField(a) /\ a.name = w[i].name /\ a.type = w[i].type
            /\ a.meta.unit = IF f.meta.unit = g.meta.unit THEN w[i].meta.unit ELSE g.meta.unit
            /\ a.meta.label = IF f.meta.label = g.meta.label THEN w[i].meta.label ELSE g.meta.label
  BY <1>1, AmendIs
<1>3. ASSUME NEW p, p = [i \in DOMAIN w |-> p[i]],
             \A i \in DOMAIN w : /\ IsField(p[i]) /\ p[i].name = w[i].name /\ p[i].type = w[i].type
                                 /\ p[i].meta.unit =
                                      IF w[i].name = n /\ f.meta.unit # g.meta.unit THEN g.meta.unit
                                      ELSE w[i].meta.unit
                                 /\ p[i].meta.label =
                                      IF w[i].name = n /\ f.meta.label # g.meta.label THEN g.meta.label
                                      ELSE w[i].meta.label
      PROVE  p = FieldAmended(w, f, g)
  <2>1. ASSUME NEW i \in DOMAIN w
        PROVE  p[i] = IF w[i].name = f.name THEN Amend(w[i], f, g) ELSE w[i]
    <3>1. CASE w[i].name = n
      BY <1>2, <1>3, <3>1, OneField
    <3>2. CASE w[i].name # n
      BY <1>1, <1>3, <3>2, OneField
    <3>. QED  BY <3>1, <3>2
  <2>. QED  BY <1>3, <2>1 DEF FieldAmended
<1>4. /\ IsFields(w1) /\ DOMAIN w1 = DOMAIN w
      /\ \A i \in DOMAIN w : /\ w1[i].name = w[i].name /\ w1[i].type = w[i].type /\ IsField(w1[i])
                             /\ w1[i].meta.unit = IF w[i].name = n THEN g.meta.unit ELSE w[i].meta.unit
                             /\ w1[i].meta.label = w[i].meta.label
  <2>1. PutHolds(w, n, "unit", g.meta.unit, w1)
    BY PutIs
  <2>. HIDE DEF w1
  <2>. QED  BY <2>1 DEF PutHolds
<1>5. ASSUME NEW p, NEW m \in {"unit", "label"}, NEW b, NEW a, IsFields(p)
      PROVE  /\ Amending(p, AmendmentOf(n, m, b, a)).err = "None"
                  <=> \E h \in ToSet(p) : h.name = n /\ h.meta[m] = b
             /\ Amending(p, AmendmentOf(n, m, b, a)).err = "None"
                  => Amending(p, AmendmentOf(n, m, b, a)).fields = PutMember(p, n, m, a)
  BY <1>5, AmendOne
<1>6. ASSUME NEW m \in {"unit", "label"}, NEW a
      PROVE  LET p == PutMember(w, n, m, a) IN
             /\ p = [i \in DOMAIN w |-> p[i]]
             /\ \A i \in DOMAIN w : /\ p[i].name = w[i].name /\ p[i].type = w[i].type /\ IsField(p[i])
                                    /\ p[i].meta.unit =
                                         IF w[i].name = n /\ m = "unit" THEN a ELSE w[i].meta.unit
                                    /\ p[i].meta.label =
                                         IF w[i].name = n /\ m = "label" THEN a ELSE w[i].meta.label
  <2>. DEFINE p == PutMember(w, n, m, a)
  <2>1. PutHolds(w, n, m, a, p)
    BY PutIs
  <2>. HIDE DEF p
  <2>2. /\ p = [i \in DOMAIN w |-> p[i]]
        /\ \A i \in DOMAIN w : /\ p[i].name = w[i].name /\ p[i].type = w[i].type /\ IsField(p[i])
                               /\ p[i].meta.unit = IF w[i].name = n /\ m = "unit" THEN a ELSE w[i].meta.unit
                               /\ p[i].meta.label =
                                    IF w[i].name = n /\ m = "label" THEN a ELSE w[i].meta.label
    BY <2>1 DEF PutHolds
  <2>. QED  BY <2>2 DEF p
<1>. HIDE DEF acc, w1, n
<1>7. CASE f.meta.unit # g.meta.unit /\ f.meta.label # g.meta.label
  <2>. DEFINE r1 == FoldedWith(Changing("amend"), first, Append(cs, u))
  <2>1. cs \o Amendments(f, g) = Append(Append(cs, u), l)
    <3>1. Amendments(f, g) = <<u, l>>
      BY <1>7, AmendmentsAre
    <3>. HIDE DEF u, l
    <3>. QED  BY <3>1
  <2>2. Append(cs, u) \in Seq(ToSet(Append(cs, u))) /\ r1 =
          IF acc.err # "None" THEN acc ELSE Amending(acc.fields, u)
    BY AmendTurn DEF acc
  <2>3. r = IF r1.err # "None" THEN r1 ELSE Amending(r1.fields, l)
    <3>. DEFINE more == Append(cs, u)
    <3>1. more \in Seq(ToSet(more))
      BY <2>2
    <3>. HIDE DEF more, r1, l
    <3>2. FoldedWith(Changing("amend"), first, Append(more, l)) =
            LET t == FoldedWith(Changing("amend"), first, more) IN IF t.err # "None" THEN t
              ELSE Amending(t.fields, l)
      BY <3>1, AmendTurn
    <3>3. r = FoldedWith(Changing("amend"), first, Append(more, l))
      BY <2>1 DEF more
    <3>. QED  BY <3>2, <3>3 DEF more, r1
  <2>. HIDE DEF r1, r
  <2>4. u = AmendmentOf(n, "unit", f.meta.unit, g.meta.unit)
          /\ l = AmendmentOf(n, "label", f.meta.label, g.meta.label)
    BY DEF UnitTold, LabelTold, n
  <2>. HIDE DEF u, l
  <2>5. CASE acc.err # "None"
    BY <2>2, <2>3, <2>5 DEF AmendsBlock, acc, r
  <2>6. CASE acc.err = "None" /\ r1.err # "None"
    <3>1. ~ \E h \in ToSet(w) : h.name = n /\ h.meta.unit = f.meta.unit
      BY <1>0, <1>5, <2>2, <2>4, <2>6
    <3>. QED  BY <1>7, <2>3, <2>6, <3>1 DEF AmendsBlock, CanAmend, acc, r, n
  <2>7. CASE acc.err = "None" /\ r1.err = "None"
    <3>1. (\E h \in ToSet(w) : h.name = n /\ h.meta.unit = f.meta.unit) /\ r1.fields = w1
      BY <1>0, <1>5, <2>2, <2>4, <2>7 DEF w1
    <3>2. r = Amending(w1, l)
      BY <2>3, <2>7, <3>1
    <3>3. (\E h \in ToSet(w1) : h.name = n /\ h.meta.label = f.meta.label)
            <=> (\E h \in ToSet(w) : h.name = n /\ h.meta.label = f.meta.label)
      <4>1. \A h \in ToSet(w1) : \E i \in DOMAIN w : h = w1[i]
        BY <1>4 DEF ToSet
      <4>2. \A h \in ToSet(w) : \E i \in DOMAIN w : h = w[i]
        BY DEF ToSet
      <4>3. \A i \in DOMAIN w : w1[i] \in ToSet(w1)
        BY <1>4 DEF ToSet
      <4>. QED  BY <1>1, <1>4, <4>1, <4>2, <4>3
    <3>4. /\ r.err = "None" <=> \E h \in ToSet(w1) : h.name = n /\ h.meta.label = f.meta.label
          /\ r.err = "None" => r.fields = PutMember(w1, n, "label", g.meta.label)
      BY <1>4, <1>5, <2>4, <3>2
    <3>5. PutMember(w1, n, "label", g.meta.label) = FieldAmended(w, f, g)
      <4>. DEFINE p == PutMember(w1, n, "label", g.meta.label)
      <4>0. PutHolds(w1, n, "label", g.meta.label, p)
        BY <1>4, PutIs
      <4>. HIDE DEF p
      <4>1. p = [i \in DOMAIN w |-> p[i]]
        BY <1>4, <4>0 DEF PutHolds
      <4>2. \A i \in DOMAIN w1 : /\ p[i].name = w1[i].name /\ p[i].type = w1[i].type /\ IsField(p[i])
                                 /\ p[i].meta.unit = w1[i].meta.unit
                                 /\ p[i].meta.label =
                                      IF w1[i].name = n THEN g.meta.label ELSE w1[i].meta.label
        BY <4>0 DEF PutHolds
      <4>. QED  BY <1>3, <1>4, <1>7, <4>1, <4>2 DEF p
    <3>. QED  BY <1>7, <2>7, <3>1, <3>3, <3>4, <3>5 DEF AmendsBlock, CanAmend, acc, r, n
  <2>. QED  BY <2>5, <2>6, <2>7
<1>8. CASE f.meta.unit # g.meta.unit /\ f.meta.label = g.meta.label
  <2>1. cs \o Amendments(f, g) = Append(cs, u)
    <3>1. Amendments(f, g) = <<u>>
      BY <1>8, AmendmentsAre
    <3>. HIDE DEF u
    <3>. QED  BY <3>1
  <2>2. r = IF acc.err # "None" THEN acc ELSE Amending(acc.fields, u)
    BY <2>1, AmendTurn DEF acc
  <2>3. u = AmendmentOf(n, "unit", f.meta.unit, g.meta.unit)
    BY DEF UnitTold, n
  <2>. HIDE DEF u, r
  <2>4. CASE acc.err # "None"
    BY <2>2, <2>4 DEF AmendsBlock, acc, r
  <2>5. CASE acc.err = "None"
    <3>1. /\ r.err = "None" <=> \E h \in ToSet(w) : h.name = n /\ h.meta.unit = f.meta.unit
          /\ r.err = "None" => r.fields = PutMember(w, n, "unit", g.meta.unit)
      BY <1>0, <1>5, <2>2, <2>3, <2>5
    <3>2. PutMember(w, n, "unit", g.meta.unit) = FieldAmended(w, f, g)
      <4>. DEFINE p == PutMember(w, n, "unit", g.meta.unit)
      <4>1. /\ p = [i \in DOMAIN w |-> p[i]]
            /\ \A i \in DOMAIN w : /\ p[i].name = w[i].name /\ p[i].type = w[i].type /\ IsField(p[i])
                                   /\ p[i].meta.unit = IF w[i].name = n THEN g.meta.unit ELSE w[i].meta.unit
                                   /\ p[i].meta.label = w[i].meta.label
        BY <1>6
      <4>. HIDE DEF p
      <4>. QED  BY <1>3, <1>8, <4>1 DEF p
    <3>. QED  BY <1>8, <2>5, <3>1, <3>2 DEF AmendsBlock, CanAmend, acc, r, n
  <2>. QED  BY <2>4, <2>5
<1>9. CASE f.meta.unit = g.meta.unit /\ f.meta.label # g.meta.label
  <2>1. cs \o Amendments(f, g) = Append(cs, l)
    <3>1. Amendments(f, g) = <<l>>
      BY <1>9, AmendmentsAre
    <3>. HIDE DEF l
    <3>. QED  BY <3>1
  <2>2. r = IF acc.err # "None" THEN acc ELSE Amending(acc.fields, l)
    BY <2>1, AmendTurn DEF acc
  <2>3. l = AmendmentOf(n, "label", f.meta.label, g.meta.label)
    BY DEF LabelTold, n
  <2>. HIDE DEF l, r
  <2>4. CASE acc.err # "None"
    BY <2>2, <2>4 DEF AmendsBlock, acc, r
  <2>5. CASE acc.err = "None"
    <3>1. /\ r.err = "None" <=> \E h \in ToSet(w) : h.name = n /\ h.meta.label = f.meta.label
          /\ r.err = "None" => r.fields = PutMember(w, n, "label", g.meta.label)
      BY <1>0, <1>5, <2>2, <2>3, <2>5
    <3>2. PutMember(w, n, "label", g.meta.label) = FieldAmended(w, f, g)
      <4>. DEFINE p == PutMember(w, n, "label", g.meta.label)
      <4>1. /\ p = [i \in DOMAIN w |-> p[i]]
            /\ \A i \in DOMAIN w : /\ p[i].name = w[i].name /\ p[i].type = w[i].type /\ IsField(p[i])
                                   /\ p[i].meta.unit = w[i].meta.unit
                                   /\ p[i].meta.label =
                                        IF w[i].name = n THEN g.meta.label ELSE w[i].meta.label
        BY <1>6
      <4>. HIDE DEF p
      <4>. QED  BY <1>3, <1>9, <4>1 DEF p
    <3>. QED  BY <1>9, <2>5, <3>1, <3>2 DEF AmendsBlock, CanAmend, acc, r, n
  <2>. QED  BY <2>4, <2>5
<1>10. CASE f.meta.unit = g.meta.unit /\ f.meta.label = g.meta.label
  <2>1. cs \o Amendments(f, g) = cs
    <3>1. Amendments(f, g) = << >>
      BY <1>10, AmendmentsAre
    <3>. QED  BY <3>1
  <2>2. r = acc
    BY <2>1 DEF acc
  <2>. HIDE DEF r
  <2>3. w = FieldAmended(w, f, g)
    <3>1. w = [i \in DOMAIN w |-> w[i]]
      BY DEF IsFields
    <3>. QED  BY <1>1, <1>3, <1>10, <3>1
  <2>. QED  BY <1>0, <1>10, <2>2, <2>3 DEF AmendsBlock, CanAmend, acc, r
<1>. QED  BY <1>7, <1>8, <1>9, <1>10

\* What is told of the fields that stay, one field after another.
TellsOf(us, target) == FoldedWith(AmendingTo(target), << >>, us)

\* One field more, and what is told of it.
LEMMA TellsOneMore ==
    ASSUME NEW X, NEW us \in Seq(X), NEW x \in X, NEW target
    PROVE  /\ TellsOf(<< >>, target) = << >>
           /\ TellsOf(Append(us, x), target) =
                TellsOf(us, target) \o Amendments(x, FieldNamed(target, x.name))
<1>1. TellsOf(<< >>, target) = << >>
  BY NoTurn DEF TellsOf
<1>2. TellsOf(Append(us, x), target) = Turn(AmendingTo(target), TellsOf(us, target), x)
  BY OneTurn DEF TellsOf
<1>. QED  BY <1>1, <1>2 DEF Turn, AmendingTo

\* Just the members that differ are told.
AmendmentsHold(f, g) ==
    /\ Amendments(f, g) \in Seq(ToSet(Amendments(f, g)))
    /\ \A a : a \in ToSet(Amendments(f, g)) <=> \/ a = UnitTold(f, g) /\ f.meta.unit # g.meta.unit
                                                \/ a = LabelTold(f, g) /\ f.meta.label # g.meta.label

\* So they are told.
LEMMA AmendmentsAreHeld ==
    ASSUME NEW f, NEW g
    PROVE  AmendmentsHold(f, g)
<1>. DEFINE u == UnitTold(f, g)
            l == LabelTold(f, g)
            q == Amendments(f, g)
            X == {u, l}
            two == <<u, l>>
            one == <<u>>
            other == <<l>>
            none == << >>
<1>1. /\ two \in Seq(X) /\ ToSet(two) = {u, l}
      /\ one \in Seq(X) /\ ToSet(one) = {u}
      /\ other \in Seq(X) /\ ToSet(other) = {l}
      /\ none \in Seq(X) /\ ToSet(none) = {}
  <2>. HIDE DEF u, l
  <2>1. two \in Seq(X) /\ one \in Seq(X) /\ other \in Seq(X) /\ none \in Seq(X)
    OBVIOUS
  <2>2. DOMAIN two = {1, 2} /\ two[1] = u /\ two[2] = l
    OBVIOUS
  <2>3. DOMAIN one = {1} /\ one[1] = u /\ DOMAIN other = {1} /\ other[1] = l /\ DOMAIN none = {}
    OBVIOUS
  <2>. HIDE DEF two, one, other, none
  <2>4. ToSet(two) = {u, l}
    BY <2>2 DEF ToSet
  <2>5. ToSet(one) = {u} /\ ToSet(other) = {l} /\ ToSet(none) = {}
    BY <2>3 DEF ToSet
  <2>. QED  BY <2>1, <2>4, <2>5
<1>2. q = IF f.meta.unit # g.meta.unit
          THEN IF f.meta.label # g.meta.label THEN two ELSE one
          ELSE IF f.meta.label # g.meta.label THEN other ELSE none
  BY AmendmentsAre
<1>. HIDE DEF u, l, q, two, one, other, none
<1>3. q \in Seq(X)
  <2>. HIDE DEF X
  <2>. QED  BY <1>1, <1>2
<1>4. q \in Seq(ToSet(q))
  <2>. HIDE DEF X
  <2>. QED  BY <1>3, OfItsOwn
<1>. HIDE DEF X
<1>5. ASSUME NEW a
      PROVE  a \in ToSet(q) <=> (\/ a = u /\ f.meta.unit # g.meta.unit
                                 \/ a = l /\ f.meta.label # g.meta.label)
  <2>1. CASE f.meta.unit # g.meta.unit /\ f.meta.label # g.meta.label
    BY <1>1, <1>2, <2>1
  <2>2. CASE f.meta.unit # g.meta.unit /\ f.meta.label = g.meta.label
    BY <1>1, <1>2, <2>2
  <2>3. CASE f.meta.unit = g.meta.unit /\ f.meta.label # g.meta.label
    BY <1>1, <1>2, <2>3
  <2>4. CASE f.meta.unit = g.meta.unit /\ f.meta.label = g.meta.label
    BY <1>1, <1>2, <2>4
  <2>. QED  BY <2>1, <2>2, <2>3, <2>4
<1>6. q = Amendments(f, g) /\ u = UnitTold(f, g) /\ l = LabelTold(f, g)
  BY DEF q, u, l
<1>. QED  BY <1>4, <1>5, <1>6 DEF AmendmentsHold

\* Just what is told of each.
TellsHold(us, target) ==
    LET told == TellsOf(us, target)
    IN  /\ told \in Seq(ToSet(told))
        /\ \A a : a \in ToSet(told)
             <=> \E f \in ToSet(us) : a \in ToSet(Amendments(f, FieldNamed(target, f.name)))

\* So it is told.
LEMMA TellsAreHeld ==
    ASSUME NEW X, NEW us \in Seq(X), NEW target
    PROVE  TellsHold(us, target)
<1>. DEFINE T == {n \in Nat : \E t \in Seq(X) : Len(t) = n /\ ~TellsHold(t, target)}
<1>1. SUFFICES ASSUME T # {}
               PROVE  FALSE
  OBVIOUS
<1>2. PICK n \in T : \A k \in T : n <= k
  BY <1>1, Least
<1>3. PICK t \in Seq(X) : Len(t) = n /\ ~TellsHold(t, target)
  BY <1>2
<1>4. \A u \in Seq(X) : Len(u) \in Nat /\ (~TellsHold(u, target) => Len(u) \in T)
  OBVIOUS
<1>. HIDE DEF T
<1>5. CASE n = 0
  <2>1. t = << >>
    BY <1>3, <1>5
  <2>2. TellsOf(<< >>, target) = << >>
    BY NoTurn DEF TellsOf
  <2>3. ToSet(<< >>) = {} /\ << >> \in Seq({})
    BY DEF ToSet
  <2>4. TellsHold(<< >>, target)
    BY <2>2, <2>3 DEF TellsHold
  <2>. QED  BY <1>3, <2>1, <2>4
<1>6. CASE n # 0
  <2>1. PICK u \in Seq(X), x \in X : t = Append(u, x) /\ Len(u) = n - 1
    BY <1>3, <1>6, Longer
  <2>2. TellsHold(u, target)
    BY <1>2, <1>3, <1>4, <2>1
  <2>. DEFINE p == TellsOf(u, target)
              q == Amendments(x, FieldNamed(target, x.name))
              r == TellsOf(t, target)
              Y == ToSet(p) \union ToSet(q)
  <2>3. r = p \o q
    BY <2>1, TellsOneMore
  <2>4. ToSet(t) = ToSet(u) \union {x}
    BY <2>1, HoldsOneMore
  <2>5. p \in Seq(ToSet(p)) /\ \A a : a \in ToSet(p)
          <=> \E f \in ToSet(u) : a \in ToSet(Amendments(f, FieldNamed(target, f.name)))
    BY <2>2 DEF TellsHold
  <2>6. q \in Seq(ToSet(q))
    BY AmendmentsAreHeld DEF AmendmentsHold
  <2>7. p \in Seq(Y) /\ q \in Seq(Y)
    <3>. HIDE DEF p, q
    <3>. QED  BY <2>5, <2>6
  <2>8. r \in Seq(Y) /\ ToSet(r) = ToSet(p) \union ToSet(q)
    <3>. HIDE DEF p, q, r, Y
    <3>. QED  BY <2>3, <2>7, NamesJoined
  <2>9. r \in Seq(ToSet(r))
    <3>. HIDE DEF r, Y
    <3>. QED  BY <2>8, OfItsOwn
  <2>10. ASSUME NEW a
         PROVE  a \in ToSet(r) <=> \E f \in ToSet(t) : a \in ToSet(Amendments(f, FieldNamed(target, f.name)))
    <3>. HIDE DEF p, r
    <3>. QED  BY <2>4, <2>5, <2>8
  <2>. HIDE DEF p, q
  <2>. QED  BY <1>3, <2>9, <2>10 DEF TellsHold
<1>. QED  BY <1>5, <1>6

\* A schema with what is told of some of its fields.
AmendAll(s, us, target) ==
    [i \in DOMAIN s |-> IF s[i].name \in NamesIn(us)
                        THEN Amend(s[i], FieldNamed(us, s[i].name), FieldNamed(target, s[i].name)) ELSE s[i]]
Amendable(s, us, target) == \A f \in ToSet(us) : CanAmend(s, f, FieldNamed(target, f.name))
AmendedIs(s, us, target) ==
    LET r == FoldedWith(Changing("amend"), Patched("None", s), TellsOf(us, target))
    IN  /\ r.err = "None" <=> Amendable(s, us, target)
        /\ r.err = "None" => r.fields = AmendAll(s, us, target)

\* Amendments of fields of different names do not disturb each other.
LEMMA Amended ==
    ASSUME NEW s, IsFields(s), NEW X, NEW us \in Seq(X), Distinct(us), NEW target
    PROVE  AmendedIs(s, us, target)
<1>. DEFINE T == {n \in Nat : \E t \in Seq(X) : Len(t) = n /\ Distinct(t) /\ ~AmendedIs(s, t, target)}
<1>1. SUFFICES ASSUME T # {}
               PROVE  FALSE
  OBVIOUS
<1>2. PICK n \in T : \A k \in T : n <= k
  BY <1>1, Least
<1>3. PICK t \in Seq(X) : Len(t) = n /\ Distinct(t) /\ ~AmendedIs(s, t, target)
  BY <1>2
<1>4. \A u \in Seq(X) : Len(u) \in Nat /\ (Distinct(u) /\ ~AmendedIs(s, u, target) => Len(u) \in T)
  OBVIOUS
<1>. HIDE DEF T
<1>0. \A i \in DOMAIN s : IsField(s[i]) /\ s[i] \in ToSet(s)
  BY DEF IsFields, ToSet
<1>5. CASE n = 0
  <2>1. t = << >>
    BY <1>3, <1>5
  <2>2. TellsOf(<< >>, target) = << >>
    BY NoTurn DEF TellsOf
  <2>3. FoldedWith(Changing("amend"), Patched("None", s), << >>) = Patched("None", s)
    BY NoTurn
  <2>4. ToSet(<< >>) = {} /\ NamesIn(<< >>) = {}
    BY DEF ToSet, NamesIn
  <2>5. AmendAll(s, << >>, target) = s
    <3>1. s = [i \in DOMAIN s |-> s[i]]
      BY DEF IsFields
    <3>. QED  BY <2>4, <3>1 DEF AmendAll
  <2>6. Amendable(s, << >>, target) /\ Patched("None", s).err = "None" /\ Patched("None", s).fields = s
    BY <2>4 DEF Amendable, Patched
  <2>7. AmendedIs(s, << >>, target)
    BY <2>2, <2>3, <2>5, <2>6 DEF AmendedIs
  <2>. QED  BY <1>3, <2>1, <2>7
<1>6. CASE n # 0
  <2>1. PICK u \in Seq(X), x \in X : t = Append(u, x) /\ Len(u) = n - 1
    BY <1>3, <1>6, Longer
  <2>2. Distinct(u) /\ \A f \in ToSet(u) : f.name # x.name
    BY <1>3, <2>1, DistinctOneMore
  <2>3. AmendedIs(s, u, target)
    BY <1>2, <1>3, <1>4, <2>1, <2>2
  <2>. DEFINE first == Patched("None", s)
              p == TellsOf(u, target)
              g == FieldNamed(target, x.name)
              acc == FoldedWith(Changing("amend"), first, p)
              r == FoldedWith(Changing("amend"), first, TellsOf(t, target))
              w == AmendAll(s, u, target)
  <2>4. TellsOf(t, target) = p \o Amendments(x, g) /\ p \in Seq(ToSet(p))
    <3>1. TellsOf(t, target) = p \o Amendments(x, g)
      BY <2>1, TellsOneMore
    <3>. QED  BY <2>1, <3>1, TellsAreHeld DEF TellsHold
  <2>5. ToSet(t) = ToSet(u) \union {x}
    BY <2>1, HoldsOneMore
  <2>6. NamesIn(t) = NamesIn(u) \union {x.name} /\ x.name \notin NamesIn(u)
    BY <2>2, <2>5 DEF NamesIn
  <2>7. (acc.err = "None" <=> Amendable(s, u, target)) /\ (acc.err = "None" => acc.fields = w)
    BY <2>3 DEF AmendedIs
  <2>8. /\ w = [i \in DOMAIN s |-> w[i]] /\ DOMAIN w = DOMAIN s
        /\ \A i \in DOMAIN s : w[i] =
             IF s[i].name \in NamesIn(u)
             THEN Amend(s[i], FieldNamed(u, s[i].name), FieldNamed(target, s[i].name)) ELSE s[i]
    BY DEF AmendAll
  <2>. HIDE DEF first, p, g, acc, w
  <2>9. \A i \in DOMAIN s : w[i].name = s[i].name /\ w[i].type = s[i].type /\ IsField(w[i])
    BY <1>0, <2>8, AmendIs
  <2>10. IsFields(w)
    BY <2>8, <2>9, SameNames
  <2>11. AmendsBlock(w, x, g, acc, r)
    <3>. DEFINE rr == FoldedWith(Changing("amend"), first, p \o Amendments(x, g))
    <3>1. r = rr
      BY <2>4
    <3>2. AmendsBlock(w, x, g, FoldedWith(Changing("amend"), first, p), rr)
      <4>1. LET a == FoldedWith(Changing("amend"), first, p) IN a.err = "None" => a.fields = w
        BY <2>7 DEF acc
      <4>. QED  BY <2>4, <2>10, <4>1, AmendBlock
    <3>. HIDE DEF r, rr
    <3>. QED  BY <3>1, <3>2 DEF acc
  <2>. HIDE DEF r
  <2>12. CanAmend(w, x, g) <=> CanAmend(s, x, g)
    <3>1. \A i \in DOMAIN s : s[i].name = x.name => w[i] = s[i]
      BY <2>6, <2>8
    <3>2. \A h \in ToSet(w) : \E i \in DOMAIN s : h = w[i] /\ s[i] \in ToSet(s)
      BY <1>0, <2>8 DEF ToSet
    <3>3. \A h \in ToSet(s) : \E i \in DOMAIN s : h = s[i] /\ w[i] \in ToSet(w)
      BY <2>8 DEF ToSet
    <3>4. \A h \in ToSet(w) : h.name = x.name => h \in ToSet(s)
      BY <2>9, <3>1, <3>2
    <3>5. \A h \in ToSet(s) : h.name = x.name => h \in ToSet(w)
      BY <3>1, <3>3
    <3>. QED  BY <3>4, <3>5 DEF CanAmend
  <2>13. Amendable(s, t, target) <=> Amendable(s, u, target) /\ CanAmend(s, x, g)
    BY <2>5 DEF Amendable, g
  <2>14. FieldAmended(w, x, g) = AmendAll(s, t, target)
    <3>1. u \in Seq(ToSet(u)) /\ t \in Seq(ToSet(t))
      BY <1>3, <2>1, OfItsOwn
    <3>2. \A f \in ToSet(u) : FieldNamed(u, f.name) = f /\ FieldNamed(t, f.name) = f
      BY <1>3, <2>2, <2>5, <3>1, NamedField
    <3>3. FieldNamed(t, x.name) = x
      BY <1>3, <2>5, <3>1, NamedField
    <3>. DEFINE new(i) == IF s[i].name \in NamesIn(t)
                  THEN Amend(s[i], FieldNamed(t, s[i].name), FieldNamed(target, s[i].name)) ELSE s[i]
                old(i) == IF w[i].name = x.name THEN Amend(w[i], x, g) ELSE w[i]
    <3>4. ASSUME NEW i \in DOMAIN s
          PROVE  old(i) = new(i)
      <4>1. CASE s[i].name = x.name
        <5>1. w[i] = s[i] /\ s[i].name \in NamesIn(t)
          BY <2>6, <2>8, <4>1
        <5>. QED  BY <3>3, <4>1, <5>1 DEF g
      <4>2. CASE s[i].name # x.name
        <5>1. w[i].name # x.name
          BY <2>9, <4>2
        <5>2. s[i].name \in NamesIn(t) <=> s[i].name \in NamesIn(u)
          BY <2>6, <4>2
        <5>3. s[i].name \in NamesIn(u) => FieldNamed(u, s[i].name) = FieldNamed(t, s[i].name)
          BY <3>2 DEF NamesIn
        <5>. QED  BY <2>8, <5>1, <5>2, <5>3
      <4>. QED  BY <4>1, <4>2
    <3>5. FieldAmended(w, x, g) = [i \in DOMAIN s |-> old(i)]
      BY <2>8 DEF FieldAmended
    <3>6. AmendAll(s, t, target) = [i \in DOMAIN s |-> new(i)]
      BY DEF AmendAll
    <3>. HIDE DEF new, old
    <3>. QED  BY <3>4, <3>5, <3>6
  <2>15. r.err = "None" <=> Amendable(s, t, target)
    BY <2>7, <2>11, <2>12, <2>13 DEF AmendsBlock
  <2>16. r.err = "None" => r.fields = AmendAll(s, t, target)
    BY <2>11, <2>14 DEF AmendsBlock
  <2>. QED  BY <1>3, <2>15, <2>16 DEF AmendedIs, r, first
<1>. QED  BY <1>5, <1>6

\* A patch is a patch after each change, and once refused it stays as it was refused.
IsPatch(r) == r = Patched(r.err, r.fields)
StepsOn(turn, r, cs) ==
    LET after == FoldedWith(Changing(turn), r, cs) IN IsPatch(after) /\ (r.err # "None" => after = r)

\* Each change gives a patch,
LEMMA ChangeIsPatch ==
    ASSUME NEW turn \in {"remove", "retype", "amend", "add"}, NEW s, NEW c
    PROVE  IsPatch(Change(turn, s, c))
<1>1. \A err, t : IsPatch(Patched(err, t))
  BY DEF IsPatch, Patched
<1>2. \A n, type, t : IsPatch(OfType(s, n, type, t))
  BY <1>1 DEF OfType
<1>3. CASE turn = "remove"
  <2>1. Change(turn, s, c) = Removing(s, c)
    BY <1>3 DEF Change
  <2>. QED  BY <1>2, <2>1 DEF Removing
<1>4. CASE turn = "retype"
  <2>1. Change(turn, s, c) = Retyping(s, c)
    BY <1>4 DEF Change
  <2>. QED  BY <1>2, <2>1 DEF Retyping
<1>5. CASE turn = "amend"
  <2>1. Change(turn, s, c) = Amending(s, c)
    BY <1>5 DEF Change
  <2>. QED  BY <1>1, <2>1 DEF Amending
<1>6. CASE turn = "add"
  <2>1. Change(turn, s, c) = Adding(s, c)
    BY <1>6 DEF Change
  <2>. QED  BY <1>1, <2>1 DEF Adding
<1>. QED  BY <1>3, <1>4, <1>5, <1>6

\* and so do any number of them in turn.
LEMMA StepsAreOn ==
    ASSUME NEW turn \in {"remove", "retype", "amend", "add"}, NEW r, IsPatch(r), NEW X, NEW cs \in Seq(X)
    PROVE  StepsOn(turn, r, cs)
<1>. DEFINE T == {n \in Nat : \E t \in Seq(X) : Len(t) = n /\ ~StepsOn(turn, r, t)}
<1>1. SUFFICES ASSUME T # {}
               PROVE  FALSE
  OBVIOUS
<1>2. PICK n \in T : \A k \in T : n <= k
  BY <1>1, Least
<1>3. PICK t \in Seq(X) : Len(t) = n /\ ~StepsOn(turn, r, t)
  BY <1>2
<1>4. \A u \in Seq(X) : Len(u) \in Nat /\ (~StepsOn(turn, r, u) => Len(u) \in T)
  OBVIOUS
<1>. HIDE DEF T
<1>5. CASE n = 0
  <2>1. t = << >>
    BY <1>3, <1>5
  <2>2. StepsOn(turn, r, << >>)
    BY NoTurn DEF StepsOn
  <2>. QED  BY <1>3, <2>1, <2>2
<1>6. CASE n # 0
  <2>1. PICK u \in Seq(X), x \in X : t = Append(u, x) /\ Len(u) = n - 1
    BY <1>3, <1>6, Longer
  <2>2. StepsOn(turn, r, u)
    BY <1>2, <1>3, <1>4, <2>1
  <2>. DEFINE acc == FoldedWith(Changing(turn), r, u)
  <2>3. FoldedWith(Changing(turn), r, t) = IF acc.err # "None" THEN acc ELSE Change(turn, acc.fields, x)
    BY <2>1, ChangesInTurn
  <2>4. IsPatch(acc) /\ (r.err # "None" => acc = r)
    BY <2>2 DEF StepsOn
  <2>. HIDE DEF acc
  <2>5. IsPatch(Change(turn, acc.fields, x))
    BY ChangeIsPatch
  <2>. QED  BY <1>3, <2>3, <2>4, <2>5 DEF StepsOn
<1>. QED  BY <1>5, <1>6

\* The fields of a patch before they are ordered, and when there are any.
LeftOf(s, delta) == FieldsBut(s, NamesIn(delta.removed))
RetypedOf(s, delta) == [i \in DOMAIN LeftOf(s, delta) |-> Retype(LeftOf(s, delta)[i], delta.retyped)]
AmendedOf(s, delta, us, target) == AmendAll(RetypedOf(s, delta), us, target)
Applies(s, delta, us, target) ==
    /\ Removable(s, delta.removed) /\ Retypable(LeftOf(s, delta), delta.retyped)
    /\ Amendable(RetypedOf(s, delta), us, target) /\ Addable(AmendedOf(s, delta, us, target), delta.added)

\* A delta that names each field once at each step.
IsDelta(delta, us, target) ==
    /\ delta.removed \in Seq(ToSet(delta.removed)) /\ Distinct(delta.removed)
    /\ delta.retyped \in Seq(ToSet(delta.retyped)) /\ Distinct(delta.retyped)
    /\ us \in Seq(ToSet(us)) /\ Distinct(us) /\ delta.amended = TellsOf(us, target)
    /\ IsFields(delta.added)

\* The fields stay a schema from step to step, of the names that are left.
StaysSchema(s, delta, us, target) ==
    /\ IsFields(LeftOf(s, delta)) /\ IsFields(RetypedOf(s, delta))
         /\ IsFields(AmendedOf(s, delta, us, target))
    /\ ToSet(LeftOf(s, delta)) = {f \in ToSet(s) : f.name \notin NamesIn(delta.removed)}
    /\ Names(RetypedOf(s, delta)) = Names(LeftOf(s, delta))
         /\ NamesIn(RetypedOf(s, delta)) = NamesIn(LeftOf(s, delta))
    /\ Names(AmendedOf(s, delta, us, target)) = Names(LeftOf(s, delta))
    /\ NamesIn(AmendedOf(s, delta, us, target)) = NamesIn(LeftOf(s, delta))

\* So they do.
LEMMA SchemaStays ==
    ASSUME NEW s, IsFields(s), NEW delta, NEW us, NEW target
    PROVE  StaysSchema(s, delta, us, target)
<1>. DEFINE a == LeftOf(s, delta)
            b == RetypedOf(s, delta)
            c == AmendedOf(s, delta, us, target)
            S == {f \in ToSet(s) : f.name \notin NamesIn(delta.removed)}
<1>1. a = Among(s, S)
  BY DEF LeftOf, FieldsBut
<1>2. IsFields(Among(s, S)) /\ ToSet(Among(s, S)) = ToSet(s) \intersect S
  BY LeftIsSchema
<1>3. IsFields(a) /\ ToSet(a) = S
  BY <1>1, <1>2
<1>4. b = [i \in DOMAIN a |-> Retype(a[i], delta.retyped)]
  BY DEF RetypedOf
<1>5. c = [i \in DOMAIN b |-> IF b[i].name \in NamesIn(us)
                              THEN Amend(b[i], FieldNamed(us, b[i].name), FieldNamed(target, b[i].name))
                                ELSE b[i]]
  BY DEF AmendedOf, AmendAll
<1>. HIDE DEF a, b, c, S
<1>6. \A i \in DOMAIN a : IsField(a[i])
  BY <1>3 DEF IsFields, ToSet
<1>7. b = [i \in DOMAIN a |-> b[i]] /\ DOMAIN b = DOMAIN a /\ \A i \in DOMAIN a : b[i].name = a[i].name
        /\ IsField(b[i])
  BY <1>4, <1>6, RetypeIs
<1>8. IsFields(b) /\ NamesIn(b) = NamesIn(a) /\ Names(b) = Names(a)
  BY <1>3, <1>7, SameNames
<1>9. c = [i \in DOMAIN b |-> c[i]] /\ \A i \in DOMAIN b : c[i].name = b[i].name /\ IsField(c[i])
  BY <1>5, <1>7, AmendIs
<1>10. IsFields(c) /\ NamesIn(c) = NamesIn(b) /\ Names(c) = Names(b)
  BY <1>8, <1>9, SameNames
<1>. QED  BY <1>3, <1>8, <1>10 DEF StaysSchema, a, b, c, S

\* A patch applies the steps, or is refused.
PatchedIs(s, delta, us, target) ==
    LET p == SchemaPatch(s, delta)
        all == AmendedOf(s, delta, us, target) \o delta.added
    IN  /\ p.err = "None" => Applies(s, delta, us, target)
        /\ Applies(s, delta, us, target) => p = Ordering(all, delta.order)

\* So it is patched.
LEMMA PatchIs ==
    ASSUME NEW s, IsFields(s), NEW delta, NEW us, NEW target, IsDelta(delta, us, target)
    PROVE  PatchedIs(s, delta, us, target)
<1>. DEFINE r0 == Patched("None", s)
            r1 == FoldedWith(Changing("remove"), r0, delta.removed)
            r2 == FoldedWith(Changing("retype"), r1, delta.retyped)
            r3 == FoldedWith(Changing("amend"), r2, delta.amended)
            r4 == FoldedWith(Changing("add"), r3, delta.added)
            a == LeftOf(s, delta)
            b == RetypedOf(s, delta)
            c == AmendedOf(s, delta, us, target)
            all == c \o delta.added
<1>1. SchemaPatch(s, delta) = IF r4.err # "None" THEN r4 ELSE Ordering(r4.fields, delta.order)
  <2>1. IsInjective(Names(s))
    BY DEF IsInjective, Names, IsFields, Distinct
  <2>2. /\ InTurn(r0, delta.removed, Removing) = r1 /\ InTurn(r1, delta.retyped, Retyping) = r2
        /\ InTurn(r2, delta.amended, Amending) = r3 /\ InTurn(r3, delta.added, Adding) = r4
    BY RemovesInTurn, RetypesInTurn, AmendsInTurn, AddsInTurn
  <2>. HIDE DEF r1, r2, r3, r4
  <2>. QED  BY <2>1, <2>2 DEF SchemaPatch
<1>0. IsPatch(r0) /\ r0.err = "None" /\ r0.fields = s /\ \A r : IsPatch(r) /\ r.err = "None"
        => r = Patched("None", r.fields)
  BY DEF IsPatch, Patched
<1>2. /\ delta.removed \in Seq(ToSet(delta.removed)) /\ Distinct(delta.removed)
      /\ delta.retyped \in Seq(ToSet(delta.retyped)) /\ Distinct(delta.retyped)
      /\ us \in Seq(ToSet(us)) /\ Distinct(us) /\ delta.amended = TellsOf(us, target)
      /\ IsFields(delta.added) /\ delta.added \in Seq(ToSet(delta.added)) /\ Distinct(delta.added)
  BY DEF IsDelta, IsFields
<1>3. delta.amended \in Seq(ToSet(delta.amended))
  BY <1>2, TellsAreHeld DEF TellsHold
<1>4. IsFields(a) /\ IsFields(b) /\ IsFields(c)
  BY SchemaStays DEF StaysSchema
<1>. HIDE DEF r0, r1, r2, r3, r4, a, b, c
<1>5. IsPatch(r1)
  BY <1>0, <1>2, StepsAreOn DEF StepsOn, r1
<1>6. IsPatch(r2) /\ (r1.err # "None" => r2 = r1)
  BY <1>2, <1>5, StepsAreOn DEF StepsOn, r2
<1>7. IsPatch(r3) /\ (r2.err # "None" => r3 = r2)
  BY <1>3, <1>6, StepsAreOn DEF StepsOn, r3
<1>8. IsPatch(r4) /\ (r3.err # "None" => r4 = r3)
  BY <1>2, <1>7, StepsAreOn DEF StepsOn, r4
<1>9. /\ r1.err = "None" <=> Removable(s, delta.removed)
      /\ r1.err = "None" => r1 = Patched("None", a)
  <2>1. RemovedIs(s, delta.removed)
    BY <1>2, Removed
  <2>2. /\ r1.err = "None" <=> Removable(s, delta.removed)
        /\ r1.err = "None" => r1.fields = FieldsBut(s, NamesIn(delta.removed))
    BY <2>1 DEF RemovedIs, r1, r0
  <2>. QED  BY <1>0, <1>5, <2>2 DEF a, LeftOf
<1>10. ASSUME r1.err = "None"
       PROVE  /\ r2.err = "None" <=> Retypable(a, delta.retyped)
              /\ r2.err = "None" => r2 = Patched("None", b)
  <2>1. RetypedIs(a, delta.retyped)
    BY <1>2, <1>4, Retyped
  <2>2. /\ r2.err = "None" <=> Retypable(a, delta.retyped)
        /\ r2.err = "None" => r2.fields = [i \in DOMAIN a |-> Retype(a[i], delta.retyped)]
    BY <1>9, <1>10, <2>1 DEF RetypedIs, r2
  <2>3. b = [i \in DOMAIN a |-> Retype(a[i], delta.retyped)]
    BY DEF RetypedOf, a, b
  <2>. QED  BY <1>0, <1>6, <2>2, <2>3
<1>11. ASSUME r2.err = "None", r1.err = "None"
       PROVE  /\ r3.err = "None" <=> Amendable(b, us, target)
              /\ r3.err = "None" => r3 = Patched("None", c)
  <2>1. AmendedIs(b, us, target)
    BY <1>2, <1>4, Amended
  <2>2. r2 = Patched("None", b)
    BY <1>10, <1>11
  <2>3. r3 = FoldedWith(Changing("amend"), Patched("None", b), TellsOf(us, target))
    BY <1>2, <2>2 DEF r3
  <2>4. /\ r3.err = "None" <=> Amendable(b, us, target)
        /\ r3.err = "None" => r3.fields = AmendAll(b, us, target)
    BY <2>1, <2>3 DEF AmendedIs
  <2>. QED  BY <1>0, <1>7, <2>4 DEF AmendedOf, b, c
<1>12. ASSUME r3.err = "None", r2.err = "None", r1.err = "None"
       PROVE  /\ r4.err = "None" <=> Addable(c, delta.added)
              /\ r4.err = "None" => r4.fields = all
  <2>. DEFINE X == ToSet(c) \union ToSet(delta.added)
  <2>1. c \in Seq(ToSet(c))
    BY <1>4 DEF IsFields
  <2>2. c \in Seq(X) /\ delta.added \in Seq(X)
    BY <1>2, <2>1
  <2>. HIDE DEF X
  <2>3. AddedIs(c, delta.added)
    BY <1>2, <2>2, FieldsAdded
  <2>4. r3 = Patched("None", c)
    BY <1>11, <1>12
  <2>. QED  BY <2>3, <2>4 DEF AddedIs, r4
<1>13. Applies(s, delta, us, target) <=>
         Removable(s, delta.removed) /\ Retypable(a, delta.retyped) /\ Amendable(b, us, target)
           /\ Addable(c, delta.added)
  BY DEF Applies, a, b, c
<1>14. r4.err = "None" <=> Applies(s, delta, us, target)
  BY <1>6, <1>7, <1>8, <1>9, <1>10, <1>11, <1>12, <1>13
<1>15. r4.err = "None" => r4.fields = all
  BY <1>6, <1>7, <1>8, <1>12
<1>16. SchemaPatch(s, delta).err = "None" => r4.err = "None"
  BY <1>1
<1>. QED  BY <1>1, <1>14, <1>15, <1>16 DEF PatchedIs, c

\* What diff tells of two schemas.
KeptOf(old, target) == FieldsOf(old, NamesIn(target))
RetypingOf(f, target) == [name |-> f.name, from |-> f.type, to |-> FieldNamed(target, f.name).type]

\* Step by step.
DiffHolds(old, target) ==
    LET delta == SchemaDiff(old, target)
        us == KeptOf(old, target)
    IN  /\ delta.added = FieldsBut(target, NamesIn(old)) /\ delta.removed = FieldsBut(old, NamesIn(target))
        /\ delta.amended = TellsOf(us, target)
        /\ delta.retyped \in Seq(ToSet(delta.retyped)) /\ Distinct(delta.retyped)
        /\ \A r : r \in ToSet(delta.retyped) <=>
                    \E f \in ToSet(us) : FieldNamed(target, f.name).type # f.type /\ r = RetypingOf(f, target)
        /\ delta.order = IF Names(target) = Names(us) \o Names(delta.added) THEN << >> ELSE Names(target)
        /\ IsFields(us) /\ ToSet(us) = {f \in ToSet(old) : f.name \in NamesIn(target)}
        /\ IsFields(delta.added) /\ ToSet(delta.added) = {f \in ToSet(target) : f.name \notin NamesIn(old)}
        /\ IsFields(delta.removed)
             /\ ToSet(delta.removed) = {f \in ToSet(old) : f.name \notin NamesIn(target)}

\* What diff folds is what is told.
LEMMA TellsAre ==
    ASSUME NEW us, NEW target
    PROVE  TellsOf(us, target) =
             LET now(f) == target[Max({i \in DOMAIN target : target[i].name = f.name})]
             IN  FoldLeft(LAMBDA all, f : all \o Amendments(f, now(f)), << >>, us)
<1>. DEFINE now(f) == target[Max({i \in DOMAIN target : target[i].name = f.name})]
            P(f) == f = [u \in SUBSET DOMAIN us |-> IF u = {} THEN << >>
                           ELSE f[u \ {Max(u)}] \o Amendments(us[Max(u)], now(us[Max(u)]))]
            Q(f) == TurnFold(f, AmendingTo(target), << >>, us)
<1>1. FoldLeft(LAMBDA all, f : all \o Amendments(f, now(f)), << >>, us) = (CHOOSE f : P(f))[DOMAIN us]
  BY DEF FoldLeft, MapThenFoldSet
<1>2. ASSUME NEW f
      PROVE  P(f) <=> Q(f)
  BY DEF TurnFold, Turn, AmendingTo, FieldNamed
<1>. HIDE DEF P
<1>3. (CHOOSE f : P(f)) = (CHOOSE f : Q(f))
  <2>. HIDE DEF Q
  <2>. QED  BY ONLY <1>2, Zenon
<1>. QED  BY <1>1, <1>3 DEF FoldedWith, TellsOf

\* The fields of some names, and those of the others.
LEMMA FieldsLeft ==
    ASSUME NEW s, IsFields(s), NEW N
    PROVE  /\ IsFields(FieldsOf(s, N)) /\ ToSet(FieldsOf(s, N)) = {f \in ToSet(s) : f.name \in N}
           /\ IsFields(FieldsBut(s, N)) /\ ToSet(FieldsBut(s, N)) = {f \in ToSet(s) : f.name \notin N}
<1>1. \A S : IsFields(Among(s, S)) /\ ToSet(Among(s, S)) = ToSet(s) \intersect S
  BY LeftIsSchema
<1>. QED  BY <1>1 DEF FieldsOf, FieldsBut

\* So diff tells.
LEMMA DiffIs ==
    ASSUME NEW old, IsFields(old), NEW target, IsFields(target)
    PROVE  DiffHolds(old, target)
<1>. DEFINE d == SchemaDiff(old, target)
            us == KeptOf(old, target)
            now(f) == target[Max({i \in DOMAIN target : target[i].name = f.name})]
            moved == Among(us, {f \in ToSet(us) : now(f).type # f.type})
            retyped == [k \in DOMAIN moved |->
                          [name |-> moved[k].name, from |-> moved[k].type, to |-> now(moved[k]).type]]
<1>1. ToSet(Names(target)) = NamesIn(target) /\ ToSet(Names(old)) = NamesIn(old)
  BY NamedField DEF IsFields
<1>2. /\ d.added = FieldsBut(target, NamesIn(old)) /\ d.removed = FieldsBut(old, NamesIn(target))
      /\ d.amended = FoldLeft(LAMBDA all, f : all \o Amendments(f, now(f)), << >>, us)
      /\ d.retyped = retyped
      /\ d.order = IF Names(target) = Names(us) \o Names(d.added) THEN << >> ELSE Names(target)
  BY <1>1 DEF SchemaDiff, KeptOf
<1>3. d.amended = TellsOf(us, target)
  BY <1>2, TellsAre
<1>4. IsFields(us) /\ ToSet(us) = {f \in ToSet(old) : f.name \in NamesIn(target)}
  BY FieldsLeft DEF KeptOf
<1>5. /\ IsFields(d.added) /\ ToSet(d.added) = {f \in ToSet(target) : f.name \notin NamesIn(old)}
      /\ IsFields(d.removed) /\ ToSet(d.removed) = {f \in ToSet(old) : f.name \notin NamesIn(target)}
  <2>1. \A s, N : IsFields(s) => /\ IsFields(FieldsBut(s, N))
                                 /\ ToSet(FieldsBut(s, N)) = {f \in ToSet(s) : f.name \notin N}
    BY FieldsLeft
  <2>2. d.added = FieldsBut(target, NamesIn(old)) /\ d.removed = FieldsBut(old, NamesIn(target))
    BY <1>2
  <2>. HIDE DEF d
  <2>. QED  BY <2>1, <2>2
<1>. HIDE DEF d, us
<1>6. \A f : now(f) = FieldNamed(target, f.name)
  BY DEF FieldNamed
<1>. HIDE DEF now
<1>7. IsFields(moved) /\ ToSet(moved) = {f \in ToSet(us) : now(f).type # f.type}
  <2>. DEFINE S == {f \in ToSet(us) : now(f).type # f.type}
  <2>1. IsFields(Among(us, S)) /\ ToSet(Among(us, S)) = ToSet(us) \intersect S
    BY <1>4, LeftIsSchema
  <2>. QED  BY <2>1
<1>. HIDE DEF moved
<1>8. /\ DOMAIN moved = 1 .. Len(moved) /\ Len(moved) \in Nat
      /\ DOMAIN retyped = DOMAIN moved /\ retyped = [k \in DOMAIN moved |-> retyped[k]]
      /\ \A k \in DOMAIN moved : retyped[k] = RetypingOf(moved[k], target) /\ retyped[k].name = moved[k].name
  <2>1. moved \in Seq(ToSet(moved))
    BY <1>7 DEF IsFields
  <2>2. \A k \in DOMAIN moved : retyped[k] = RetypingOf(moved[k], target)
    BY <1>6 DEF RetypingOf
  <2>. QED  BY <2>1, <2>2 DEF RetypingOf
<1>. HIDE DEF retyped
<1>9. retyped \in Seq(ToSet(retyped))
  <2>1. retyped \in [1 .. Len(moved) -> ToSet(retyped)]
    BY <1>8 DEF ToSet
  <2>. QED  BY <1>8, <2>1
<1>10. Distinct(retyped)
  BY <1>7, <1>8 DEF IsFields, Distinct
<1>11. ASSUME NEW r
       PROVE  r \in ToSet(retyped)
                <=> \E f \in ToSet(us) : FieldNamed(target, f.name).type # f.type /\ r = RetypingOf(f, target)
  <2>1. r \in ToSet(retyped) <=> \E k \in DOMAIN moved : r = RetypingOf(moved[k], target)
    BY <1>8 DEF ToSet
  <2>2. (\E k \in DOMAIN moved : r = RetypingOf(moved[k], target))
          <=> \E f \in ToSet(moved) : r = RetypingOf(f, target)
    BY DEF ToSet
  <2>. QED  BY <1>6, <1>7, <2>1, <2>2
<1>. QED  BY <1>2, <1>3, <1>4, <1>5, <1>9, <1>10, <1>11 DEF DiffHolds, d, us

\* What diff gives is a delta as patch expects one.
LEMMA DiffIsDelta ==
    ASSUME NEW old, IsFields(old), NEW target, IsFields(target)
    PROVE  IsDelta(SchemaDiff(old, target), KeptOf(old, target), target)
<1>1. DiffHolds(old, target)
  BY DiffIs
<1>. DEFINE d == SchemaDiff(old, target)
            us == KeptOf(old, target)
<1>2. /\ d.amended = TellsOf(us, target) /\ d.retyped \in Seq(ToSet(d.retyped)) /\ Distinct(d.retyped)
      /\ IsFields(us) /\ IsFields(d.added) /\ IsFields(d.removed)
  BY <1>1 DEF DiffHolds
<1>. HIDE DEF d, us
<1>3. IsDelta(d, us, target)
  BY <1>2 DEF IsDelta, IsFields
<1>. QED  BY <1>3 DEF d, us

\* Schemas of the same fields in the same order of names are one.
LEMMA OneSchema ==
    ASSUME NEW s, IsFields(s), NEW t, IsFields(t), ToSet(s) = ToSet(t), Names(s) = Names(t)
    PROVE  s = t
<1>1. s = [i \in DOMAIN s |-> s[i]] /\ t = [i \in DOMAIN t |-> t[i]]
  BY DEF IsFields
<1>2. DOMAIN s = DOMAIN t /\ \A i \in DOMAIN s : s[i].name = t[i].name
  BY DEF Names
<1>3. (\A i \in DOMAIN t : FieldNamed(t, t[i].name) = t[i]) /\ \A f \in ToSet(t) : FieldNamed(t, f.name) = f
  BY NamedField DEF IsFields
<1>4. \A i \in DOMAIN s : s[i] \in ToSet(t)
  BY DEF ToSet
<1>5. ASSUME NEW i \in DOMAIN s
      PROVE  s[i] = t[i]
  BY <1>2, <1>3, <1>4
<1>. QED  BY <1>1, <1>2, <1>5

\* An order of the names puts the fields in that order.
OrderHolds(all, order) ==
    LET p == Ordering(all, order)
    IN  /\ IsPatch(p)
        /\ p.err = "None" <=> order = << >> \/ (IsInjective(order) /\ ToSet(order) = NamesIn(all))
        /\ p.err = "None" => IsFields(p.fields) /\ ToSet(p.fields) = ToSet(all)
        /\ p.err = "None" => Names(p.fields) = IF order = << >> THEN Names(all) ELSE order

\* So it does.
LEMMA OrderIs ==
    ASSUME NEW all, IsFields(all), NEW N, NEW order \in Seq(N)
    PROVE  OrderHolds(all, order)
<1>. DEFINE p == Ordering(all, order)
            q == [k \in DOMAIN order |-> all[Position(all, order[k])]]
<1>0. IsPatch(p)
  BY DEF Ordering, IsPatch, Patched
<1>1. /\ ToSet(Names(all)) = NamesIn(all)
      /\ \A f \in ToSet(all) : Position(all, f.name) \in DOMAIN all /\ all[Position(all, f.name)] = f
  BY NamedField DEF IsFields
<1>2. p.err = "None" <=> order = << >> \/ (IsInjective(order) /\ ToSet(order) = NamesIn(all))
  BY <1>1 DEF Ordering, Patched
<1>3. CASE order = << >>
  <2>1. p.fields = all
    BY <1>3 DEF Ordering, Patched
  <2>. QED  BY <1>0, <1>2, <1>3, <2>1 DEF OrderHolds
<1>4. CASE order # << >> /\ p.err = "None"
  <2>1. p.fields = q
    BY <1>4 DEF Ordering, Patched
  <2>2. IsInjective(order) /\ ToSet(order) = NamesIn(all)
    BY <1>2, <1>4
  <2>3. DOMAIN order = 1 .. Len(order) /\ Len(order) \in Nat /\ order = [k \in DOMAIN order |-> order[k]]
    OBVIOUS
  <2>4. ASSUME NEW k \in DOMAIN order
        PROVE  q[k] \in ToSet(all) /\ q[k].name = order[k]
    <3>1. order[k] \in ToSet(order)
      BY DEF ToSet
    <3>2. PICK f \in ToSet(all) : f.name = order[k]
      BY <2>2, <3>1 DEF NamesIn
    <3>. QED  BY <1>1, <3>2
  <2>5. DOMAIN q = DOMAIN order /\ q = [k \in DOMAIN order |-> q[k]]
    OBVIOUS
  <2>6. \A k \in DOMAIN order : q[k] = all[Position(all, order[k])]
    OBVIOUS
  <2>. HIDE DEF q
  <2>7. q \in Seq(ToSet(q))
    <3>1. q \in [1 .. Len(order) -> ToSet(q)]
      BY <2>3, <2>5 DEF ToSet
    <3>. QED  BY <2>3, <3>1
  <2>8. Distinct(q)
    BY <2>2, <2>4, <2>5 DEF Distinct, IsInjective
  <2>9. ASSUME NEW f
        PROVE  f \in ToSet(q) <=> f \in ToSet(all)
    <3>1. f \in ToSet(q) => f \in ToSet(all)
      BY <2>4, <2>5 DEF ToSet
    <3>2. ASSUME f \in ToSet(all)
          PROVE  f \in ToSet(q)
      <4>1. f.name \in ToSet(order)
        BY <2>2, <3>2 DEF NamesIn
      <4>2. PICK k \in DOMAIN order : order[k] = f.name
        BY <4>1 DEF ToSet
      <4>3. q[k] = f
        BY <1>1, <2>6, <3>2, <4>2
      <4>. QED  BY <2>5, <4>3 DEF ToSet
    <3>. QED  BY <3>1, <3>2
  <2>10. ToSet(q) = ToSet(all)
    BY <2>9
  <2>11. IsFields(q)
    BY <2>7, <2>8, <2>10 DEF IsFields
  <2>12. Names(q) = order
    BY <2>3, <2>4, <2>5 DEF Names
  <2>. QED  BY <1>0, <1>2, <1>4, <2>1, <2>10, <2>11, <2>12 DEF OrderHolds
<1>5. CASE order # << >> /\ p.err # "None"
  BY <1>0, <1>2, <1>5 DEF OrderHolds
<1>. QED  BY <1>3, <1>4, <1>5

\* A schema is its names, one each.
LEMMA SchemaNames ==
    ASSUME NEW s, IsFields(s)
    PROVE  /\ Names(s) \in Seq(NamesIn(s)) /\ IsInjective(Names(s)) /\ ToSet(Names(s)) = NamesIn(s)
           /\ Names(s) = << >> <=> s = << >>
<1>1. s \in Seq(ToSet(s)) /\ DOMAIN s = 1 .. Len(s) /\ Len(s) \in Nat
  BY DEF IsFields
<1>2. ToSet(Names(s)) = NamesIn(s)
  BY NamedField DEF IsFields
<1>3. IsInjective(Names(s))
  BY DEF IsInjective, Names, IsFields, Distinct
<1>4. DOMAIN Names(s) = DOMAIN s /\ \A i \in DOMAIN s : Names(s)[i] \in NamesIn(s)
  BY DEF Names, NamesIn, ToSet
<1>5. Names(s) = [i \in DOMAIN s |-> Names(s)[i]]
  BY DEF Names
<1>. DEFINE m == Names(s)
<1>. HIDE DEF m
<1>6. m \in [1 .. Len(s) -> NamesIn(s)]
  BY <1>1, <1>4, <1>5 DEF m
<1>7. m \in Seq(NamesIn(s)) /\ Len(m) = Len(s)
  BY <1>1, <1>6
<1>8. m = << >> <=> s = << >>
  BY <1>1, <1>7
<1>. QED  BY <1>2, <1>3, <1>7, <1>8 DEF m

\* What the patch of a diff makes of the fields that stay is the fields of those names.
BecomesTheTarget(old, target) ==
    LET delta == SchemaDiff(old, target)
        us == KeptOf(old, target)
    IN  /\ LeftOf(old, delta) = us /\ Applies(old, delta, us, target)
        /\ \A f \in ToSet(AmendedOf(old, delta, us, target)) : f \in ToSet(target)

\* So it makes of them.
LEMMA TargetBecomes ==
    ASSUME NEW old, IsFields(old), NEW target, IsFields(target)
    PROVE  BecomesTheTarget(old, target)
<1>. DEFINE d == SchemaDiff(old, target)
            us == KeptOf(old, target)
            b == RetypedOf(old, d)
            c == AmendedOf(old, d, us, target)
<1>1. /\ d.added = FieldsBut(target, NamesIn(old)) /\ d.removed = FieldsBut(old, NamesIn(target))
      /\ d.retyped \in Seq(ToSet(d.retyped)) /\ Distinct(d.retyped)
      /\ \A r : r \in ToSet(d.retyped) <=>
                  \E f \in ToSet(us) : FieldNamed(target, f.name).type # f.type /\ r = RetypingOf(f, target)
      /\ IsFields(us) /\ ToSet(us) = {f \in ToSet(old) : f.name \in NamesIn(target)}
      /\ ToSet(d.added) = {f \in ToSet(target) : f.name \notin NamesIn(old)}
      /\ ToSet(d.removed) = {f \in ToSet(old) : f.name \notin NamesIn(target)}
  <2>1. DiffHolds(old, target)
    BY DiffIs
  <2>2. /\ d.added = FieldsBut(target, NamesIn(old)) /\ d.removed = FieldsBut(old, NamesIn(target))
        /\ d.retyped \in Seq(ToSet(d.retyped)) /\ Distinct(d.retyped)
        /\ IsFields(us) /\ ToSet(us) = {f \in ToSet(old) : f.name \in NamesIn(target)}
        /\ ToSet(d.added) = {f \in ToSet(target) : f.name \notin NamesIn(old)}
        /\ ToSet(d.removed) = {f \in ToSet(old) : f.name \notin NamesIn(target)}
    BY <2>1 DEF DiffHolds
  <2>3. \A r : r \in ToSet(d.retyped) <=>
                \E f \in ToSet(us) : FieldNamed(target, f.name).type # f.type /\ r = RetypingOf(f, target)
    <3>. HIDE DEF us
    <3>. QED  BY <2>1 DEF DiffHolds, us
  <2>. QED  BY <2>2, <2>3
<1>2. StaysSchema(old, d, us, target)
  BY SchemaStays
<1>. HIDE DEF d
<1>3. LeftOf(old, d) = us
  <2>. DEFINE S == {f \in ToSet(old) : f.name \notin NamesIn(d.removed)}
              R == {f \in ToSet(old) : f.name \in NamesIn(target)}
  <2>1. NamesIn(d.removed) = {f.name : f \in {g \in ToSet(old) : g.name \notin NamesIn(target)}}
    BY <1>1 DEF NamesIn
  <2>2. \A x \in ToSet(old) : x \in S <=> x \in R
    BY <2>1
  <2>3. LeftOf(old, d) = Among(old, S) /\ us = Among(old, R)
    BY DEF LeftOf, FieldsBut, KeptOf, FieldsOf
  <2>4. AmongLaws(old, S, R)
    BY AmongAlike DEF IsFields
  <2>. HIDE DEF S, R
  <2>. QED  BY <2>2, <2>3, <2>4 DEF AmongLaws
<1>. HIDE DEF us
<1>4. /\ b = [i \in DOMAIN us |-> Retype(us[i], d.retyped)] /\ IsFields(b) /\ NamesIn(b) = NamesIn(us)
      /\ c = [i \in DOMAIN b |-> IF b[i].name \in NamesIn(us)
                                 THEN Amend(b[i], FieldNamed(us, b[i].name),
                                   FieldNamed(target, b[i].name)) ELSE b[i]]
      /\ IsFields(c) /\ NamesIn(c) = NamesIn(us)
  <2>1. b = [i \in DOMAIN us |-> Retype(us[i], d.retyped)]
    BY <1>3 DEF RetypedOf
  <2>2. c = [i \in DOMAIN b |-> IF b[i].name \in NamesIn(us)
                                THEN Amend(b[i], FieldNamed(us, b[i].name), FieldNamed(target, b[i].name))
                                  ELSE b[i]]
    BY DEF AmendedOf, AmendAll
  <2>. HIDE DEF b, c
  <2>. QED  BY <1>2, <1>3, <2>1, <2>2 DEF StaysSchema, b, c
<1>. HIDE DEF b, c
<1>5. /\ \A i \in DOMAIN us : FieldNamed(us, us[i].name) = us[i] /\ us[i] \in ToSet(us) /\ IsField(us[i])
      /\ \A f \in ToSet(target) : FieldNamed(target, f.name) = f /\ IsField(f)
      /\ \A r \in ToSet(d.retyped) : FieldNamed(d.retyped, r.name) = r
  <2>1. \A i \in DOMAIN us : FieldNamed(us, us[i].name) = us[i] /\ us[i] \in ToSet(us) /\ IsField(us[i])
    BY <1>1, NamedField DEF IsFields, ToSet
  <2>2. \A f \in ToSet(target) : FieldNamed(target, f.name) = f /\ IsField(f)
    BY NamedField DEF IsFields
  <2>3. \A r \in ToSet(d.retyped) : FieldNamed(d.retyped, r.name) = r
    BY <1>1, NamedField
  <2>. QED  BY <2>1, <2>2, <2>3
<1>6. ASSUME NEW i \in DOMAIN us
      PROVE  LET g == FieldNamed(target, us[i].name)
             IN  /\ g \in ToSet(target) /\ g.name = us[i].name /\ IsField(g)
                 /\ b[i].name = us[i].name /\ b[i].meta = us[i].meta /\ IsField(b[i]) /\ b[i].type = g.type
                 /\ c[i] = g
  <2>. DEFINE g == FieldNamed(target, us[i].name)
  <2>1. us[i] \in ToSet(us) /\ us[i].name \in NamesIn(target) /\ IsField(us[i])
    BY <1>1, <1>5
  <2>2. PICK f \in ToSet(target) : f.name = us[i].name
    BY <2>1 DEF NamesIn
  <2>3. g \in ToSet(target) /\ g.name = us[i].name /\ IsField(g)
    BY <1>5, <2>2
  <2>4. b[i] = Retype(us[i], d.retyped)
    BY <1>4
  <2>5. /\ b[i].name = us[i].name /\ b[i].meta = us[i].meta /\ IsField(b[i])
        /\ b[i].type =
             IF us[i].name \in NamesIn(d.retyped) THEN FieldNamed(d.retyped, us[i].name).to ELSE us[i].type
    BY <2>1, <2>4, RetypeIs
  <2>. HIDE DEF g
  <2>6. b[i].type = g.type
    <3>1. CASE us[i].name \in NamesIn(d.retyped)
      <4>1. PICK r \in ToSet(d.retyped) : r.name = us[i].name
        BY <3>1 DEF NamesIn
      <4>2. PICK h \in ToSet(us) : r = RetypingOf(h, target)
        BY <1>1, <4>1
      <4>3. r.name = h.name /\ r.to = FieldNamed(target, h.name).type
        BY <4>2 DEF RetypingOf
      <4>4. FieldNamed(d.retyped, us[i].name) = r
        BY <1>5, <4>1
      <4>. QED  BY <2>5, <3>1, <4>1, <4>3, <4>4 DEF g
    <3>2. CASE us[i].name \notin NamesIn(d.retyped)
      <4>1. ASSUME us[i].type # g.type
            PROVE  FALSE
        <5>1. RetypingOf(us[i], target) \in ToSet(d.retyped)
          BY <1>1, <2>1, <4>1 DEF g
        <5>2. RetypingOf(us[i], target).name = us[i].name
          BY DEF RetypingOf
        <5>. QED  BY <3>2, <5>1, <5>2 DEF NamesIn
      <4>. QED  BY <2>5, <3>2, <4>1
    <3>. QED  BY <3>1, <3>2
  <2>7. c[i] = Amend(b[i], us[i], g)
    <3>1. us[i].name \in NamesIn(us)
      BY <2>1 DEF NamesIn
    <3>2. DOMAIN b = DOMAIN us
      BY <1>4
    <3>. QED  BY <1>4, <1>5, <2>5, <3>1, <3>2 DEF g
  <2>8. /\ IsField(c[i]) /\ c[i].name = b[i].name /\ c[i].type = b[i].type
        /\ c[i].meta.unit = IF us[i].meta.unit = g.meta.unit THEN b[i].meta.unit ELSE g.meta.unit
        /\ c[i].meta.label = IF us[i].meta.label = g.meta.label THEN b[i].meta.label ELSE g.meta.label
    BY <2>5, <2>7, AmendIs
  <2>9. c[i] = g
    BY <2>3, <2>5, <2>6, <2>8, OneField
  <2>. QED  BY <2>3, <2>5, <2>6, <2>9 DEF g
<1>7. \A f \in ToSet(c) : f \in ToSet(target)
  <2>1. DOMAIN c = DOMAIN us
    BY <1>4
  <2>2. \A f \in ToSet(c) : \E i \in DOMAIN us : f = c[i]
    BY <2>1 DEF ToSet
  <2>. QED  BY <1>6, <2>2
<1>8. Removable(old, d.removed) /\ Retypable(us, d.retyped) /\ Addable(c, d.added)
  <2>1. Removable(old, d.removed)
    BY <1>1 DEF Removable
  <2>2. Retypable(us, d.retyped)
    BY <1>1 DEF Retypable, RetypingOf
  <2>3. NamesIn(us) \subseteq NamesIn(old)
    BY <1>1 DEF NamesIn
  <2>4. Addable(c, d.added)
    BY <1>1, <1>4, <2>3 DEF Addable
  <2>. QED  BY <2>1, <2>2, <2>4
<1>9. Amendable(b, us, target)
  <2>1. ASSUME NEW f \in ToSet(us)
        PROVE  \E h \in ToSet(b) : h.name = f.name /\ h.meta = f.meta
    <3>1. PICK i \in DOMAIN us : f = us[i]
      BY DEF ToSet
    <3>2. b[i] \in ToSet(b)
      BY <1>4 DEF ToSet
    <3>3. b[i].name = f.name /\ b[i].meta = f.meta
      BY <1>6, <3>1
    <3>. QED  BY <3>2, <3>3
  <2>. QED  BY <2>1 DEF Amendable, CanAmend
<1>10. Applies(old, d, us, target)
  BY <1>3, <1>8, <1>9 DEF Applies, b, c
<1>. QED  BY <1>3, <1>7, <1>10 DEF BecomesTheTarget, c, us, d

\* schema.py 8, "patch(old, diff(old, target)) == Ok(target)": of any two schemas, the patch
\* of the one with its diff to the other is the other, its fields in their order and all.
THEOREM PatchOfDiff ==
    ASSUME NEW old, IsFields(old), NEW target, IsFields(target)
    PROVE  SchemaPatch(old, SchemaDiff(old, target)) = Patched("None", target)
<1>. DEFINE d == SchemaDiff(old, target)
            us == KeptOf(old, target)
            c == AmendedOf(old, d, us, target)
            all == c \o d.added
<1>1. /\ d.order = IF Names(target) = Names(us) \o Names(d.added) THEN << >> ELSE Names(target)
      /\ IsFields(us) /\ ToSet(us) = {f \in ToSet(old) : f.name \in NamesIn(target)}
      /\ IsFields(d.added) /\ ToSet(d.added) = {f \in ToSet(target) : f.name \notin NamesIn(old)}
  BY DiffIs DEF DiffHolds
<1>2. PatchedIs(old, d, us, target)
  BY PatchIs, DiffIsDelta
<1>3. LeftOf(old, d) = us /\ Applies(old, d, us, target) /\ \A f \in ToSet(c) : f \in ToSet(target)
  BY TargetBecomes DEF BecomesTheTarget
<1>4. IsFields(c) /\ Names(c) = Names(us) /\ NamesIn(c) = NamesIn(us)
  BY <1>3, SchemaStays DEF StaysSchema
<1>5. SchemaPatch(old, d) = Ordering(all, d.order)
  BY <1>2, <1>3 DEF PatchedIs
<1>. HIDE DEF d, us, c
<1>6. /\ all \in Seq(ToSet(c) \union ToSet(d.added)) /\ ToSet(all) = ToSet(c) \union ToSet(d.added)
      /\ NamesIn(all) = NamesIn(c) \union NamesIn(d.added)
      /\ Names(all) = Names(c) \o Names(d.added)
      /\ Distinct(all) <=> Distinct(c) /\ Distinct(d.added) /\ NamesIn(c) \intersect NamesIn(d.added) = {}
  <2>. DEFINE X == ToSet(c) \union ToSet(d.added)
  <2>1. c \in Seq(ToSet(c)) /\ d.added \in Seq(ToSet(d.added))
    BY <1>1, <1>4 DEF IsFields
  <2>2. c \in Seq(X) /\ d.added \in Seq(X)
    BY <2>1
  <2>. HIDE DEF X
  <2>3. /\ all \in Seq(X) /\ ToSet(all) = ToSet(c) \union ToSet(d.added)
        /\ NamesIn(all) = NamesIn(c) \union NamesIn(d.added)
        /\ Names(all) = Names(c) \o Names(d.added)
        /\ Distinct(all) <=> Distinct(c) /\ Distinct(d.added) /\ NamesIn(c) \intersect NamesIn(d.added) = {}
    BY <2>2, NamesJoined
  <2>. QED  BY <2>3 DEF X
<1>. HIDE DEF all
<1>7. ToSet(all) = ToSet(target)
  <2>1. ASSUME NEW f \in ToSet(target)
        PROVE  f \in ToSet(all)
    <3>1. CASE f.name \in NamesIn(old)
      <4>1. f.name \in NamesIn(us)
        <5>1. PICK g \in ToSet(old) : g.name = f.name
          BY <3>1 DEF NamesIn
        <5>2. g.name \in NamesIn(target)
          BY <5>1 DEF NamesIn
        <5>3. g \in ToSet(us)
          BY <1>1, <5>2
        <5>. QED  BY <5>1, <5>3 DEF NamesIn
      <4>2. PICK h \in ToSet(c) : h.name = f.name
        BY <1>4, <4>1 DEF NamesIn
      <4>3. \A x \in ToSet(target) : FieldNamed(target, x.name) = x
        BY NamedField DEF IsFields
      <4>4. h = f
        BY <1>3, <4>2, <4>3
      <4>. QED  BY <1>6, <4>2, <4>4
    <3>2. CASE f.name \notin NamesIn(old)
      BY <1>1, <1>6, <3>2
    <3>. QED  BY <3>1, <3>2
  <2>. QED  BY <1>1, <1>3, <1>6, <2>1
<1>8. IsFields(all)
  <2>1. all \in Seq(ToSet(all))
    BY <1>6, OfItsOwn
  <2>2. NamesIn(c) \intersect NamesIn(d.added) = {}
    BY <1>1, <1>4 DEF NamesIn
  <2>3. Distinct(all)
    BY <1>1, <1>4, <1>6, <2>2 DEF IsFields
  <2>. QED  BY <1>7, <2>1, <2>3 DEF IsFields
<1>9. NamesIn(all) = NamesIn(target)
  BY <1>7 DEF NamesIn
<1>10. /\ Names(target) \in Seq(NamesIn(target)) /\ IsInjective(Names(target))
            /\ ToSet(Names(target)) = NamesIn(target)
       /\ Names(target) = << >> <=> target = << >>
       /\ Names(all) = << >> <=> all = << >>
  BY <1>8, SchemaNames
<1>11. OrderHolds(all, d.order)
  <2>1. d.order \in Seq(NamesIn(target))
    BY <1>1, <1>10
  <2>. QED  BY <1>8, <2>1, OrderIs
<1>. DEFINE p == Ordering(all, d.order)
<1>12. /\ IsPatch(p) /\ p.err = "None" /\ IsFields(p.fields) /\ ToSet(p.fields) = ToSet(target)
       /\ Names(p.fields) = IF d.order = << >> THEN Names(all) ELSE d.order
  BY <1>1, <1>7, <1>9, <1>10, <1>11 DEF OrderHolds
<1>. HIDE DEF p
<1>13. Names(p.fields) = Names(target)
  <2>1. CASE Names(target) = Names(us) \o Names(d.added)
    BY <1>1, <1>4, <1>6, <1>12, <2>1
  <2>2. CASE Names(target) # Names(us) \o Names(d.added) /\ Names(target) # << >>
    BY <1>1, <1>12, <2>2
  <2>3. CASE Names(target) = << >>
    <3>1. ToSet(all) = {}
      BY <1>7, <1>10, <2>3 DEF ToSet
    <3>2. all \in Seq({})
      BY <1>8, <3>1 DEF IsFields
    <3>3. all = << >>
      BY <3>2
    <3>. QED  BY <1>1, <1>10, <1>12, <2>3, <3>3
  <2>. QED  BY <2>1, <2>2, <2>3
<1>14. p.fields = target
  BY <1>12, <1>13, OneSchema
<1>15. p = Patched("None", target)
  BY <1>12, <1>14 DEF IsPatch
<1>. QED  BY <1>5, <1>15 DEF p, d

\* Nothing is told of a schema and itself.
LEMMA NoDiff ==
    ASSUME NEW s, IsFields(s)
    PROVE  SchemaDiff(s, s) = IDENTITY_DELTA
<1>. DEFINE d == SchemaDiff(s, s)
            us == KeptOf(s, s)
<1>1. \A n : {f \in ToSet(s) : f.name \in NamesIn(s)} = ToSet(s)
        /\ {f \in ToSet(s) : f.name \notin NamesIn(s)} = {}
  BY DEF NamesIn
<1>2. Among(s, ToSet(s)) = s /\ Among(s, {}) = << >>
  <2>1. s \in Seq(ToSet(s))
    BY DEF IsFields
  <2>2. AmongLaws(s, ToSet(s), ToSet(s)) /\ AmongLaws(s, {}, {})
    BY <2>1, AmongAlike
  <2>. QED  BY <2>2 DEF AmongLaws
<1>3. us = s /\ FieldsBut(s, NamesIn(s)) = << >>
  BY <1>1, <1>2 DEF KeptOf, FieldsOf, FieldsBut
<1>4. ToSet(Names(s)) = NamesIn(s) /\ \A f \in ToSet(s) : FieldNamed(s, f.name) = f
  BY NamedField DEF IsFields
<1>5. d = [added |-> d.added, removed |-> d.removed, retyped |-> d.retyped, amended |-> d.amended,
           reordered |-> d.reordered, order |-> d.order]
  BY DEF SchemaDiff
<1>6. d.reordered = FALSE
  <2>1. d.reordered = (Names(FieldsOf(s, ToSet(Names(s)))) # Names(FieldsOf(s, ToSet(Names(s)))))
    BY DEF SchemaDiff
  <2>. HIDE DEF d
  <2>. QED  BY <2>1
<1>7. DiffHolds(s, s)
  BY DiffIs
<1>8. /\ d.added = FieldsBut(s, NamesIn(s)) /\ d.removed = FieldsBut(s, NamesIn(s))
           /\ d.amended = TellsOf(us, s)
      /\ d.order = IF Names(s) = Names(us) \o Names(d.added) THEN << >> ELSE Names(s)
      /\ d.retyped \in Seq(ToSet(d.retyped))
  BY <1>7 DEF DiffHolds
<1>9. \A r : r \in ToSet(d.retyped)
        <=> \E f \in ToSet(us) : FieldNamed(s, f.name).type # f.type /\ r = RetypingOf(f, s)
  <2>. HIDE DEF us
  <2>. QED  BY <1>7 DEF DiffHolds, us
<1>. HIDE DEF d, us
<1>10. d.added = << >> /\ d.removed = << >>
  BY <1>3, <1>8
<1>11. d.retyped = << >>
  <2>1. ToSet(d.retyped) = {}
    BY <1>3, <1>4, <1>9
  <2>2. d.retyped \in Seq({})
    BY <1>8, <2>1
  <2>. QED  BY <2>2
<1>12. d.amended = << >>
  <2>1. TellsHold(s, s)
    BY TellsAreHeld DEF IsFields
  <2>2. /\ d.amended \in Seq(ToSet(d.amended))
        /\ \A a : a \in ToSet(d.amended)
             <=> \E f \in ToSet(s) : a \in ToSet(Amendments(f, FieldNamed(s, f.name)))
    BY <1>3, <1>8, <2>1 DEF TellsHold
  <2>3. \A f, a : a \notin ToSet(Amendments(f, f))
    BY AmendmentsAreHeld DEF AmendmentsHold
  <2>4. ToSet(d.amended) = {}
    BY <1>4, <2>2, <2>3
  <2>5. d.amended \in Seq({})
    BY <2>2, <2>4
  <2>. QED  BY <2>5
<1>13. d.order = << >>
  <2>1. Names(s) \in Seq(NamesIn(s))
    BY SchemaNames
  <2>2. Names(<< >>) = << >>
    BY DEF Names
  <2>3. Names(s) \o << >> = Names(s)
    BY <2>1
  <2>. QED  BY <1>3, <1>8, <1>10, <2>2, <2>3
<1>. QED  BY <1>5, <1>6, <1>10, <1>11, <1>12, <1>13 DEF IDENTITY_DELTA, d

\* Of one or two, what is among a set.
LEMMA AmongFew ==
    ASSUME NEW x, NEW y, NEW S
    PROVE  /\ Among(<< >>, S) = << >>
           /\ Among(<<x>>, S) = IF x \in S THEN <<x>> ELSE << >>
           /\ Among(<<x, y>>, S) = IF x \in S THEN IF y \in S THEN <<x, y>> ELSE <<x>>
                                   ELSE IF y \in S THEN <<y>> ELSE << >>
<1>. DEFINE X == {x, y}
            nil == << >>
            one == <<x>>
            two == <<x, y>>
            last == <<y>>
<1>1. /\ nil \in Seq(X) /\ one \in Seq(X) /\ x \in X /\ y \in X
      /\ Append(nil, x) = one /\ Append(one, y) = two /\ Append(nil, y) = last
  <2>1. nil \in Seq(X) /\ one \in Seq(X) /\ x \in X /\ y \in X
    OBVIOUS
  <2>2. Append(nil, x) = one
    OBVIOUS
  <2>3. Append(nil, y) = last
    OBVIOUS
  <2>4. Len(one) = 1 /\ one[1] = x
    OBVIOUS
  <2>5. Append(one, y) = two
    <3>. HIDE DEF one, X
    <3>1. Append(one, y) = <<one[1], y>>
      BY <2>1, <2>4, OneThenOne
    <3>. QED  BY <2>4, <3>1
  <2>. QED  BY <2>1, <2>2, <2>3, <2>5
<1>. HIDE DEF X, nil, one, two, last
<1>0. \A s \in Seq(X), z \in X : Among(Append(s, z), S) =
        IF z \in S THEN Append(Among(s, S), z) ELSE Among(s, S)
  BY AmongOne
<1>2. Among(nil, S) = nil
  BY AmongIs, NoTurn DEF nil
<1>3. Among(Append(nil, x), S) = IF x \in S THEN Append(Among(nil, S), x) ELSE Among(nil, S)
  BY <1>0, <1>1
<1>4. Among(Append(one, y), S) = IF y \in S THEN Append(Among(one, S), y) ELSE Among(one, S)
  BY <1>0, <1>1
<1>5. Among(one, S) = IF x \in S THEN one ELSE nil
  BY <1>1, <1>2, <1>3
<1>6. Among(two, S) = IF x \in S THEN IF y \in S THEN two ELSE one ELSE IF y \in S THEN last ELSE nil
  BY <1>1, <1>4, <1>5
<1>. QED  BY <1>2, <1>5, <1>6 DEF nil, one, two, last

\* What is told of one member of one name: once, or not at all.
IsTold(S, s, n, m) == \A a \in ToSet(s) : a \in S <=> a.name = n /\ a.change.member = m
TellsOnce(us, target, n, m) ==
    IF \E f \in ToSet(us) : f.name = n /\ f.meta[m] # FieldNamed(target, n).meta[m]
    THEN <<AmendmentOf(n, m, FieldNamed(us, n).meta[m], FieldNamed(target, n).meta[m])>> ELSE << >>

\* Of one field, and of all.
AmendmentTold(f, g, n, m, told) ==
    told = IF f.name = n /\ f.meta[m] # g.meta[m] THEN <<AmendmentOf(n, m, f.meta[m], g.meta[m])>> ELSE << >>

\* Of one field.
LEMMA AmendmentsAmong ==
    ASSUME NEW f, NEW g, NEW n, NEW m \in {"unit", "label"}, NEW S, IsTold(S, Amendments(f, g), n, m)
    PROVE  AmendmentTold(f, g, n, m, Among(Amendments(f, g), S))
<1>. DEFINE u == UnitTold(f, g)
            l == LabelTold(f, g)
            q == Amendments(f, g)
<1>1. /\ q = IF f.meta.unit # g.meta.unit
             THEN IF f.meta.label # g.meta.label THEN <<u, l>> ELSE <<u>>
             ELSE IF f.meta.label # g.meta.label THEN <<l>> ELSE << >>
  BY AmendmentsAre
<1>2. /\ u = AmendmentOf(f.name, "unit", f.meta.unit, g.meta.unit)
           /\ l = AmendmentOf(f.name, "label", f.meta.label, g.meta.label)
      /\ u.name = f.name /\ u.change.member = "unit" /\ l.name = f.name /\ l.change.member = "label"
  BY DEF UnitTold, LabelTold, AmendmentOf
<1>3. AmendmentsHold(f, g)
  BY AmendmentsAreHeld
<1>4. /\ f.meta.unit # g.meta.unit => (u \in S <=> f.name = n /\ m = "unit")
      /\ f.meta.label # g.meta.label => (l \in S <=> f.name = n /\ m = "label")
  <2>1. (f.meta.unit # g.meta.unit => u \in ToSet(q)) /\ (f.meta.label # g.meta.label => l \in ToSet(q))
    BY <1>3 DEF AmendmentsHold
  <2>. HIDE DEF u, l, q
  <2>. QED  BY <1>2, <2>1 DEF IsTold, q
<1>5. /\ Among(<< >>, S) = << >>
      /\ Among(<<u>>, S) = IF u \in S THEN <<u>> ELSE << >>
      /\ Among(<<l>>, S) = IF l \in S THEN <<l>> ELSE << >>
      /\ Among(<<u, l>>, S) = IF u \in S THEN IF l \in S THEN <<u, l>> ELSE <<u>>
                              ELSE IF l \in S THEN <<l>> ELSE << >>
  <2>. HIDE DEF u, l
  <2>1. \A x, y : /\ Among(<< >>, S) = << >>
                  /\ Among(<<x>>, S) = IF x \in S THEN <<x>> ELSE << >>
    BY AmongFew
  <2>2. Among(<<u, l>>, S) = IF u \in S THEN IF l \in S THEN <<u, l>> ELSE <<u>>
                             ELSE IF l \in S THEN <<l>> ELSE << >>
    BY AmongFew
  <2>. QED  BY <2>1, <2>2
<1>. HIDE DEF u, l, q
<1>6. CASE m = "unit"
  <2>1. Among(q, S) = IF f.name = n /\ f.meta.unit # g.meta.unit THEN <<u>> ELSE << >>
    <3>1. CASE f.meta.unit # g.meta.unit /\ f.meta.label # g.meta.label
      BY <1>1, <1>4, <1>5, <1>6, <3>1
    <3>2. CASE f.meta.unit # g.meta.unit /\ f.meta.label = g.meta.label
      BY <1>1, <1>4, <1>5, <1>6, <3>2
    <3>3. CASE f.meta.unit = g.meta.unit /\ f.meta.label # g.meta.label
      BY <1>1, <1>4, <1>5, <1>6, <3>3
    <3>4. CASE f.meta.unit = g.meta.unit /\ f.meta.label = g.meta.label
      BY <1>1, <1>5, <3>4
    <3>. QED  BY <3>1, <3>2, <3>3, <3>4
  <2>2. f.name = n => u = AmendmentOf(n, m, f.meta[m], g.meta[m])
    BY <1>2, <1>6
  <2>. QED  BY <1>6, <2>1, <2>2 DEF q, AmendmentTold
<1>7. CASE m = "label"
  <2>1. Among(q, S) = IF f.name = n /\ f.meta.label # g.meta.label THEN <<l>> ELSE << >>
    <3>1. CASE f.meta.unit # g.meta.unit /\ f.meta.label # g.meta.label
      BY <1>1, <1>4, <1>5, <1>7, <3>1
    <3>2. CASE f.meta.unit # g.meta.unit /\ f.meta.label = g.meta.label
      BY <1>1, <1>4, <1>5, <1>7, <3>2
    <3>3. CASE f.meta.unit = g.meta.unit /\ f.meta.label # g.meta.label
      BY <1>1, <1>4, <1>5, <1>7, <3>3
    <3>4. CASE f.meta.unit = g.meta.unit /\ f.meta.label = g.meta.label
      BY <1>1, <1>5, <3>4
    <3>. QED  BY <3>1, <3>2, <3>3, <3>4
  <2>2. f.name = n => l = AmendmentOf(n, m, f.meta[m], g.meta[m])
    BY <1>2, <1>7
  <2>. QED  BY <1>7, <2>1, <2>2 DEF q, AmendmentTold
<1>. QED  BY <1>6, <1>7

\* Told once of all the fields that stay.
AmongTold(us, target, n, m, S) ==
    IsTold(S, TellsOf(us, target), n, m) => Among(TellsOf(us, target), S) = TellsOnce(us, target, n, m)

\* Of all the fields that stay.
LEMMA ToldOnce ==
    ASSUME NEW X, NEW us \in Seq(X), Distinct(us), NEW target, NEW n, NEW m \in {"unit", "label"}, NEW S
    PROVE  AmongTold(us, target, n, m, S)
<1>. DEFINE T == {k \in Nat : \E t \in Seq(X) : Len(t) = k /\ Distinct(t) /\ ~AmongTold(t, target, n, m, S)}
<1>1. SUFFICES ASSUME T # {}
               PROVE  FALSE
  OBVIOUS
<1>2. PICK k \in T : \A j \in T : k <= j
  BY <1>1, Least
<1>3. PICK t \in Seq(X) : Len(t) = k /\ Distinct(t) /\ ~AmongTold(t, target, n, m, S)
  BY <1>2
<1>4. \A u \in Seq(X) : Len(u) \in Nat /\ (Distinct(u) /\ ~AmongTold(u, target, n, m, S) => Len(u) \in T)
  OBVIOUS
<1>. HIDE DEF T
<1>5. CASE k = 0
  <2>1. t = << >>
    BY <1>3, <1>5
  <2>2. TellsOf(<< >>, target) = << >> /\ Among(<< >>, S) = << >>
    BY NoTurn, AmongFew DEF TellsOf
  <2>3. ToSet(<< >>) = {}
    BY DEF ToSet
  <2>4. AmongTold(<< >>, target, n, m, S)
    BY <2>2, <2>3 DEF AmongTold, TellsOnce
  <2>. QED  BY <1>3, <2>1, <2>4
<1>6. CASE k # 0
  <2>1. PICK u \in Seq(X), x \in X : t = Append(u, x) /\ Len(u) = k - 1
    BY <1>3, <1>6, Longer
  <2>2. Distinct(u) /\ \A f \in ToSet(u) : f.name # x.name
    BY <1>3, <2>1, DistinctOneMore
  <2>3. AmongTold(u, target, n, m, S)
    BY <1>2, <1>3, <1>4, <2>1, <2>2
  <2>. DEFINE p == TellsOf(u, target)
              g == FieldNamed(target, x.name)
              q == Amendments(x, g)
              r == TellsOf(t, target)
              Y == ToSet(p) \union ToSet(q)
  <2>4. r = p \o q
    BY <2>1, TellsOneMore
  <2>5. ToSet(t) = ToSet(u) \union {x}
    BY <2>1, HoldsOneMore
  <2>6. p \in Seq(ToSet(p)) /\ q \in Seq(ToSet(q))
    BY TellsAreHeld, AmendmentsAreHeld DEF TellsHold, AmendmentsHold
  <2>7. IsTold(S, r, n, m)
    BY <1>3 DEF AmongTold
  <2>8. Among(p, S) = TellsOnce(u, target, n, m) \/ ~IsTold(S, p, n, m)
    BY <2>3 DEF AmongTold
  <2>. HIDE DEF p, r, g
  <2>9. ToSet(r) = ToSet(p) \union ToSet(q) /\ Among(r, S) = Among(p, S) \o Among(q, S)
    <3>1. p \in Seq(Y) /\ q \in Seq(Y)
      <4>. HIDE DEF q
      <4>. QED  BY <2>6
    <3>. HIDE DEF q, Y
    <3>2. ToSet(p \o q) = ToSet(p) \union ToSet(q)
      BY <3>1, NamesJoined
    <3>3. Among(p \o q, S) = Among(p, S) \o Among(q, S)
      BY <3>1, AmongJoined
    <3>. QED  BY <2>4, <3>2, <3>3
  <2>10. Among(q, S) =
           IF x.name = n /\ x.meta[m] # g.meta[m] THEN <<AmendmentOf(n, m, x.meta[m], g.meta[m])>> ELSE << >>
    <3>1. IsTold(S, q, n, m)
      BY <2>7, <2>9 DEF IsTold
    <3>2. AmendmentTold(x, g, n, m, Among(q, S))
      BY <3>1, AmendmentsAmong
    <3>. HIDE DEF q
    <3>. QED  BY <3>2 DEF AmendmentTold
  <2>11. Among(p, S) = TellsOnce(u, target, n, m)
    BY <2>7, <2>8, <2>9 DEF IsTold
  <2>. HIDE DEF q
  <2>12. \A y : <<y>> \o << >> = <<y>> /\ << >> \o <<y>> = <<y>> /\ << >> \o << >> = << >>
    OBVIOUS
  <2>13. u \in Seq(ToSet(u)) /\ t \in Seq(ToSet(t))
    BY <1>3, <2>1, OfItsOwn
  <2>14. \A f \in ToSet(u) : FieldNamed(u, f.name) = f /\ FieldNamed(t, f.name) = f
    BY <1>3, <2>2, <2>5, <2>13, NamedField
  <2>15. FieldNamed(t, x.name) = x
    BY <1>3, <2>5, <2>13, NamedField
  <2>16. Among(p, S) \o Among(q, S) = TellsOnce(t, target, n, m)
    <3>1. CASE x.name = n
      <4>1. TellsOnce(u, target, n, m) = << >>
        BY <2>2, <3>1 DEF TellsOnce
      <4>2. TellsOnce(t, target, n, m) =
              IF x.meta[m] # g.meta[m] THEN <<AmendmentOf(n, m, x.meta[m], g.meta[m])>> ELSE << >>
        BY <2>2, <2>5, <2>15, <3>1 DEF TellsOnce, g
      <4>. QED  BY <2>10, <2>11, <2>12, <3>1, <4>1, <4>2
    <3>2. CASE x.name # n
      <4>1. TellsOnce(t, target, n, m) = TellsOnce(u, target, n, m)
        <5>1. (\E f \in ToSet(t) : f.name = n /\ f.meta[m] # FieldNamed(target, n).meta[m])
                <=> (\E f \in ToSet(u) : f.name = n /\ f.meta[m] # FieldNamed(target, n).meta[m])
          BY <2>5, <3>2
        <5>2. \A f \in ToSet(u) : f.name = n => FieldNamed(t, n) = FieldNamed(u, n)
          BY <2>14
        <5>. QED  BY <5>1, <5>2 DEF TellsOnce
      <4>2. Among(q, S) = << >>
        BY <2>10, <3>2
      <4>3. TellsOnce(u, target, n, m) \o << >> = TellsOnce(u, target, n, m)
        BY <2>12 DEF TellsOnce
      <4>. QED  BY <2>11, <4>1, <4>2, <4>3
    <3>. QED  BY <3>1, <3>2
  <2>. QED  BY <1>3, <2>9, <2>16 DEF AmongTold, r
<1>. QED  BY <1>5, <1>6

\* What a delta names, by the fields it is of.
Differs(us, target, n, m) == \E f \in ToSet(us) : f.name = n /\ f.meta[m] # FieldNamed(target, n).meta[m]
AmendedNames(us, target) ==
    {n \in NamesIn(us) : Differs(us, target, n, "unit") \/ Differs(us, target, n, "label")}
ToldOf(d, us, target) ==
    [added |-> ToSet(d.added), removed |-> NamesIn(d.removed), retyped |-> ToSet(d.retyped),
     amended |-> [n \in AmendedNames(us, target) |->
                    [k \in DOMAIN Members |-> TellsOnce(us, target, n, Members[k])]]]

\* So a diff is told.
LEMMA ToldIs ==
    ASSUME NEW old, IsFields(old), NEW target, IsFields(target)
    PROVE  Told(SchemaDiff(old, target)) = ToldOf(SchemaDiff(old, target), KeptOf(old, target), target)
<1>. DEFINE d == SchemaDiff(old, target)
            us == KeptOf(old, target)
            amends(n, m) == Among(d.amended, {a \in ToSet(d.amended) : a.name = n /\ a.change.member = m})
<1>1. d.amended = TellsOf(us, target) /\ IsFields(us) /\ IsFields(d.removed)
  BY DiffIs DEF DiffHolds
<1>. HIDE DEF d, us
<1>2. us \in Seq(ToSet(us)) /\ Distinct(us)
  BY <1>1 DEF IsFields
<1>3. ASSUME NEW n, NEW m \in {"unit", "label"}
      PROVE  amends(n, m) = TellsOnce(us, target, n, m)
  <2>. DEFINE S == {a \in ToSet(d.amended) : a.name = n /\ a.change.member = m}
  <2>1. AmongTold(us, target, n, m, S)
    BY <1>2, ToldOnce
  <2>2. IsTold(S, d.amended, n, m)
    BY DEF IsTold
  <2>. HIDE DEF S
  <2>3. Among(d.amended, S) = TellsOnce(us, target, n, m)
    BY <1>1, <2>1, <2>2 DEF AmongTold
  <2>. QED  BY <2>3 DEF S
<1>4. \A k \in DOMAIN Members : Members[k] \in {"unit", "label"}
  BY DEF Members
<1>5. ToSet(Names(d.amended)) = AmendedNames(us, target)
  <2>1. TellsHold(us, target)
    BY <1>2, TellsAreHeld
  <2>2. \A a : a \in ToSet(d.amended)
          <=> \E f \in ToSet(us) : a \in ToSet(Amendments(f, FieldNamed(target, f.name)))
    BY <1>1, <2>1 DEF TellsHold
  <2>3. \A f, g, a : a \in ToSet(Amendments(f, g)) <=> (\/ a = UnitTold(f, g) /\ f.meta.unit # g.meta.unit
                                                        \/ a = LabelTold(f, g) /\ f.meta.label # g.meta.label)
    BY AmendmentsAreHeld DEF AmendmentsHold
  <2>4. \A f, g : UnitTold(f, g).name = f.name /\ LabelTold(f, g).name = f.name
    BY DEF UnitTold, LabelTold, AmendmentOf
  <2>5. \A n : n \in ToSet(Names(d.amended)) <=> \E a \in ToSet(d.amended) : n = a.name
    BY DEF ToSet, Names
  <2>6. ASSUME NEW n \in ToSet(Names(d.amended))
        PROVE  n \in AmendedNames(us, target)
    <3>1. PICK a \in ToSet(d.amended) : n = a.name
      BY <2>5
    <3>2. PICK f \in ToSet(us) : a \in ToSet(Amendments(f, FieldNamed(target, f.name)))
      BY <2>2
    <3>. DEFINE g == FieldNamed(target, f.name)
    <3>3. \/ a = UnitTold(f, g) /\ f.meta.unit # g.meta.unit
          \/ a = LabelTold(f, g) /\ f.meta.label # g.meta.label
      BY <2>3, <3>2
    <3>4. n = f.name
      BY <2>4, <3>1, <3>3
    <3>5. Differs(us, target, n, "unit") \/ Differs(us, target, n, "label")
      BY <3>3, <3>4 DEF Differs
    <3>. QED  BY <3>4, <3>5 DEF AmendedNames, NamesIn
  <2>7. ASSUME NEW n \in AmendedNames(us, target)
        PROVE  n \in ToSet(Names(d.amended))
    <3>1. PICK m \in {"unit", "label"} : Differs(us, target, n, m)
      BY DEF AmendedNames
    <3>2. PICK f \in ToSet(us) : f.name = n /\ f.meta[m] # FieldNamed(target, n).meta[m]
      BY <3>1 DEF Differs
    <3>. DEFINE g == FieldNamed(target, f.name)
    <3>3. UnitTold(f, g) \in ToSet(Amendments(f, g)) \/ LabelTold(f, g) \in ToSet(Amendments(f, g))
      BY <2>3, <3>2
    <3>4. UnitTold(f, g) \in ToSet(d.amended) \/ LabelTold(f, g) \in ToSet(d.amended)
      BY <2>2, <3>3
    <3>. QED  BY <2>4, <2>5, <3>2, <3>4
  <2>. QED  BY <2>6, <2>7
<1>6. ToSet(Names(d.removed)) = NamesIn(d.removed)
  BY <1>1, NamedField DEF IsFields
<1>7. Told(d) = [added |-> ToSet(d.added), removed |-> ToSet(Names(d.removed)), retyped |-> ToSet(d.retyped),
                 amended |-> [n \in ToSet(Names(d.amended)) |->
                                [k \in DOMAIN Members |-> amends(n, Members[k])]]]
  BY DEF Told
<1>8. \A n \in ToSet(Names(d.amended)) : [k \in DOMAIN Members |-> amends(n, Members[k])] =
        [k \in DOMAIN Members |-> TellsOnce(us, target, n, Members[k])]
  <2>. HIDE DEF amends
  <2>. QED  BY <1>3, <1>4
<1>. HIDE DEF amends
<1>. QED  BY <1>5, <1>6, <1>7, <1>8 DEF ToldOf, d, us

\* A field of a patched schema, by what was told of it.
Turned(f, h, d, us, target) ==
    /\ h.name = f.name
    /\ h.type = IF f.name \in NamesIn(d.retyped) THEN FieldNamed(d.retyped, f.name).to ELSE f.type
    /\ \A m \in {"unit", "label"} :
         h.meta[m] =
           IF f.name \in NamesIn(us) /\ FieldNamed(us, f.name).meta[m] # FieldNamed(target, f.name).meta[m]
                     THEN FieldNamed(target, f.name).meta[m] ELSE f.meta[m]

\* So each field of the schema turns out.
LEMMA FieldsTurn ==
    ASSUME NEW s, IsFields(s), NEW d, NEW us, NEW target, NEW i \in DOMAIN LeftOf(s, d)
    PROVE  /\ i \in DOMAIN RetypedOf(s, d) /\ i \in DOMAIN AmendedOf(s, d, us, target)
           /\ DOMAIN RetypedOf(s, d) = DOMAIN LeftOf(s, d)
                /\ DOMAIN AmendedOf(s, d, us, target) = DOMAIN LeftOf(s, d)
           /\ RetypedOf(s, d)[i].name = LeftOf(s, d)[i].name /\ RetypedOf(s, d)[i].meta = LeftOf(s, d)[i].meta
           /\ Turned(LeftOf(s, d)[i], AmendedOf(s, d, us, target)[i], d, us, target)
<1>. DEFINE a == LeftOf(s, d)
            b == RetypedOf(s, d)
            c == AmendedOf(s, d, us, target)
            f == a[i]
<1>1. StaysSchema(s, d, us, target)
  BY SchemaStays
<1>2. IsField(f)
  <2>1. IsFields(a)
    BY <1>1 DEF StaysSchema
  <2>. QED  BY <2>1 DEF IsFields, ToSet
<1>3. DOMAIN b = DOMAIN a /\ b[i] = Retype(f, d.retyped)
  BY DEF RetypedOf
<1>4. DOMAIN c = DOMAIN b /\ \A j \in DOMAIN b : c[j] =
        IF b[j].name \in NamesIn(us)
        THEN Amend(b[j], FieldNamed(us, b[j].name), FieldNamed(target, b[j].name)) ELSE b[j]
  BY DEF AmendedOf, AmendAll
<1>5. i \in DOMAIN a
  OBVIOUS
<1>. HIDE DEF a, b, c, f
<1>6. /\ IsField(b[i]) /\ b[i].name = f.name /\ b[i].meta = f.meta
      /\ b[i].type = IF f.name \in NamesIn(d.retyped) THEN FieldNamed(d.retyped, f.name).to ELSE f.type
  BY <1>2, <1>3, RetypeIs
<1>7. c[i] = IF f.name \in NamesIn(us)
        THEN Amend(b[i], FieldNamed(us, f.name), FieldNamed(target, f.name)) ELSE b[i]
  BY <1>3, <1>4, <1>5, <1>6
<1>8. Turned(f, c[i], d, us, target)
  <2>1. CASE f.name \in NamesIn(us)
    <3>. DEFINE g == FieldNamed(us, f.name)
                h == FieldNamed(target, f.name)
    <3>. HIDE DEF g, h
    <3>1. c[i] = Amend(b[i], g, h)
      BY <1>7, <2>1 DEF g, h
    <3>2. /\ c[i].name = b[i].name /\ c[i].type = b[i].type
          /\ c[i].meta.unit = IF g.meta.unit = h.meta.unit THEN b[i].meta.unit ELSE h.meta.unit
          /\ c[i].meta.label = IF g.meta.label = h.meta.label THEN b[i].meta.label ELSE h.meta.label
      BY <1>6, <3>1, AmendIs
    <3>. QED  BY <1>6, <2>1, <3>2 DEF Turned, g, h
  <2>2. CASE f.name \notin NamesIn(us)
    BY <1>6, <1>7, <2>2 DEF Turned
  <2>. QED  BY <2>1, <2>2
<1>. QED  BY <1>3, <1>4, <1>5, <1>6, <1>8 DEF a, b, c, f

\* A schema a delta goes through on changes by what the delta names.
LEMMA Replayed ==
    ASSUME NEW old, IsFields(old), NEW target, IsFields(target), NEW other, IsFields(other)
    PROVE  Replays(SchemaDiff(old, target), other)
<1>. DEFINE d == SchemaDiff(old, target)
            us == KeptOf(old, target)
            p == SchemaPatch(other, d)
            q == p.fields
            e == SchemaDiff(other, q)
            vs == KeptOf(other, q)
            a == LeftOf(other, d)
            b == RetypedOf(other, d)
            c == AmendedOf(other, d, us, target)
            all == c \o d.added
<1>. SUFFICES ASSUME p.err = "None"
              PROVE  Told(e) = Told(d)
  BY DEF Replays
<1>1. DiffHolds(old, target)
  BY DiffIs
<1>2. /\ IsFields(us) /\ IsFields(d.added)
           /\ ToSet(d.added) = {f \in ToSet(target) : f.name \notin NamesIn(old)}
      /\ IsFields(d.removed) /\ ToSet(d.removed) = {f \in ToSet(old) : f.name \notin NamesIn(target)}
      /\ d.retyped \in Seq(ToSet(d.retyped)) /\ Distinct(d.retyped)
      /\ d.order = IF Names(target) = Names(us) \o Names(d.added) THEN << >> ELSE Names(target)
  BY <1>1 DEF DiffHolds
<1>3. \A r : r \in ToSet(d.retyped)
        <=> \E f \in ToSet(us) : FieldNamed(target, f.name).type # f.type /\ r = RetypingOf(f, target)
  <2>. HIDE DEF us
  <2>. QED  BY <1>1 DEF DiffHolds, us
<1>4. Applies(other, d, us, target) /\ p = Ordering(all, d.order)
  <2>1. PatchedIs(other, d, us, target)
    BY PatchIs, DiffIsDelta
  <2>. QED  BY <2>1 DEF PatchedIs
<1>5. /\ IsFields(a) /\ IsFields(c) /\ ToSet(a) = {f \in ToSet(other) : f.name \notin NamesIn(d.removed)}
      /\ NamesIn(c) = NamesIn(a)
  BY SchemaStays DEF StaysSchema
<1>6. \A i \in DOMAIN a : /\ i \in DOMAIN b /\ i \in DOMAIN c
                          /\ b[i].name = a[i].name /\ b[i].meta = a[i].meta
                               /\ Turned(a[i], c[i], d, us, target)
  BY FieldsTurn
<1>7. DOMAIN c = DOMAIN a /\ DOMAIN b = DOMAIN a
  <2>1. DOMAIN b = DOMAIN a
    BY DEF RetypedOf
  <2>2. DOMAIN c = DOMAIN b
    BY DEF AmendedOf, AmendAll
  <2>. QED  BY <2>1, <2>2
<1>8. /\ Removable(other, d.removed) /\ Retypable(a, d.retyped) /\ Amendable(b, us, target)
           /\ Addable(c, d.added)
  BY <1>4 DEF Applies
<1>9. Told(e) = ToldOf(e, vs, q) \/ ~IsFields(q)
  BY ToldIs
<1>10. Told(d) = ToldOf(d, us, target)
  BY ToldIs
<1>11. DiffHolds(other, q) \/ ~IsFields(q)
  BY DiffIs
<1>. HIDE DEF d, us, p, a, b, c
<1>12. /\ IsFields(all) /\ ToSet(all) = ToSet(c) \union ToSet(d.added)
  <2>. DEFINE X == ToSet(c) \union ToSet(d.added)
  <2>1. c \in Seq(ToSet(c)) /\ d.added \in Seq(ToSet(d.added))
    BY <1>2, <1>5 DEF IsFields
  <2>2. c \in Seq(X) /\ d.added \in Seq(X)
    BY <2>1
  <2>3. NamesIn(c) \intersect NamesIn(d.added) = {}
    BY <1>8 DEF Addable, NamesIn
  <2>. HIDE DEF X
  <2>4. /\ all \in Seq(X) /\ ToSet(all) = ToSet(c) \union ToSet(d.added)
        /\ Distinct(all) <=> Distinct(c) /\ Distinct(d.added) /\ NamesIn(c) \intersect NamesIn(d.added) = {}
    BY <2>2, NamesJoined
  <2>. HIDE DEF all
  <2>5. all \in Seq(ToSet(all))
    BY <2>4, OfItsOwn
  <2>6. Distinct(all)
    BY <1>2, <1>5, <2>3, <2>4 DEF IsFields
  <2>7. \A f \in ToSet(all) : IsField(f)
    BY <1>2, <1>5, <2>4 DEF IsFields
  <2>. QED  BY <2>4, <2>5, <2>6, <2>7 DEF IsFields
<1>. HIDE DEF all
<1>13. IsFields(q) /\ ToSet(q) = ToSet(c) \union ToSet(d.added)
  <2>1. Names(target) \in Seq(NamesIn(target))
    BY SchemaNames
  <2>2. d.order \in Seq(NamesIn(target))
    BY <1>2, <2>1
  <2>3. OrderHolds(all, d.order)
    BY <1>12, <2>2, OrderIs
  <2>4. IsFields(q) /\ ToSet(q) = ToSet(all)
    BY <1>4, <2>3 DEF OrderHolds
  <2>. QED  BY <1>12, <2>4
<1>. HIDE DEF q, e, vs
<1>14. /\ IsFields(vs) /\ ToSet(vs) = {f \in ToSet(other) : f.name \in NamesIn(q)}
       /\ ToSet(e.added) = {f \in ToSet(q) : f.name \notin NamesIn(other)}
       /\ ToSet(e.removed) = {f \in ToSet(other) : f.name \notin NamesIn(q)}
  BY <1>11, <1>13 DEF DiffHolds, e, vs
<1>15. \A r : r \in ToSet(e.retyped)
         <=> \E f \in ToSet(vs) : FieldNamed(q, f.name).type # f.type /\ r = RetypingOf(f, q)
  BY <1>11, <1>13 DEF DiffHolds, e, vs
<1>16. /\ \A f, g \in ToSet(other) : f.name = g.name => f = g
       /\ \A f \in ToSet(a) : \E i \in DOMAIN a : f = a[i]
       /\ \A i \in DOMAIN a : a[i] \in ToSet(a) /\ b[i] \in ToSet(b) /\ c[i] \in ToSet(c)
       /\ \A f \in ToSet(b) : \E i \in DOMAIN a : f = b[i]
       /\ \A f \in ToSet(c) : \E i \in DOMAIN a : f = c[i]
  <2>1. \A f \in ToSet(other) : FieldNamed(other, f.name) = f
    BY NamedField DEF IsFields
  <2>. QED  BY <1>7, <2>1 DEF ToSet
<1>17. /\ \A n : n \in NamesIn(d.removed) => n \notin NamesIn(d.added)
       /\ \A n : n \in NamesIn(d.added) => n \notin NamesIn(a) /\ n \notin NamesIn(d.removed)
  <2>1. \A n \in NamesIn(d.removed) : n \in NamesIn(old)
    BY <1>2 DEF NamesIn
  <2>2. \A n \in NamesIn(d.added) : n \notin NamesIn(old)
    BY <1>2 DEF NamesIn
  <2>3. \A n \in NamesIn(d.added) : n \notin NamesIn(a)
    BY <1>5, <1>8 DEF Addable, NamesIn
  <2>. QED  BY <2>1, <2>2, <2>3
<1>18. NamesIn(q) = NamesIn(a) \union NamesIn(d.added)
  <2>1. NamesIn(q) = NamesIn(c) \union NamesIn(d.added)
    BY <1>13 DEF NamesIn
  <2>. QED  BY <1>5, <2>1
<1>19. \A n : n \in NamesIn(d.added) => n \notin NamesIn(other)
  <2>. SUFFICES ASSUME NEW n \in NamesIn(d.added), n \in NamesIn(other)
                PROVE  FALSE
    OBVIOUS
  <2>1. PICK f \in ToSet(other) : f.name = n
    BY DEF NamesIn
  <2>2. CASE f \in ToSet(a)
    BY <1>17, <2>1, <2>2 DEF NamesIn
  <2>3. CASE f \notin ToSet(a)
    BY <1>5, <1>17, <2>1, <2>3
  <2>. QED  BY <2>2, <2>3
<1>20. ToSet(vs) = ToSet(a)
  <2>1. ASSUME NEW f \in ToSet(vs)
        PROVE  f \in ToSet(a)
    <3>1. f \in ToSet(other) /\ f.name \in NamesIn(other) /\ f.name \in NamesIn(q)
      BY <1>14 DEF NamesIn
    <3>2. f.name \in NamesIn(a)
      BY <1>18, <1>19, <3>1
    <3>3. PICK g \in ToSet(a) : g.name = f.name
      BY <3>2 DEF NamesIn
    <3>. QED  BY <1>5, <1>16, <3>1, <3>3
  <2>2. ASSUME NEW f \in ToSet(a)
        PROVE  f \in ToSet(vs)
    <3>1. f \in ToSet(other) /\ f.name \in NamesIn(a)
      BY <1>5 DEF NamesIn
    <3>. QED  BY <1>14, <1>18, <3>1
  <2>. QED  BY <2>1, <2>2
<1>21. ToSet(e.added) = ToSet(d.added)
  <2>1. ASSUME NEW f \in ToSet(e.added)
        PROVE  f \in ToSet(d.added)
    <3>1. f \in ToSet(q) /\ f.name \notin NamesIn(other)
      BY <1>14
    <3>2. f \notin ToSet(c)
      <4>1. \A n \in NamesIn(a) : n \in NamesIn(other)
        BY <1>5 DEF NamesIn
      <4>2. f \in ToSet(c) => f.name \in NamesIn(a)
        BY <1>5 DEF NamesIn
      <4>. QED  BY <3>1, <4>1, <4>2
    <3>. QED  BY <1>13, <3>1, <3>2
  <2>2. ASSUME NEW f \in ToSet(d.added)
        PROVE  f \in ToSet(e.added)
    <3>1. f.name \in NamesIn(d.added)
      BY DEF NamesIn
    <3>. QED  BY <1>13, <1>14, <1>19, <3>1
  <2>. QED  BY <2>1, <2>2
<1>22. NamesIn(e.removed) = NamesIn(d.removed)
  <2>1. ASSUME NEW n \in NamesIn(e.removed)
        PROVE  n \in NamesIn(d.removed)
    <3>1. PICK f \in ToSet(e.removed) : f.name = n
      BY DEF NamesIn
    <3>2. f \in ToSet(other) /\ f.name \notin NamesIn(a)
      BY <1>14, <1>18, <3>1
    <3>3. f \notin ToSet(a)
      BY <3>2 DEF NamesIn
    <3>. QED  BY <1>5, <3>1, <3>2, <3>3
  <2>2. ASSUME NEW n \in NamesIn(d.removed)
        PROVE  n \in NamesIn(e.removed)
    <3>1. PICK r \in ToSet(d.removed) : r.name = n
      BY DEF NamesIn
    <3>2. PICK f \in ToSet(other) : f.name = n
      BY <1>8, <3>1 DEF Removable
    <3>3. n \notin NamesIn(a)
      BY <1>5 DEF NamesIn
    <3>4. n \notin NamesIn(q)
      BY <1>17, <1>18, <3>3
    <3>5. f \in ToSet(e.removed)
      BY <1>14, <3>2, <3>4
    <3>. QED  BY <3>2, <3>5 DEF NamesIn
  <2>. QED  BY <2>1, <2>2
<1>23. \A i \in DOMAIN a : FieldNamed(q, a[i].name) = c[i]
  <2>1. \A f \in ToSet(q) : FieldNamed(q, f.name) = f
    BY <1>13, NamedField DEF IsFields
  <2>2. \A i \in DOMAIN a : c[i].name = a[i].name
    BY <1>6 DEF Turned
  <2>. QED  BY <1>13, <1>16, <2>1, <2>2
<1>24. ToSet(e.retyped) = ToSet(d.retyped)
  <2>0. /\ \A r \in ToSet(d.retyped) : FieldNamed(d.retyped, r.name) = r
        /\ \A f, g \in ToSet(a) : f.name = g.name => f = g
    <3>1. \A r \in ToSet(d.retyped) : FieldNamed(d.retyped, r.name) = r
      BY <1>2, NamedField
    <3>. QED  BY <1>5, <1>16, <3>1
  <2>1. \A r \in ToSet(d.retyped) : r.from # r.to /\ r = [name |-> r.name, from |-> r.from, to |-> r.to]
    BY <1>3 DEF RetypingOf
  <2>2. ASSUME NEW r \in ToSet(d.retyped)
        PROVE  r \in ToSet(e.retyped)
    <3>1. PICK f \in ToSet(a) : f.name = r.name /\ f.type = r.from
      BY <1>8 DEF Retypable
    <3>2. PICK i \in DOMAIN a : f = a[i]
      BY <1>16
    <3>3. c[i].type = r.to
      <4>1. f.name \in NamesIn(d.retyped)
        BY <3>1 DEF NamesIn
      <4>. QED  BY <1>6, <2>0, <3>1, <3>2, <4>1 DEF Turned
    <3>4. FieldNamed(q, f.name).type = r.to
      BY <1>23, <3>2, <3>3
    <3>5. RetypingOf(f, q) = [name |-> r.name, from |-> r.from, to |-> r.to]
      BY <3>1, <3>4 DEF RetypingOf
    <3>. QED  BY <1>15, <1>20, <2>1, <3>1, <3>4, <3>5
  <2>3. ASSUME NEW r \in ToSet(e.retyped)
        PROVE  r \in ToSet(d.retyped)
    <3>1. PICK f \in ToSet(a) : FieldNamed(q, f.name).type # f.type /\ r = RetypingOf(f, q)
      BY <1>15, <1>20
    <3>2. PICK i \in DOMAIN a : f = a[i]
      BY <1>16
    <3>3. FieldNamed(q, f.name) = c[i] /\ Turned(f, c[i], d, us, target)
      BY <1>6, <1>23, <3>2
    <3>4. f.name \in NamesIn(d.retyped) /\ c[i].type = FieldNamed(d.retyped, f.name).to
      BY <3>1, <3>3 DEF Turned
    <3>5. PICK t \in ToSet(d.retyped) : t.name = f.name
      BY <3>4 DEF NamesIn
    <3>6. PICK g \in ToSet(a) : g.name = t.name /\ g.type = t.from
      BY <1>8 DEF Retypable
    <3>7. f.type = t.from /\ c[i].type = t.to
      BY <2>0, <3>4, <3>5, <3>6
    <3>8. r = [name |-> t.name, from |-> t.from, to |-> t.to]
      BY <3>1, <3>3, <3>5, <3>7 DEF RetypingOf
    <3>. QED  BY <2>1, <3>8
  <2>. QED  BY <2>2, <2>3
<1>25. /\ \A f \in ToSet(us) : FieldNamed(us, f.name) = f
       /\ \A f \in ToSet(vs) : FieldNamed(vs, f.name) = f
  <2>1. \A f \in ToSet(us) : FieldNamed(us, f.name) = f
    BY <1>2, NamedField DEF IsFields
  <2>2. \A f \in ToSet(vs) : FieldNamed(vs, f.name) = f
    BY <1>14, NamedField DEF IsFields
  <2>. QED  BY <2>1, <2>2
<1>26. ASSUME NEW n, NEW m \in {"unit", "label"}
       PROVE  /\ Differs(vs, q, n, m) <=> Differs(us, target, n, m)
              /\ Differs(us, target, n, m) => /\ FieldNamed(vs, n).meta[m] = FieldNamed(us, n).meta[m]
                                              /\ FieldNamed(q, n).meta[m] = FieldNamed(target, n).meta[m]
  <2>1. ASSUME Differs(us, target, n, m)
        PROVE  /\ Differs(vs, q, n, m)
               /\ FieldNamed(vs, n).meta[m] = FieldNamed(us, n).meta[m]
               /\ FieldNamed(q, n).meta[m] = FieldNamed(target, n).meta[m]
    <3>1. PICK g \in ToSet(us) : g.name = n /\ g.meta[m] # FieldNamed(target, n).meta[m]
      BY <2>1 DEF Differs
    <3>2. PICK h \in ToSet(b) : h.name = n /\ h.meta[m] = g.meta[m]
      BY <1>8, <3>1 DEF Amendable, CanAmend
    <3>3. PICK i \in DOMAIN a : h = b[i]
      BY <1>16, <3>2
    <3>4. a[i].name = n /\ a[i].meta[m] = g.meta[m] /\ a[i] \in ToSet(vs) /\ Turned(a[i], c[i], d, us, target)
      BY <1>6, <1>16, <1>20, <3>2, <3>3
    <3>5. FieldNamed(us, n) = g /\ n \in NamesIn(us) /\ FieldNamed(vs, n) = a[i] /\ FieldNamed(q, n) = c[i]
      BY <1>23, <1>25, <3>1, <3>4 DEF NamesIn
    <3>6. c[i].meta[m] = FieldNamed(target, n).meta[m]
      BY <3>1, <3>4, <3>5 DEF Turned
    <3>. QED  BY <3>1, <3>4, <3>5, <3>6 DEF Differs
  <2>2. ASSUME Differs(vs, q, n, m)
        PROVE  Differs(us, target, n, m)
    <3>1. PICK f \in ToSet(a) : f.name = n /\ f.meta[m] # FieldNamed(q, n).meta[m]
      BY <1>20, <2>2 DEF Differs
    <3>2. PICK i \in DOMAIN a : f = a[i]
      BY <1>16
    <3>3. FieldNamed(q, n) = c[i] /\ Turned(f, c[i], d, us, target)
      BY <1>6, <1>23, <3>1, <3>2
    <3>4. n \in NamesIn(us) /\ FieldNamed(us, n).meta[m] # FieldNamed(target, n).meta[m]
      BY <3>1, <3>3 DEF Turned
    <3>5. PICK g \in ToSet(us) : g.name = n
      BY <3>4 DEF NamesIn
    <3>. QED  BY <1>25, <3>4, <3>5 DEF Differs
  <2>. QED  BY <2>1, <2>2
<1>27. AmendedNames(vs, q) = AmendedNames(us, target)
  <2>1. \A n : (Differs(vs, q, n, "unit") <=> Differs(us, target, n, "unit"))
          /\ (Differs(vs, q, n, "label") <=> Differs(us, target, n, "label"))
    BY <1>26
  <2>2. \A w, t, n, m : Differs(w, t, n, m) => n \in NamesIn(w)
    BY DEF Differs, NamesIn
  <2>. QED  BY <2>1, <2>2 DEF AmendedNames
<1>28. ASSUME NEW n, NEW m \in {"unit", "label"}
       PROVE  TellsOnce(vs, q, n, m) = TellsOnce(us, target, n, m)
  <2>1. \A w, t : TellsOnce(w, t, n, m) =
          IF Differs(w, t, n, m)
          THEN <<AmendmentOf(n, m, FieldNamed(w, n).meta[m], FieldNamed(t, n).meta[m])>> ELSE << >>
    BY DEF TellsOnce, Differs
  <2>2. /\ Differs(vs, q, n, m) <=> Differs(us, target, n, m)
        /\ Differs(us, target, n, m) => /\ FieldNamed(vs, n).meta[m] = FieldNamed(us, n).meta[m]
                                        /\ FieldNamed(q, n).meta[m] = FieldNamed(target, n).meta[m]
    BY <1>26
  <2>3. CASE Differs(us, target, n, m)
    BY <2>1, <2>2, <2>3
  <2>4. CASE ~Differs(us, target, n, m)
    <3>1. TellsOnce(vs, q, n, m) = << >> /\ TellsOnce(us, target, n, m) = << >>
      BY <2>1, <2>2, <2>4
    <3>. QED  BY <3>1
  <2>. QED  BY <2>3, <2>4
<1>29. ToldOf(e, vs, q) = ToldOf(d, us, target)
  <2>1. \A k \in DOMAIN Members : Members[k] \in {"unit", "label"}
    BY DEF Members
  <2>2. \A n : [k \in DOMAIN Members |-> TellsOnce(vs, q, n, Members[k])] =
          [k \in DOMAIN Members |-> TellsOnce(us, target, n, Members[k])]
    BY <1>28, <2>1
  <2>. QED  BY <1>21, <1>22, <1>24, <1>27, <2>2 DEF ToldOf
<1>. QED  BY <1>9, <1>10, <1>13, <1>29

\* A consumer of a field may read on when it is there, of a type its own widens to, in its unit if it had one.
ReadsOn(f, t) ==
    /\ f.name \in NamesIn(t) /\ Widens(f.type, FieldNamed(t, f.name).type)
    /\ f.meta.unit = {} \/ f.meta.unit = FieldNamed(t, f.name).meta.unit

\* What classify looks at says just that.
LEMMA CompatibleIs ==
    ASSUME NEW s, IsFields(s), NEW t, IsFields(t), NEW f \in ToSet(s)
    PROVE  Compatible(s, t, f.name) <=> ReadsOn(f, t)
<1>. DEFINE d == SchemaDiff(s, t)
            us == KeptOf(s, t)
            n == f.name
            g == FieldNamed(t, n)
<1>1. DiffHolds(s, t)
  BY DiffIs
<1>2. /\ IsFields(us) /\ ToSet(us) = {x \in ToSet(s) : x.name \in NamesIn(t)}
      /\ ToSet(d.removed) = {x \in ToSet(s) : x.name \notin NamesIn(t)} /\ d.amended = TellsOf(us, t)
  BY <1>1 DEF DiffHolds
<1>3. \A r : r \in ToSet(d.retyped)
        <=> \E x \in ToSet(us) : FieldNamed(t, x.name).type # x.type /\ r = RetypingOf(x, t)
  <2>. HIDE DEF us
  <2>. QED  BY <1>1 DEF DiffHolds, us
<1>4. TellsHold(us, t)
  BY <1>2, TellsAreHeld DEF IsFields
<1>5. Compatible(s, t, n) <=> /\ ~ \E x \in ToSet(d.removed) : x.name = n
                              /\ ~ \E r \in ToSet(d.retyped) : r.name = n /\ ~Widens(r.from, r.to)
                              /\ ~ \E k \in DOMAIN d.amended : d.amended[k].name = n
                                   /\ d.amended[k].change.member = "unit" /\ d.amended[k].change.before # {}
  <2>. HIDE DEF d, n
  <2>. QED  BY DEF Compatible, Classify, d
<1>. HIDE DEF d, us, g, n
<1>6. \A a : a \in ToSet(d.amended) <=> \E x \in ToSet(us) : a \in ToSet(Amendments(x, FieldNamed(t, x.name)))
  BY <1>2, <1>4 DEF TellsHold
<1>7. \A x, y, a : a \in ToSet(Amendments(x, y)) <=> (\/ a = UnitTold(x, y) /\ x.meta.unit # y.meta.unit
                                                      \/ a = LabelTold(x, y) /\ x.meta.label # y.meta.label)
  BY AmendmentsAreHeld DEF AmendmentsHold
<1>8. \A x, y : /\ UnitTold(x, y).name = x.name /\ UnitTold(x, y).change.member = "unit"
                /\ UnitTold(x, y).change.before = x.meta.unit
                /\ LabelTold(x, y).change.member = "label"
  BY DEF UnitTold, LabelTold, AmendmentOf
<1>9. \A x, y \in ToSet(s) : x.name = y.name => x = y
  <2>1. \A x \in ToSet(s) : FieldNamed(s, x.name) = x
    BY NamedField DEF IsFields
  <2>. QED  BY <2>1
<1>10. (\E x \in ToSet(d.removed) : x.name = n) <=> n \notin NamesIn(t)
  BY <1>2 DEF n
<1>11. ASSUME n \in NamesIn(t)
       PROVE  /\ (\E r \in ToSet(d.retyped) : r.name = n /\ ~Widens(r.from, r.to)) <=> ~Widens(f.type, g.type)
              /\ (\E k \in DOMAIN d.amended : d.amended[k].name = n /\ d.amended[k].change.member = "unit"
                   /\ d.amended[k].change.before # {})
                   <=> f.meta.unit # {} /\ f.meta.unit # g.meta.unit
  <2>1. f \in ToSet(us) /\ g = FieldNamed(t, f.name)
    BY <1>2, <1>11 DEF n, g
  <2>2. \A x \in ToSet(us) : x.name = n => x = f
    BY <1>2, <1>9 DEF n
  <2>3. (\E r \in ToSet(d.retyped) : r.name = n /\ ~Widens(r.from, r.to)) <=> ~Widens(f.type, g.type)
    <3>1. \A x : RetypingOf(x, t).name = x.name /\ RetypingOf(x, t).from = x.type
            /\ RetypingOf(x, t).to = FieldNamed(t, x.name).type
      BY DEF RetypingOf
    <3>2. \A type : Widens(type, type)
      BY DEF Widens
    <3>3. ASSUME ~Widens(f.type, g.type)
          PROVE  \E r \in ToSet(d.retyped) : r.name = n /\ ~Widens(r.from, r.to)
      <4>1. RetypingOf(f, t) \in ToSet(d.retyped)
        BY <1>3, <2>1, <3>2, <3>3
      <4>. QED  BY <2>1, <3>1, <3>3, <4>1 DEF n
    <3>4. ASSUME NEW r \in ToSet(d.retyped), r.name = n, ~Widens(r.from, r.to)
          PROVE  ~Widens(f.type, g.type)
      <4>1. PICK x \in ToSet(us) : r = RetypingOf(x, t)
        BY <1>3
      <4>2. x = f
        BY <2>2, <3>1, <3>4, <4>1
      <4>. QED  BY <2>1, <3>1, <3>4, <4>1, <4>2
    <3>. QED  BY <3>3, <3>4
  <2>4. (\E k \in DOMAIN d.amended : d.amended[k].name = n /\ d.amended[k].change.member = "unit"
          /\ d.amended[k].change.before # {})
          <=> \E a \in ToSet(d.amended) : a.name = n /\ a.change.member = "unit" /\ a.change.before # {}
    BY DEF ToSet
  <2>5. (\E a \in ToSet(d.amended) : a.name = n /\ a.change.member = "unit" /\ a.change.before # {})
          <=> f.meta.unit # {} /\ f.meta.unit # g.meta.unit
    <3>1. ASSUME f.meta.unit # {}, f.meta.unit # g.meta.unit
          PROVE  \E a \in ToSet(d.amended) : a.name = n /\ a.change.member = "unit" /\ a.change.before # {}
      <4>1. UnitTold(f, g) \in ToSet(Amendments(f, g))
        BY <1>7, <3>1
      <4>2. UnitTold(f, g) \in ToSet(d.amended)
        BY <1>6, <2>1, <4>1
      <4>. QED  BY <1>8, <3>1, <4>2 DEF n
    <3>2. ASSUME NEW a \in ToSet(d.amended), a.name = n, a.change.member = "unit", a.change.before # {}
          PROVE  f.meta.unit # {} /\ f.meta.unit # g.meta.unit
      <4>1. PICK x \in ToSet(us) : a \in ToSet(Amendments(x, FieldNamed(t, x.name)))
        BY <1>6
      <4>. DEFINE y == FieldNamed(t, x.name)
      <4>2. a = UnitTold(x, y) /\ x.meta.unit # y.meta.unit
        <5>1. "unit" # "label"
          OBVIOUS
        <5>. QED  BY <1>7, <1>8, <3>2, <4>1, <5>1
      <4>3. x = f
        BY <1>8, <2>2, <3>2, <4>2
      <4>. QED  BY <1>8, <2>1, <3>2, <4>2, <4>3
    <3>. QED  BY <3>1, <3>2
  <2>. QED  BY <2>3, <2>4, <2>5
<1>12. ReadsOn(f, t)
         <=> n \in NamesIn(t) /\ Widens(f.type, g.type) /\ (f.meta.unit = {} \/ f.meta.unit = g.meta.unit)
  BY DEF ReadsOn, n, g
<1>13. CASE n \in NamesIn(t)
  BY <1>5, <1>10, <1>11, <1>12, <1>13 DEF n
<1>14. CASE n \notin NamesIn(t)
  BY <1>5, <1>10, <1>12, <1>14 DEF n
<1>. QED  BY <1>13, <1>14

\* Told at each step that it may read on, it may from the first to the last.
LEMMA ReadsOnAndOn ==
    ASSUME NEW s, IsFields(s), NEW t, IsFields(t), NEW u, IsFields(u), NEW name \in ToSet(Names(s)),
           Compatible(s, t, name), Compatible(t, u, name)
    PROVE  Compatible(s, u, name)
<1>1. PICK f \in ToSet(s) : f.name = name
  <2>1. ToSet(Names(s)) = NamesIn(s)
    BY SchemaNames
  <2>. QED  BY <2>1 DEF NamesIn
<1>2. ReadsOn(f, t)
  BY <1>1, CompatibleIs
<1>3. PICK g \in ToSet(t) : g.name = name
  BY <1>1, <1>2 DEF ReadsOn, NamesIn
<1>4. FieldNamed(t, name) = g
  BY <1>3, NamedField DEF IsFields
<1>5. ReadsOn(g, u)
  BY <1>3, CompatibleIs
<1>6. \A x, y, z : Widens(x, y) /\ Widens(y, z) => Widens(x, z)
  BY DEF Widens
<1>7. ReadsOn(f, u)
  BY <1>1, <1>2, <1>3, <1>4, <1>5, <1>6 DEF ReadsOn
<1>. QED  BY <1>1, <1>7, CompatibleIs

-----------------------------------------------------------------------------
(***************************************************************************)
(* The schemas of a history.                                               *)
(***************************************************************************)
\* Metadata as the code's constructors leave it: a unit and a label.
Meta(t) == \A n \in DOMAIN t.meta : t.meta[n] = [unit |-> t.meta[n].unit, label |-> t.meta[n].label]
Described(t) == IsTable(t) /\ Meta(t)

\* What a schema is read off: tables that state metadata so, before a transform and after.
Describable ==
    /\ \A t \in Start : Meta(t)
    /\ \A op \in Ops : \A t :
         op.tag = "ApplyTransform" /\ Described(t) /\ ApplyTransform(op, t).err = "None"
           => Meta(ApplyTransform(op, t).table)

\* Columns left out of the metadata leave the rest as it was.
LEMMA MetaRestricted ==
    ASSUME NEW t, Meta(t), NEW u, NEW S, u.meta = Restrict(t.meta, DOMAIN t.meta \ S) \/ u.meta = t.meta
    PROVE  Meta(u)
  BY DEF Meta, Restrict

\* An edit states no metadata of its own.
LEMMA EditDescribed ==
    ASSUME NEW t, Described(t), NEW op \in Invertible \union Appends, Null \in Values
    PROVE  ApplyEdit(op, t).err = "None" => Described(ApplyEdit(op, t).table)
<1>. DEFINE u == ApplyEdit(op, t).table
<1>1. SUFFICES ASSUME ApplyEdit(op, t).err = "None" PROVE Described(u)
  OBVIOUS
<1>2. IsTable(u)
  <2>1. CASE op \in Invertible
    BY <1>1, <2>1, EditTurns DEF Turns, Described
  <2>2. CASE op \in Appends
    BY <1>1, <2>2, AppendTable DEF Described
  <2>. QED  BY <2>1, <2>2
<1>3. ASSUME NEW col
      PROVE  WithColumn(t, col).table.meta \in {t.meta, Restrict(t.meta, DOMAIN t.meta \ {col.name})}
  BY DEF WithColumn, Done
<1>4. \E S : u.meta = Restrict(t.meta, DOMAIN t.meta \ S) \/ u.meta = t.meta
  <2>1. CASE op \in SetCells
    <3>1. ApplyEdit(op, t) = SetCell(op, t)
      BY <2>1 DEF SetCells, ApplyEdit
    <3>2. \E col : SetCell(op, t) = WithColumn(t, col)
      BY <1>1, <3>1 DEF SetCell, Refuse
    <3>. QED  BY <1>3, <3>1, <3>2
  <2>2. CASE op \in SetColumns
    <3>1. ApplyEdit(op, t) = SetColumn(op, t)
      BY <2>2 DEF SetColumns, ApplyEdit
    <3>2. \E col : SetColumn(op, t) = WithColumn(t, col)
      BY <1>1, <3>1 DEF SetColumn, Refuse
    <3>. QED  BY <1>3, <3>1, <3>2
  <2>3. CASE op \in InsertColumns
    <3>1. ApplyEdit(op, t) = InsertColumn(op, t)
      BY <2>3 DEF InsertColumns, ApplyEdit
    <3>. QED  BY <1>1, <3>1 DEF InsertColumn, Refuse, Done
  <2>4. CASE op \in RemoveColumns
    <3>1. ApplyEdit(op, t) = RemoveColumn(op, t)
      BY <2>4 DEF RemoveColumns, ApplyEdit
    <3>2. u.meta = Restrict(t.meta, DOMAIN t.meta \ {op.name})
      BY <1>1, <3>1 DEF RemoveColumn, Refuse, Done
    <3>. QED  BY <3>2
  <2>5. CASE op \in Appends
    <3>1. ApplyEdit(op, t) = AppendRows(op, t)
      BY <2>5 DEF Appends, ApplyEdit
    <3>. QED  BY <1>1, <3>1 DEF AppendRows, Refuse, Done
  <2>. QED  BY <2>1, <2>2, <2>3, <2>4, <2>5 DEF Invertible
<1>. HIDE DEF u
<1>5. Meta(u)
  BY <1>4, MetaRestricted DEF Described
<1>. QED  BY <1>2, <1>5 DEF Described

\* A refused edit leaves the table as it was.
LEMMA RefusedEdit ==
    ASSUME NEW t, NEW op \in Invertible \union Appends, ApplyEdit(op, t).err # "None"
    PROVE  ApplyEdit(op, t).table = t
<1>1. \A col : WithColumn(t, col).err = "None"
  BY DEF WithColumn, Done
<1>2. CASE op \in SetCells
  BY <1>1, <1>2 DEF SetCells, ApplyEdit, SetCell, Refuse
<1>3. CASE op \in SetColumns
  BY <1>1, <1>3 DEF SetColumns, ApplyEdit, SetColumn, Refuse
<1>4. CASE op \in InsertColumns
  BY <1>4 DEF InsertColumns, ApplyEdit, InsertColumn, Refuse, Done
<1>5. CASE op \in RemoveColumns
  BY <1>5 DEF RemoveColumns, ApplyEdit, RemoveColumn, Refuse, Done
<1>6. CASE op \in Appends
  BY <1>6 DEF Appends, ApplyEdit, AppendRows, Refuse, Done
<1>. QED  BY <1>2, <1>3, <1>4, <1>5, <1>6 DEF Invertible

\* The tables a history holds.
Held == {table} \union ToSet(past) \union ToSet(future)
DescribedInv == HistoryInv /\ \A t \in Held : Described(t)

\* What a sequence gains when something is put on top of it, or off it.
LEMMA TopMembers ==
    ASSUME NEW s, s \in Seq(ToSet(s)), NEW x
    PROVE  /\ ToSet(<<x>> \o s) \subseteq ToSet(s) \union {x}
           /\ ToSet(Trim(<<x>> \o s)) \subseteq ToSet(s) \union {x}
           /\ s # << >> => ToSet(Tail(s)) \subseteq ToSet(s)
<1>. DEFINE T == ToSet(s) \union {x}
<1>1. s \in Seq(T) /\ x \in T
  OBVIOUS
<1>. HIDE DEF T
<1>2. <<x>> \o s \in Seq(T) /\ Trim(<<x>> \o s) \in Seq(T)
  BY <1>1, Put, Pushed
<1>3. \A S : \A u \in Seq(S) : ToSet(u) \subseteq S
  BY DEF ToSet
<1>4. s # << >> => Tail(s) \in Seq(ToSet(s))
  BY Popped
<1>. QED  BY <1>2, <1>3, <1>4 DEF T

\* No step puts in a history a table it did not hold or make.
LEMMA HeldNext ==
    ASSUME HistoryInv, [Next]_vars
    PROVE  \A t \in Held' : t \in Held \/ t = table'
<1>0. past \in Seq(ToSet(past)) /\ future \in Seq(ToSet(future))
  BY DEF HistoryInv, Stacked, ToSet
<1>1. ASSUME NEW op \in Ops, Edit(op)
      PROVE  ToSet(past') \subseteq ToSet(past) \union {table} /\ ToSet(future') = {}
  <2>1. (past' = Trim(<<table>> \o past) \/ past' = << >>) /\ future' = << >>
    BY <1>1 DEF Edit, Accept, AcceptWith
  <2>2. ToSet(<< >>) = {}
    BY DEF ToSet
  <2>. QED  BY <1>0, <2>1, <2>2, TopMembers
<1>2. ASSUME Undo
      PROVE  ToSet(past') \subseteq ToSet(past) /\ ToSet(future') \subseteq ToSet(future) \union {table}
  <2>1. undoStack # << >> /\ past' = Tail(past) /\ future' = <<table>> \o future
    BY <1>2 DEF Undo, TakeBack
  <2>2. past # << >>
    BY <2>1 DEF HistoryInv, Stacked
  <2>. QED  BY <1>0, <2>1, <2>2, TopMembers
<1>3. ASSUME Redo
      PROVE  ToSet(past') \subseteq ToSet(past) \union {table} /\ ToSet(future') \subseteq ToSet(future)
  <2>1. redoStack # << >> /\ past' = Trim(<<table>> \o past) /\ future' = Tail(future)
    BY <1>3 DEF Redo, Repeat
  <2>2. future # << >>
    BY <2>1 DEF HistoryInv, Stacked
  <2>. QED  BY <1>0, <2>1, <2>2, TopMembers
<1>4. ASSUME UNCHANGED vars
      PROVE  Held' = Held
  BY <1>4 DEF vars, Held
<1>. QED  BY <1>1, <1>2, <1>3, <1>4 DEF Next, Held

\* A new history holds such tables.
LEMMA DescribedInvInit ==
    ASSUME Lawful, Describable, Init
    PROVE  DescribedInv
<1>1. HistoryInv
  BY HistoryInvInit
<1>2. Held = {table}
  BY DEF Init, Held, ToSet
<1>3. Described(table)
  BY <1>1 DEF Init, Describable, Described, HistoryInv
<1>. QED  BY <1>1, <1>2, <1>3 DEF DescribedInv

\* Every step keeps it so.
LEMMA DescribedInvNext ==
    ASSUME Lawful, Describable, DescribedInv, [Next]_vars
    PROVE  DescribedInv'
<1>0. HistoryInv /\ \A t \in Held : Described(t)
  BY DEF DescribedInv
<1>00. Described(table) /\ Null \in Values
  BY <1>0 DEF Held, Lawful
<1>1. HistoryInv'
  BY <1>0, HistoryInvNext
<1>2. Described(table')
  <2>1. ASSUME NEW op \in Ops, Edit(op)
        PROVE  Described(table')
    <3>1. ApplyOp(op, table).err = "None" /\ table' = ApplyOp(op, table).table
      BY <2>1 DEF Edit, Accept, AcceptWith
    <3>2. CASE op.tag = "ApplyTransform"
      <4>1. ApplyOp(op, table) = ApplyTransform(op, table)
        BY <3>2 DEF ApplyOp
      <4>2. Meta(table')
        BY <1>00, <3>1, <3>2, <4>1 DEF Describable
      <4>3. IsTable(table')
        BY <1>1 DEF HistoryInv
      <4>. QED  BY <4>2, <4>3 DEF Described
    <3>3. CASE op.tag # "ApplyTransform"
      <4>1. ApplyOp(op, table) = ApplyEdit(op, table) /\ op \in Invertible \union Appends
        BY <3>3 DEF ApplyOp, Lawful
      <4>. QED  BY <1>00, <3>1, <4>1, EditDescribed
    <3>. QED  BY <3>2, <3>3
  <2>2. ASSUME Undo
        PROVE  Described(table')
    <3>1. undoStack # << >> /\ ApplyEdit(Head(undoStack).inv, table).err = "None"
            /\ table' = ApplyEdit(Head(undoStack).inv, table).table
      BY <2>2 DEF Undo, TakeBack
    <3>2. Head(undoStack) \in Entries
      BY <1>0, <3>1, Popped DEF HistoryInv, Stacked
    <3>3. Head(undoStack).inv \in Invertible
      BY <3>2 DEF Entries
    <3>. QED  BY <1>00, <3>1, <3>3, EditDescribed
  <2>3. ASSUME Redo
        PROVE  Described(table')
    <3>1. redoStack # << >> /\ ApplyEdit(Head(redoStack).op, table).err = "None"
            /\ table' = ApplyEdit(Head(redoStack).op, table).table
      BY <2>3 DEF Redo, Repeat
    <3>2. Head(redoStack) \in Entries
      BY <1>0, <3>1, Popped DEF HistoryInv, Stacked
    <3>3. Head(redoStack).op \in Invertible
      BY <3>2 DEF Entries
    <3>. QED  BY <1>00, <3>1, <3>3, EditDescribed
  <2>4. ASSUME UNCHANGED vars
        PROVE  Described(table')
    BY <1>00, <2>4 DEF vars
  <2>. QED  BY <2>1, <2>2, <2>3, <2>4 DEF Next
<1>3. \A t \in Held' : t \in Held \/ t = table'
  BY <1>0, HeldNext
<1>. QED  BY <1>0, <1>1, <1>2, <1>3 DEF DescribedInv

\* The schema of a table is one: each column once, with its unit and its label.
LEMMA TableSchema ==
    ASSUME NEW t, Described(t)
    PROVE  IsFields(SchemaOf(ToFrame(t)))
<1>. DEFINE s == SchemaOf(ToFrame(t))
            n == Len(t.cols)
<1>1. n \in Nat /\ DOMAIN t.cols = 1 .. n /\ \A i, j \in DOMAIN t.cols : t.cols[i].name = t.cols[j].name
        => i = j
  BY DEF Described, IsTable
<1>2. s = [i \in 1 .. n |-> [name |-> t.cols[i].name, type |-> t.cols[i].type,
        meta |-> MetaOf(t.meta, t.cols[i].name)]]
  BY <1>1 DEF SchemaOf, ToFrame
<1>. HIDE DEF s, n
<1>3. s \in Seq(ToSet(s))
  <2>. DEFINE S == ToSet(s)
  <2>1. s \in [1 .. n -> S]
    BY <1>2 DEF ToSet
  <2>. HIDE DEF S
  <2>2. s \in Seq(S)
    BY <1>1, <2>1
  <2>. QED  BY <2>2 DEF S
<1>4. Distinct(s)
  BY <1>1, <1>2 DEF Distinct
<1>5. ASSUME NEW i \in 1 .. n
      PROVE  IsField(s[i])
  <2>. DEFINE m == MetaOf(t.meta, t.cols[i].name)
  <2>1. m = [unit |-> m.unit, label |-> m.label]
    BY DEF MetaOf, NoMetadata, Described, Meta
  <2>2. s[i] = [name |-> t.cols[i].name, type |-> t.cols[i].type, meta |-> m]
    BY <1>2
  <2>. HIDE DEF m
  <2>. QED  BY <2>1, <2>2 DEF IsField
<1>6. \A f \in ToSet(s) : IsField(f)
  BY <1>2, <1>5 DEF ToSet
<1>. QED  BY <1>3, <1>4, <1>6 DEF IsFields, s

\* grid_edit.py, delta_of, and schema.py 8: of whatever table a history reaches, a
\* consumer told only the deltas misses nothing, of the rows or of the columns.  A schema
\* delta takes the schema it was taken of to the one it was taken to; replayed on another
\* it is refused or changes just what it names; and steps that each may be read on may be
\* read on from first to last.
THEOREM DeltasAlwaysTellAll ==
    ASSUME Lawful, Describable
    PROVE  Spec => []DeltasTellAll
<1>1. Init => DescribedInv
  BY DescribedInvInit
<1>2. DescribedInv /\ [Next]_vars => DescribedInv'
  BY DescribedInvNext
<1>3. ASSUME DescribedInv
      PROVE  SchemaDeltasTell(SchemaOf(Frame))
  <2>. DEFINE now == SchemaOf(Frame)
  <2>0. \A t \in Held : Described(t)
    BY <1>3 DEF DescribedInv
  <2>1. IsFields(now)
    BY <2>0, TableSchema DEF Frame, Held
  <2>2. ASSUME NEW s \in Before PROVE IsFields(s)
    BY <2>0, TableSchema DEF Before, Schemas, Held
  <2>3. ASSUME NEW s \in After PROVE IsFields(s)
    <3>1. PICK op \in Ops : op.tag # "ApplyTransform" /\ s = SchemaOf(ToFrame(ApplyEdit(op, table).table))
      BY DEF After, Schemas
    <3>2. op \in Invertible \union Appends /\ Null \in Values /\ Described(table)
      BY <2>0, <3>1 DEF Lawful, Held
    <3>3. ApplyEdit(op, table).err # "None" => ApplyEdit(op, table).table = table
      BY <3>2, RefusedEdit
    <3>4. Described(ApplyEdit(op, table).table)
      BY <3>2, <3>3, EditDescribed
    <3>. QED  BY <3>1, <3>4, TableSchema
  <2>. HIDE DEF now
  <2>4. SchemaDiff(now, now) = IDENTITY_DELTA
    BY <2>1, NoDiff
  <2>5. ASSUME NEW s \in Before \union After
        PROVE  /\ SchemaPatch(now, SchemaDiff(now, s)) = Patched("None", s)
               /\ SchemaPatch(s, SchemaDiff(s, now)) = Patched("None", now)
               /\ \A other \in Before \union After : Replays(SchemaDiff(now, s), other)
    <3>1. IsFields(s)
      BY <2>2, <2>3
    <3>2. \A other \in Before \union After : Replays(SchemaDiff(now, s), other)
      BY <2>1, <2>2, <2>3, <3>1, Replayed
    <3>. QED  BY <2>1, <3>1, <3>2, PatchOfDiff
  <2>6. ASSUME NEW s \in Before, NEW t \in After, NEW name \in ToSet(Names(s)),
               Compatible(s, now, name), Compatible(now, t, name)
        PROVE  Compatible(s, t, name)
    BY <2>1, <2>2, <2>3, <2>6, ReadsOnAndOn
  <2>. QED  BY <2>4, <2>5, <2>6 DEF SchemaDeltasTell, now
<1>4. ASSUME DescribedInv
      PROVE  DeltasTellAll
  BY <1>3, <1>4, EveryRowTold DEF DeltasTellAll, DescribedInv
<1>. QED  BY <1>1, <1>2, <1>4, PTL DEF Spec
=============================================================================
