----------------------------- MODULE ColExprs -----------------------------
(***************************************************************************)
(* Column expressions (the middle of _core/dataframe/evaluate.py): their   *)
(* evaluation over a row, their static typing over a schema, the rule that *)
(* types a derived column, and the unit check over the algebra of units.    *)
(*                                                                         *)
(* An expression is the sequence of its nodes, operands before the node    *)
(* that has them; the last is the root, and args are positions.  A Case    *)
(* has its when and then arms in turn and the else arm last.  A schema is  *)
(* a sequence of [name, type].                                             *)
(***************************************************************************)
EXTENDS CellValues

(***************************************************************************)
(* The unit algebra (_core/dataframe/unit.py).  A unit is the product of   *)
(* its atoms, each under a prefix, with integer exponents: here the        *)
(* function from every prefixed atom to its exponent, which is the code's  *)
(* canonical form with the zero exponents written out.  An optional unit   *)
(* is a set of at most one.  The parse of a unit's text is left out.       *)
(***************************************************************************)
CONSTANTS Atoms,    \* the atoms in play, each with its prefix
          Ratio,      \* [Atoms -> <<num, den>>]: the scale to the coherent base, prefix included
          Dimensions,  \* the base dimensions and the currencies
          Dims,       \* [Atoms -> [Dimensions -> Int]]
          MaxExp      \* _MAX_EXP: the largest exponent the algebra carries
ASSUME UnitsAssumption ==
    /\ MaxExp \in Nat
    /\ Dims \in [Atoms -> [Dimensions -> Int]]

UnitSpace == [Atoms -> -MaxExp .. MaxExp]
Dimensionless == [a \in Atoms |-> 0]

\* _try_combine: nothing where an exponent leaves the range.
Combine(a, sign, b) ==
    LET u == [x \in Atoms |-> a[x] + sign * b[x]]
    IN  IF u \in UnitSpace THEN {u} ELSE {}

MulUnit(a, b) == Combine(a, 1, b)
DivUnit(a, b) == Combine(a, -1, b)
PowUnit(u, k) ==
    LET p == [x \in Atoms |-> u[x] * k] IN IF p \in UnitSpace THEN {p} ELSE {}

Dimension(u) == [d \in Dimensions |-> SumFunction([x \in Atoms |-> u[x] * Dims[x][d]])]
CompatibleUnits(a, b) == Dimension(a) = Dimension(b)

\* The exact factor from a's values to b's: the scale of a / b.  (Not in lowest
\* terms; a cell built from it is.)
ScaleOf(u) ==
    LET power(x, up) == Ratio[x][IF (u[x] > 0) = up THEN 1 ELSE 2]^(IF u[x] < 0 THEN -u[x] ELSE u[x])
        product(up) == FoldFunction(LAMBDA x, y : x * y, 1, [x \in Atoms |-> power(x, up)])
    IN  <<product(TRUE), product(FALSE)>>

ConversionFactor(source, target) ==
    IF CompatibleUnits(source, target) THEN {ScaleOf(q) : q \in DivUnit(source, target)} ELSE {}

-----------------------------------------------------------------------------
HasName(cols, name) == \E i \in DOMAIN cols : cols[i].name = name
Position(cols, name) == Min({i \in DOMAIN cols : cols[i].name = name})

-----------------------------------------------------------------------------
\* The first answer of a sequence that is a refusal, if any is.
Failures(answers) == {k \in DOMAIN answers : answers[k].err # "None"}
CellsOf(answers) == [k \in DOMAIN answers |-> answers[k].cell]
\* The first refusal among the answers, or what is done with their cells.
OrElse(answers, With(_)) ==
    IF Failures(answers) # {} THEN answers[Min(Failures(answers))] ELSE With(CellsOf(answers))

\* The first non-null operand; an operand after it is not evaluated.
CoalesceAnswer(xs) ==
    LET first(stops) == IF stops = {} THEN Good(Null) ELSE xs[Min(stops)]
    IN  first({k \in DOMAIN xs : xs[k].err # "None" \/ xs[k].cell # Null})

\* The then arm of the first when that is true.
CaseAnswer(xs) ==
    LET arm(k) == IF xs[2*k - 1].err # "None" THEN xs[2*k - 1] ELSE xs[2*k]
        first(stops) == IF stops = {} THEN Last(xs) ELSE arm(Min(stops))
    IN  first({k \in 1 .. Len(xs) \div 2 : xs[2*k - 1].err # "None" \/ xs[2*k - 1].cell = BoolCell(TRUE)})

\* Three-valued membership: an item that is not comparable refuses, a null one makes
\* "not a member" null.
InListAnswer(subject, items) ==
    LET verdict(x) == IF x.err # "None" \/ x.cell = Null THEN x ELSE Comparison("eq", subject, x.cell)
        settles(x) == x.err # "None" \/ x.cell = BoolCell(TRUE)
        first(xs, stops) == IF stops # {} THEN xs[Min(stops)]
                            ELSE IF \E k \in DOMAIN xs : xs[k].cell = Null THEN Good(Null) ELSE Good(BoolCell(FALSE))
        among(xs) == first(xs, {k \in DOMAIN xs : settles(xs[k])})
    IN  IF subject = Null THEN Good(Null) ELSE among([k \in DOMAIN items |-> verdict(items[k])])

BinaryAnswer(op, a, b) ==
    IF op \in ArithOps THEN Arith(op, a, b)
    ELSE IF op \in Comparisons THEN Comparison(op, a, b) ELSE Logical(op, a, b)

\* What a Convert resolves to: the float cast, times the factor where there is one.
ScaledAnswer(factor, c) ==
    LET times(f) == IF f.err # "None" \/ factor = {} THEN f
                    ELSE LET q == CHOOSE q \in factor : TRUE IN Arith("mul", f.cell, FloatCell(q[1], q[2]))
    IN  times(CastCell("float", c))

\* Over the evaluated operands of a node all of whose operands are.
StrictAnswer(node, cells) ==
    CASE node.tag = "Binary"   -> BinaryAnswer(node.op, cells[1], cells[2])
      [] node.tag = "Not"      -> NotCell(cells[1])
      [] node.tag = "Cast"     -> CastCell(node.type, cells[1])
      [] node.tag = "IsNull"   -> Good(BoolCell(cells[1] = Null))
      [] node.tag = "ApplyFn"  -> ApplyScalar(node.fn, cells)
      [] node.tag = "Quotient" -> QuotientCell(node.mode, node.scale, cells[1], cells[2])
      [] node.tag = "Rounded"  -> RoundedCell(node.mode, node.scale, cells[1])
      [] node.tag = "Scaled"   -> ScaledAnswer(node.factor, cells[1])
      [] node.tag = "Convert"  -> TypeError        \* was never resolved

\* A rounding whose scale is a parameter still.
Unscaled(node) == node.tag \in {"Quotient", "Rounded"} /\ node.param # {}

\* _eval_expr of one node over a row, from the answers of its operands.  InCells is an
\* InList of literals.
NodeAnswer(cols, row, node, xs) ==
    CASE node.tag = "Col" -> IF HasName(cols, node.name) THEN Good(row[Position(cols, node.name)])
                             ELSE Fail("UNKNOWN_COLUMN")
      [] node.tag = "Lit" -> Good(node.cell)
      [] node.tag \in {"Param", "InParam"} \/ Unscaled(node) -> Fail("UNBOUND_PARAM")
      [] node.tag = "InCells" -> IF xs[1].err # "None" THEN xs[1]
                                 ELSE InListAnswer(xs[1].cell, [k \in DOMAIN node.cells |-> Good(node.cells[k])])
      [] node.tag = "Coalesce" -> CoalesceAnswer(xs)
      [] node.tag = "Case" -> CaseAnswer(xs)
      [] node.tag = "InList" -> IF xs[1].err # "None" THEN xs[1] ELSE InListAnswer(xs[1].cell, Tail(xs))
      [] OTHER -> OrElse(xs, LAMBDA cells : StrictAnswer(node, cells))

EvalExpr(cols, row, e) ==
    LET answer[i \in DOMAIN e] == NodeAnswer(cols, row, e[i], [k \in DOMAIN e[i].args |-> answer[e[i].args[k]]])
    IN  answer[Len(e)]

-----------------------------------------------------------------------------
(***************************************************************************)
(* Static typing: a column type, "absent" where no row has a present value *)
(* and "unknown" where the schema does not decide.  The join is exact, not *)
(* widening.                                                               *)
(***************************************************************************)
Absent == "absent"
Unknown == "unknown"

JoinAll(ts) ==
    LET present == ts \ {Absent}
    IN  IF present = {} THEN Absent ELSE IF Cardinality(present) = 1 THEN CHOOSE t \in present : TRUE ELSE Unknown

AreNumeric(a, b) == {a, b} \subseteq {"int", "float"}
AreExact(a, b) == {a, b} \subseteq {"int", "decimal"}

\* Mutant: arithmetic of an int and a decimal is typed as the left operand.
TypingBinaryLeft(op, a, b) ==
    IF op \in {"and", "or"} THEN IF {a, b} \subseteq {Absent, "bool"} THEN JoinAll({a, b}) ELSE Unknown
    ELSE IF Absent \in {a, b} THEN Absent
    ELSE IF op \in Comparisons
         THEN IF AreNumeric(a, b) \/ AreExact(a, b) \/ (a = b /\ a \in {"string", "date", "bool"})
              THEN "bool" ELSE Unknown
    ELSE IF op = "div" THEN IF AreNumeric(a, b) THEN "float" ELSE Unknown
    ELSE IF a = "int" /\ b = "int" THEN "int"
    ELSE IF AreNumeric(a, b) THEN IF op = "mod" THEN Unknown ELSE "float"
    ELSE IF AreExact(a, b) THEN a ELSE Unknown

TypingBinary(op, a, b) ==
    IF op \in {"and", "or"} THEN IF {a, b} \subseteq {Absent, "bool"} THEN JoinAll({a, b}) ELSE Unknown
    ELSE IF Absent \in {a, b} THEN Absent
    ELSE IF op \in Comparisons
         THEN IF AreNumeric(a, b) \/ AreExact(a, b) \/ (a = b /\ a \in {"string", "date", "bool"})
              THEN "bool" ELSE Unknown
    ELSE IF op = "div" THEN IF AreNumeric(a, b) THEN "float" ELSE Unknown
    ELSE IF a = "int" /\ b = "int" THEN "int"
    ELSE IF AreNumeric(a, b) THEN IF op = "mod" THEN Unknown ELSE "float"
    ELSE IF AreExact(a, b) THEN "decimal" ELSE Unknown

TypingUnary(fn, t) ==
    CASE fn = "abs" -> IF t \in {"int", "float", "decimal"} THEN t ELSE Unknown
      [] fn \in {"round", "floor", "ceil"} -> IF t \in {"decimal", Unknown} THEN t ELSE "float"
      [] fn = "length" -> "int"

\* A power of an int by an int is typed by the sign of a literal exponent only.
TypingPow(args, exponent) ==
    CASE Absent \in ToSet(args) -> Absent
      [] Unknown \in ToSet(args) -> Unknown
      [] exponent.tag = "Lit" /\ exponent.cell.kind = "int" ->
           IF args[1] = "int" /\ exponent.cell.n >= 0 THEN "int" ELSE "float"
      [] OTHER -> IF args = <<"int", "int">> THEN Unknown ELSE "float"

TypingApply(fn, args, exponent) ==
    CASE fn \in Unary -> IF Len(args) # 1 \/ args[1] = Absent THEN Absent ELSE TypingUnary(fn, args[1])
      [] fn = "pow" -> IF Len(args) # 2 THEN Absent ELSE TypingPow(args, exponent)
      [] fn \in {"least", "greatest"} -> IF args = << >> \/ Absent \in ToSet(args) THEN Absent ELSE JoinAll(ToSet(args))
      [] fn = "concat" -> IF args = << >> \/ Absent \in ToSet(args) THEN Absent ELSE "string"

\* The then arms and the else arm of a Case.
ThenArms(args) == {args[2*k] : k \in 1 .. Len(args) \div 2} \union {args[Len(args)]}

\* _typing of one node, from the types of its operands and its last operand.
NodeType(cols, node, ts, last) ==
    LET through(t) == IF ts[1] = Absent THEN Absent ELSE t
    IN  CASE node.tag = "Col" -> IF HasName(cols, node.name) THEN cols[Position(cols, node.name)].type ELSE Unknown
          [] node.tag = "Lit" -> IF node.cell = Null THEN Absent ELSE node.cell.kind
          [] node.tag = "Param" -> Unknown
          [] node.tag = "Binary" -> TypingBinary(node.op, ts[1], ts[2])
          [] node.tag = "Not" -> IF ts[1] \in {Absent, "bool"} THEN ts[1] ELSE Unknown
          [] node.tag = "Coalesce" -> JoinAll(ToSet(ts))
          [] node.tag = "Case" -> JoinAll(ThenArms(ts))
          [] node.tag = "Cast" -> through(node.type)
          [] node.tag \in {"InList", "InParam", "InCells"} -> through("bool")
          [] node.tag = "IsNull" -> "bool"
          [] node.tag = "ApplyFn" -> TypingApply(node.fn, ts, last)
          [] node.tag = "Quotient" -> IF Absent \in {ts[1], ts[2]} THEN Absent
                                      ELSE IF AreExact(ts[1], ts[2]) THEN "decimal" ELSE Unknown
          [] node.tag = "Rounded" -> through(IF ts[1] \in {"int", "decimal"} THEN "decimal" ELSE Unknown)
          [] node.tag \in {"Scaled", "Convert"} -> through("float")

\* _typing, of every node.
TypingOf(cols, e) ==
    LET typing[i \in DOMAIN e] ==
          NodeType(cols, e[i], [k \in DOMAIN e[i].args |-> typing[e[i].args[k]]],
                   IF e[i].args = << >> THEN e[i] ELSE e[Last(e[i].args)])
    IN  typing

Typing(cols, e) == TypingOf(cols, e)[Len(e)]

\* The types among the arms the value is drawn from, through Case and Coalesce.
ArmTypes(cols, e) ==
    LET types[i \in DOMAIN e] ==
          CASE e[i].tag = "Coalesce" -> UNION {types[e[i].args[k]] : k \in DOMAIN e[i].args}
            [] e[i].tag = "Case" -> UNION {types[a] : a \in ThenArms(e[i].args)}
            [] OTHER -> {TypingOf(cols, e)[i]}
    IN  types[Len(e)]

\* How a Derive of e types its column: a type, "refused" (a float arm beside a
\* decimal arm), or "unknown", where the cells decide.
Refused == "refused"
DerivedTyping(cols, e) ==
    LET type(t) == IF t = Absent THEN "string" ELSE t
    IN  IF {"float", "decimal"} \subseteq ArmTypes(cols, e) THEN Refused ELSE type(Typing(cols, e))

\* The widening join of two column types: none for a float and a decimal.
JoinColumnType(a, b) == IF Widens(a, b) THEN {b} ELSE IF Widens(b, a) THEN {a} ELSE {}

\* The widening join of a sequence of types, "string" of none and "unknown" where two do not
\* join; a pair that does not join leaves the type as it was.
WideningJoin(types) ==
    LET step(acc, t) ==
          IF acc.type = "" THEN [acc EXCEPT !.type = t]
          ELSE IF JoinColumnType(acc.type, t) = {} THEN [acc EXCEPT !.joins = FALSE]
          ELSE [acc EXCEPT !.type = CHOOSE j \in JoinColumnType(acc.type, t) : TRUE]
        type(r) == IF ~r.joins THEN Unknown ELSE IF r.type = "" THEN "string" ELSE r.type
    IN  type(FoldLeft(step, [type |-> "", joins |-> TRUE], types))

\* _type_from_cells: refused where the present cells have no column type.
TypeFromCells(cells) ==
    LET kinds(present) == [i \in DOMAIN present |-> present[i].kind]
        type(t) == IF t = Unknown THEN Refused ELSE t
    IN  type(WideningJoin(kinds(SelectSeq(cells, LAMBDA c : c # Null))))

\* _unpivot_typing: a pair that does not join is left to the cells, but a float and a
\* decimal are refused.
UnpivotTyping(types) ==
    IF {"float", "decimal"} \subseteq ToSet(types) THEN Refused ELSE WideningJoin(types)

-----------------------------------------------------------------------------
(***************************************************************************)
(* The unit check.  meta gives every column its metadata; an expression's  *)
(* unit is the set of the one it states, empty where it is unconstrained.  *)
(***************************************************************************)
NoMetadata == [unit |-> {}, label |-> ""]
MetaOf(meta, name) == IF name \in DOMAIN meta THEN meta[name] ELSE NoMetadata

InUnit(u) == [ok |-> TRUE, unit |-> u]
Mismatch == [ok |-> FALSE, unit |-> {}]

\* One unit among the operands that state one.
Agree(us) == IF Cardinality(us) > 1 THEN Mismatch ELSE InUnit(us)
InRange(u) == IF u = {} THEN Mismatch ELSE InUnit(u)

Product(a, b) == IF a = {} \/ b = {} THEN InUnit(a \union b)
                 ELSE InRange(MulUnit(CHOOSE u \in a : TRUE, CHOOSE u \in b : TRUE))
\* An unconstrained dividend is dimensionless; an unconstrained divisor changes nothing.
QuotientUnit(a, b) ==
    IF b = {} THEN InUnit(a)
    ELSE InRange(DivUnit(IF a = {} THEN Dimensionless ELSE CHOOSE u \in a : TRUE, CHOOSE u \in b : TRUE))

PowerUnit(a, all, exponent) ==
    IF exponent.tag = "Lit" /\ exponent.cell.kind = "int"
    THEN IF a = {} \/ exponent.cell.n = 0 THEN InUnit({})
         ELSE InRange(PowUnit(CHOOSE u \in a : TRUE, exponent.cell.n))
    ELSE IF all \subseteq {Dimensionless} THEN InUnit({}) ELSE Mismatch

BinaryUnit(op, a, b) ==
    CASE op \in {"add", "sub"} -> Agree(a \union b)
      [] op = "mul" -> Product(a, b)
      [] op = "div" -> QuotientUnit(a, b)
      [] op = "mod" -> InUnit(a)
      [] op \in Comparisons -> IF Agree(a \union b).ok THEN InUnit({}) ELSE Mismatch
      [] OTHER -> InUnit({})

ApplyUnit(fn, us, exponent) ==
    CASE fn \in {"abs", "round", "floor", "ceil"} -> InUnit(IF us = << >> THEN {} ELSE us[1])
      [] fn \in {"least", "greatest"} -> Agree(UNION ToSet(us))
      [] fn = "pow" -> PowerUnit(IF us = << >> THEN {} ELSE us[1], UNION ToSet(us), exponent)
      [] OTHER -> InUnit({})

\* A Convert over no unit is a tag; across dimensions it is refused.
ConvertUnit(source, target) ==
    IF \A u \in source : u = target \/ ConversionFactor(u, target) # {} THEN InUnit({target}) ELSE Mismatch

\* _resolve_units, of every node: refused as soon as an operand is.
UnitsOf(meta, e) ==
    LET unit[i \in DOMAIN e] ==
          LET node == e[i]
              xs == [k \in DOMAIN node.args |-> unit[node.args[k]]]
              us == [k \in DOMAIN xs |-> xs[k].unit]
          IN  IF \E k \in DOMAIN xs : ~xs[k].ok THEN Mismatch
              ELSE CASE node.tag = "Col" -> InUnit(MetaOf(meta, node.name).unit)
                     [] node.tag = "Binary" -> BinaryUnit(node.op, us[1], us[2])
                     [] node.tag = "Coalesce" -> Agree(UNION ToSet(us))
                     [] node.tag = "Case" -> Agree(UNION {unit[a].unit : a \in ThenArms(node.args)})
                     [] node.tag \in {"Cast", "Rounded"} -> InUnit(us[1])
                     [] node.tag = "ApplyFn" ->
                          ApplyUnit(node.fn, us, IF Len(us) = 2 THEN e[node.args[2]] ELSE node)
                     [] node.tag = "InList" -> IF Agree(UNION ToSet(us)).ok THEN InUnit({}) ELSE Mismatch
                     [] node.tag = "Quotient" -> QuotientUnit(us[1], us[2])
                     [] node.tag = "Convert" -> ConvertUnit(us[1], node.unit)
                     [] OTHER -> InUnit({})      \* Lit, Param, Not, IsNull, InParam, InCells
    IN  unit

\* Mutant: a conversion is always the bare float cast.
ResolvedWithoutFactor(meta, e) ==
    [i \in DOMAIN e |->
       IF e[i].tag # "Convert" THEN e[i]
       ELSE [tag |-> "Scaled", args |-> e[i].args, factor |-> {}]]

\* The expression with every Convert replaced by the cast and factor it stands for.
Resolved(meta, e) ==
    LET units == UnitsOf(meta, e) IN
    [i \in DOMAIN e |->
       IF e[i].tag # "Convert" THEN e[i]
       ELSE [tag |-> "Scaled", args |-> e[i].args,
             factor |-> UNION {ConversionFactor(u, e[i].unit) : u \in units[e[i].args[1]].unit \ {e[i].unit}}]]
=============================================================================
