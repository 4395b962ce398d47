----------------------------- MODULE CellValues -----------------------------
(***************************************************************************)
(* Exact decimals, one cell, and the scalar semantics the evaluator pins   *)
(* (_core/dataframe/decimal_text.py, model.py and the first half of        *)
(* evaluate.py).                                                           *)
(*                                                                         *)
(* A cell is [kind, n, d, s]: an int or a bool is n; a decimal n / 10^d; a *)
(* float the fraction n / d it stands for, rounding left out, NaN being    *)
(* 0 / 0; a string or a date is s.  All are canonical, so cell_token,      *)
(* which tells apart kinds and canonical values, is the cell itself.  The  *)
(* text of a number is that of its reduced fraction.                       *)
(*                                                                         *)
(* An answer is [err, cell]; err is "None", the token of the refusal, or   *)
(* "Raises" where the code raises instead of refusing.                     *)
(***************************************************************************)
EXTENDS Integers, Sequences, FiniteSets, FiniteSetsExt, SequencesExt

CONSTANTS MaxScale,     \* MAX_SCALE: the largest scale a rounding may name
          StringOrder,  \* the strings in play, in their ordinal order
          IntMax        \* the largest int a cell may hold (2^31 - 1)

ASSUME MaxScaleAssumption == MaxScale \in Nat

-----------------------------------------------------------------------------
(***************************************************************************)
(* Exact decimals (_core/dataframe/decimal_text.py).  A decimal is the     *)
(* number n / 10^s.  The code's canonical text is here the record of least *)
(* scale, so two canonical decimals are one number exactly when they are   *)
(* equal; grammar and layout of the text are left out.                     *)
(***************************************************************************)
Modes == {"half-even", "half-up", "half-down", "up", "down", "ceiling", "floor"}

Magnitude(n) == IF n < 0 THEN -n ELSE n
Signed(negative, m) == IF negative THEN -m ELSE m
Larger(a, b) == IF a >= b THEN a ELSE b

\* 10 ** k.
PowerOfTen[k \in Nat] == IF k = 0 THEN 1 ELSE 10 * PowerOfTen[k - 1]

\* _render: the canonical form of n / 10^s.
Render(n, s) ==
    LET at(t) == [n |-> n \div PowerOfTen[s - t], s |-> t]
    IN  at(CHOOSE t \in 0 .. s : /\ n % PowerOfTen[s - t] = 0
                                 /\ \A u \in 0 .. t - 1 : n % PowerOfTen[s - u] # 0)

Zero == [n |-> 0, s |-> 0]
Scaled(a, scale) == a.n * PowerOfTen[scale - a.s]

\* -1, 0 or 1, at the common scale.
Compare(a, b) ==
    LET s == Larger(a.s, b.s)
    IN  IF Scaled(a, s) < Scaled(b, s) THEN -1 ELSE IF Scaled(a, s) > Scaled(b, s) THEN 1 ELSE 0

Add(a, b) == LET s == Larger(a.s, b.s) IN Render(Scaled(a, s) + Scaled(b, s), s)
Negate(a) == [a EXCEPT !.n = -@]
Sub(a, b) == Add(a, Negate(b))
Mul(a, b) == Render(a.n * b.n, a.s + b.s)

\* The remainder of a truncating division, with the dividend's sign; b is not zero.
RemDecimal(a, b) ==
    LET s == Larger(a.s, b.s)
    IN  Render(Signed(a.n < 0, Magnitude(Scaled(a, s)) % Magnitude(Scaled(b, s))), s)

\* Mutant: a tie goes up whatever the last digit.
TiesAwayRoundQuotient(mode, negative, numerator, denominator) ==
    LET q == numerator \div denominator
        r == numerator % denominator
        bumped == CASE mode = "down"      -> FALSE
                    [] mode = "up"        -> TRUE
                    [] mode = "ceiling"   -> ~negative
                    [] mode = "floor"     -> negative
                    [] mode = "half-up"   -> 2 * r >= denominator
                    [] mode = "half-down" -> 2 * r > denominator
                    [] mode = "half-even" -> 2 * r >= denominator
    IN  IF r # 0 /\ bumped THEN q + 1 ELSE q

\* _round_quotient: magnitudes in, the sign of the exact quotient beside them; the
\* remainder decides the last digit.
RoundQuotient(mode, negative, numerator, denominator) ==
    LET q == numerator \div denominator
        r == numerator % denominator
        bumped == CASE mode = "down"      -> FALSE
                    [] mode = "up"        -> TRUE
                    [] mode = "ceiling"   -> ~negative
                    [] mode = "floor"     -> negative
                    [] mode = "half-up"   -> 2 * r >= denominator
                    [] mode = "half-down" -> 2 * r > denominator
                    [] mode = "half-even" -> 2 * r > denominator \/ (2 * r = denominator /\ q % 2 = 1)
    IN  IF r # 0 /\ bumped THEN q + 1 ELSE q

InScale(scale) == scale \in 0 .. MaxScale

\* The value itself where it has no more places than the scale.
Quantize(mode, scale, a) ==
    IF a.s <= scale THEN a
    ELSE Render(Signed(a.n < 0, RoundQuotient(mode, a.n < 0, Magnitude(a.n), PowerOfTen[a.s - scale])), scale)

\* The exact quotient, rounded once; the divisor is not zero.
Divide(mode, scale, a, b) ==
    LET e == b.s - a.s + scale
        numerator == IF e >= 0 THEN Magnitude(a.n) * PowerOfTen[e] ELSE Magnitude(a.n)
        denominator == IF e >= 0 THEN Magnitude(b.n) ELSE Magnitude(b.n) * PowerOfTen[-e]
        negative == (a.n < 0) # (b.n < 0) /\ a.n # 0
    IN  Render(Signed(negative, RoundQuotient(mode, negative, numerator, denominator)), scale)

\* The integer part, toward zero.
TruncateToInt(a) == Signed(a.n < 0, Magnitude(a.n) \div PowerOfTen[a.s])

-----------------------------------------------------------------------------
\* v is the integer the mode gives num / den, den > 0: the directed modes bound it
\* on their side, the half-way modes take the nearest and their own choice of two.
IsRounding(mode, v, num, den) ==
    LET below == v * den <= num
        above == v * den >= num
        tie == 2 * (num - v * den) \in {den, -den}
        away == IF num >= 0 THEN above ELSE below
    IN  CASE mode = "floor"     -> below /\ num < (v + 1) * den
          [] mode = "ceiling"   -> above /\ (v - 1) * den < num
          [] mode = "down"      -> (IF num >= 0 THEN below ELSE above) /\ Magnitude(num - v * den) < den
          [] mode = "up"        -> away /\ Magnitude(num - v * den) < den
          [] mode = "half-up"   -> 2 * Magnitude(num - v * den) <= den /\ (tie => away)
          [] mode = "half-down" -> 2 * Magnitude(num - v * den) <= den /\ (tie => ~away)
          [] mode = "half-even" -> 2 * Magnitude(num - v * den) <= den /\ (tie => v % 2 = 0)

-----------------------------------------------------------------------------
(***************************************************************************)
(* Cells.                                                                  *)
(***************************************************************************)
Cell(kind, n, d, s) == [kind |-> kind, n |-> n, d |-> d, s |-> s]
Null == Cell("null", 0, 0, "")
IntCell(n) == Cell("int", n, 0, "")
BoolCell(b) == Cell("bool", IF b THEN 1 ELSE 0, 0, "")
StrCell(s) == Cell("string", 0, 0, s)
DecimalCell(a) == Cell("decimal", a.n, a.s, "")

\* A float from its fraction, in lowest terms.
FloatCell(n, d) ==
    LET over(g) == Cell("float", Signed(d < 0, n) \div g, Magnitude(d) \div g, "")
    IN  IF d = 0 THEN Cell("float", 0, 0, "")
        ELSE over(Max({k \in 1 .. Larger(1, Larger(Magnitude(n), Magnitude(d))) : n % k = 0 /\ d % k = 0}))
NaN == FloatCell(0, 0)

Good(cell) == [err |-> "None", cell |-> cell]
Fail(token) == [err |-> token, cell |-> Null]
TypeError == Fail("TYPE_ERROR")

Exact(c) == c.kind \in {"decimal", "int"}
Numeric(c) == c.kind \in {"int", "float"}
DecimalOf(c) == [n |-> c.n, s |-> IF c.kind = "decimal" THEN c.d ELSE 0]
Den(c) == IF c.kind = "int" THEN 1 ELSE c.d     \* _as_num: n / Den

Widens(source, target) == source = target \/ (source = "int" /\ target \in {"float", "decimal"})
\* A cell a column of the type may hold: null, its own type, or an int that widens.
Fits(type, c) == c = Null \/ Widens(c.kind, type)

-----------------------------------------------------------------------------
\* Orders: NaN is above every other float, and equal to itself.
Rank(s) == CHOOSE i \in DOMAIN StringOrder : StringOrder[i] = s
Order(x, y) == IF x < y THEN -1 ELSE IF x > y THEN 1 ELSE 0

CompareFloat(a, b) ==
    IF Den(a) = 0 \/ Den(b) = 0 THEN Order(IF Den(a) = 0 THEN 1 ELSE 0, IF Den(b) = 0 THEN 1 ELSE 0)
    ELSE Order(a.n * Den(b), b.n * Den(a))

\* Incomparable pairs have no order: a decimal beside a float, two families.
Comparable(a, b) ==
    \/ Numeric(a) /\ Numeric(b)
    \/ Exact(a) /\ Exact(b)
    \/ a.kind = b.kind /\ a.kind \in {"bool", "string", "date"}

CompareCells(a, b) ==
    IF Numeric(a) /\ Numeric(b) THEN CompareFloat(a, b)
    ELSE IF Exact(a) /\ Exact(b) THEN Compare(DecimalOf(a), DecimalOf(b))
    ELSE IF a.kind = "bool" THEN Order(a.n, b.n)
    ELSE Order(Rank(a.s), Rank(b.s))

\* _cell_eq: no null, and a decimal only matches a decimal.
CellEq(a, b) ==
    /\ Null \notin {a, b}
    /\ "decimal" \in {a.kind, b.kind} => a.kind = b.kind
    /\ Comparable(a, b) /\ CompareCells(a, b) = 0

Text(c) ==
    CASE c.kind \in {"string", "date"} -> c.s
      [] c.kind = "null" -> ""
      [] c.kind = "bool" -> IF c.n = 1 THEN "true" ELSE "false"
      [] c.kind = "int" -> ToString(c.n)
      [] OTHER -> LET text(f) == IF f.d = 0 THEN "NaN" ELSE IF f.d = 1 THEN ToString(f.n)
                                 ELSE ToString(f.n) \o "/" \o ToString(f.d)
                  IN  text(IF c.kind = "decimal" THEN FloatCell(c.n, PowerOfTen[c.d]) ELSE c)

-----------------------------------------------------------------------------
(***************************************************************************)
(* Operators.  A null operand of an arithmetic or a comparison propagates  *)
(* before any type is looked at.                                           *)
(***************************************************************************)
DecimalArith(op, x, y) ==
    CASE op = "add" -> Good(DecimalCell(Add(x, y)))
      [] op = "sub" -> Good(DecimalCell(Sub(x, y)))
      [] op = "mul" -> Good(DecimalCell(Mul(x, y)))
      [] op = "mod" -> IF y.n = 0 THEN Good(Null) ELSE Good(DecimalCell(RemDecimal(x, y)))
      [] op = "div" -> TypeError                        \* names Quotient

IntArith(op, x, y) ==
    CASE op = "add" -> Good(IntCell(x + y))
      [] op = "sub" -> Good(IntCell(x - y))
      [] op = "mul" -> Good(IntCell(x * y))
      [] op = "div" -> IF y = 0 THEN Good(Null) ELSE Good(FloatCell(x, y))
      \* The remainder takes the divisor's sign.
      [] op = "mod" -> IF y = 0 THEN Good(Null)
                       ELSE Good(IntCell(IF y > 0 THEN x % y ELSE -((-x) % (-y))))

FloatArith(op, a, b) ==
    IF op = "mod" THEN TypeError
    ELSE IF op = "div" /\ b.n = 0 /\ Den(b) # 0 THEN Good(Null)
    ELSE Good(FloatCell(CASE op = "add" -> a.n * Den(b) + b.n * Den(a)
                          [] op = "sub" -> a.n * Den(b) - b.n * Den(a)
                          [] op = "mul" -> a.n * b.n
                          [] op = "div" -> a.n * Den(b),
                        Den(a) * (IF op = "div" THEN b.n ELSE Den(b))))

ArithOps == {"add", "sub", "mul", "div", "mod"}
Arith(op, a, b) ==
    IF Null \in {a, b} THEN Good(Null)
    ELSE IF Exact(a) /\ Exact(b) /\ "decimal" \in {a.kind, b.kind}
         THEN DecimalArith(op, DecimalOf(a), DecimalOf(b))
    ELSE IF ~Numeric(a) \/ ~Numeric(b) THEN TypeError
    ELSE IF a.kind = "int" /\ b.kind = "int" THEN IntArith(op, a.n, b.n)
    ELSE FloatArith(op, a, b)

Comparisons == {"eq", "ne", "lt", "le", "gt", "ge"}
Comparison(op, a, b) ==
    IF Null \in {a, b} THEN Good(Null)
    ELSE IF ~Comparable(a, b) THEN TypeError
    ELSE LET holds(c) == CASE op = "eq" -> c = 0 [] op = "ne" -> c # 0 [] op = "lt" -> c < 0
                           [] op = "le" -> c <= 0 [] op = "gt" -> c > 0 [] op = "ge" -> c >= 0
         IN  Good(BoolCell(holds(CompareCells(a, b))))

\* Kleene's: one operand that decides is enough.
Logical(op, a, b) ==
    IF \E c \in {a, b} : c.kind \notin {"bool", "null"} THEN TypeError
    ELSE IF BoolCell(op = "or") \in {a, b} THEN Good(BoolCell(op = "or"))
    ELSE IF Null \in {a, b} THEN Good(Null) ELSE Good(BoolCell(op = "and"))

NotCell(c) ==
    IF c.kind = "bool" THEN Good(BoolCell(c.n = 0)) ELSE IF c = Null THEN Good(Null) ELSE TypeError

-----------------------------------------------------------------------------
\* Casts.  A text is read as the number it is the text of, among those in play.
Readable == -9 .. 9
Read(s, As(_)) ==
    LET as(is) == IF is = {} THEN TypeError ELSE Good(As(Max(is)))
    IN  as({i \in Readable : ToString(i) = s})
IntIn32(v) == IF v \in -IntMax - 1 .. IntMax THEN Good(IntCell(v)) ELSE TypeError

CastToInt(c) ==
    CASE c.kind = "int" -> Good(c)
      [] c.kind = "bool" -> Good(IntCell(c.n))
      [] c.kind = "float" -> IF c.d = 0 THEN Fail("Raises")
                             ELSE Good(IntCell(Signed(c.n < 0, Magnitude(c.n) \div c.d)))
      [] c.kind = "decimal" -> IntIn32(TruncateToInt(DecimalOf(c)))
      [] c.kind = "string" -> Read(c.s, LAMBDA i : IntCell(i))
      [] OTHER -> TypeError

CastToFloat(c) ==
    CASE Numeric(c) -> Good(FloatCell(c.n, Den(c)))
      [] c.kind = "decimal" -> Good(FloatCell(c.n, PowerOfTen[c.d]))
      [] c.kind = "string" -> IF c.s = "NaN" THEN Good(NaN) ELSE Read(c.s, LAMBDA i : FloatCell(i, 1))
      [] OTHER -> TypeError

\* A float enters a decimal by its digits; a third, which has none here, is refused.
CastToDecimal(c) ==
    CASE Exact(c) -> Good(DecimalCell(DecimalOf(c)))
      [] c.kind = "float" -> LET at(places) == IF places = {} THEN TypeError
                                               ELSE LET s == Min(places)
                                                    IN  Good(DecimalCell(Render(c.n * (PowerOfTen[s] \div c.d), s)))
                             IN  at({s \in 0 .. MaxScale : c.d # 0 /\ PowerOfTen[s] % c.d = 0})
      [] c.kind = "string" -> Read(c.s, LAMBDA i : DecimalCell(Render(i, 0)))
      [] OTHER -> TypeError

CastCell(type, c) ==
    IF c = Null THEN Good(Null)
    ELSE CASE type = "string" -> Good(StrCell(Text(c)))
           [] type = "decimal" -> CastToDecimal(c)
           [] type = "float" -> CastToFloat(c)
           [] type = "int" -> CastToInt(c)
           [] type = "bool" -> IF c.kind = "bool" THEN Good(c)
                               ELSE IF c.kind = "int" THEN Good(BoolCell(c.n # 0)) ELSE TypeError
           [] type = "date" -> IF c.kind \in {"date", "string"} THEN Good(Cell("date", 0, 0, c.s)) ELSE TypeError

-----------------------------------------------------------------------------
\* Rounding: the scale is checked before a null propagates.
RoundedCell(mode, scale, c) ==
    IF ~InScale(scale) THEN TypeError
    ELSE IF c = Null THEN Good(Null)
    ELSE IF Exact(c) THEN Good(DecimalCell(Quantize(mode, scale, DecimalOf(c)))) ELSE TypeError

QuotientCell(mode, scale, a, b) ==
    IF ~InScale(scale) THEN TypeError
    ELSE IF Null \in {a, b} THEN Good(Null)
    ELSE IF ~Exact(a) \/ ~Exact(b) THEN TypeError
    ELSE IF b.n = 0 THEN Good(Null)
    ELSE Good(DecimalCell(Divide(mode, scale, DecimalOf(a), DecimalOf(b))))

\* round, floor and ceil: a decimal's by the rounding above at scale 0; the others
\* answer a float, round's ties away from zero.
Scale0Mode == [round |-> "half-up", floor |-> "floor", ceil |-> "ceiling"]
FloatRounding(fn, c) ==
    CASE fn = "floor" -> c.n \div Den(c)
      [] fn = "ceil"  -> -((-c.n) \div Den(c))
      [] fn = "round" -> Signed(c.n < 0, (2 * Magnitude(c.n) + Den(c)) \div (2 * Den(c)))

RoundFn(fn, c) ==
    IF c.kind = "decimal" THEN RoundedCell(Scale0Mode[fn], 0, c)
    ELSE IF ~Numeric(c) THEN TypeError
    ELSE IF Den(c) = 0 THEN Fail("Raises") ELSE Good(FloatCell(FloatRounding(fn, c), 1))

AbsFn(c) ==
    IF c.kind \in {"int", "float", "decimal"} THEN Good([c EXCEPT !.n = Magnitude(@)]) ELSE TypeError

\* pow, of an integer exponent, the only kind in play: an int stays one, refused where it
\* leaves 32 bits; a negative exponent is one reciprocal.
Power(x, k) == IF k = 0 THEN 1 ELSE x^k
Pow(x, y) ==
    IF Null \in {x, y} THEN Good(Null)
    ELSE IF "decimal" \in {x.kind, y.kind} \/ ~Numeric(x) \/ y.kind # "int" THEN TypeError
    ELSE IF Den(x) = 0 THEN Good(NaN)
    ELSE IF x.kind = "int" /\ y.n >= 0
         THEN IntIn32(Power(x.n, y.n))
    ELSE IF y.n < 0 /\ x.n = 0 THEN Good(Null)
    ELSE LET k == Magnitude(y.n)
             up(n, d) == Good(FloatCell(Power(n, k), Power(d, k)))
         IN  up(IF y.n >= 0 THEN x.n ELSE Den(x), IF y.n >= 0 THEN Den(x) ELSE x.n)

\* least keeps the first of equal cells, greatest the last.
LeastOrGreatest(fn, args) ==
    FoldLeft(LAMBDA best, c :
               IF best.err # "None" THEN best
               ELSE IF ~Comparable(best.cell, c) THEN TypeError
               ELSE IF (fn = "least") # (CompareCells(best.cell, c) <= 0) THEN Good(c) ELSE best,
             Good(Head(args)), Tail(args))

Unary == {"abs", "round", "floor", "ceil", "length"}
ApplyUnary(fn, c) ==
    IF c = Null THEN Good(Null)
    ELSE CASE fn = "abs" -> AbsFn(c)
           [] fn \in {"round", "floor", "ceil"} -> RoundFn(fn, c)
           [] fn = "length" -> IF c.kind = "string" THEN Good(IntCell(Len(c.s))) ELSE TypeError

ApplyScalar(fn, args) ==
    CASE fn \in Unary -> IF Len(args) # 1 THEN Fail("ARITY_ERROR") ELSE ApplyUnary(fn, args[1])
      [] fn = "pow" -> IF Len(args) # 2 THEN Fail("ARITY_ERROR") ELSE Pow(args[1], args[2])
      [] fn \in {"least", "greatest", "concat"} ->
           IF args = << >> THEN Fail("ARITY_ERROR")
           ELSE IF Null \in ToSet(args) THEN Good(Null)
           ELSE IF fn = "concat"
                THEN Good(StrCell(FoldLeft(LAMBDA text, c : text \o Text(c), "", args)))
           ELSE LeastOrGreatest(fn, args)
=============================================================================
