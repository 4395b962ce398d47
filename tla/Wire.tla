-------------------------------- MODULE Wire --------------------------------
(***************************************************************************)
(* JSON values as the wire reader sees them, the results of a read, and    *)
(* the readers of the plain scalar positions (schema/decode.py, model.py). *)
(*                                                                         *)
(* A value is a record whose one member names its form, so that values of  *)
(* different forms compare unequal.  An object is a function from member   *)
(* names to values, "$type" among them; a number is an integer of the      *)
(* signed 32 bits, an odd number of halves, a double spelling an integer   *)
(* (2.0), or one past the 32 bits.  A read gives a value, or Fail with *)
(* the code and the path (the members and positions leading to it).        *)
(***************************************************************************)
EXTENDS Integers, Sequences, FiniteSets, TLC

Str(s)   == [str |-> s]
Int32(n) == [int |-> n]          \* 7
Half(k)  == [half |-> k]         \* k / 2, spelled with a point: 2.5 is Half(5), 2.0 is Half(4)
Wide(k)  == [wide |-> k]         \* k thousands, past the signed 32 bits
Bool(b)  == [bool |-> b]
Null     == [null |-> TRUE]
Arr(s)   == [arr |-> s]
Obj(f)   == [obj |-> f]
Case(tag, f) == Obj(("$type" :> Str(tag)) @@ f)
NoMembers == [n \in {} |-> Null]
OPAQUE   == Str("<opaque>")

IsStr(v)    == "str" \in DOMAIN v
IsInt(v)    == "int" \in DOMAIN v
IsBool(v)   == "bool" \in DOMAIN v
IsNull(v)   == "null" \in DOMAIN v
IsArr(v)    == "arr" \in DOMAIN v
IsObj(v)    == "obj" \in DOMAIN v
IsNumber(v) == DOMAIN v \cap {"int", "half", "wide"} # {}
IsScalar(v) == IsStr(v) \/ IsNumber(v) \/ IsBool(v)

Has(v, k)  == IsObj(v) /\ k \in DOMAIN v.obj
Get(v, k)  == v.obj[k]
TagOf(v)   == IF Has(v, "$type") /\ IsStr(Get(v, "$type")) THEN Get(v, "$type").str ELSE ""
\* A member that is missing or null: an absent payload.
Absent(v, k) == ~ Has(v, k) \/ IsNull(Get(v, k))
With(v, k, w)   == Obj((k :> w) @@ v.obj)
Without(v, ks)  == Obj([k \in DOMAIN v.obj \ ks |-> v.obj[k]])

(***************************************************************************)
(* Results.                                                                *)
(***************************************************************************)
WRONG_TYPE        == "WRONG_TYPE"
MISSING_FIELD     == "MISSING_FIELD"
UNKNOWN_DU_CASE   == "UNKNOWN_DU_CASE"
WRONG_NODE_KIND   == "WRONG_NODE_KIND"
EMPTY_NODE_ID     == "EMPTY_NODE_ID"
LIMIT_EXCEEDED    == "LIMIT_EXCEEDED"

\* Where a read stands: the path, and how many nodes, tree items and operations enclose it.
Root   == [path |-> <<>>, depth |-> 0, items |-> 0, ops |-> 0]
At(at, k)  == [at EXCEPT !.path = Append(@, k)]
\* Mutant: elements are counted from 1.
IxFromOne(at, i) == At(at, ToString(i))
Ix(at, i)  == At(at, ToString(i - 1))

Fail(code, at) == [fail |-> code, at |-> at.path]
Bad(r)  == "fail" \in DOMAIN r
\* The reader leaves the member out: it stands at its default.
Drop    == [drop |-> TRUE]
Dropped(r) == "drop" \in DOMAIN r

\* The first refusal of a sequence of reads, or what they make together.
FirstBad(rs) == CHOOSE i \in DOMAIN rs : Bad(rs[i]) /\ \A j \in 1..(i - 1) : ~ Bad(rs[j])
Unless(rs, ok) == IF \E i \in DOMAIN rs : Bad(rs[i]) THEN rs[FirstBad(rs)] ELSE ok
Listing(rs)    == Unless(rs, Arr(rs))
Check(cond, code, at) == IF cond THEN Drop ELSE Fail(code, at)
\* Going on with what a read gave, and from one that left its member out.
Then(r, F(_))  == IF Bad(r) THEN r ELSE F(r)
After(r, next) == IF Bad(r) THEN r ELSE next
\* The results of reading the members named as the object of those that were
\* kept; a member named twice is its last reading.
Assembled(names, rs) ==
    LET kept == {i \in DOMAIN names : ~ Dropped(rs[i])}
        last(n) == CHOOSE i \in kept : names[i] = n /\ \A j \in kept : names[j] = n => j <= i
    IN Unless(rs, Obj([n \in {names[i] : i \in kept} |-> rs[last(n)]]))
Tagged(tag, r) == IF Bad(r) THEN r ELSE With(r, "$type", Str(tag))
\* The object of the members read, those left out not among them; the order in
\* which an open set of members is read, and so which of two refusals it
\* answers with, is the document's and is not modelled.
Gather(rs) ==
    IF \E k \in DOMAIN rs : Bad(rs[k]) THEN rs[CHOOSE k \in DOMAIN rs : Bad(rs[k])]
    ELSE Obj([k \in {j \in DOMAIN rs : ~ Dropped(rs[j])} |-> rs[k]])

(***************************************************************************)
(* The plain scalar positions.                                             *)
(***************************************************************************)
\* A Static envelope around a plain scalar unwraps, once.
Unwrapped(v) == IF TagOf(v) = "Static" /\ Has(v, "value") THEN Get(v, "value") ELSE v
Integral(n)  == "half" \in DOMAIN n /\ n.half % 2 = 0

ReadText(v, at) == LET text(s) == IF IsStr(s) THEN s ELSE Fail(WRONG_TYPE, at) IN text(Unwrapped(v))

\* The integer slot: no boolean, no fraction, no more than 32 bits; 2.0 is 2.
ReadInt(v, at) ==
    LET whole(n) == CASE IsInt(n) -> n
                      [] Integral(n) -> Int32(n.half \div 2)
                      [] OTHER -> Fail(WRONG_TYPE, at)
    IN whole(Unwrapped(v))

ReadBool(v, at) == LET truth(b) == IF IsBool(b) THEN b ELSE Fail(WRONG_TYPE, at) IN truth(Unwrapped(v))

ReadArray(v, at)  == IF IsArr(v) THEN v ELSE Fail(WRONG_TYPE, at)
ReadObject(v, at) == IF IsObj(v) THEN v ELSE Fail(WRONG_TYPE, at)

\* The float slot: any number or the spelling of a non-finite one.
Sentinels == {"NaN", "Infinity", "-Infinity"}
ReadFloat(v, at) ==
    LET number(n) == CASE Integral(n) -> Int32(n.half \div 2)
                       [] IsNumber(n) /\ ~ Integral(n) -> n
                       [] IsStr(n) /\ n.str \in Sentinels -> n
                       [] OTHER -> Fail(WRONG_TYPE, at)
    IN number(Unwrapped(v))

\* The member k of v, or the refusal of its absence.
Require(v, k, at) == IF Has(v, k) THEN Get(v, k) ELSE Fail(MISSING_FIELD, At(at, k))

\* The discriminator of a union: an object whose $type is one of the cases.
DispatchAs(v, at, cases, unknown) ==
    CASE ~ IsObj(v) -> Fail(WRONG_TYPE, at)
      [] ~ Has(v, "$type") -> Fail(MISSING_FIELD, At(at, "$type"))
      [] ~ IsStr(Get(v, "$type")) -> Fail(WRONG_TYPE, At(at, "$type"))
      [] TagOf(v) \notin cases -> Fail(unknown, At(at, "$type"))
      [] OTHER -> v
Dispatch(v, at, cases) == DispatchAs(v, at, cases, UNKNOWN_DU_CASE)

\* A bare-string enum; a canonical name wins over an alias.
ReadEnum(v, at, cases, aliases) ==
    CASE ~ IsStr(v) -> Fail(WRONG_TYPE, at)
      [] v.str \in cases -> v
      [] v.str \in DOMAIN aliases -> Str(aliases[v.str])
      [] OTHER -> Fail(UNKNOWN_DU_CASE, at)

(***************************************************************************)
(* Payloads that are carried, not read: the canonical bytes spell a double *)
(* that is an integer as the integer.                                      *)
(***************************************************************************)
RECURSIVE Canonical(_)
Canonical(v) ==
    CASE IsArr(v) -> Arr([i \in DOMAIN v.arr |-> Canonical(v.arr[i])])
      [] IsObj(v) -> Obj([k \in DOMAIN v.obj |-> Canonical(v.obj[k])])
      [] Integral(v) -> Int32(v.half \div 2)
      [] OTHER -> v

(***************************************************************************)
(* Structured payloads: any JSON but null, at any depth.                   *)
(***************************************************************************)
RECURSIVE ReadStrict(_, _)
ReadStrict(v, at) ==
    CASE IsNull(v) -> Fail(WRONG_TYPE, at)
      [] IsArr(v) -> Listing([i \in DOMAIN v.arr |-> ReadStrict(v.arr[i], Ix(at, i))])
      [] IsObj(v) -> Gather([k \in DOMAIN v.obj |-> ReadStrict(v.obj[k], At(at, k))])
      [] OTHER -> Canonical(v)

\* Python's ==, under which False is 0 and True is 1.
AsNumber(v) == IF IsBool(v) THEN Int32(IF v.bool THEN 1 ELSE 0)
               ELSE IF Integral(v) THEN Int32(v.half \div 2) ELSE v
PyEqual(v, w) == AsNumber(v) = AsNumber(w)
=============================================================================
