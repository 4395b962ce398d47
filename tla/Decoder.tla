------------------------------ MODULE Decoder -------------------------------
(***************************************************************************)
(* The lenient reader of node and operation documents (schema/decode.py):  *)
(* it accepts the spellings the format tolerates, answers with the one     *)
(* canonical form, or refuses at the first defect with a code and a path.  *)
(*                                                                         *)
(* Read(t, v, at) reads the value v at a position of type t; at holds the  *)
(* path and how many nodes and tree items enclose it.                      *)
(***************************************************************************)
EXTENDS FrameCodec

CONSTANTS MaxNodeDepth,     \* nodes inside nodes, and items inside items
          MaxExprNodes,     \* nodes of one expression
          MaxSkeletonRows   \* placeholder rows of one Skeleton

RECURSIVE Read(_, _, _)

(***************************************************************************)
(* Members.                                                                *)
(***************************************************************************)
\* A closure kept by the host alone has nothing to read.
OnWire(plan) == SelectSeq(plan, LAMBDA f : f.rule # "host")

\* Mutant: what is false is left out, whatever the default.
IsDefaultOrFalse(f, r) == r = f.default \/ r = Bool(FALSE)
\* A case without members is the default whatever it carries.
IsDefault(f, r) == \/ r = f.default
                   \/ IsObj(f.default) /\ DOMAIN f.default.obj = {"$type"} /\ TagOf(r) = TagOf(f.default)

Defaulted(f, r) == IF f.rule = "omit" /\ IsDefault(f, r) THEN Drop ELSE r
ReadSpelled(owner, f, s, v, at) ==
    IF s = "" THEN IF f.rule = "required" THEN Fail(MISSING_FIELD, At(at, f.name)) ELSE Drop
    ELSE Defaulted(f, Read(Reader(owner, f), Get(v, s), At(at, f.name)))
ReadMember(owner, f, v, at) == ReadSpelled(owner, f, Spelling(owner, f.name, v), v, at)

\* The members of a plan, refused at the first defect in the plan's order.
ReadMembers(owner, plan, v, at) ==
    Assembled(NamesIn(plan), [i \in DOMAIN plan |-> ReadMember(owner, plan[i], v, at)])

Used(owner, plan, v) == {Spelling(owner, plan[i].name, v) : i \in DOMAIN plan}
\* What is carried beside the members that were read.
Beside(r, others)    == IF Bad(r) THEN r ELSE Obj(r.obj @@ others)
Others(v, known)     == [k \in DOMAIN v.obj \ known |-> Canonical(v.obj[k])]
\* What is carried beside them without null.
StrictOthers(v, known, at) == Gather([k \in DOMAIN v.obj \ known |-> ReadStrict(v.obj[k], At(at, k))])

ReadRecord(owner, plan, v, at) ==
    IF IsObj(v) THEN ReadMembers(owner, plan, v, at) ELSE Fail(WRONG_TYPE, at)
ReadOpenRecord(owner, plan, v, at, known) == Beside(ReadRecord(owner, plan, v, at), Others(v, known))

ReadList(t, v, at) ==
    IF ~ IsArr(v) THEN Fail(WRONG_TYPE, at)
    ELSE Listing([i \in DOMAIN v.arr |-> Read(t, v.arr[i], Ix(at, i))])
EmptyIs(r, empty) == IF r = Arr(<<>>) THEN empty ELSE r

\* A case that lacks a member its table requires.
Complete(cases, r, at) ==
    LET plan == cases[TagOf(r)]
        gaps == {i \in DOMAIN plan : plan[i].rule = "required" /\ ~ Has(r, plan[i].name)}
    IN IF Bad(r) \/ TagOf(r) \notin DOMAIN cases THEN r
       ELSE IF gaps = {} THEN r
       ELSE Fail(MISSING_FIELD, At(at, plan[CHOOSE i \in gaps : \A j \in gaps : i <= j].name))

(***************************************************************************)
(* Bindings.                                                               *)
(***************************************************************************)
BindingCases == UnionCases("Binding") \cup {"Data", "Bound"}
Static(r)    == IF Bad(r) THEN r ELSE Case("Static", [value |-> r])
HasPlaceholder(p) == p \in Payloads \cup {OptText, Rows}

\* No value is refused where one scalar is wanted and is the empty list where a list is.
ReadStatic(p, v, at) ==
    CASE Absent(v, "value") /\ p \in Scalars -> Fail(WRONG_TYPE, At(at, "value"))
      [] Absent(v, "value") /\ p \in Payloads \cup {Rows} -> Static(Arr(<<>>))
      [] Absent(v, "value") /\ p \in {OptText, Kept} -> Case("Static", NoMembers)
      [] ~ Absent(v, "value") /\ HasPlaceholder(p) /\ Get(v, "value") = OPAQUE -> Static(Placeholder(p))
      [] OTHER -> Static(Read(p, Get(v, "value"), At(at, "value")))

\* The format's case has an older name.
ReadFormatBinding(v) ==
    IF Has(v, "format") /\ TagOf(Get(v, "format")) = "Date"
    THEN Canonical(With(v, "format", With(Get(v, "format"), "$type", Str("DateTime")))) ELSE Canonical(v)

\* An edit buffer's codec must have an inverse, and it commits to one place.
ReadLocal(v, at) ==
    LET codec == CASE Absent(v, "codec") -> Drop
                   [] ~ Absent(v, "codec") /\ IsObj(Get(v, "codec")) /\ TagOf(Get(v, "codec")) = "Number" -> Drop
                   [] OTHER -> Fail(WRONG_TYPE, At(at, "codec"))
        commit == CASE ~ Has(v, "commitTo") -> Drop
                    [] Has(v, "commitTo") /\ Has(v, "onCommit") -> Fail(WRONG_TYPE, At(at, "commitTo"))
                    [] OTHER -> ReadText(Get(v, "commitTo"), At(at, "commitTo"))
    IN Unless(<<codec, commit>>, Canonical(v))

\* A parameter by name; a map of them is the list in the order of the names.
ReadParam(v, at, params) ==
    LET from(name, s) ==
            IF s = "" THEN Fail(MISSING_FIELD, At(at, "from"))
            ELSE Read(BindingOf(Kept), Get(v, s), At(At(params, name.str), "from"))
        named(name) == Assembled(<<"from", "name">>, <<from(name, Spelling("TransformParam", "from", v)), name>>)
    IN IF IsObj(v) THEN Then(Needed(v, "name", at, ReadText), named) ELSE Fail(WRONG_TYPE, at)
ReadParams(v, at) ==
    LET named(names) ==
            Listing([i \in DOMAIN names |->
                Assembled(<<"from", "name">>,
                    <<Read(BindingOf(Kept), Get(v, names[i]), At(At(at, names[i]), "from")), Str(names[i])>>)])
    IN CASE IsObj(v) -> named(InOrder(DOMAIN v.obj))
         [] IsArr(v) -> Listing([i \in DOMAIN v.arr |-> ReadParam(v.arr[i], Ix(at, i), at)])
         [] OTHER -> Fail(WRONG_TYPE, at)
ParamsOf(v, at) == EmptyIs(Given(v, "params", at, ReadParams), Drop)

\* One expression over its parameters alone: it has no row to read a column of.
NamesOf(params) == IF Dropped(params) THEN {} ELSE {Get(params.arr[i], "name").str : i \in DOMAIN params.arr}
FirstNodes(nodes) == SubSeq(nodes, 1, IF Len(nodes) < MaxExprNodes THEN Len(nodes) ELSE MaxExprNodes)
\* The walk stops at the bound, and judges the columns it met first.
CheckWalk(nodes, seen, params, at) ==
    Unless(<<Check(~ ReadsColumn(seen), WRONG_TYPE, at), Check(nodes = seen, LIMIT_EXCEEDED, at), params>>,
           Check(ParamsIn(seen) \subseteq NamesOf(params), WRONG_TYPE, at))
ReadExpression(v, at) == Read(<<"frame", "expr">>, v, at)
ReadExprBinding(v, at) ==
    LET walked(nodes, params, here) == CheckWalk(nodes, FirstNodes(nodes), params, here)
        bound(expr, params) ==
            After(walked(Walk(expr), params, At(at, "expr")),
                  Case("Expr", Present([expr |-> expr, params |-> params])))
    IN Then(Needed(v, "expr", at, ReadExpression), LAMBDA expr : bound(expr, ParamsOf(v, at)))

\* The frame of a transform: a live binding is carried as it is, with the data
\* it starts from checked; any other source is read as a frame.
ReadSource(v, at) ==
    LET tag  == TagOf(v)
        live == tag \in {"State", "Selection", "Query"}
        started == tag = "State" /\ ~ Absent(v, "defaultValue") /\ Get(v, "defaultValue") # Arr(<<>>)
        embedded(frame) == IF ~ live THEN frame
                           ELSE Then(Read(BindingOf(Kept), v, at), LAMBDA kept : After(frame, kept))
    IN embedded(IF live /\ ~ started THEN Drop ELSE Read(<<"frame", "source">>, PlainSource(v), at))

\* No step of a pipeline embeds an expression past the bound.
TooLarge(pipeline) ==
    {i \in DOMAIN pipeline.arr : \E slot \in {"pred", "expr"} :
        /\ TagOf(pipeline.arr[i]) = (IF slot = "pred" THEN "filter" ELSE "derive")
        /\ Len(Walk(Get(pipeline.arr[i], slot))) > MaxExprNodes}
CheckPipeline(pipeline, at) ==
    LET judged(large) == LET i == CHOOSE k \in large : \A j \in large : k <= j IN
            IF large = {} THEN Drop
            ELSE Fail(LIMIT_EXCEEDED, At(Ix(At(at, "pipeline"), i),
                                         IF TagOf(pipeline.arr[i]) = "filter" THEN "pred" ELSE "expr"))
    IN judged(TooLarge(pipeline))

ReadSteps(v, at) == Read(<<"frame", "steps">>, v, at)
ReadTransform(v, at) ==
    LET whole(source, pipeline) ==
            Unless(<<source, pipeline, IF Bad(pipeline) THEN Drop ELSE CheckPipeline(pipeline, at)>>,
                   Assembled(<<"params", "pipeline", "source">>, <<ParamsOf(v, at), pipeline, source>>))
    IN Unless(<<Require(v, "source", at), Require(v, "pipeline", at)>>,
              Tagged("Transform", whole(Needed(v, "source", at, ReadSource), Needed(v, "pipeline", at, ReadSteps))))

ReadBindingCase(p, v, at) ==
    LET tag == TagOf(v) IN
    CASE tag \in DOMAIN BindingPlans(p) -> Tagged(tag, ReadMembers(tag, BindingPlans(p)[tag], v, at))
      [] tag = "Format" -> ReadFormatBinding(v)
      [] tag = "Local" -> ReadLocal(v, at)
      [] tag = "Transform" -> ReadTransform(v, at)
      [] tag = "Expr" -> ReadExprBinding(v, at)
      [] OTHER -> Canonical(v)

\* A bare list or scalar is a Static; a Bound wrapper is what it wraps.
ReadBound(v, at, p) == Read(BindingOf(p), v, at)
ReadTaggedBinding(p, v, at) ==
    CASE TagOf(v) = "Static" -> ReadStatic(p, v, at)
      [] TagOf(v) = "Bound" -> Then(Require(v, "binding", at), LAMBDA b : ReadBound(b, At(at, "binding"), p))
      [] OTHER -> ReadBindingCase(p, v, at)
ReadBinding(p, v, at) ==
    LET complete(r) == IF p = Kept THEN Complete(UnionFields["Binding"], r, at) ELSE r
    IN complete(IF IsArr(v) \/ IsScalar(v) THEN Static(Read(p, v, at))
                ELSE After(Dispatch(v, at, BindingCases), ReadTaggedBinding(p, v, at)))

(***************************************************************************)
(* Texts.                                                                  *)
(***************************************************************************)
\* An argument is a binding when it has a $type, and then a Static one is the
\* bare value it carries.
ReadArg(v, at) ==
    CASE ~ Has(v, "$type") -> ReadStrict(v, at)
      [] Has(v, "$type") /\ TagOf(v) = "Static" /\ Absent(v, "value") -> Case("Static", NoMembers)
      [] Has(v, "$type") /\ TagOf(v) = "Static" /\ ~ Absent(v, "value") ->
            ReadStrict(Get(v, "value"), At(at, "value"))
      [] OTHER -> Read(BindingOf(Kept), v, at)
ReadArgs(v, at) ==
    IF IsObj(v) THEN Gather([k \in DOMAIN v.obj |-> ReadArg(Get(v, k), At(at, k))]) ELSE Fail(WRONG_TYPE, at)

ReadI18n(v, at) ==
    IF ~ Has(v, "key") THEN Fail(MISSING_FIELD, At(at, "key"))
    ELSE Tagged("I18n", Gather([k \in DOMAIN v.obj \ {"$type"} |->
             IF k = "args" THEN ReadArgs(Get(v, k), At(at, k)) ELSE ReadStrict(Get(v, k), At(at, k))]))

\* The bare string is the canonical spelling of a literal.
ReadAnyBinding(v, at) == Read(BindingOf(Kept), v, at)
ReadTaggedText(v, at) ==
    CASE TagOf(v) = "Literal" -> Needed(v, "text", at, ReadText)
      [] TagOf(v) = "I18n" -> ReadI18n(v, at)
      [] OTHER -> Then(Needed(v, "binding", at, ReadAnyBinding), LAMBDA b : Case("Bound", [binding |-> b]))
ReadTextSource(v, at) ==
    IF IsStr(v) THEN v ELSE After(Dispatch(v, at, UnionCases("TextSource")), ReadTaggedText(v, at))

(***************************************************************************)
(* Records, cases and lists with a rule of their own.                      *)
(***************************************************************************)
\* A bare string is an option that labels itself.
ReadNamedRecord(n, v, at) ==
    CASE n = "SelectOption" /\ IsStr(v) -> Obj([label |-> v, value |-> v])
      [] n = "ContentHash" -> ReadStrict(v, at)
      [] n = "Affordance" -> ReadRecord(n, AffordancePlan(1), v, at)
      [] OTHER -> ReadRecord(n, IF n \in DOMAIN RecordPlans THEN RecordPlans[n] ELSE RecordFields[n], v, at)

ReadCellFormat(v, at) ==
    LET read(tag) == IF tag \in DOMAIN FormatPlans
                     THEN Tagged(tag, ReadMembers(tag, FormatPlans[tag], v, at)) ELSE Canonical(v)
    IN After(Dispatch(v, at, UnionCases("CellFormat") \cup {"Date"}),
             read(IF TagOf(v) = "Date" THEN "DateTime" ELSE TagOf(v)))

\* The cases of a union, each by its plan.
ReadCase(cases, v, at) ==
    After(Dispatch(v, at, DOMAIN cases), Tagged(TagOf(v), ReadMembers(TagOf(v), cases[TagOf(v)], v, at)))
ReadShape(v, at) ==
    ReadCase(ShapePlans, IF IsObj(v) /\ ~ Has(v, "style") THEN With(v, "style", Obj(NoMembers)) ELSE v, at)
ReadClosedCase(union, v, at) == ReadCase(UnionFields[union], v, at)

\* Names are not repeated in a document's citations.
ReadCitations(v, at) ==
    LET again(r) == {i \in DOMAIN r.arr : \E j \in 1..(i - 1) : Get(r.arr[i], "name") = Get(r.arr[j], "name")}
        unique(r, twice) ==
            CASE r.arr = <<>> -> Fail(WRONG_TYPE, at)
              [] twice # {} -> Fail(WRONG_TYPE, At(Ix(at, CHOOSE i \in twice : \A j \in twice : i <= j), "name"))
              [] OTHER -> r
    IN Then(ReadList(RecordOf("MarkdownCitation"), v, at), LAMBDA r : unique(r, again(r)))

ReadPattern(slots, v, at) ==
    Then(ReadText(v, at),
         LAMBDA s : IF SlotsIn(s.str) # slots \/ s.str \in BlankTexts THEN Fail(WRONG_TYPE, at) ELSE s)
ReadPatterns(slots, v, at) ==
    IF ~ IsArr(v) THEN Fail(WRONG_TYPE, at)
    ELSE Listing([i \in DOMAIN v.arr |-> ReadPattern(slots, v.arr[i], Ix(at, i))])

\* The rows of a tree nest in one node, and are bounded as nodes are.
TreeItemPlan == <<Omit("children", By("treeChildren"), Arr(<<>>)), Opt("icon", Text), Req("id", Text),
                  TextField("label")>>
ReadTreeItem(v, at) ==
    IF at.items >= MaxNodeDepth THEN Fail(LIMIT_EXCEEDED, at)
    ELSE ReadOpenRecord("TreeItem", TreeItemPlan, v, at, Names(TreeItemPlan))

\* A slot argument carries a node; any other argument is carried as it is.
ReadFragmentArg(v, at) ==
    IF TagOf(v) = "SlotArg" /\ Has(v, "tree") /\ IsObj(Get(v, "tree"))
    THEN Then(Read(NodeT, Get(v, "tree"), At(at, "tree")), LAMBDA tree : With(Canonical(v), "tree", tree))
    ELSE Canonical(v)
ReadFragmentArgs(v, at) ==
    IF IsObj(v) THEN Gather([k \in DOMAIN v.obj |-> ReadFragmentArg(Get(v, k), At(at, k))])
    ELSE Fail(WRONG_TYPE, at)

ReadSkeletonRows(v, at) ==
    Then(ReadInt(v, at), LAMBDA n : IF n.int > MaxSkeletonRows THEN Fail(LIMIT_EXCEEDED, at) ELSE n)

(***************************************************************************)
(* Actions.                                                                *)
(***************************************************************************)
\* A question answers no question: where a Confirm hides in a continuation.
RECURSIVE NestedConfirm(_, _)
NestedConfirm(r, at) ==
    CASE TagOf(r) = "Confirm" -> Fail(WRONG_TYPE, at)
      [] TagOf(r) = "Chain" -> LET ops == Get(r, "ops").arr
                               IN Unless([i \in DOMAIN ops |-> NestedConfirm(ops[i], Ix(At(at, "ops"), i))], Drop)
      [] OTHER -> Drop
ReadContinuation(v, at) == Then(Read(UnionOf("Action"), v, at), LAMBDA r : After(NestedConfirm(r, at), r))

ReadOpenAction(tag, plan, v, at) ==
    LET whole(r, rest) == Unless(<<r, rest>>, Tagged(tag, Beside(r, rest.obj)))
    IN whole(ReadMembers(tag, plan, v, at), StrictOthers(v, {"$type"} \cup Used(tag, plan, v), at))

\* The value written is a literal or comes from a binding, and never both.
SetsOnce(v, at) ==
    CASE Has(v, "value") /\ Has(v, "valueFrom") -> Fail(WRONG_TYPE, At(at, "valueFrom"))
      [] ~ Has(v, "value") /\ ~ Has(v, "valueFrom") -> Fail(MISSING_FIELD, At(at, "value"))
      [] OTHER -> Drop

\* A print takes nothing: a member it carried would be believed and ignored.
ReadPrint(v, at) ==
    LET extra == DOMAIN v.obj \ {"$type"} IN
    IF extra = {} THEN v ELSE Fail(WRONG_TYPE, At(at, CHOOSE k \in extra : TRUE))

ReadActionCase(tag, v, at) ==
    CASE tag = "Print" -> ReadPrint(v, at)
      [] tag = "Dispatch" -> ReadStrict(Without(v, {"msg"}), at)
      [] tag \in DOMAIN ActionPlans ->
            After(IF tag = "SetState" THEN SetsOnce(v, at) ELSE Drop, ReadOpenAction(tag, ActionPlans[tag], v, at))
      [] OTHER -> ReadStrict(v, at)
ReadAction(v, at) ==
    LET read(cases) == After(Dispatch(v, at, DOMAIN cases), Complete(cases, ReadActionCase(TagOf(v), v, at), at))
    IN read(UnionFields["Action"])

(***************************************************************************)
(* Grids and charts.                                                       *)
(***************************************************************************)
ColumnPlan == <<Opt("kind", By("cellKind")), Opt("label", Text),
                Omit("format", UnionOf("CellFormat"), Case("None", NoMembers)), Opt("width", By("width"))>>
\* An object that spells none of some names, refused where the first one stands.
Avoiding(v, names, at) == IF IsObj(v) THEN NearMiss(v, names, at) ELSE Fail(WRONG_TYPE, at)
ReadColumn(v, at) ==
    After(Avoiding(v, ColumnNearMisses, at),
          ReadOpenRecord("Column", ColumnPlan, v, at,
                         {"kind", "type", "label", "header", "title", "format", "width"}))

\* A citation names a cell of the table, once.
ReadAnyText(v, at) == Read(UnionOf("TextSource"), v, at)
CellsOf(rows, n)   == IF IsArr(rows[n + 1]) THEN rows[n + 1].arr ELSE <<>>
CheckCitation(v, rows, seen, at) ==
    IF ~ IsObj(v) THEN Fail(WRONG_TYPE, at)
    ELSE After(CheckPlace(v, "row", Len(rows), at),
               Unless(<<CheckPlace(v, "column", Len(CellsOf(rows, Get(v, "row").int)), at),
                        Needed(v, "reference", at, ReadText), Given(v, "label", at, ReadAnyText)>>,
                      Check(<<Get(v, "row"), Get(v, "column")>> \notin seen, WRONG_TYPE, at)))
PlaceOf(v) == IF Has(v, "row") /\ Has(v, "column") THEN <<Get(v, "row"), Get(v, "column")>> ELSE <<Null, Null>>
CheckCitations(v, rows, at) ==
    IF ~ IsArr(v) \/ v = Arr(<<>>) THEN Fail(WRONG_TYPE, at)
    ELSE Unless([i \in DOMAIN v.arr |->
                    CheckCitation(v.arr[i], rows, {PlaceOf(v.arr[j]) : j \in 1..(i - 1)}, Ix(at, i))], Drop)

\* Checked and carried; what is not an object is carried unchecked.
StaticCells(v) == IF Has(v, "rows") /\ IsArr(Get(v, "rows")) THEN Get(v, "rows").arr ELSE <<>>
ReadStaticRows(v, at) ==
    LET cited(c, here) == CheckCitations(c, StaticCells(v), here)
    IN IF ~ IsObj(v) THEN Canonical(v)
       ELSE Unless(<<Check(Absent(v, "sortable") \/ IsBool(Get(v, "sortable")), WRONG_TYPE, At(at, "sortable")),
                     Given(v, "citations", at, cited),
                     IF Absent(v, "defaultSort") THEN Drop
                     ELSE CheckSort(Get(v, "defaultSort"), At(at, "defaultSort"))>>, Canonical(v))

\* Checked and carried.
ReadAnnotation(v, at) ==
    After(Dispatch(v, at, UnionCases("ChartAnnotation")),
          Unless(<<Given(v, "label", at, ReadAnyText), CheckAddress(v, at)>>, Canonical(v)))

(***************************************************************************)
(* Forms.                                                                  *)
(***************************************************************************)
\* The pair of a range, bare: v is one, the list of the two, or a Static of either.
PairIn(v)    == IF TagOf(v) = "Static" /\ Has(v, "value") THEN Get(v, "value") ELSE v
IsPair(v, ns) == IsObj(v) /\ "$type" \notin DOMAIN v.obj /\ ns \subseteq DOMAIN v.obj

\* The ends named and in their place in a list; anything else is a binding.
ReadPairValue(ends, place, F(_, _), v, at) ==
    LET pair(raw) ==
            CASE IsArr(raw) -> IF Len(raw.arr) # 2 THEN Fail(WRONG_TYPE, at)
                               ELSE LET i == place[1] IN
                                    Assembled(<<ends[i], ends[3 - i]>>,
                                              <<F(raw.arr[1], Ix(at, 1)), F(raw.arr[2], Ix(at, 2))>>)
              [] IsPair(raw, {ends[1], ends[2]}) ->
                    Assembled(ends, <<F(Get(raw, ends[1]), At(at, ends[1])), F(Get(raw, ends[2]), At(at, ends[2]))>>)
              [] OTHER -> ReadAnyBinding(v, at)
    IN pair(PairIn(v))
ReadRangeValue(v, at) == ReadPairValue(<<"max", "min">>, <<2, 1>>, ReadFloat, v, at)

\* A literal pair of dates is in order.
ReadDatesValue(v, at) ==
    LET ordered(r) == IF DOMAIN r.obj = {"from", "to"} /\ Later(Get(r, "from").str, Get(r, "to").str)
                      THEN Fail(WRONG_TYPE, at) ELSE r
    IN Then(ReadPairValue(<<"from", "to">>, <<1, 2>>, ReadText, v, at), ordered)

\* Only a literal colour can be judged.
ReadColourValue(v, at) ==
    LET colour(literal) == IsStr(literal) /\ literal.str \in HexColours
    IN Then(ReadAnyBinding(v, at),
            LAMBDA r : IF TagOf(r) = "Static" /\ ~ colour(IF Has(r, "value") THEN Get(r, "value") ELSE Null)
                       THEN Fail(WRONG_TYPE, at) ELSE r)

ReadControlValue(tag, v, at) ==
    CASE tag \in {"Number", "RangedNumber", "Rating"} -> Read(BindingOf(Float), v, at)
      [] tag \in {"Choice", "SegmentedChoice", "Combobox"} -> Read(BindingOf(OptText), v, at)
      [] tag = "Tokens" -> Read(BindingOf(ListOf(Text)), v, at)
      [] tag = "DateTimeRange" -> ReadDatesValue(v, at)
      [] tag = "Range" -> ReadRangeValue(v, at)
      [] tag = "Color" -> ReadColourValue(v, at)
      [] OTHER -> ReadAnyBinding(v, at)
AutoValues(tag) ==
    CASE tag \in {"Text", "TextArea", "DateTime"} -> AutoTexts
      [] tag \in {"Number", "RangedNumber", "Rating"} -> AutoNumber
      [] tag \in {"Checkbox", "Toggle"} -> AutoFlag
      [] tag = "DateTimeRange" -> AutoDates
      [] tag = "Range" -> AutoRange
      [] tag = "Tokens" -> AutoTokens
      [] tag = "Color" -> AutoColour
      [] OTHER -> AutoNone

\* The other members of a control, in the order they are read; "value" and
\* "variant" stand where theirs are.
Options == Req("options", BindingOf(ListOf(RecordOf("SelectOption"))))
Marker(n) == Opt(n, By(n))
Ends(t)   == <<Opt("min", t), Opt("max", t), Opt("step", Float)>>
ControlPlans == [
    Text            |-> <<Marker("value")>>,
    TextArea        |-> <<Marker("value"), Req("rows", IntT)>>,
    DateTime        |-> <<Marker("value"), Marker("variant")>> \o Ends(Text),
    Number          |-> <<Marker("value")>>,
    RangedNumber    |-> <<Marker("value")>> \o Ends(Float),
    Checkbox        |-> <<Marker("value")>>,
    Toggle          |-> <<Marker("value")>>,
    Choice          |-> <<Options, Marker("value")>>,
    SegmentedChoice |-> <<Options, Marker("value"), Omit("orientation", Aliased("Orientation"), Str("Horizontal"))>>,
    DateTimeRange   |-> <<Marker("value"), Marker("variant")>> \o Ends(Text),
    Combobox        |-> <<Options, Omit("allowFreeText", BoolT, Bool(FALSE)), Marker("value")>>,
    Tokens          |-> <<Omit("allowFreeText", BoolT, Bool(TRUE)),
                          Opt("suggestions", BindingOf(ListOf(RecordOf("SelectOption")))),
                          Marker("closed"), Marker("value")>>,
    Rating          |-> <<Req("max", By("ratingMax")), Omit("allowHalf", BoolT, Bool(FALSE)), Marker("value")>>,
    Color           |-> <<Marker("value")>>,
    Range           |-> <<Marker("value")>> \o Ends(Float)]

\* Tokens that can neither be typed nor picked name a control that cannot exist.
CheckClosed(v, at) ==
    Check(~ (Has(v, "allowFreeText") /\ ReadBool(Get(v, "allowFreeText"), at) = Bool(FALSE))
            \/ Has(v, "suggestions"), WRONG_TYPE, At(at, "allowFreeText"))

\* A value that is the binding the control has anyway is left out.
ReadControlMember(tag, f, v, auto, at) ==
    LET bound(r)       == IF ~ Bad(r) /\ IsAuto(r, auto, AutoValues(tag)) THEN Drop ELSE r
        value(w, here) == bound(ReadControlValue(tag, w, here))
    IN CASE f.name = "value" -> Given(v, "value", at, value)
         [] f.name = "variant" -> ReadVariant(v, at)
         [] f.name = "closed" -> CheckClosed(v, at)
         [] OTHER -> ReadMember(tag, f, v, at)

Handler(v) == IF Has(v, "onChange") THEN "onChange" :> Str("<closure>") ELSE NoMembers
ReadControl(v, auto, at) ==
    LET read(tag, plan) ==
            Assembled(NamesIn(plan), [i \in DOMAIN plan |-> ReadControlMember(tag, plan[i], v, auto, at)])
        whole(tag) == Tagged(tag, Beside(read(tag, ControlPlans[tag]), Handler(v) @@ Others(v, ControlMembers)))
    IN After(Dispatch(v, at, UnionCases("FormFieldKind") \cup DOMAIN TemporalAliases),
             whole(CanonicalControl(TagOf(v))))

ComparePlan == <<Req("against", BindingOf(Kept)), Req("op", EnumOf("CompareOp"))>>
RulePlan == <<Opt("format", EnumOf("TextFormat")), Opt("pattern", Text), Opt("minLength", IntT),
              Opt("maxLength", IntT), Opt("compare", By("compare")), Opt("message", UnionOf("TextSource"))>>
\* A rule constrains something, and its bounds are in order.
ReadRule(v, at) ==
    LET constrains(r) ==
            CASE DOMAIN r.obj \subseteq {"message"} -> Fail(WRONG_TYPE, at)
              [] Has(r, "minLength") /\ Has(r, "maxLength") /\ Get(r, "minLength").int > Get(r, "maxLength").int ->
                    Fail(WRONG_TYPE, at)
              [] OTHER -> r
    IN Then(ReadRecord("FieldRule", RulePlan, v, at), constrains)

\* A control is read knowing what surrounds it.
ReadNamed(owner, of, nameOf, plan, v, at, known) ==
    LET name(s) == IF s = "" THEN Fail(MISSING_FIELD, At(at, nameOf)) ELSE ReadText(Get(v, s), At(at, nameOf))
        kind(n) == Then(Require(v, "kind", at), LAMBDA k : ReadControl(k, [of |-> of, name |-> n], At(at, "kind")))
        named(n) == Assembled(<<nameOf, "kind", "rest">>, <<n, kind(n), ReadMembers(owner, plan, v, at)>>)
        whole(r) == Obj(Get(r, "rest").obj @@ Without(r, {"rest"}).obj @@ Others(v, known))
    IN Then(Then(name(Spelling(owner, nameOf, v)), named), whole)

FormFieldPlan == <<TextField("label"), Omit("required", BoolT, Bool(FALSE)), Opt("help", UnionOf("TextSource")),
                   Opt("rule", By("rule")), Opt("affordance", Affords(1))>>
ReadFormField(v, at) ==
    After(Avoiding(v, FieldNearMisses, at),
          ReadNamed("FormField", "state", "id", FormFieldPlan, v, at,
                    {"id", "name", "kind"} \cup Names(FormFieldPlan)))
ReadFilterItem(v, at) ==
    IF IsObj(v)
    THEN ReadNamed("FilterItem", "filter", "name", <<TextField("label")>>, v, at, {"kind", "label", "name"})
    ELSE Fail(WRONG_TYPE, at)

(***************************************************************************)
(* Kinds.                                                                  *)
(***************************************************************************)
\* Mutant: the child of a case is read at the path of the case.
ReadSwitchCaseHere(v, at) ==
    IF ~ IsObj(v) THEN Fail(WRONG_TYPE, at)
    ELSE Assembled(<<"child", "when", "match">>,
             <<Then(Require(v, "child", at), LAMBDA child : Read(NodeT, child, at)),
               Given(v, "when", at, LAMBDA m, a : Read(BindingOf(Kept), m, a)),
               IF Has(v, "when") THEN Drop ELSE Needed(v, "match", at, ReadText)>>)
\* One Switch case selects by a literal or by a predicate, and never by both.
ReadAnyNode(v, at) == Read(NodeT, v, at)
ReadSwitchCase(v, at) ==
    IF ~ IsObj(v) THEN Fail(WRONG_TYPE, at)
    ELSE Assembled(<<"child", "when", "match">>,
             <<Needed(v, "child", at, ReadAnyNode),
               IF Has(v, "match") /\ Has(v, "when") THEN Fail(WRONG_TYPE, At(at, "when"))
               ELSE Given(v, "when", at, ReadAnyBinding),
               IF Has(v, "when") THEN Drop ELSE Needed(v, "match", at, ReadText)>>)

\* The selector of a Switch: a binding wins, and a State without a default is
\* the key alone.
SwitchPlan == <<Req("cases", ListOf(By("switchCase"))), Req("default", NodeT)>>
ReadSelector(v, at) ==
    LET keyed(key) == Obj([stateKey |-> key])
        selector(on) == IF TagOf(on) = "State" /\ ~ Has(on, "defaultValue") THEN keyed(Get(on, "key"))
                        ELSE Obj([on |-> on])
    IN IF Has(v, "on") THEN Then(ReadAnyBinding(Get(v, "on"), At(at, "on")), selector)
       ELSE Then(Needed(v, "stateKey", at, ReadText), keyed)
ReadAdvance(v, at) == ReadCount(v, 1, at)
ReadSwitch(plan, v, at) ==
    LET whole(r, selector, advance) ==
            Unless(<<r, selector, advance>>,
                   Tagged("Switch", Obj(r.obj @@ selector.obj @@ Present([autoAdvanceMs |-> advance])
                                        @@ Others(v, {"$type"} \cup Names(plan)))))
    IN whole(ReadMembers("Switch", SwitchPlan, v, at), ReadSelector(v, at),
             Given(v, "autoAdvanceMs", at, ReadAdvance))

\* A single choice has a value, a multiple one has none; malformed, the flag is its own defect.
Required(kind, f, v) ==
    IF kind = "Select" /\ f.name = "value"
    THEN ~ Has(v, "multiple") \/ Get(v, "multiple") = Bool(FALSE) ELSE f.rule = "required"
Multiple(v) == Has(v, "multiple") /\ Get(v, "multiple") = Bool(TRUE)
ReadKindMember(kind, f, v, at) ==
    LET rule == CASE Required(kind, f, v) -> "required"
                  [] ~ Required(kind, f, v) /\ f.rule = "required" -> "optional"
                  [] OTHER -> f.rule
        kept(r) == IF kind = "Select" /\ f.name = "value" /\ Multiple(v) /\ ~ Bad(r) THEN Drop ELSE r
    IN kept(ReadMember(kind, [f EXCEPT !.rule = rule], v, at))

\* An option is gathered by one group, and a static choice gathers its own options.
OptionValues(r) ==
    IF Has(r, "source") /\ TagOf(Get(r, "source")) = "Static" /\ Has(Get(r, "source"), "value")
    THEN LET os == Get(Get(r, "source"), "value").arr IN {Get(os[i], "value") : i \in DOMAIN os} ELSE {}
CheckGroups(r, at) ==
    LET places(groups) == {<<i, j>> \in (DOMAIN groups) \X (1..10) : j \in DOMAIN Get(groups[i], "values").arr}
        value(groups, p) == Get(groups[p[1]], "values").arr[p[2]]
        before(p, q) == p[1] < q[1] \/ (p[1] = q[1] /\ p[2] < q[2])
        judged(known) == Has(r, "source") /\ TagOf(Get(r, "source")) = "Static" /\ OPAQUE \notin known
        wrong(groups, all, known) ==
            {p \in all : \/ \E q \in all : before(q, p) /\ value(groups, q) = value(groups, p)
                         \/ judged(known) /\ value(groups, p) \notin known}
        refused(ps) == IF ps = {} THEN Drop
                       ELSE LET p == CHOOSE p \in ps : \A q \in ps : q = p \/ before(p, q)
                            IN Fail(WRONG_TYPE, Ix(At(Ix(At(at, "groups"), p[1]), "values"), p[2]))
        checked(groups) == refused(wrong(groups, places(groups), OptionValues(r)))
    IN IF Has(r, "groups") THEN checked(Get(r, "groups").arr) ELSE Drop

\* The members a kind knows by any name; two kinds rename title only in its place.
Renamed == {"Disclosure", "SummaryList"}
Known(kind, plan, v) ==
    {"$type"} \cup Names(plan) \cup Retired(kind) \cup
    IF kind \in Renamed THEN Used(kind, plan, v)
    ELSE UNION {{Spellings(kind, plan[i].name)[j] : j \in DOMAIN Spellings(kind, plan[i].name)} : i \in DOMAIN plan}

ReadTableKind(kind, plan, v, at) ==
    LET read == Assembled(NamesIn(plan), [i \in DOMAIN plan |-> ReadKindMember(kind, plan[i], v, at)])
        checked(r) == After(IF kind = "Select" THEN CheckGroups(r, at) ELSE Drop,
                            Tagged(kind, Beside(r, Others(v, Known(kind, plan, v)))))
    IN After(IF kind = "DataGrid" THEN NearMiss(v, GridNearMisses, at) ELSE Drop, Then(read, checked))

ReadKind(v, at) ==
    LET planned(plan) == IF TagOf(v) = "Switch" THEN ReadSwitch(plan, v, at)
                         ELSE ReadTableKind(TagOf(v), plan, v, at)
        read(kinds) == After(DispatchAs(v, at, DOMAIN kinds, WRONG_NODE_KIND), planned(OnWire(kinds[TagOf(v)])))
    IN read(KindFields)

(***************************************************************************)
(* Nodes.                                                                  *)
(***************************************************************************)
ReadId(v, at) == Then(ReadText(v, at), LAMBDA id : IF id = Str("") THEN Fail(EMPTY_NODE_ID, at) ELSE id)

ReadAccessibility(v, at) ==
    After(Avoiding(v, AccessibilityNearMisses, at), ReadMembers("Accessibility", AccessibilityPlan, v, at))
\* A style of defaults only is left out.
ReadStyle(v, at) == Unset(ReadRecord("SemanticStyle", StylePlan, v, at), Obj(NoMembers))
\* A delta names something.
ReadStyleDelta(v, at) ==
    LET delta(r) == IF r = Obj(NoMembers) THEN Fail(WRONG_TYPE, at) ELSE r
    IN delta(ReadRecord("StyleDelta", StyleDeltaPlan, v, at))

EnvelopeReaders == [
    accessibility |-> By("accessibility"), fallback |-> NodeT, state |-> By("state"), style |-> By("style"),
    tooltip |-> UnionOf("TextSource"), visible |-> BindingOf(Kept)]
EnvelopePlan == LET fs == OnWire(NodeFields) IN [i \in DOMAIN fs |-> Opt(fs[i].name, EnvelopeReaders[fs[i].name])]

\* The depth is judged before anything of the node is.
ReadAnyKind(v, at) == Read(KindT, v, at)
ReadInside(v, at) ==
    LET whole(required, rest) == Unless(<<required, rest>>, Obj(required.obj @@ rest.obj))
    IN whole(Assembled(<<"id", "kind">>, <<Needed(v, "id", at, ReadId), Needed(v, "kind", at, ReadAnyKind)>>),
             ReadMembers("Node", EnvelopePlan, v, at))
ReadNode(v, at) ==
    CASE at.depth >= MaxNodeDepth -> Fail(LIMIT_EXCEEDED, at)
      [] at.depth < MaxNodeDepth /\ ~ IsObj(v) -> Fail(WRONG_TYPE, at)
      [] OTHER -> ReadInside(v, [at EXCEPT !.depth = @ + 1])

(***************************************************************************)
(* Tree operations (ops/decode.py).  What an operation does not know it    *)
(* drops.                                                                  *)
(***************************************************************************)
\* What stood for a payload of the process alone is not one.
ReadOpValue(v, at) ==
    IF v \in {OPAQUE, Str("<closure>")} THEN Fail(WRONG_TYPE, at) ELSE ReadStrict(v, at)
ReadWholeStyle(v, at) == ReadRecord("SemanticStyle", StylePlan, v, at)

\* The depth is judged before anything of the operation is, and the nodes it
\* carries are counted from their own root.
ReadOpInside(tag, v, at) ==
    After(NearMiss(v, RetiredOrdinals(tag), at), Tagged(tag, ReadMembers(tag, OpFields[tag], v, at)))
ReadOp(v, at) ==
    IF at.ops >= MaxNodeDepth THEN Fail(LIMIT_EXCEEDED, at)
    ELSE After(Dispatch(v, at, DOMAIN OpFields), ReadOpInside(TagOf(v), v, [at EXCEPT !.ops = @ + 1]))

(***************************************************************************)
(* One reader per form of a type.                                          *)
(***************************************************************************)
ReadUnion(u, v, at) ==
    CASE u = "TextSource" -> ReadTextSource(v, at)
      [] u = "Action"     -> ReadAction(v, at)
      [] u = "CellFormat" -> ReadCellFormat(v, at)
      [] u = "Shape"      -> ReadShape(v, at)
      [] OTHER            -> ReadClosedCase(u, v, at)

ReadScalar(form, v, at) ==
    CASE form = "text"  -> ReadText(v, at)
      [] form = "int"   -> ReadInt(v, at)
      [] form = "float" -> ReadFloat(v, at)
      [] form = "bool"  -> ReadBool(v, at)
      [] form = "fn"    -> Str("<closure>")
      [] form = "json"  -> ReadStrict(v, at)
      [] form = "kept"  -> Canonical(v)
      [] form = "optText"  -> ReadText(v, at)
      [] form = "rows"     -> ReadRows(v, at)
      [] form = "positive" -> ReadPositive(v, at)

ReadGridSlot(form, v, at) ==
    CASE form = "columns"     -> ReadList(By("column"), v, at)
      [] form = "column"      -> ReadColumn(v, at)
      [] form = "cellKind"    -> ReadCellKind(v, at)
      [] form = "width"       -> ReadWidth(v, at)
      [] form = "staticRows"  -> ReadStaticRows(v, at)
      [] form = "defaultSort" -> ReadKept(CheckSort(v, at), v)
      [] form = "pageSize"    -> ReadCount(v, 1, at)

ReadFormSlot(form, v, at) ==
    CASE form = "formField"  -> ReadFormField(v, at)
      [] form = "filterItem" -> ReadFilterItem(v, at)
      [] form = "ratingMax"  -> ReadCount(v, 1, at)
      [] form = "compare"    -> ReadRecord("CompareRule", ComparePlan, v, at)
      [] form = "rule"       -> ReadRule(v, at)

ReadNodeSlot(form, v, at) ==
    CASE form = "accessibility" -> ReadAccessibility(v, at)
      [] form = "state"         -> ReadRecord("StateBehaviour", StatePlan, v, at)
      [] form = "style"         -> ReadStyle(v, at)
      [] form = "wholeStyle"    -> ReadWholeStyle(v, at)
      [] form = "styleDelta"    -> ReadStyleDelta(v, at)

ReadSlot(form, v, at) ==
    CASE form = "emphasis"     -> ReadEmphasis(v, at)
      [] form = "flag"         -> ReadFlag(v, at)
      [] form = "direction"    -> ReadDirection(v, at)
      [] form = "layout"       -> ReadLayout(v, at)
      [] form = "format"       -> ReadFormatShape(v, at)
      [] form = "annotation"   -> ReadAnnotation(v, at)
      [] form = "skeletonRows" -> ReadSkeletonRows(v, at)
      [] form = "destination"  -> ReadNot(v, {""}, at)
      [] form = "citationName" -> ReadNot(v, NotNames, at)
      [] form = "markdownCitations" -> ReadCitations(v, at)
      [] form = "keptList"     -> ReadKept(ReadArray(v, at), v)
      [] form = "keptObject"   -> ReadKept(ReadObject(v, at), v)
      [] form = "treeItems"    -> ReadList(By("treeItem"), v, [at EXCEPT !.items = 0])
      [] form = "treeChildren" -> ReadList(By("treeItem"), v, [at EXCEPT !.items = @ + 1])
      [] form = "treeItem"     -> ReadTreeItem(v, at)
      [] form = "fragmentArgs" -> ReadFragmentArgs(v, at)
      [] form = "continuation" -> ReadContinuation(v, at)
      [] form = "switchCase"   -> ReadSwitchCase(v, at)

ScalarForms == {"text", "int", "float", "bool", "fn", "json", "kept", "optText", "rows", "positive"}
GridForms   == {"columns", "column", "cellKind", "width", "staticRows", "defaultSort", "pageSize"}
FormForms   == {"formField", "filterItem", "ratingMax", "compare", "rule"}
NodeForms   == {"accessibility", "state", "style", "wholeStyle", "styleDelta"}

Read(t, v, at) ==
    CASE t[1] \in ScalarForms -> ReadScalar(t[1], v, at)
      [] t[1] = "node"    -> ReadNode(v, at)
      [] t[1] = "kind"    -> ReadKind(v, at)
      [] t[1] = "op"      -> ReadOp(v, at)
      [] t[1] = "opValue" -> ReadOpValue(v, at)
      [] t[1] = "frame"   -> Coded(ReadSlotOf(t[2], v), at)
      [] t[1] = "enum"    -> ReadEnum(v, at, EnumSet(t[2]), NoAliases)
      [] t[1] = "aliased" -> ReadAliased(t[2], v, at)
      [] t[1] = "record"  -> ReadNamedRecord(t[2], v, at)
      [] t[1] = "union"   -> ReadUnion(t[2], v, at)
      [] t[1] = "binding" -> ReadBinding(PayloadOf(t[2]), v, at)
      [] t[1] = "list"    -> ReadList(t[2], v, at)
      [] t[1] = "map"     -> ReadStrict(v, at)
      [] t[1] = "some"    -> EmptyIs(ReadList(t[2], v, at), Drop)
      [] t[1] = "default" -> IF t[2] = Rows THEN IF v = OPAQUE THEN Arr(<<>>) ELSE ReadRows(v, at)
                             ELSE Canonical(v)
      [] t[1] = "nullable" -> IF IsNull(v) THEN Drop ELSE Read(t[2], v, at)
      [] t[1] = "patterns" -> ReadPatterns(t[2], v, at)
      [] t[1] = "affordance" -> ReadRecord("Affordance", AffordancePlan(t[2]), v, at)
      [] t[1] \in GridForms -> ReadGridSlot(t[1], v, at)
      [] t[1] \in FormForms -> ReadFormSlot(t[1], v, at)
      [] t[1] \in NodeForms -> ReadNodeSlot(t[1], v, at)
      [] OTHER -> ReadSlot(t[1], v, at)

=============================================================================
