------------------------------ MODULE Readers -------------------------------
(***************************************************************************)
(* What schema/decode.py adds to the generated tables: the members read    *)
(* by a reader other than the one their type implies, the names accepted   *)
(* for a member beside its own, the aliases of the enums, and the members  *)
(* of the records and cases it reads by hand, in the order it reads them.  *)
(* Every reading refuses at its first defect in this order.                *)
(***************************************************************************)
EXTENDS Schema

(***************************************************************************)
(* Slots that are not types of the tables.                                 *)
(***************************************************************************)
Kept          == <<"kept">>           \* carried as it is
OptText       == <<"optText">>        \* the selected value, if any
Rows          == <<"rows">>           \* the rows of a grid or chart
Positive      == <<"positive">>       \* an integer slot that starts at 1
Aliased(n)    == <<"aliased", n>>     \* an enum with lenient spellings
Some(t)       == <<"some", t>>        \* a list left out when it is empty
Default(p)    == <<"default", p>>     \* the default a State or Selection carries
Nullable(t)   == <<"nullable", t>>    \* null is absence
Patterns(n)   == <<"patterns", n>>    \* affordance patterns naming n {value} slots
Affords(n)    == <<"affordance", n>>  \* the affordance of a setter (1) or a click (0)
By(n)         == <<n>>                \* a reader of its own

(***************************************************************************)
(* The aliases of the enums.  StyleWeight has none: bold is not a density. *)
(***************************************************************************)
EnumAliases == [
    ToneVariant    |-> [Positive |-> "Success", Danger |-> "Critical", Negative |-> "Critical",
                        Neutral |-> "Default"],
    Emphasis       |-> [Strong |-> "Loud", Bold |-> "Loud", Subtle |-> "Quiet", Muted |-> "Quiet"],
    HeadingVariant |-> [Default |-> "Standard"],
    BadgeVariant   |-> [Default |-> "Neutral", Danger |-> "Critical"],
    ButtonVariant  |-> [Danger |-> "Destructive"],
    Orientation    |-> [Row |-> "Horizontal", row |-> "Horizontal", Column |-> "Vertical",
                        column |-> "Vertical"]]

\* The emphasis flag of a Fact or a row reads the style enum too.
EmphasisFlag == [Loud |-> TRUE, Strong |-> TRUE, Bold |-> TRUE,
                 Normal |-> FALSE, Quiet |-> FALSE, Subtle |-> FALSE, Muted |-> FALSE]

(***************************************************************************)
(* The kinds: members read otherwise than their type implies.              *)
(***************************************************************************)
Tone == Aliased("ToneVariant")
KindReaders ==
    (<<"Heading", "variant">> :> Aliased("HeadingVariant") @@
     <<"Metric", "emphasis">> :> By("emphasis") @@ <<"Metric", "tone">> :> Tone @@
     <<"Fact", "emphasis">> :> By("flag") @@ <<"Fact", "tone">> :> Tone @@
     <<"Badge", "variant">> :> Aliased("BadgeVariant") @@
     <<"Callout", "tone">> :> Tone @@ <<"Progress", "tone">> :> Tone @@
     <<"Icon", "tone">> :> Tone @@ <<"Toast", "tone">> :> Tone @@
     <<"LabelValueRow", "emphasis">> :> By("flag") @@
     <<"Skeleton", "rows">> :> By("skeletonRows") @@
     <<"FileUpload", "destination">> :> By("destination") @@
     <<"FileUpload", "maxBytes">> :> Positive @@ <<"FileUpload", "maxFiles">> :> Positive @@
     <<"Select", "value">> :> BindingOf(OptText) @@
     <<"Select", "groups">> :> Some(RecordOf("SelectOptionGroup")) @@
     <<"FragmentDecl", "holes">> :> By("keptList") @@
     <<"FragmentDecl", "effect">> :> By("keptObject") @@
     <<"Tabs", "orientation">> :> Aliased("Orientation") @@
     <<"Button", "variant">> :> Aliased("ButtonVariant") @@
     <<"Button", "affordance">> :> Affords(0) @@
     <<"Box", "layout">> :> By("layout") @@
     <<"Form", "fields">> :> ListOf(By("formField")) @@
     <<"Filters", "items">> :> ListOf(By("filterItem")))

TabularReaders ==
    (<<"DataGrid", "columns">> :> By("columns") @@ <<"DataGrid", "staticRows">> :> By("staticRows") @@
     <<"DataGrid", "defaultSort">> :> By("defaultSort") @@ <<"DataGrid", "pageSize">> :> By("pageSize") @@
     <<"DataGrid", "source">> :> BindingOf(Rows) @@ <<"Chart", "source">> :> BindingOf(Rows) @@
     <<"Chart", "valueFormat">> :> By("format") @@
     <<"Chart", "annotations">> :> ListOf(By("annotation")))

\* What an operation carries: a style is kept when it is empty.
OpReaders ==
    (<<"UpdateProp", "value">> :> By("opValue") @@ <<"UpdateStyle", "style">> :> By("wholeStyle") @@
     <<"PatchStyle", "style">> :> By("styleDelta") @@ <<"UpdateState", "state">> :> By("state") @@
     <<"UpdateAccessibility", "accessibility">> :> By("accessibility"))

\* Lists that are left out when empty, whichever kind carries them, and the
\* one that has no empty spelling.
ListReaders ==
    (ListOf(RecordOf("TrackEntry")) :> Some(RecordOf("TrackEntry")) @@
     ListOf(RecordOf("MetricComparison")) :> Some(RecordOf("MetricComparison")) @@
     ListOf(RecordOf("SrcSetEntry")) :> Some(RecordOf("SrcSetEntry")) @@
     ListOf(EnumOf("EmbedPermission")) :> Some(EnumOf("EmbedPermission")) @@
     ListOf(RecordOf("MarkdownCitation")) :> By("markdownCitations") @@
     ListOf(RecordOf("TreeItem")) :> By("treeItems") @@
     MapOf(UnionOf("FragmentArg")) :> By("fragmentArgs"))

OwnReaders == KindReaders @@ TabularReaders @@ OpReaders
Reader(owner, f) ==
    IF <<owner, f.name>> \in DOMAIN OwnReaders THEN OwnReaders[<<owner, f.name>>]
    ELSE IF f.type \in DOMAIN ListReaders THEN ListReaders[f.type] ELSE f.type

(***************************************************************************)
(* The other names of a member: its own wins, else the first one present.  *)
(***************************************************************************)
OtherNames ==
    (<<"Metric", "value">> :> <<"data">> @@ <<"LabelValueRow", "value">> :> <<"data">> @@
     <<"Sparkline", "source">> :> <<"data">> @@ <<"Map", "source">> :> <<"data", "markers">> @@
     <<"Select", "source">> :> <<"options", "data">> @@ <<"DataGrid", "source">> :> <<"data", "rows">> @@
     <<"Chart", "source">> :> <<"data">> @@
     <<"Callout", "heading">> :> <<"title">> @@ <<"Modal", "heading">> :> <<"title">> @@
     <<"Box", "heading">> :> <<"title">> @@ <<"Disclosure", "heading">> :> <<"title">> @@
     <<"SummaryList", "heading">> :> <<"title">> @@
     <<"Query", "dependsOn">> :> <<"deps", "dependencies">> @@
     <<"State", "defaultValue">> :> <<"initialValue", "default">> @@
     <<"Grid", "cols">> :> <<"columns">> @@ <<"Masonry", "cols">> :> <<"columns">> @@
     <<"Call", "endpoint">> :> <<"url">> @@ <<"Navigate", "route">> :> <<"href", "url", "to">> @@
     <<"TransformParam", "from">> :> <<"value">> @@ <<"TonedPill", "map">> :> <<"toneMap", "tones">> @@
     <<"FormField", "id">> :> <<"name">> @@ <<"Column", "kind">> :> <<"type">> @@
     <<"Column", "label">> :> <<"header", "title">>)
Spellings(owner, name) ==
    <<name>> \o IF <<owner, name>> \in DOMAIN OtherNames THEN OtherNames[<<owner, name>>] ELSE <<>>
\* Mutant: only the first of the aliases is looked for.
FirstUsedOfTwo(ss, v) ==
    LET used == {i \in DOMAIN ss : i < 3 /\ Has(v, ss[i])}
    IN IF used = {} THEN "" ELSE ss[CHOOSE i \in used : \A j \in used : i <= j]
\* The spelling v uses of the member, "" when it uses none.
FirstUsed(ss, v) ==
    LET used == {i \in DOMAIN ss : Has(v, ss[i])}
    IN IF used = {} THEN "" ELSE ss[CHOOSE i \in used : \A j \in used : i <= j]
Spelling(owner, name, v) == FirstUsed(Spellings(owner, name), v)

\* Vocabulary taken out of the language: neither read nor carried.
Retired(kind) == IF kind \in {"Metric", "LabelValueRow"} THEN {"source"} ELSE {}
\* The ordinal of an operation that appends now, refused by its name.
RetiredOrdinals(op) == CASE op = "InsertChild" -> <<"position">>
                         [] op = "MoveNode" -> <<"newPosition">>
                         [] OTHER -> <<>>

(***************************************************************************)
(* Records and cases read by hand.                                         *)
(***************************************************************************)
Floats(ns)  == [i \in DOMAIN ns |-> Req(ns[i], Float)]
Style       == Req("style", RecordOf("DrawStyle"))
TextField(n) == Req(n, UnionOf("TextSource"))

SelectOptionPlan == <<TextField("label"), Req("value", Text)>>
SrcSetPlan == <<Req("src", BindingOf(Text)), Req("width", Positive)>>
ComparisonPlan == <<
    Omit("format", UnionOf("CellFormat"), Case("None", NoMembers)), TextField("label"),
    Omit("polarity", EnumOf("TrendPolarity"), Str("HigherIsBetter")), Req("value", BindingOf(Float))>>
CitationPlan == <<Opt("label", UnionOf("TextSource")), Req("name", By("citationName")), Req("reference", Text)>>
DrawStylePlan == <<
    Opt("fill", BindingOf(Text)), Opt("opacity", BindingOf(Float)), Opt("stroke", BindingOf(Text)),
    Opt("strokeWidth", BindingOf(Float)), Opt("textAnchor", EnumOf("TextAnchor")), Opt("fontSize", Float),
    Opt("emphasis", EnumOf("Emphasis")), Opt("fontFamily", Text), Opt("markId", Text),
    Opt("rotation", Float), Opt("tip", UnionOf("TextSource"))>>
RecordPlans == [
    SelectOption |-> SelectOptionPlan,
    MapMarker    |-> <<TextField("label"), Req("latitude", Float), Req("longitude", Float)>>,
    SrcSetEntry  |-> SrcSetPlan,
    MetricComparison |-> ComparisonPlan,
    MarkdownCitation |-> CitationPlan,
    GuestChannel |-> <<Req("direction", By("direction")), Opt("messageShape", Text)>>,
    DrawStyle    |-> DrawStylePlan]

\* A shape's style is read first, and is the empty one when it is not there.
ShapePlans == [
    Group     |-> <<Style, Req("children", ListOf(UnionOf("Shape")))>>,
    Rectangle |-> <<Style>> \o Floats(<<"height", "width", "x", "y">>) \o <<Opt("cornerRadius", Float)>>,
    Line      |-> <<Style>> \o Floats(<<"x1", "x2", "y1", "y2">>),
    Polyline  |-> <<Style, Req("points", ListOf(RecordOf("DrawPoint")))>>,
    Polygon   |-> <<Style, Req("points", ListOf(RecordOf("DrawPoint")))>>,
    Curve     |-> <<Style, Req("commands", ListOf(UnionOf("CurveCommand")))>>,
    Circle    |-> <<Style>> \o Floats(<<"cx", "cy", "r">>),
    Ellipse   |-> <<Style>> \o Floats(<<"cx", "cy", "rx", "ry">>),
    Label     |-> <<Style, TextField("text")>> \o Floats(<<"x", "y">>)]

AffordancePlan(slots) ==
    <<Omit("patterns", Patterns(slots), Arr(<<>>)), Omit("readPatterns", Patterns(0), Arr(<<>>)),
      Omit("aliases", ListOf(RecordOf("AffordanceAlias")), Arr(<<>>)), Opt("description", Text),
      Omit("clearable", BoolT, Bool(FALSE)), Omit("neverControllable", BoolT, Bool(FALSE))>>

\* The binding cases whose members are read; p is the payload of the position.
BindingPlans(p) == [
    Query     |-> <<Req("name", Text), Opt("dependsOn", Some(Text))>>,
    Selection |-> <<Req("nodeId", Text), Opt("defaultValue", Default(p)), Opt("field", Text)>>,
    State     |-> <<Req("key", Text), Opt("defaultValue", Nullable(Default(p)))>>,
    Now       |-> <<Opt("grain", EnumOf("TimeGrain"))>>]

\* The cell formats whose members are read.
FormatPlans == [
    Duration     |-> <<Req("unit", EnumOf("DurationUnit")), Req("style", EnumOf("DurationStyle"))>>,
    RelativeTime |-> <<Req("unit", EnumOf("RelativeTimeUnit"))>>,
    DateTime     |-> <<Req("format", Text)>>]

\* The actions whose members are read; the others are carried, without null.
ActionPlans == [
    Call     |-> <<Opt("endpoint", Json)>>,
    Navigate |-> <<TextField("route"), Omit("target", EnumOf("NavigateTarget"), Str("Self"))>>,
    Confirm  |-> <<TextField("prompt"), Req("onConfirm", By("continuation")), Opt("onCancel", By("continuation"))>>,
    WriteToClipboard |-> <<TextField("text")>>,
    Chain    |-> <<Req("ops", ListOf(UnionOf("Action")))>>,
    SetState |-> <<Opt("valueFrom", BindingOf(Kept))>>]

\* What a missing, null or opaque payload of a typed binding stands for.
Placeholder(p) ==
    CASE p = ListOf(RecordOf("SelectOption")) -> Arr(<<Obj([label |-> OPAQUE, value |-> OPAQUE])>>)
      [] p = ListOf(Text) -> Arr(<<OPAQUE>>)
      [] p = OptText -> OPAQUE
      [] OTHER -> Arr(<<>>)
Payloads == {ListOf(Text), ListOf(Float), ListOf(RecordOf("SelectOption")), ListOf(RecordOf("MapMarker"))}
Scalars  == {Text, BoolT, Float, IntT}
PayloadOf(t) == IF t \in Payloads \cup Scalars \cup {OptText, Rows} THEN t ELSE Kept

-----------------------------------------------------------------------------
(***************************************************************************)
(* The readers of schema/decode.py that reach no node, binding or text of  *)
(* their own: layouts, cell kinds, rows, sort declarations, chart          *)
(* addresses, and what the texts and numbers of a slot must satisfy.       *)
(***************************************************************************)
(***************************************************************************)
(* The texts a slot tells apart.                                           *)
(***************************************************************************)
\* Texts in ordinal order; the canonical calendar days among them.
OrderedTexts == <<"", "2024-01-31", "2024-02-29", "2024-02-30", "31/01/2024", "amount", "floor", "region">>
IsoDays      == {"2024-01-31", "2024-02-29"}
\* The texts of a set in that order.
InOrder(S)   == SelectSeq(OrderedTexts, LAMBDA s : s \in S)
Later(s, t)  == \E i, j \in DOMAIN OrderedTexts :
                    i > j /\ OrderedTexts[i] = s /\ OrderedTexts[j] = t
HexColours   == {"#000000", "#1a2B3c"}
BlankTexts   == {"", " "}
\* Not a citation's name: something other than letters, digits, - and _.
NotNames     == BlankTexts \cup HexColours \cup
                {"two words", "31/01/2024", "press it", "set it to {value}", "from {value} to {value}", "a {name}"}
\* How many {value} slots a pattern names; one with another brace names none.
SlotCounts   == "a {name}" :> 99 @@ "set it to {value}" :> 1 @@ "from {value} to {value}" :> 2
SlotsIn(s)   == IF s \in DOMAIN SlotCounts THEN SlotCounts[s] ELSE 0

\* An integer token; 2.0 is not one, and the 32 bits of the integer slot do not
\* bound it.
IsCount(v, low) == (IsInt(v) /\ v.int >= low) \/ "wide" \in DOMAIN v
IsFinite(v)     == IsNumber(v)
Halves(v)       == CASE IsInt(v) -> 2 * v.int [] "half" \in DOMAIN v -> v.half [] OTHER -> 2^30

ReadCount(v, low, at) == IF IsCount(v, low) THEN v ELSE Fail(WRONG_TYPE, at)
ReadPositive(v, at) == Then(ReadInt(v, at), LAMBDA n : IF n.int <= 0 THEN Fail(WRONG_TYPE, at) ELSE n)
\* A present text that must not be one of some.
ReadNot(v, texts, at) ==
    Then(ReadText(v, at), LAMBDA s : IF s.str \in texts THEN Fail(WRONG_TYPE, at) ELSE s)
ReadKept(r, v) == After(r, Canonical(v))
\* A member that has to be there, read as F reads it, and one that may be missing.
Needed(v, k, at, F(_, _)) == Then(Require(v, k, at), LAMBDA m : F(m, At(at, k)))
Given(v, k, at, F(_, _))  == IF Has(v, k) THEN F(Get(v, k), At(at, k)) ELSE Drop

\* The first of the names v spells, refused where it stands.
NearMiss(v, names, at) ==
    LET named(n) == IF n = "" THEN Drop ELSE Fail(WRONG_TYPE, At(at, n)) IN named(FirstUsed(names, v))

(***************************************************************************)
(* Enums that read other spellings.                                        *)
(***************************************************************************)
NoAliases == [n \in {} |-> ""]
ReadAliased(e, v, at) ==
    ReadEnum(v, at, EnumSet(e), IF e \in DOMAIN EnumAliases THEN EnumAliases[e] ELSE NoAliases)

ReadEmphasis(v, at) ==
    LET emphasis(e) == IF IsBool(e) THEN Str(IF e.bool THEN "Loud" ELSE "Normal")
                       ELSE ReadAliased("Emphasis", e, at)
    IN emphasis(Unwrapped(v))

Unset(r, default) == IF r = default THEN Drop ELSE r
ReadFlag(v, at) ==
    LET flag(e) == CASE ~ IsStr(e) -> ReadBool(e, at)
                     [] IsStr(e) /\ e.str \in DOMAIN EmphasisFlag -> Bool(EmphasisFlag[e.str])
                     [] OTHER -> Fail(WRONG_TYPE, at)
    IN Unset(flag(Unwrapped(v)), Bool(FALSE))

\* A text first, and only then one of the cases.
ReadDirection(v, at) ==
    Then(ReadText(v, at),
         LAMBDA s : IF s.str \notin EnumSet("ChannelDirection") THEN Fail(UNKNOWN_DU_CASE, at) ELSE s)

(***************************************************************************)
(* Box layouts.                                                            *)
(***************************************************************************)
Gap(v, at)  == Given(v, "gap", at, ReadInt)
Present(rs) == [k \in {j \in DOMAIN rs : ~ Dropped(rs[j])} |-> rs[k]]

Orientation(v, at) == ReadAliased("Orientation", v, at)
ReadFlex(v, at) ==
    Tagged("Flex", Assembled(<<"direction", "wrap", "gap">>,
        <<Needed(v, "direction", at, Orientation), Unset(Given(v, "wrap", at, ReadBool), Bool(FALSE)), Gap(v, at)>>))

\* The columns under either of their names, or what to say when there are none.
Cols(s, v, at, F(_, _), none) == IF s = "" THEN none ELSE F(Get(v, s), At(at, "cols"))
\* No count and no template is the automatic grid; a template alone has one column.
ReadGrid(v, at) ==
    LET grid(s) == IF s = "" /\ ~ Has(v, "templateColumns") THEN Case("Auto", NoMembers)
                   ELSE Tagged("Grid", Assembled(<<"cols", "gap", "templateColumns">>,
                            <<Cols(s, v, at, ReadInt, Int32(1)), Gap(v, at),
                              Given(v, "templateColumns", at, ReadText)>>))
    IN grid(Spelling("Grid", "cols", v))

ReadMasonry(v, at) ==
    Tagged("Masonry", Assembled(<<"cols", "gap">>,
        <<Cols(Spelling("Masonry", "cols", v), v, at, ReadPositive, Fail(MISSING_FIELD, At(at, "cols"))),
          Gap(v, at)>>))

ReadLayout(v, at) ==
    After(Dispatch(v, at, UnionCases("BoxLayout")),
          CASE TagOf(v) = "Flex" -> ReadFlex(v, at)
            [] TagOf(v) = "Grid" -> ReadGrid(v, at)
            [] TagOf(v) = "Masonry" -> ReadMasonry(v, at)
            [] OTHER -> Case("Auto", NoMembers))

(***************************************************************************)
(* Grids: cell kinds, widths, rows, sorting.                               *)
(***************************************************************************)
ReadTone(v, at) == ReadAliased("ToneVariant", v, at)
ReadToneMap(v, at) ==
    IF ~ IsObj(v) THEN Fail(WRONG_TYPE, at)
    ELSE Gather([k \in DOMAIN v.obj |-> ReadTone(Get(v, k), At(at, k))])

\* One reader for the case and for the Pill that carries a tone map.
ReadTonedPill(v, at) ==
    LET map(s) == IF s = "" THEN Fail(MISSING_FIELD, At(at, "map")) ELSE ReadToneMap(Get(v, s), At(at, "map"))
    IN Tagged("TonedPill", Assembled(<<"field", "map", "default">>,
           <<Needed(v, "field", at, ReadText), map(Spelling("TonedPill", "map", v)),
             Unset(Given(v, "default", at, ReadTone), Str("Default"))>>))

ReadTagged(v, at) ==
    CASE ~ IsObj(v) -> Fail(WRONG_TYPE, at)
      [] ~ Has(v, "$type") -> Fail(MISSING_FIELD, At(at, "$type"))
      [] OTHER -> Canonical(v)
ReadCellKind(v, at) ==
    IF TagOf(v) = "TonedPill" \/ (TagOf(v) = "Pill" /\ Spelling("TonedPill", "map", v) # "")
    THEN ReadTonedPill(v, at) ELSE ReadTagged(v, at)
ReadWidth(v, at) == IF TagOf(v) = "Auto" THEN Drop ELSE ReadTagged(v, at)

\* A row is open: a null cell is absent and a structured one is opaque.
ReadRow(v, at) ==
    IF ~ IsObj(v) THEN Fail(WRONG_TYPE, at)
    ELSE Obj([k \in {j \in DOMAIN v.obj : ~ IsNull(v.obj[j])} |->
                 IF IsScalar(v.obj[k]) THEN Canonical(v.obj[k]) ELSE OPAQUE])
ReadRows(v, at) ==
    IF ~ IsArr(v) THEN Fail(WRONG_TYPE, at)
    ELSE Listing([i \in DOMAIN v.arr |-> ReadRow(v.arr[i], Ix(at, i))])

\* The column of the order may lie past the last header.
ReadIndex(v, at)     == ReadCount(v, 0, at)
ReadDirectionOf(v, at) == ReadEnum(v, at, EnumSet("SortDirection"), NoAliases)
CheckSort(v, at) ==
    IF ~ IsObj(v) THEN Fail(WRONG_TYPE, at)
    ELSE Unless(<<Needed(v, "column", at, ReadIndex), Needed(v, "direction", at, ReadDirectionOf)>>, Drop)

\* A coordinate of a cited cell, below how many there are.
CheckPlace(v, k, bound, at) ==
    Then(Require(v, k, at),
         LAMBDA n : Check(IsInt(n) /\ n.int >= 0 /\ n.int < bound, WRONG_TYPE, At(at, k)))

GridNearMisses   == <<"currentPage", "page", "pageIndex", "sortable", "onEdit", "behaviour", "behavior">>
ColumnNearMisses == <<"readOnly">>

(***************************************************************************)
(* Charts: the addresses of annotations, checked and carried.              *)
(***************************************************************************)
ReadDay(v, at) == Then(ReadText(v, at), LAMBDA s : IF s.str \in IsoDays THEN s ELSE Fail(WRONG_TYPE, at))

\* A category's key, or the day a date names.
CheckX(v, at) ==
    After(Dispatch(v, at, UnionCases("ChartAnnotationX")),
          IF TagOf(v) = "Category" THEN After(Needed(v, "key", at, ReadText), Drop)
          ELSE Needed(v, "iso", at, ReadDay))

CheckValueRange(v, at) ==
    LET ordered(lo, hi) ==
            Unless(<<lo, hi, Check(IsFinite(lo), WRONG_TYPE, At(at, "from")),
                     Check(IsFinite(hi), WRONG_TYPE, At(at, "to"))>>,
                   Check(Halves(lo) <= Halves(hi), WRONG_TYPE, at))
    IN ordered(Needed(v, "from", at, ReadFloat), Needed(v, "to", at, ReadFloat))
CheckXRange(v, at) ==
    LET ordered(a, b) ==
            Unless(<<a, b>>, Check(Dropped(a) \/ Dropped(b) \/ ~ Later(a.str, b.str), WRONG_TYPE, at))
    IN ordered(Needed(v, "from", at, CheckX), Needed(v, "to", at, CheckX))
CheckRange(v, at) ==
    After(Dispatch(v, at, UnionCases("ChartAnnotationRange")),
          IF TagOf(v) = "ValueRange" THEN CheckValueRange(v, at) ELSE CheckXRange(v, at))

ReadFinite(v, at) == Then(ReadFloat(v, at), LAMBDA n : Check(IsFinite(n), WRONG_TYPE, at))
CheckAddress(v, at) ==
    CASE TagOf(v) = "ReferenceLine" -> Needed(v, "value", at, ReadFinite)
      [] TagOf(v) = "EventMarker" -> Needed(v, "at", at, CheckX)
      [] OTHER -> Needed(v, "range", at, CheckRange)

ReadFormatShape(v, at) == After(Dispatch(v, at, UnionCases("Format")), ReadStrict(v, at))

(***************************************************************************)
(* Styles.                                                                 *)
(***************************************************************************)
StylePlan == <<
    Omit("emphasis", By("emphasis"), Str("Normal")), Omit("tone", Tone, Str("Default")),
    Omit("weight", EnumOf("StyleWeight"), Str("Standard")), Omit("role", EnumOf("StyleRole"), Str("None")),
    Omit("voice", EnumOf("FontVoice"), Str("Default")), Omit("direction", EnumOf("TextDirection"), Str("auto"))>>
\* A delta sets what it names, a default too.
StyleDeltaPlan == [i \in DOMAIN StylePlan |-> [StylePlan[i] EXCEPT !.rule = "optional"]]

AccessibilityNearMisses == <<
    "aria-label", "ariaLabel", "aria-labelledby", "ariaLabelledBy", "labelledby", "aria-describedby",
    "ariaDescribedBy", "describedby", "aria-role", "ariaRole", "aria-live", "ariaLive", "live",
    "liveregion", "aria-hidden", "ariaHidden">>
AccessibilityPlan == <<
    Opt("label", BindingOf(Text)), Opt("labelledBy", Text), Opt("describedBy", Text), Opt("role", Text),
    Opt("liveRegion", EnumOf("LiveRegionKind")), Opt("hidden", BindingOf(BoolT)),
    Opt("speak", UnionOf("TextSource"))>>
StatePlan == <<Opt("onLoading", NodeT), Opt("onEmpty", NodeT), Opt("onError", Kept)>>

(***************************************************************************)
(* Form controls: the value a control is bound to when it names none.      *)
(***************************************************************************)
Pair(a, x, b, y) == Obj(a :> x @@ b :> y)
AutoTexts  == {Str("")}
AutoNumber == {Int32(0)}
AutoFlag   == {Bool(FALSE)}
AutoRange  == {Pair("max", Int32(0), "min", Int32(0))}
AutoDates  == {Pair("from", Str(""), "to", Str(""))}
AutoTokens == {Arr(<<>>)}
AutoColour == {Str("#000000")}
AutoNone   == {}

\* Python's ==, a number and a truth value alike.
Equals(v, w) ==
    IF IsObj(v) /\ IsObj(w)
    THEN DOMAIN v.obj = DOMAIN w.obj /\ \A k \in DOMAIN v.obj : PyEqual(v.obj[k], w.obj[k])
    ELSE PyEqual(v, w)
\* auto is the filter or the form field that surrounds the control.
IsAuto(v, auto, placeholders) ==
    IF auto.of = "filter" THEN v = Case("Filter", [name |-> auto.name])
    ELSE /\ TagOf(v) = "State" /\ Get(v, "key") = auto.name
         /\ Has(v, "defaultValue")
         /\ \E p \in placeholders : Equals(Get(v, "defaultValue"), p)

TemporalAliases == [Date |-> "DateTime", Time |-> "DateTime", DateRange |-> "DateTimeRange",
                    TimeRange |-> "DateTimeRange"]
CanonicalControl(tag) == IF tag \in DOMAIN TemporalAliases THEN TemporalAliases[tag] ELSE tag
\* Time fixes the variant: it may be left out, and may not disagree.
ReadVariant(v, at) ==
    LET timed == TagOf(v) \in {"Time", "TimeRange"}
        variant(raw, here) ==
            Then(ReadEnum(raw, here, EnumSet("DateTimeVariant"), NoAliases),
                 LAMBDA e : IF timed /\ e # Str("Time") THEN Fail(WRONG_TYPE, here) ELSE e)
    IN IF timed /\ ~ Has(v, "variant") THEN Str("Time") ELSE Needed(v, "variant", at, variant)
ControlMembers == {"$type", "value", "options", "orientation", "rows", "variant", "min", "max", "step",
                   "allowFreeText", "suggestions", "allowHalf", "onChange"}
FieldNearMisses == <<"validation", "constraints", "validate">>
=============================================================================
