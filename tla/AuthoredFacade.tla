--------------------------- MODULE AuthoredFacade ---------------------------
(***************************************************************************)
(* The constructors a developer writes nodes with (ui/__init__.py): each   *)
(* coerces what it is given, fills in the defaults of its kind, calls the  *)
(* kind's class and says what the node is to assistive technology.         *)
(***************************************************************************)
EXTENDS AuthoredKinds

\* A plain value becomes the constant; a text is written as it is in both forms.
Sourced(v) == IF IsScalar(v) THEN Fixed(v) ELSE v

\* The numbers the texts of a metric leave when stripped of their decoration; what
\* leaves none is refused, and has no document.
Stripped == ("$42k" :> Int32(42)) @@ ("12.5%" :> Half(25)) @@ ("1,234" :> Int32(1234)) @@ ("n/a" :> Drop)
Measures == {Sourced(number) : number \in {Stripped[t] : t \in DOMAIN Stripped} \ {Drop}}

\* A selector is the text it matches or the binding that decides.
CaseOf(selector) == With(Obj([child |-> Kid]), IF IsStr(selector) THEN "match" ELSE "when", selector)

(***************************************************************************)
(* A call of a class: what a caller may give for the parameters named, the *)
(* constructor's default first; the others are passed on untouched, at the *)
(* default the class has.                                                  *)
(***************************************************************************)
Called(c, given) ==
    LET called(m) == IF m.name \in DOMAIN given THEN [m EXCEPT !.takes = given[m.name]] ELSE m
    IN [c EXCEPT !.members = [i \in DOMAIN @ |-> called(@[i])]]

(***************************************************************************)
(* What each kind is to assistive technology; the kinds not named: nothing.*)
(***************************************************************************)
Trait(role)           == Obj([role |-> Str(role)])
Announced(trait, how) == With(trait, "liveRegion", Str(how))
NoTrait               == Obj(NoMembers)
aria == [button |-> Trait("button"), select |-> Trait("combobox"), form |-> Trait("form"),
         file_upload |-> Trait("button"), callout |-> Announced(Trait("alert"), "assertive"),
         progress |-> Announced(Trait("progressbar"), "polite"), metric |-> Announced(NoTrait, "polite"),
         dashboard |-> Trait("main"), region |-> Trait("region"), modal |-> Trait("dialog"),
         toast |-> Announced(Trait("status"), "polite"), tabs |-> Trait("tablist"),
         chart |-> Announced(Trait("region"), "polite")]

Builds(c, given, trait) == [class |-> Called(c, given), trait |-> trait]
Passes(c, trait)        == Builds(c, NoMembers, trait)
Wearing(n, trait)       == IF trait = NoTrait THEN n ELSE With(n, "accessibility", trait)
\* _node
Built(cs) == UNION {{Wearing(Node(kind), cs[i].trait) : kind \in Writes(<<cs[i].class>>)} : i \in DOMAIN cs}

(***************************************************************************)
(* Containers: each names the layout and the role of its box.              *)
(***************************************************************************)
Across == With(Least(Layouts[1]), "direction", Str("Horizontal"))
Boxed(layouts, role, given, trait) ==
    Builds(Box, given @@ [breakBefore |-> <<Bool(FALSE)>>, keepTogether |-> <<Bool(FALSE)>>, heading |-> <<Drop>>,
                          layout |-> layouts, role |-> <<Str(role)>>], trait)
Headed  == [heading |-> <<Drop, Txt>>]
LayoutConstructors == <<
    Boxed(<<Least(Layouts[4])>>, "Dashboard", Headed, aria.dashboard),
    Boxed(<<Least(Layouts[1]), With(Across, "wrap", Bool(TRUE))>>, "Group", NoMembers, NoTrait),
    Boxed(<<Least(Layouts[2]), With(Least(Layouts[2]), "templateColumns", Txt)>>, "Group", NoMembers, NoTrait),
    Boxed(<<Least(Layouts[3]), With(Least(Layouts[3]), "gap", Int32(7))>>, "Group", NoMembers, NoTrait),
    Boxed(<<Least(Layouts[1])>>, "Card", Headed, aria.region),
    Passes(Named("SplitPanel", Containers), NoTrait)>>
ChoosingConstructors == <<
    Builds(Named("Tabs", Containers), [activeIndex |-> <<Sourced(Int32(0)), Sourced(Int32(2))>>], aria.tabs),
    Builds(Named("Stepper", Containers), [activeStep |-> <<Sourced(Int32(0)), Live>>], NoTrait),
    Passes(Named("SummaryList", Containers), aria.region),
    Builds(Named("Disclosure", Overlays), [open |-> <<Sourced(Bool(FALSE)), Live>>], aria.region),
    Builds(Named("Modal", Overlays), [onDismiss |-> <<Chain, Drop>>, open |-> <<Sourced(Bool(FALSE)), Live>>],
           aria.modal),
    Passes(Named("ScrollArea", Overlays), aria.region)>>

(***************************************************************************)
(* What shows something.                                                   *)
(***************************************************************************)
Number == <<Sourced(Int32(7)), Live>>
Text   == <<Sourced(Txt), Live>>
ReadingConstructors == <<
    Passes(Named("Heading", Figures), NoTrait), Passes(Named("Markdown", Figures), NoTrait),
    Builds(Named("Metric", Figures), [value |-> Number, trend |-> <<Drop, Sourced(Half(5))>>], aria.metric),
    Passes(Named("Fact", Facts), NoTrait), Builds(Named("LabelValueRow", Notices), [value |-> Number], NoTrait),
    Passes(Named("Badge", Facts), NoTrait)>>
PictureConstructors == <<
    Builds(Named("Link", Pictures), [href |-> Text], NoTrait),
    Builds(Named("Image", Pictures),
        [src |-> Text, srcSet |-> <<Arr(<<>>), Arr(<<Obj([src |-> Sourced(Txt), width |-> Int32(7)])>>)>>], NoTrait),
    Builds(Embed, [src |-> Text], NoTrait), Passes(TreeOf, NoTrait)>>

\* A track is of the one kind its constructor is named for.
TrackNamed(kind) == With(With(Least(Track), "kind", Str(kind)), "src", Sourced(Txt))
Tracks  == <<Arr(<<>>), Arr(<<TrackNamed("Subtitles"), With(TrackNamed("Captions"), "default", Bool(TRUE)),
                              TrackNamed("Descriptions"), TrackNamed("Chapters")>>)>>
Playing(kinds)    == Builds(Media, [kind |-> kinds, src |-> Text, tracks |-> Tracks], NoTrait)
MediaConstructors == <<Playing(<<Least(Players[1]), With(Least(Players[1]), "poster", Sourced(Txt))>>),
                       Playing(<<Least(Players[2])>>)>>
Separator == Boxed(<<Across>>, "Separator", [children |-> <<Arr(<<>>)>>], NoTrait)
StatusConstructors == <<
    Separator, Builds(Named("Toast", Blocks), [open |-> <<Sourced(Bool(FALSE)), Live>>], aria.toast),
    Builds(Named("CodeBlock", Blocks), [language |-> <<Str(""), Key>>], NoTrait),
    Passes(Named("Math", Blocks), NoTrait), Passes(Drawing, NoTrait), Passes(Named("Sparkline", Facts), NoTrait),
    Passes(Named("Callout", Notices), aria.callout),
    Builds(Named("Progress", Notices), [fraction |-> Number], aria.progress),
    Passes(Named("Skeleton", Notices), NoTrait), Passes(Named("Icon", Notices), NoTrait)>>

(***************************************************************************)
(* What takes something in.                                                *)
(***************************************************************************)
\* A choice of one always has a value, that of nothing when none is given; a choice
\* of several drops the one it is given.
Choosing == <<
    Builds(Inputs[2], [groups |-> <<Drop>>, value |-> <<Case("Static", NoMembers), Live>>], aria.select),
    Passes(Inputs[3], aria.select)>>
InputConstructors == Choosing \o <<
    Passes(Named("Button", Inputs), aria.button), Passes(Named("FileUpload", Inputs), aria.file_upload),
    Passes(Form, aria.form), Passes(Filters, NoTrait)>>

(***************************************************************************)
(* Tables, charts, maps; structure.                                        *)
(***************************************************************************)
DataConstructors == <<
    Passes(Chart, aria.chart), Passes(Table, NoTrait), Passes(MapOf, aria.region),
    Passes(Grids[1], aria.region), Passes(Grids[2], aria.region)>>
StructureConstructors == <<
    Passes(Structure[1], NoTrait), Passes(Structure[2], NoTrait),
    Builds(Switches[1], [cases |-> <<Arr(<<>>), Arr(<<CaseOf(Key), CaseOf(Live)>>)>>], NoTrait),
    Passes(Switches[3], NoTrait), Passes(FragmentDecl, NoTrait), Passes(FragmentRef, NoTrait),
    Passes(Mount, NoTrait), Passes(Named("List", Blocks), NoTrait)>>

(***************************************************************************)
(* The helpers for the parts of a node.                                    *)
(***************************************************************************)
\* binding.*: the instant has no grain here, and the rest is the classes'.
Bindings == Writes(<<Called(Named("Now", Sources), [grain |-> <<Drop>>])>> \o SubSeq(Sources, 2, 4))
            \cup Writes(Queries) \cup Writes(Buffers) \cup Writes(<<Formatted>>)
\* action.*: a dialogue and a focus have no helper.
Actions  == Writes(Effects) \cup Writes(Calls) \cup {Least(Named("Print", Requests))}
\* rule.*: one constraint each; a length of neither bound is none, and is left out here.
Rules    == Writes(<<
    Plain(<<Put("format", Str("email")), May("message", Txt)>>), Plain(<<Put("pattern", Key), May("message", Txt)>>),
    Plain(<<May("maxLength", Int32(7)), Put("minLength", Int32(2)), May("message", Txt)>>),
    Plain(<<Put("maxLength", Int32(7)), May("message", Txt)>>),
    Plain(<<Put("compare", Compare), May("message", Txt)>>)>>)
Parts(c, n, parts, trait) == {Wearing(Node(kind), trait) : kind \in Holding(c, n, parts)}
Helped ==
    Parts(Named("Heading", Figures), "text", {Case("Bound", [binding |-> Fixed(OPAQUE)])}, NoTrait) \cup
    Parts(Named("Metric", Figures), "value", Bindings \cup Measures, aria.metric)
    \cup Parts(Named("Metric", Figures), "trendFormat", Writes(CellFormats), aria.metric)
    \cup Parts(Named("Button", Inputs), "onClick", Actions, aria.button)
    \cup Parts(Form, "fields", Lists(Holding(Field, "rule", Rules)), aria.form)

(***************************************************************************)
(* node.*: a copy with one member set.  A member at the default its record *)
(* has, and a record of nothing else, are not written.                     *)
(***************************************************************************)
Setting(record, m, w) == IF w = m.leaves THEN Without(record, {m.name}) ELSE With(record, m.name, w)
SubRecord(n, name)    == IF Has(n, name) THEN Get(n, name) ELSE Obj(NoMembers)
Modified(n, name, m, w) ==
    LET record == Setting(SubRecord(n, name), m, w)
    IN IF record = Obj(NoMembers) THEN Without(n, {name}) ELSE With(n, name, record)
Styles == {m \in {SemanticStyle.members[i] : i \in DOMAIN SemanticStyle.members} : m.name # "direction"}
States == {m \in {StateBehaviour.members[i] : i \in DOMAIN StateBehaviour.members} : m.name # "onError"}
StyledTwice(n) ==
    {Modified(Modified(n, "style", a, a.takes[2]), "style", b, b.takes[k]) :
        <<a, b, k>> \in Styles \X Styles \X {1, 2}}
Waiting(n) == {Modified(Modified(n, "state", a, Kid), "state", b, Kid) : <<a, b>> \in States \X States}
Bare(n)    == Without(n, {"accessibility"})
Touched    == LET button == Wearing(Node(Least(Named("Button", Inputs))), aria.button)
              IN StyledTwice(button) \cup Waiting(button) \cup {Bare(button), With(button, "tooltip", Txt)}

FacadeNodes == Built(LayoutConstructors \o ChoosingConstructors \o ReadingConstructors \o PictureConstructors)
               \cup Built(MediaConstructors \o StatusConstructors \o InputConstructors)
               \cup Built(DataConstructors \o StructureConstructors) \cup Helped \cup Touched

-----------------------------------------------------------------------------
(***************************************************************************)
(* What a notebook writes: expressions and verbs over a frame              *)
(* (ui/compute.py), controls that feed a frame's parameters                *)
(* (ui/controls.py), and dashboards out of records, with the identities    *)
(* of their nodes derived from labels (ui/quick.py).                       *)
(***************************************************************************)
Fr   == INSTANCE AuthoredFrames
Seqs == INSTANCE SequencesExt

(***************************************************************************)
(* Records become a table.  A column has the one type its cells agree on,  *)
(* and what agrees on none is put in words.                                *)
(***************************************************************************)
InferType(cells) ==
    LET all(P(_)) == LET present == Seqs!ToSet(cells) \ {Null} IN present # {} /\ \A c \in present : P(c)
    IN CASE all(IsBool) -> "bool" [] all(IsInt) -> "int" [] all(IsNumber) -> "float" [] OTHER -> "string"
InWords(c) == CASE IsStr(c)  -> c
                [] IsInt(c)  -> Str(ToString(c.int))
                [] IsBool(c) -> Str(IF c.bool THEN "True" ELSE "False")
                [] OTHER     -> Str(ToString(c.half \div 2) \o (IF c.half % 2 = 1 THEN ".5" ELSE ".0"))
CellOf(type, c) == IF type = "string" /\ ~ IsNull(c) THEN InWords(c) ELSE c
TableOf(names, data) ==
    LET type(n)   == InferType(data[n])
        column(n) == Fr!ColumnOf(type(n), [i \in DOMAIN data[n] |-> CellOf(type(n), data[n][i])])
    IN Obj([schema  |-> Arr([i \in DOMAIN names |-> Obj([name |-> Str(names[i]), type |-> Str(type(names[i]))])]),
            columns |-> Obj([n \in Seqs!ToSet(names) |-> column(n)])])

(***************************************************************************)
(* Expressions: a plain value is lifted to the literal of its type.        *)
(***************************************************************************)
LiteralTag(v) == CASE IsBool(v) -> "Bool" [] IsInt(v) -> "Int" [] IsStr(v) -> "Str" [] OTHER -> "Float"
Lift(v) == Case("lit", [cell |-> IF IsNull(v) THEN Case("Null", NoMembers) ELSE Case(LiteralTag(v), [value |-> v])])
ACol == Case("col", [name |-> Txt])
ParamOf(name)  == Case("param", [name |-> Str(name)])
Binary(op, v)  == Case("binary", [left |-> ACol, op |-> Str(op), right |-> v])
Apply(fn, args) == Case("apply", [args |-> Arr(args), fn |-> Str(fn)])
Operators == {"add", "sub", "mul", "div", "mod", "gt", "ge", "lt", "le", "eq", "ne", "and", "or"}
\* A membership is in a list the document carries or in a parameter a control fills.
IsIn(e, items) == Case("in", [expr |-> e] @@ IF TagOf(items) = "param" THEN [param |-> Get(items, "name")]
                                             ELSE [items |-> items])
WhenThen(cases, otherwise) == Case("case", [cases |-> Arr(cases), else |-> otherwise])
Expressions ==
    {Binary(op, Lift(Int32(7))) : op \in Operators}
    \cup {Binary("eq", Lift(v)) : v \in {Null, Bool(TRUE), Half(5), Txt}}
    \cup {Apply(fn, <<ACol>>) : fn \in {"abs", "round", "floor", "ceil", "length", "lower", "upper"}}
    \cup {Apply("substr", <<ACol, Lift(Int32(0)), Lift(Int32(7))>>), Apply("datePart", <<Lift(Str("year")), ACol>>),
          Case("lit", [cell |-> Case("Date", [value |-> Str("2024-02-29")])]),
          Case("not", [expr |-> ACol]), Case("cast", [expr |-> ACol, type |-> Str("float")]),
          Case("coalesce", [exprs |-> Arr(<<ACol, Lift(Int32(0))>>)]), IsIn(ACol, Arr(<<Lift(Txt)>>)),
          WhenThen(<<Obj([when |-> ACol, then |-> Lift(Txt)])>>, Lift(Null))}

(***************************************************************************)
(* The parameters an expression, and a pipeline, reads: a frame binds each *)
(* to one slot before it is lowered.                                       *)
(***************************************************************************)
Members(e, ks)  == {Get(e, k) : k \in ks \cap DOMAIN e.obj}
Elements(e, ks) == UNION {Seqs!ToSet(list.arr) : list \in Members(e, ks)}
Within(e) == Members(e, {"left", "right", "expr", "else"}) \cup Elements(e, {"exprs", "args", "items"})
             \cup UNION {Members(branch, {"when", "then"}) : branch \in Elements(e, {"cases"})}
RECURSIVE ParamNames(_)
\* The walk knows no quotient, no rounding and no conversion, and reads nothing in them.
ParamNames(e) ==
    CASE TagOf(e) = "param" -> {Get(e, "name")}
      [] TagOf(e) \in {"col", "lit", "quotient", "rounded", "convert"} -> {}
      [] OTHER -> Members(e, {"param"}) \cup UNION {ParamNames(inner) : inner \in Within(e)}
Reads(step)  == UNION {ParamNames(e) : e \in Members(step, {"pred", "expr"})}

Decl(name, slot) == Obj([from |-> slot, name |-> Str(name)])
\* A parameter bound again to its slot is bound once; to another, and the frame has no document.
Bind(params, decls) ==
    Seqs!FoldLeft(LAMBDA bound, d : IF Seqs!Contains(bound, d) THEN bound ELSE Append(bound, d), params, decls)
OneSlotEach(params) == \A i, j \in DOMAIN params : Get(params[i], "name") = Get(params[j], "name") => i = j
Lowers(pipeline, params) ==
    /\ OneSlotEach(params)
    /\ UNION {Reads(step) : step \in Seqs!ToSet(pipeline)} \subseteq {Get(d, "name") : d \in Seqs!ToSet(params)}
Transform(source, pipeline, params) ==
    Case("Transform", [pipeline |-> Arr(pipeline), source |-> source] @@
                      IF params = <<>> THEN NoMembers ELSE [params |-> Arr(params)])

(***************************************************************************)
(* The verbs of a frame.                                                   *)
(***************************************************************************)
Pair(a, b)     == Obj([a |-> a, b |-> b])
Order(c, down) == Obj([column |-> c, dir |-> Str(IF down THEN "desc" ELSE "asc")])
Filter(e)      == Case("filter", [pred |-> e])
Derive(n, e)   == Case("derive", [expr |-> e, name |-> n])
Sorted(by)     == Case("sort", [by |-> Arr(by)])
Limited(n, from) == Case("limit", [n |-> Int32(n), offset |-> Int32(from)])
Project(pairs) == Case("project", [columns |-> Arr(pairs)])
Distinct       == Case("distinct", NoMembers)
Window(by)     == Case("window", [as |-> Key, fn |-> Str("rank"), of |-> Txt, orderBy |-> Arr(by),
                                  partitionBy |-> Arr(<<>>)])
Grouped(fn)    == Case("groupBy", [aggs |-> Arr(<<Obj([fn |-> Str(fn), name |-> Txt, of |-> Txt])>>),
                                   keys |-> Arr(<<Key>>)])
Aggregates     == {"sum", "mean", "min", "max", "count", "median", "stddev", "first", "last"}
Joined(how)    == Case("join", [how |-> Str(how), on |-> Arr(<<Pair(Key, Key)>>), source |-> Fr!Frame])
Verbs == {Grouped(fn) : fn \in Aggregates} \cup
    {Filter(Binary("gt", Lift(Int32(0)))), Project(<<Pair(Txt, Txt), Pair(Key, Txt)>>),
     Sorted(<<Order(Txt, FALSE), Order(Key, TRUE)>>), Distinct, Limited(7, 0), Limited(7, 2),
     Joined("inner"), Joined("left"),
     Case("union", [source |-> Fr!Frame]),
     Window(<<>>), Window(<<Order(Txt, TRUE)>>),
     Case("pivot", [agg |-> Str("sum"), index |-> Arr(<<Key>>), on |-> Txt, values |-> Txt]),
     Case("unpivot", [idVars |-> Arr(<<Key>>), valueVars |-> Arr(<<Txt>>)])}

(***************************************************************************)
(* Identities.  The digest in an id tells what it was made of, and stands  *)
(* here for itself: the kind, the label and which of its likes it is.      *)
(***************************************************************************)
DeriveId(kind, label, occurrence) == kind \o "-" \o label \o "-" \o ToString(occurrence)
Titles == ("amount" :> "Amount") @@ ("region" :> "Region")
Identified(n, id) == With(n, "id", Str(id))
Labelled(kind, trait, id) == Identified(Wearing(Node(kind), trait), id)

\* In document order, an id already taken is given the lowest free ordinal; only
\* boxes are entered.
Told(id, seen) ==
    LET numbered(k) == id \o "-" \o ToString(k)
        free(k)     == numbered(k) \notin seen
    IN IF id \notin seen THEN id
       ELSE numbered(CHOOSE k \in 2..(Cardinality(seen) + 2) : free(k) /\ \A j \in 2..(k - 1) : ~ free(j))
ChildrenOf(n) == IF TagOf(Get(n, "kind")) = "Box" THEN Get(Get(n, "kind"), "children").arr ELSE <<>>
RECURSIVE Composed(_, _)
Composed(children, seen) ==
    LET n     == Head(children)
        id    == Told(Get(n, "id").str, seen)
        inner == Composed(ChildrenOf(n), seen \cup {id})
        kind  == IF ChildrenOf(n) = <<>> THEN Get(n, "kind") ELSE With(Get(n, "kind"), "children", Arr(inner.nodes))
        rest  == Composed(Tail(children), inner.seen)
    IN IF children = <<>> THEN [nodes |-> <<>>, seen |-> seen]
       ELSE [nodes |-> <<Identified(With(n, "kind", kind), id)>> \o rest.nodes, seen |-> rest.seen]
BoxOf(layout, role, children) == With(With(With(Least(Box), "children", Arr(Composed(children, {}).nodes)),
                                           "layout", layout), "role", Str(role))

(***************************************************************************)
(* Controls: each declares the slot it writes, seeded with its default,    *)
(* and has no handler, so that the reader's choice is written there.       *)
(***************************************************************************)
Slot(key, default) ==
    Case("State", [key |-> Str(key)] @@ IF default = Drop THEN NoMembers ELSE [defaultValue |-> default])
Literals     == Fixed(Arr(<<Obj([label |-> Txt, value |-> Txt])>>))
\* The distinct values of a column, in order, each its own label.
OptionRows(source, c) ==
    Transform(source, <<Project(<<Pair(c, Str("value"))>>), Distinct, Sorted(<<Order(Str("value"), FALSE)>>),
                        Derive(Str("label"), Case("col", [name |-> Str("value")]))>>, <<>>)
Control(n, params) == [node |-> n, params |-> params]
Picking(members, of, options) ==
    Labelled(Case("Select", members @@ [label |-> Str("Region"), source |-> options]), aria.select,
             DeriveId(of, "region", 0))
SelectControl(options, default) ==
    LET slot == Slot("region", default)
    IN Control(Picking([placeholder |-> Txt, value |-> slot], "select", options), <<Decl("region", slot)>>)
MultiSelectControl(options, chosen) ==
    LET slot == Slot("region", Arr(chosen))
    IN Control(Picking([multiple |-> Bool(TRUE), values |-> slot], "multiselect", options), <<Decl("region", slot)>>)

\* A range is two slots, one for each end; an end without a default is open.
Ends(of, kind, from, to) ==
    LET slot(end) == Slot(end.key, end.seed)
        chip(end) == Obj([kind |-> With(kind, "value", slot(end)), label |-> Txt, name |-> Str(end.key)])
    IN Control(Labelled(Case("Filters", [items |-> Arr(<<chip(from), chip(to)>>)]), NoTrait,
                        DeriveId(of, "amount", 0)),
               <<Decl(from.key, slot(from)), Decl(to.key, slot(to))>>)
End(key, seed) == [key |-> key, seed |-> seed]
RangeControl(low, high) == Ends("range", Case("Number", NoMembers), End("amount_min", low), End("amount_max", high))
DateRangeControl(from, to, variant) ==
    Ends("daterange", Case("DateTime", [variant |-> Str(variant)]), End("amount_from", from), End("amount_to", to))

(***************************************************************************)
(* Dashboards out of records.                                              *)
(***************************************************************************)
Metric(label, v, occurrence) ==
    Labelled(Case("Metric", [label |-> Str(label), value |-> Sourced(v)]), aria.metric,
             DeriveId("metric", label, occurrence))
\* A tile is told from the earlier ones of its label by how many they are.
Strip(pairs) ==
    LET earlier(i) == Cardinality({j \in 1..(i - 1) : pairs[j][1] = pairs[i][1]})
        tiles      == [i \in DOMAIN pairs |-> Metric(pairs[i][1], pairs[i][2], earlier(i))]
    IN Labelled(BoxOf(With(Across, "wrap", Bool(TRUE)), "Group", tiles), NoTrait, DeriveId("strip", "metrics", 0))
\* A grid is keyed by the column of row numbers put before the others; one without
\* columns is a note.
GridOf(names, data, size) ==
    LET numbers == [i \in 1..size |-> Int32(i - 1)]
        shown   == [i \in DOMAIN names |-> Obj([field |-> Str(names[i]), kind |-> Case("Text", NoMembers),
                                                label |-> Str(Titles[names[i]])])]
    IN IF names = <<>> THEN Labelled(Case("Markdown", [text |-> Txt]), NoTrait, DeriveId("markdown", "empty-grid", 0))
       ELSE Labelled(Case("DataGrid", [columns |-> Arr(shown), rowKeyField |-> Str("_row"),
                source |-> Transform(TableOf(<<"_row">> \o names, ("_row" :> numbers) @@ data), <<>>, <<>>)]),
              aria.region, DeriveId("grid", Seqs!FoldLeft(LAMBDA sofar, n : sofar \o n, "", names), 0))
ChartOf(x, y, source) ==
    Labelled(Case("Chart", [kind |-> Str("Line"), source |-> source, xField |-> Str(x), yFields |-> Arr(<<Str(y)>>)]),
             aria.chart, DeriveId("chart", x \o y, 0))
Dashboard(children) ==
    Labelled(With(BoxOf(Least(Layouts[4]), "Dashboard", children), "heading", Txt), aria.dashboard,
             DeriveId("dashboard", "amount", 0))

(***************************************************************************)
(* The documents.                                                          *)
(***************************************************************************)
ColumnsGiven == {<<Int32(7), Null>>, <<Half(5), Int32(7)>>, <<Bool(TRUE), Null>>, <<Bool(TRUE), Int32(7)>>,
                 <<Txt, Half(5)>>, <<Null, Null>>}
Data(cells) == [amount |-> cells, region |-> <<Txt, Key>>]
Tables      == {TableOf(<<"region", "amount">>, Data(cells)) : cells \in ColumnsGiven}
OptionLists == {Literals, OptionRows(Fr!Frame, Txt), Live}
Controlled  == {SelectControl(options, default) : options \in OptionLists, default \in {Drop, Key}}
    \cup {MultiSelectControl(Literals, chosen) : chosen \in {<<>>, <<Key>>}}
    \cup {RangeControl(low, high) : low \in {Drop, Int32(0)}, high \in {Drop, Half(5)}}
    \cup {DateRangeControl(Str("2024-01-31"), Drop, variant) : variant \in {"Date", "DateTime"}}
ReadBy      == {<<Filter(Binary("eq", ParamOf("region")))>>, <<Filter(IsIn(ACol, ParamOf("region")))>>,
                <<Filter(Binary("ge", ParamOf("amount_min"))), Derive(Key, ParamOf("amount_max"))>>,
                <<Filter(Case("not", [expr |-> Binary("lt", ParamOf("amount_from"))]))>>}
Answering(c, pipeline) == Transform(Fr!Frame, pipeline, Bind(Bind(<<>>, c.params), c.params))
Charts == {ChartOf("region", "amount", Transform(source, <<>>, <<>>)) : source \in Tables}
    \cup {ChartOf("region", "amount", Transform(Fr!Frame, <<step>>, <<>>)) :
              step \in Verbs \cup {Derive(Key, e) : e \in Expressions}}
Pages == {Dashboard(<<c.node, ChartOf("region", "amount", Answering(c, pipeline))>>) :
              <<c, pipeline>> \in {p \in Controlled \X ReadBy : Lowers(p[2], p[1].params)}}
    \cup {Dashboard(<<Strip(pairs), Metric("Revenue", Int32(7), 0), Metric("Revenue", Half(5), 0)>>) :
              pairs \in {<<<<"Revenue", Int32(7)>>, <<"Cost", Half(5)>>, <<"Revenue", Int32(0)>>>>, <<>>}}
    \cup {Dashboard(<<GridOf(names, Data(<<Int32(7), Null>>), 2), ChartOf("region", "amount", Live)>>) :
              names \in {<<>>, <<"amount">>, <<"region", "amount">>}}
NotebookNodes == {c.node : c \in Controlled} \cup Charts \cup Pages
=============================================================================
