---------------------------- MODULE AuthoredKinds ----------------------------
(***************************************************************************)
(* The typed kinds an author builds nodes from (schema/types.py), and the  *)
(* documents they write: every kind, and every part in a kind that has it. *)
(***************************************************************************)
EXTENDS AuthoredValues

Children == Listed("children", Kid)
Heading  == May("heading", Txt)
Label    == Put("label", Txt)
Icon     == May("icon", Key)
Open     == Either("open", Fixed(Bool(FALSE)), Live)
Dim      == May("disabled", Live)

(***************************************************************************)
(* Containers.                                                             *)
(***************************************************************************)
\* A box of each of its roles: a dashboard, a stack, a grid, a card.
Box == Class("Box", <<Flag("breakBefore"), Children, Heading, Flag("keepTogether"), Put("layout", Least(Layouts[1])),
                      Either("role", Str("Group"), Str("Card"))>>)

\* The step shown is left out at the literal 0.
First == Fixed(Int32(0))
Containers == <<
    Class("SplitPanel", <<Children, Either("weight", Half(1), Int32(7))>>),
    Class("Tabs", <<Apart("activeIndex", First, Live), May("activeTag", Live), Children, Handles("onSelect"),
        MayHandle("onSelectTag"), Apart("orientation", Str("Horizontal"), Str("Vertical")),
        May("tabHeaders", Arr(<<Least(TabHeader)>>)), May("tabTags", Arr(<<Key>>))>>),
    Class("Stepper", <<Apart("activeStep", First, Live), Children, Handles("onSelect")>>),
    Class("SummaryList", <<Children, Heading>>)>>

\* What opens and closes, or scrolls.
Overlays == <<
    Class("Disclosure", <<Children, Either("defaultOpen", Bool(FALSE), Bool(TRUE)),
        Either("heading", Str(""), Txt), MayHandle("onToggle"), Open>>),
    Class("Modal", <<May("anchor", Key), Children, Member("dismissable", <<Bool(FALSE), Bool(TRUE)>>, Bool(TRUE)),
        Heading, Apart("modality", Str("Modal"), Str("Popover")), Either("onDismiss", Chain, Case("Print", NoMembers)),
        Open>>),
    Class("ScrollArea", <<Children, May("maxHeight", Int32(7)), May("maxWidth", Int32(7)),
        Either("orientation", Str("Vertical"), Str("Both"))>>)>>

(***************************************************************************)
(* What shows something.                                                   *)
(***************************************************************************)
Citation   == Obj([name |-> Key, reference |-> Txt])
Comparison == Plain(<<Format, Label, Apart("polarity", Str("HigherIsBetter"), Str("LowerIsBetter")),
                      Put("value", Live)>>)
Figures == <<
    Class("Heading", <<Either("level", Int32(2), Int32(7)), Put("text", Txt),
        Apart("variant", Str("Standard"), Str("Lead"))>>),
    Class("Markdown", <<Filled("citations", Citation), Put("text", Txt)>>),
    Class("Metric", <<Filled("comparisons", Least(Comparison)), Emphasis, Format, Icon, Label,
        May("subtext", Txt), Tone, May("trend", Live), May("trendFormat", Money),
        Apart("trendPolarity", Str("HigherIsBetter"), Str("LowerIsBetter")), Put("value", Live), Weight>>)>>

Facts == <<
    Class("Fact", <<Flag("emphasis"), May("help", Txt), Icon, May("reference", Key), Label, Tone,
        Put("value", Txt)>>),
    Class("Badge", <<Label, Apart("variant", Str("Neutral"), Str("Brand"))>>),
    Class("Sparkline", <<Put("source", Fixed(Arr(<<Half(5), Int32(7)>>)))>>)>>

\* The author's tone of a callout is Info, and the format's default is Default.
Notices == <<
    Class("Callout", <<Put("body", Txt), Flag("dismissable"), Heading, Icon,
        Member("tone", <<Str("Info"), Str("Default")>>, Str("Default"))>>),
    Class("Progress", <<May("caveat", Txt), Put("fraction", Live), Flag("indeterminate"), May("label", Txt), Tone>>),
    Class("Skeleton", <<Put("rows", Int32(2))>>),
    Class("Icon", <<Put("icon", Key), May("label", Txt), Apart("size", Str("Medium"), Str("Large")), Tone>>),
    Class("LabelValueRow", <<Flag("emphasis"), Format, May("help", Txt), Label, Put("value", Live)>>)>>

Blocks == <<
    Class("Toast", <<NotFlag("dismissable"), Put("message", Txt), Open, Tone>>),
    Class("CodeBlock", <<Put("code", Txt), Member("copyable", <<Bool(FALSE), Bool(TRUE)>>, Bool(TRUE)),
        Filled("highlightLines", Int32(7)), Put("language", Key), Flag("lineNumbers")>>),
    Class("Math", <<Either("display", Str("Block"), Str("Inline")), Put("source", Txt)>>),
    Class("List", <<Listed("items", Txt), Flag("ordered")>>)>>

Source   == Obj([src |-> Live, width |-> Int32(7)])
Aspect   == Apart("aspectRatio", Str("Natural"), Str("Square"))
Pictures == <<
    Class("Link", <<Flag("download"), Put("href", Live), Label, May("protection", Str("email")), May("rel", Key),
        May("target", Key)>>),
    Class("Image", <<Put("alt", Txt), Aspect, May("caption", Txt), Flag("expandable"),
        Apart("fit", Str("Natural"), Str("Cover")), Apart("loading", Str("Eager"), Str("Lazy")), Put("src", Live),
        Filled("srcSet", Source), Apart("variant", Str("Default"), Str("Avatar"))>>)>>
Embed == Class("Embed", <<Aspect, Filled("permissions", Str("AllowForms")), Put("src", Live), Put("title", Txt)>>)

TreeItem == Obj([id |-> Key, label |-> Txt])
Branch   == Plain(<<Filled("children", TreeItem), Icon, Put("id", Key), Label>>)
TreeOf   == Class("Tree", <<May("expandedStateKey", Key), Listed("items", TreeItem), MayHandle("onSelect"),
                            May("selectionStateKey", Key)>>)
Track    == Plain(<<Flag("default"), Put("kind", Str("Captions")), Label, Put("src", Live), Put("srcLang", Key)>>)
Players  == <<Class("Video", <<Flag("autoplay"), May("poster", Live)>>), Class("Audio", <<>>)>>
Media    == Class("Media", <<NotFlag("controls"), Put("kind", Least(Players[1])), Label, Flag("loop"),
                             Put("src", Live), Filled("tracks", Least(Track)), May("transcript", Txt)>>)

Curve    == Class("Curve", <<Listed("commands", Least(Strokes[1])), Put("style", Obj(NoMembers))>>)
Drawing  == Class("Drawing", <<May("description", Txt), Listed("shapes", Least(Shapes[3])),
                               Put("style", Obj(NoMembers)), May("title", Txt), Put("viewBox", ViewBox)>>)

(***************************************************************************)
(* What takes something in.                                                *)
(***************************************************************************)
\* A choice of one writes its value; a choice of several its values.
Inputs == <<
    Class("Button", <<Dim, Icon, Label, Put("onClick", Chain), Apart("variant", Str("Secondary"), Str("Primary"))>>),
    Class("Select", <<Dim, Label, May("multiple", Bool(FALSE)), Handles("onChange"), MayHandle("onChangeMulti"),
        May("placeholder", Txt), Put("source", Options), Put("value", Live),
        Member("groups", <<Drop, Arr(<<OptionGroup>>)>>, Drop)>>),
    Class("Select", <<Label, Put("multiple", Bool(TRUE)), Handles("onChange"), Put("source", Options),
        Put("values", Live)>>),
    Class("FileUpload", <<Listed("accept", Key), Flag("acceptPaste"), May("capture", Str("Camera")),
        May("destination", Key), Dim, Flag("dropTarget"), Label, May("maxBytes", Int32(7)),
        May("maxFiles", Int32(7)), Flag("multiple"), Handles("onSelect")>>)>>

Changes  == Handles("onChange")
Value(w) == May("value", w)
Bounds   == <<May("max", Half(5)), May("min", Int32(0)), May("step", Int32(7))>>
TextControls == <<
    Class("Text", <<Changes, Value(Live)>>), Class("Number", <<Changes, Value(Live)>>),
    Class("Checkbox", <<Changes, Value(Live)>>), Class("Toggle", <<MayHandle("onChange"), Value(Live)>>),
    Class("TextArea", <<Changes, Put("rows", Int32(7)), Value(Live)>>)>>

\* A pair of literals is written as its two ends; days bound days.
Days == <<May("max", Str("2024-02-29")), May("min", Str("2024-01-31")), May("step", Int32(7)),
          Either("variant", Str("Date"), Str("DateTime"))>>
RangeControls == <<
    Class("RangedNumber", Bounds \o <<Changes, Value(Live)>>),
    Class("Range", Bounds \o <<Changes, Value(Live)>>),
    Class("Range", <<Changes, Put("value", Obj([max |-> Int32(7), min |-> Int32(0)]))>>),
    Class("DateTime", Days \o <<Changes, Value(Live)>>),
    Class("DateTimeRange", Days \o <<Changes, Value(Live)>>),
    Class("DateTimeRange", <<Changes, Put("variant", Str("Date")),
        Put("value", Obj([from |-> Str("2024-01-31"), to |-> Str("2024-02-29")]))>>)>>

ChoiceControls == <<
    Class("Choice", <<Changes, Put("options", Options), Value(Live)>>),
    Class("SegmentedChoice", <<Changes, Put("options", Options),
        Apart("orientation", Str("Horizontal"), Str("Vertical")), Value(Live)>>),
    Class("Combobox", <<Flag("allowFreeText"), Changes, Put("options", Options), Value(Live)>>),
    Class("Tokens", <<NotFlag("allowFreeText"), Changes, Put("suggestions", Options), Value(Live)>>)>>
PickControls == <<
    Class("Rating", <<Flag("allowHalf"), Put("max", Int32(7)), Changes, Value(Live)>>),
    Class("Color", <<Changes, Value(Live)>>)>>
Controls == Writes(TextControls) \cup Writes(RangeControls) \cup Writes(ChoiceControls)
            \cup Writes(PickControls)

Compare == Obj([against |-> Live, op |-> Str("eq")])
\* A rule constrains something.
Rule    == Plain(<<Put("compare", Compare), May("format", Str("email")), May("maxLength", Int32(7)),
                   May("message", Txt), May("minLength", Int32(2)), May("pattern", Key)>>)
Plainest == Least(TextControls[1])
Field   == Plain(<<May("help", Txt), Put("id", Str("floor")), Put("kind", Plainest), Label, Flag("required"),
                   May("rule", Least(Rule))>>)
Form    == Class("Form", <<Dim, Listed("fields", Least(Field)), Put("onSubmit", Chain),
                           Either("submitLabel", Str("Submit"), Txt)>>)

\* A chip is named by the parameter its control is bound to.
BoundTo(control) == IF Has(control, "value") /\ TagOf(Get(control, "value")) = "State"
                    THEN Get(Get(control, "value"), "key") ELSE Str("floor")
Chip(control)    == Obj([kind |-> control, label |-> Txt, name |-> BoundTo(control)])
Filters == Class("Filters", <<Listed("items", Chip(Plainest))>>)

(***************************************************************************)
(* Tables, charts, maps.                                                   *)
(***************************************************************************)
\* A row leaves out what is None and does not show what is not a scalar; what it
\* cannot hold exactly it refuses, and that row has no document.
RowCell(v) == IF IsScalar(v) THEN v ELSE OPAQUE
RowOf(given) == Obj([k \in {j \in DOMAIN given : given[j] # Drop} |-> RowCell(given[k])])
Feed(rows)   == Arr([i \in DOMAIN rows |-> RowOf(rows[i])])
Rows   == Feed(<<[amount |-> Int32(7), region |-> Drop], [amount |-> Half(5), region |-> Arr(<<>>)]>>)
Feeds  == {Fixed(Rows), Live, With(Live, "defaultValue", Rows)}

Chart == Class("Chart", <<
    May("annotations", Arr(<<>>)), May("dataLabels", Str("Ends")), Either("kind", Str("Line"), Str("Bar")),
    May("legendPosition", Str("Top")), MayHandle("onPointClick"), Put("source", Live), Flag("stacked"),
    May("subtitle", Txt), May("title", Txt), May("valueFormat", Case("Number", NoMembers)), Put("xField", Key),
    May("xScale", Str("Temporal")), May("xTitle", Txt), Put("yFields", Arr(<<Txt>>)), May("yTitle", Txt)>>)

Sort     == Obj([column |-> Int32(0), direction |-> Str("asc")])
CellNote == Plain(<<Put("column", Int32(0)), May("label", Txt), Put("reference", Txt), Put("row", Int32(0))>>)
\* A table is a grid with its rows beside an empty source.
StaticRows == Plain(<<Filled("citations", Least(CellNote)), May("defaultSort", Sort),
                      Put("headers", Arr(<<Txt>>)), Put("rows", Arr(<<Arr(<<Txt>>)>>)),
                      May("sortable", Bool(FALSE))>>)
Table == Class("DataGrid", <<Listed("columns", Obj([kind |-> Case("Text", NoMembers), label |-> Txt])),
                             May("rowKeyField", Key), Put("source", Fixed(Arr(<<>>))), Put("staticRows", Least(StaticRows))>>)
MapOf == Class("Map", <<Either("centreLatitude", Int32(0), Half(5)), Either("centreLongitude", Int32(0), Half(5)),
                        MayHandle("onMarkerClick"), Put("source", Fixed(Arr(<<MapMarker>>))),
                        Either("zoom", Int32(4), Int32(7))>>)

\* A width names its number and no other's.
Widths == <<Class("Auto", <<>>), Class("Fixed", <<Put("pixels", Int32(7))>>), Class("Flex", <<Put("weight", Half(5))>>)>>
\* A cell's members belong to its own case.
Cells  == <<
    Class("Text", <<>>), Class("Numeric", <<>>), Class("Button", <<May("label", Txt), MayHandle("onClick")>>),
    Class("ButtonGroup", <<Put("buttons", Arr(<<Obj([label |-> Txt])>>))>>),
    Class("TonedPill", <<Apart("default", Str("Default"), Str("Brand")), Put("field", Key),
        Put("map", Obj([floor |-> Str("Brand")]))>>)>>
\* A column is read from a field or from a closure.
Column(from) == Plain(<<
    May("editable", Bool(TRUE)), from, Format, Put("kind", Least(Cells[1])), Label, May("sortable", Bool(FALSE)),
    Apart("width", Least(Widths[1]), Least(Widths[2]))>>)
Columns == <<Column(Put("field", Key)), Column(Handles("value"))>>

\* Rows are told apart by a field or by a closure.
Grid(key) == Class("DataGrid", <<
    Listed("columns", Least(Columns[1])), May("defaultSort", Sort), May("editStateKey", Key), Flag("editable"),
    Flag("exportable"), Flag("keepRowsTogether"), MayHandle("onRowClick"), May("pageSize", Int32(7)),
    May("pageStateKey", Key), Flag("reorderable"), Flag("repeatHeader"), key, May("rowTotal", Live),
    May("sortStateKey", Key), Put("source", Live), May("transferInKey", Key), May("transferOutKey", Key),
    May("windowStateKey", Key)>>)
Grids == <<Grid(Put("rowKey", CLOSURE)), Grid(Put("rowKeyField", Key))>>

(***************************************************************************)
(* Structure: switches, fragments, guests.                                 *)
(***************************************************************************)
\* A state without a default selects as its key alone does.
Selector(on) == IF TagOf(on) = "State" /\ ~ Has(on, "defaultValue") THEN Put("stateKey", Get(on, "key"))
                ELSE Put("on", on)
SwitchOn(on) == Class("Switch", <<Listed("cases", Obj([child |-> Kid, match |-> Key])), Put("default", Kid),
                                  Selector(on), May("autoAdvanceMs", Int32(7))>>)
Switches == <<SwitchOn(Live), SwitchOn(With(Live, "defaultValue", Key)), SwitchOn(Fixed(Key))>>
Hash == Obj([algorithm |-> Key, hash |-> Txt, strictness |-> Str("StrictReplay")])
Structure == <<
    Class("Custom", <<Put("componentId", Key), May("contentHash", Hash), May("exposedNodeIds", Arr(<<Key>>)),
        Put("moduleId", Key), Either("props", Obj(NoMembers), Obj([amount |-> Txt]))>>),
    Class("ErrorBoundary", <<Put("child", Kid), Put("fallback", Kid)>>)>>

Scalars == <<Class("Int", <<Put("value", Int32(7))>>), Class("Float", <<Put("value", Half(5))>>),
             Class("Bool", <<Put("value", Bool(FALSE))>>), Class("Str", <<Put("value", Txt)>>)>>
Spaces  == <<
    Class("IntRange", <<Put("max", Int32(7)), Put("min", Int32(0))>>),
    Class("FloatRange", <<Put("max", Half(5)), Put("min", Int32(0))>>),
    Class("StringLen", <<Put("maxLen", Int32(7)), Put("minLen", Int32(0))>>),
    Class("Enum", <<Put("choices", Arr(<<Key>>))>>), Class("AnyString", <<>>)>>
Holes   == <<
    Class("Value", <<May("default", Least(Scalars[4])), Put("name", Key), Put("space", Least(Spaces[1]))>>),
    Class("Slot", <<May("kindConstraint", Key), Put("name", Key)>>),
    Class("Repeat", <<Put("countSpace", Least(Spaces[1])), Put("name", Key)>>)>>
\* An effect of nothing is left out.
Nothing == Obj([determinism |-> Str("Deterministic"), hostEffect |-> Str("Pure")])
Effect  == Obj([determinism |-> Str("Clock"), hostEffect |-> Str("Pure")])
FragmentDecl == Class("FragmentDecl", <<Put("body", Kid), Apart("effect", Nothing, Effect),
                                        Filled("holes", Least(Holes[1])), Put("name", Key)>>)
Args    == Writes(Scalars) \cup {Case("SlotArg", [tree |-> Kid])}
FragmentRef == Class("FragmentRef", <<May("args", Obj([amount |-> Least(Scalars[1])])), Put("name", Key)>>)
Channel == Plain(<<Either("direction", Str("OutOnly"), Str("TwoWay")), May("messageShape", Key)>>)
Mount   == Class("Mount", <<
    Listed("capabilities", Key), Put("channel", Least(Channel)), May("inputs", Obj([amount |-> Least(Scalars[1])])),
    Handles("onBubble"), Put("scopeId", Key)>>)

(***************************************************************************)
(* Nodes: a node leaves out an empty state and a style of defaults.        *)
(***************************************************************************)
Badge    == Case("Badge", [label |-> Txt])
Envelope == Plain(<<
    Put("id", Key), Put("kind", Badge), May("accessibility", Least(Accessible)),
    Apart("state", Obj(NoMembers), Obj([onError |-> CLOSURE])), Apart("style", Obj(NoMembers), Obj([tone |-> Str("Brand")])),
    May("visible", Live), May("tooltip", Txt), May("fallback", Kid)>>)
Node(kind) == Obj([id |-> Key, kind |-> kind])

(***************************************************************************)
(* The documents: each kind by itself, and each part where it goes.        *)
(***************************************************************************)
Named(tag, cs) == cs[CHOOSE i \in DOMAIN cs : cs[i].tag = tag]
PartsShown ==
    Holding(Box, "layout", Writes(Layouts)) \cup Holding(Media, "kind", Writes(Players))
    \cup Holding(TreeOf, "items", Lists(Writes(<<Branch>>)))
    \cup Holding(Media, "tracks", Lists(Writes(<<Track>>)))
    \cup Holding(Drawing, "shapes", Lists(Writes(Shapes) \cup Holding(Curve, "commands", Lists(Writes(Strokes)))))
    \cup Holding(Drawing, "style", Writes(<<DrawStyle>>))
    \cup Holding(Named("Heading", Figures), "text", AuthoredTexts)
    \cup Holding(Named("Metric", Figures), "value", AuthoredBindings)
    \cup Holding(Named("Metric", Figures), "trendFormat", Writes(CellFormats))
    \cup Holding(Named("Metric", Figures), "comparisons", Lists(Writes(<<Comparison>>)))
    \cup Holding(Named("Tabs", Containers), "tabHeaders", Lists(Writes(<<TabHeader>>)))
PartsTaken ==
    Holding(Named("Select", Inputs), "value", Writes(<<Sources[1]>>)) \cup
    Holding(Named("Button", Inputs), "onClick", Writes(Effects \o Requests \o Calls))
    \cup Holding(Form, "fields", Lists(Writes(<<Field>>) \cup Holding(Field, "kind", Controls)
                                        \cup Holding(Field, "rule", Writes(<<Rule>>))))
    \cup Holding(Filters, "items", Lists({Chip(control) : control \in Controls}))
PartsTabled ==
    Holding(Chart, "source", Feeds) \cup Holding(Chart, "annotations", Lists(Writes(Annotations)))
    \cup Holding(Table, "staticRows", Writes(<<StaticRows>>))
    \cup Holding(Table, "staticRows", Holding(StaticRows, "citations", Lists(Writes(<<CellNote>>))))
    \cup Holding(Grids[1], "source", Feeds)
    \cup Holding(Grids[1], "columns", Lists(Writes(Columns) \cup Holding(Columns[1], "kind", Writes(Cells))
                                             \cup Holding(Columns[1], "width", Writes(Widths) \ {Least(Widths[1])})))
PartsHeld ==
    Holding(Switches[1], "cases", Lists({Obj([child |-> Kid, when |-> Live])}))
    \cup Holding(FragmentDecl, "holes", Lists(Writes(Holes) \cup Holding(Holes[1], "space", Writes(Spaces))
                                               \cup Holding(Holes[1], "default", Writes(Scalars))))
    \cup Holding(FragmentRef, "args", {Obj([amount |-> arg]) : arg \in Args})
    \cup Holding(Mount, "channel", Writes(<<Channel>>))
AuthoredKinds ==
    Writes(<<Box>> \o Containers \o Overlays \o Figures \o Facts \o Notices \o Blocks \o Pictures)
    \cup Writes(<<Embed, TreeOf, Media, Drawing>>)
    \cup Writes(Inputs \o <<Form, Filters, Chart, Table, MapOf>> \o Grids \o Switches \o Structure)
    \cup Writes(<<FragmentDecl, FragmentRef, Mount>>)
    \cup PartsShown \cup PartsTaken \cup PartsTabled \cup PartsHeld
AuthoredNodes ==
    {Node(kind) : kind \in AuthoredKinds} \cup Writes(<<Envelope>>)
    \cup Holding(Envelope, "accessibility", Writes(<<Accessible>>) \ {Obj(NoMembers)})
    \cup Holding(Envelope, "style", Writes(<<SemanticStyle>>) \ {Obj(NoMembers)})
    \cup Holding(Envelope, "state", Writes(<<StateBehaviour>>) \ {Obj(NoMembers)})

(***************************************************************************)
(* The operations a host or the differ sends.                              *)
(***************************************************************************)
Target == Put("target", Key)
Toned  == Obj([tone |-> Str("Brand")])
Removal == Class("RemoveNode", <<Target>>)
Ops == <<
    Class("EditNode", <<Put("newKind", Get(Kid, "kind")), Target>>),
    Class("UpdateProp", <<Put("path", Key), Target, Either("value", Txt, Obj([amount |-> Arr(<<Half(5)>>)]))>>),
    Class("ReplaceBinding", <<Put("binding", Live), Put("slot", Key), Target>>),
    Class("UpdateStyle", <<Either("style", Obj(NoMembers), Toned), Target>>),
    Class("PatchStyle", <<Either("style", Toned, Obj([tone |-> Str("Default")])), Target>>),
    Class("UpdateState", <<Either("state", Obj(NoMembers), Obj([onEmpty |-> Kid])), Target>>),
    Class("UpdateAccessibility", <<Either("accessibility", Obj(NoMembers), Obj([role |-> Key])), Target>>),
    Class("UpdateTooltip", <<Target, May("tooltip", Txt)>>)>>
Placements == <<
    Class("InsertChild", <<Put("child", Kid), Put("parentId", Key)>>), Removal,
    Class("MoveNode", <<Put("newParentId", Key), Target>>),
    Class("ReorderChildren", <<Listed("newOrder", Key), Put("parentId", Key)>>),
    Class("ReplaceRoot", <<Put("node", Kid)>>),
    Class("Batch", <<Listed("ops", Least(Removal))>>)>>
AuthoredOps == Writes(Ops \o Placements)
=============================================================================
