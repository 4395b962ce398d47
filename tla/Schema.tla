------------------------------- MODULE Schema -------------------------------
(***************************************************************************)
(* The vocabulary of the wire format as data (schema/generated.py): which  *)
(* members each node kind, record, union case and operation carries, how   *)
(* optional each is, and the default that leaving it out means.            *)
(***************************************************************************)
EXTENDS Wire

(***************************************************************************)
(* Types.  A type is a tuple headed by its form.                           *)
(***************************************************************************)
Text   == <<"text">>
IntT   == <<"int">>
Float  == <<"float">>
BoolT  == <<"bool">>
NodeT  == <<"node">>
Fn     == <<"fn">>        \* a host closure: only its presence is on the wire
Json   == <<"json">>
Hosted == <<"hosted">>    \* read by a reader of its own
KindT  == <<"kind">>
OpT    == <<"op">>
EnumOf(n)    == <<"enum", n>>
RecordOf(n)  == <<"record", n>>
UnionOf(n)   == <<"union", n>>
ListOf(t)    == <<"list", t>>
MapOf(t)     == <<"map", t>>
BindingOf(t) == <<"binding", t>>

(***************************************************************************)
(* Members.  A member of rule "host" has nothing on the wire.              *)
(***************************************************************************)
Member(n, t, r, d) == [name |-> n, type |-> t, rule |-> r, default |-> d]
Req(n, t)     == Member(n, t, "required", Null)
Opt(n, t)     == Member(n, t, "optional", Null)
Omit(n, t, d) == Member(n, t, "omit", d)
Host(n)       == Member(n, Fn, "host", Null)

Names(plan)   == {plan[i].name : i \in DOMAIN plan}
NamesIn(plan) == [i \in DOMAIN plan |-> plan[i].name]

\* The members of the node kinds, Badge to Form.
Kinds_Badge_Form == [
   Badge |-> <<Req("label", UnionOf("TextSource")), Omit("variant", EnumOf("BadgeVariant"), Str("Neutral"))>>,
   Box |-> <<Req("children", ListOf(NodeT)), Opt("heading", UnionOf("TextSource")),
      Req("layout", UnionOf("BoxLayout")), Req("role", EnumOf("BoxRole")),
      Omit("keepTogether", BoolT, Bool(FALSE)), Omit("breakBefore", BoolT, Bool(FALSE))>>,
   Button |-> <<Req("label", UnionOf("TextSource")), Req("onClick", UnionOf("Action")),
      Omit("variant", EnumOf("ButtonVariant"), Str("Secondary")), Opt("icon", Text), Host("tooltip"),
      Opt("disabled", BindingOf(BoolT)), Opt("affordance", RecordOf("Affordance"))>>,
   Callout |-> <<Req("body", UnionOf("TextSource")), Omit("dismissable", BoolT, Bool(FALSE)),
      Omit("tone", EnumOf("ToneVariant"), Str("Default")), Opt("heading", UnionOf("TextSource")),
      Opt("icon", Text)>>,
   Chart |-> <<Req("kind", EnumOf("ChartKind")), Req("source", BindingOf(Hosted)),
      Omit("stacked", BoolT, Bool(FALSE)), Req("xField", Text), Req("yFields", ListOf(Text)),
      Opt("title", UnionOf("TextSource")), Opt("valueFormat", UnionOf("Format")),
      Opt("xTitle", UnionOf("TextSource")), Opt("yTitle", UnionOf("TextSource")),
      Opt("subtitle", UnionOf("TextSource")), Opt("legendPosition", EnumOf("ChartLegendPosition")),
      Opt("dataLabels", EnumOf("ChartDataLabels")), Opt("xScale", EnumOf("ChartXScale")),
      Opt("annotations", ListOf(UnionOf("ChartAnnotation"))), Opt("onPointClick", Fn)>>,
   CodeBlock |-> <<Req("code", Text), Omit("copyable", BoolT, Bool(TRUE)),
      Omit("highlightLines", ListOf(IntT), Arr(<<>>)), Req("language", Text),
      Omit("lineNumbers", BoolT, Bool(FALSE))>>,
   Custom |-> <<Req("moduleId", Text), Req("componentId", Text), Req("props", MapOf(Json)),
      Opt("contentHash", RecordOf("ContentHash")), Opt("exposedNodeIds", ListOf(Text))>>,
   DataGrid |-> <<Req("columns", ListOf(RecordOf("ColumnErased"))), Omit("editable", BoolT, Bool(FALSE)),
      Opt("rowKey", Fn), Opt("rowKeyField", Text), Opt("sortStateKey", Text), Opt("pageSize", IntT),
      Opt("pageStateKey", Text), Opt("defaultSort", RecordOf("DefaultSort")), Opt("editStateKey", Text),
      Omit("reorderable", BoolT, Bool(FALSE)), Opt("transferInKey", Text), Opt("transferOutKey", Text),
      Omit("keepRowsTogether", BoolT, Bool(FALSE)), Omit("repeatHeader", BoolT, Bool(FALSE)),
      Omit("exportable", BoolT, Bool(FALSE)), Opt("windowStateKey", Text), Opt("rowTotal", BindingOf(IntT)),
      Req("source", BindingOf(Hosted)), Opt("staticRows", RecordOf("StaticRows")), Opt("onRowClick", Fn)>>,
   Disclosure |-> <<Req("children", ListOf(NodeT)), Req("defaultOpen", BoolT),
      Req("heading", UnionOf("TextSource")), Opt("onToggle", Fn), Req("open", BindingOf(BoolT))>>,
   Drawing |-> <<Opt("description", UnionOf("TextSource")), Req("shapes", ListOf(UnionOf("Shape"))),
      Req("style", RecordOf("DrawStyle")), Opt("title", UnionOf("TextSource")),
      Req("viewBox", RecordOf("ViewBox"))>>,
   Embed |-> <<Omit("aspectRatio", EnumOf("ImageAspect"), Str("Natural")),
      Omit("permissions", ListOf(EnumOf("EmbedPermission")), Arr(<<>>)), Req("src", BindingOf(Text)),
      Req("title", UnionOf("TextSource"))>>,
   ErrorBoundary |-> <<Req("child", NodeT), Req("fallback", NodeT)>>,
   Fact |-> <<Omit("emphasis", BoolT, Bool(FALSE)), Opt("help", UnionOf("TextSource")), Opt("icon", Text),
      Req("label", UnionOf("TextSource")), Omit("tone", EnumOf("ToneVariant"), Str("Default")),
      Req("value", UnionOf("TextSource")), Opt("reference", Text)>>,
   FileUpload |-> <<Req("accept", ListOf(Text)), Req("label", UnionOf("TextSource")),
      Omit("multiple", BoolT, Bool(FALSE)), Opt("onSelect", Fn), Opt("disabled", BindingOf(BoolT)),
      Omit("acceptPaste", BoolT, Bool(FALSE)), Omit("dropTarget", BoolT, Bool(FALSE)),
      Opt("capture", EnumOf("CaptureSource")), Opt("destination", Text), Opt("maxBytes", IntT),
      Opt("maxFiles", IntT)>>,
   Filters |-> <<Req("items", ListOf(RecordOf("FilterSpec")))>>,
   Form |-> <<Req("fields", ListOf(RecordOf("FormField"))), Req("onSubmit", UnionOf("Action")),
      Req("submitLabel", UnionOf("TextSource")), Opt("disabled", BindingOf(BoolT))>>]

\* The members of the node kinds, FragmentDecl to Sparkline.
Kinds_FragmentDecl_Sparkline == [
   FragmentDecl |-> <<Req("body", NodeT), Req("name", Text),
      Omit("holes", ListOf(UnionOf("HoleDecl")), Arr(<<>>)),
      Omit("effect", RecordOf("EffectClass"), Obj([determinism |-> Str("Deterministic"), hostEffect |-> Str("Pure")]))>>,
   FragmentRef |-> <<Req("name", Text), Opt("args", MapOf(UnionOf("FragmentArg")))>>,
   Heading |-> <<Req("level", IntT), Req("text", UnionOf("TextSource")),
      Omit("variant", EnumOf("HeadingVariant"), Str("Standard"))>>,
   Icon |-> <<Req("icon", Text), Omit("size", EnumOf("IconSize"), Str("Medium")),
      Omit("tone", EnumOf("ToneVariant"), Str("Default")), Opt("label", Text)>>,
   Image |-> <<Req("alt", UnionOf("TextSource")), Req("src", BindingOf(Text)),
      Omit("variant", EnumOf("ImageVariant"), Str("Default")), Omit("fit", EnumOf("ImageFit"), Str("Natural")),
      Omit("aspectRatio", EnumOf("ImageAspect"), Str("Natural")),
      Omit("loading", EnumOf("ImageLoading"), Str("Eager")),
      Omit("srcSet", ListOf(RecordOf("SrcSetEntry")), Arr(<<>>)), Omit("expandable", BoolT, Bool(FALSE)),
      Opt("caption", UnionOf("TextSource"))>>,
   LabelValueRow |-> <<Omit("emphasis", BoolT, Bool(FALSE)),
      Omit("format", UnionOf("CellFormat"), Case("None", NoMembers)), Req("label", UnionOf("TextSource")),
      Req("value", BindingOf(Float)), Opt("help", UnionOf("TextSource"))>>,
   Link |-> <<Req("href", BindingOf(Text)), Req("label", UnionOf("TextSource")),
      Omit("download", BoolT, Bool(FALSE)), Opt("rel", Text), Opt("target", Text),
      Opt("protection", EnumOf("LinkProtection"))>>,
   List |-> <<Req("items", ListOf(UnionOf("TextSource"))), Omit("ordered", BoolT, Bool(FALSE))>>,
   Map |-> <<Req("centreLatitude", Float), Req("centreLongitude", Float),
      Req("source", BindingOf(ListOf(RecordOf("MapMarker")))), Req("zoom", IntT), Opt("onMarkerClick", Fn)>>,
   Markdown |-> <<Omit("citations", ListOf(RecordOf("MarkdownCitation")), Arr(<<>>)),
      Req("text", UnionOf("TextSource"))>>,
   Math |-> <<Req("source", Text), Req("display", EnumOf("MathDisplay"))>>,
   Media |-> <<Omit("controls", BoolT, Bool(TRUE)), Req("kind", UnionOf("MediaKind")),
      Req("label", UnionOf("TextSource")), Omit("loop", BoolT, Bool(FALSE)), Req("src", BindingOf(Text)),
      Omit("tracks", ListOf(RecordOf("TrackEntry")), Arr(<<>>)), Opt("transcript", UnionOf("TextSource"))>>,
   Metric |-> <<Req("label", UnionOf("TextSource")), Req("value", BindingOf(Float)),
      Omit("format", UnionOf("CellFormat"), Case("None", NoMembers)),
      Omit("tone", EnumOf("ToneVariant"), Str("Default")),
      Omit("weight", EnumOf("StyleWeight"), Str("Standard")),
      Omit("emphasis", EnumOf("Emphasis"), Str("Normal")), Opt("trend", BindingOf(Float)),
      Opt("trendFormat", UnionOf("CellFormat")),
      Omit("trendPolarity", EnumOf("TrendPolarity"), Str("HigherIsBetter")),
      Omit("comparisons", ListOf(RecordOf("MetricComparison")), Arr(<<>>)), Opt("icon", Text),
      Opt("subtext", UnionOf("TextSource"))>>,
   Modal |-> <<Req("children", ListOf(NodeT)), Omit("dismissable", BoolT, Bool(TRUE)),
      Opt("onDismiss", UnionOf("Action")), Req("open", BindingOf(BoolT)), Opt("heading", UnionOf("TextSource")),
      Omit("modality", EnumOf("ModalityKind"), Str("Modal")), Opt("anchor", Text)>>,
   Mount |-> <<Req("capabilities", ListOf(Text)), Req("channel", RecordOf("GuestChannel")),
      Opt("inputs", MapOf(UnionOf("FragmentArg"))), Opt("onBubble", Fn), Req("scopeId", Text)>>,
   Progress |-> <<Req("fraction", BindingOf(Float)), Omit("indeterminate", BoolT, Bool(FALSE)),
      Omit("tone", EnumOf("ToneVariant"), Str("Default")), Opt("label", UnionOf("TextSource")),
      Opt("caveat", UnionOf("TextSource"))>>,
   ScrollArea |-> <<Req("children", ListOf(NodeT)), Req("orientation", EnumOf("ScrollOrientation")),
      Opt("maxHeight", IntT), Opt("maxWidth", IntT)>>,
   Select |-> <<Req("label", UnionOf("TextSource")), Opt("onChange", Fn), Opt("onChangeMulti", Fn),
      Req("source", BindingOf(ListOf(RecordOf("SelectOption")))), Opt("value", BindingOf(Text)),
      Opt("placeholder", UnionOf("TextSource")), Opt("disabled", BindingOf(BoolT)), Opt("multiple", BoolT),
      Opt("values", BindingOf(ListOf(Text))), Opt("affordance", RecordOf("Affordance")),
      Omit("groups", ListOf(RecordOf("SelectOptionGroup")), Arr(<<>>))>>,
   Skeleton |-> <<Req("rows", IntT)>>,
   Sparkline |-> <<Req("source", BindingOf(ListOf(Float)))>>]

\* The members of the node kinds, SplitPanel to Tree.
Kinds_SplitPanel_Tree == [
   SplitPanel |-> <<Req("children", ListOf(NodeT)), Req("weight", Float)>>,
   Stepper |-> <<Omit("activeStep", BindingOf(IntT), Case("Static", [value |-> Int32(0)])),
      Req("children", ListOf(NodeT)), Opt("onSelect", Fn)>>,
   SummaryList |-> <<Req("children", ListOf(NodeT)), Opt("heading", UnionOf("TextSource"))>>,
   Switch |-> <<Opt("autoAdvanceMs", IntT), Req("cases", ListOf(RecordOf("SwitchCase"))), Req("default", NodeT),
      Opt("on", BindingOf(Text)), Opt("stateKey", Text)>>,
   Tabs |-> <<Omit("activeIndex", BindingOf(IntT), Case("Static", [value |-> Int32(0)])),
      Req("children", ListOf(NodeT)), Omit("orientation", EnumOf("Orientation"), Str("Horizontal")),
      Opt("onSelect", Fn), Opt("onSelectTag", Fn), Opt("tabHeaders", ListOf(RecordOf("TabHeader"))),
      Opt("tabTags", ListOf(Text)), Opt("activeTag", BindingOf(Text))>>,
   Toast |-> <<Omit("dismissable", BoolT, Bool(TRUE)), Req("message", UnionOf("TextSource")),
      Req("open", BindingOf(BoolT)), Omit("tone", EnumOf("ToneVariant"), Str("Default"))>>,
   Tree |-> <<Opt("expandedStateKey", Text), Req("items", ListOf(RecordOf("TreeItem"))), Opt("onSelect", Fn),
      Opt("selectionStateKey", Text)>>]

KindFields == Kinds_Badge_Form @@ Kinds_FragmentDecl_Sparkline @@ Kinds_SplitPanel_Tree

\* The node envelope beside id and kind.
NodeFields == <<Opt("accessibility", RecordOf("Accessibility")), Host("extraAttributes"),
   Opt("fallback", NodeT), Host("motion"), Opt("state", RecordOf("StateBehaviour")),
   Opt("style", RecordOf("SemanticStyle")), Opt("tooltip", UnionOf("TextSource")),
   Opt("visible", BindingOf(BoolT))>>

\* The members of the records, Accessibility to SemanticStyle.
Records_Accessibility_SemanticStyle == [
   Accessibility |-> <<Opt("describedBy", Text), Opt("hidden", BindingOf(BoolT)), Opt("label", BindingOf(Text)),
      Opt("labelledBy", Text), Opt("liveRegion", EnumOf("LiveRegionKind")), Opt("role", Hosted),
      Opt("speak", UnionOf("TextSource"))>>,
   Affordance |-> <<Omit("patterns", ListOf(Text), Arr(<<>>)), Omit("readPatterns", ListOf(Text), Arr(<<>>)),
      Omit("aliases", ListOf(RecordOf("AffordanceAlias")), Arr(<<>>)), Opt("description", Text),
      Omit("clearable", BoolT, Bool(FALSE)), Omit("neverControllable", BoolT, Bool(FALSE))>>,
   AffordanceAlias |-> <<Req("alias", Text), Req("value", Text)>>,
   ButtonGroupItem |-> <<Req("label", UnionOf("TextSource")), Opt("onClick", Fn)>>,
   ColumnErased |-> <<Opt("field", Text), Opt("sortable", BoolT), Opt("editable", BoolT),
      Omit("format", UnionOf("CellFormat"), Case("None", NoMembers)), Req("kind", UnionOf("CellKindErased")),
      Req("label", Text), Opt("value", Fn), Omit("width", UnionOf("ColumnWidth"), Case("Auto", NoMembers))>>,
   CompareRule |-> <<Req("against", BindingOf(Json)), Req("op", EnumOf("CompareOp"))>>,
   ContentHash |-> <<Req("algorithm", Text), Req("hash", Text), Req("strictness", EnumOf("HashStrictness"))>>,
   DateTimeRangePair |-> <<Req("from", Text), Req("to", Text)>>,
   DefaultSort |-> <<Req("column", IntT), Req("direction", EnumOf("SortDirection"))>>,
   DrawPoint |-> <<Req("x", Float), Req("y", Float)>>,
   DrawStyle |-> <<Opt("emphasis", EnumOf("Emphasis")), Opt("fill", BindingOf(Text)), Opt("fontFamily", Text),
      Opt("fontSize", Float), Opt("markId", Text), Opt("opacity", BindingOf(Float)), Opt("rotation", Float),
      Opt("stroke", BindingOf(Text)), Opt("strokeWidth", BindingOf(Float)),
      Opt("textAnchor", EnumOf("TextAnchor")), Opt("tip", UnionOf("TextSource"))>>,
   EffectClass |-> <<Req("determinism", EnumOf("DeterminismSource")), Req("hostEffect", EnumOf("HostEffect"))>>,
   FieldRule |-> <<Opt("compare", RecordOf("CompareRule")), Opt("format", EnumOf("TextFormat")),
      Opt("maxLength", IntT), Opt("message", UnionOf("TextSource")), Opt("minLength", IntT),
      Opt("pattern", Text)>>,
   FilterSpec |-> <<Req("kind", UnionOf("FormFieldKind")), Req("label", UnionOf("TextSource")),
      Req("name", Text)>>,
   FormField |-> <<Req("id", Text), Req("kind", UnionOf("FormFieldKind")), Req("label", UnionOf("TextSource")),
      Omit("required", BoolT, Bool(FALSE)), Opt("help", UnionOf("TextSource")),
      Opt("rule", RecordOf("FieldRule")), Opt("affordance", RecordOf("Affordance"))>>,
   GuestChannel |-> <<Req("direction", EnumOf("ChannelDirection")), Opt("messageShape", Text)>>,
   InvokeArg |-> <<Req("addr", Text), Req("value", Text)>>,
   MapMarker |-> <<Req("label", Text), Req("latitude", Float), Req("longitude", Float)>>,
   MarkdownCitation |-> <<Opt("label", UnionOf("TextSource")), Req("name", Text), Req("reference", Text)>>,
   MetricComparison |-> <<Req("label", UnionOf("TextSource")), Req("value", BindingOf(Float)),
      Omit("format", UnionOf("CellFormat"), Case("None", NoMembers)),
      Omit("polarity", EnumOf("TrendPolarity"), Str("HigherIsBetter"))>>,
   RangePair |-> <<Req("max", Float), Req("min", Float)>>,
   SelectOption |-> <<Req("label", Text), Req("value", Text)>>,
   SelectOptionGroup |-> <<Req("label", Text), Req("values", ListOf(Text))>>,
   SemanticStyle |-> <<Omit("direction", EnumOf("TextDirection"), Str("auto")),
      Omit("emphasis", EnumOf("Emphasis"), Str("Normal")), Omit("role", EnumOf("StyleRole"), Str("None")),
      Omit("tone", EnumOf("ToneVariant"), Str("Default")), Omit("voice", EnumOf("FontVoice"), Str("Default")),
      Omit("weight", EnumOf("StyleWeight"), Str("Standard"))>>]

\* The members of the records, SrcSetEntry to ViewBox.
Records_SrcSetEntry_ViewBox == [
   SrcSetEntry |-> <<Req("src", BindingOf(Text)), Req("width", IntT)>>,
   StateBehaviour |-> <<Opt("onEmpty", NodeT), Opt("onError", Fn), Opt("onLoading", NodeT)>>,
   StaticRows |-> <<Omit("citations", ListOf(RecordOf("TableCitation")), Arr(<<>>)),
      Opt("defaultSort", RecordOf("DefaultSort")), Req("headers", ListOf(UnionOf("TextSource"))),
      Req("rows", ListOf(ListOf(UnionOf("TextSource")))), Opt("sortable", BoolT)>>,
   StyleDelta |-> <<Opt("direction", EnumOf("TextDirection")), Opt("emphasis", EnumOf("Emphasis")),
      Opt("role", EnumOf("StyleRole")), Opt("tone", EnumOf("ToneVariant")), Opt("voice", EnumOf("FontVoice")),
      Opt("weight", EnumOf("StyleWeight"))>>,
   SwitchCase |-> <<Req("child", NodeT), Opt("match", Text), Opt("when", BindingOf(BoolT))>>,
   TabHeader |-> <<Req("label", UnionOf("TextSource")), Opt("icon", Text), Opt("disabled", BindingOf(BoolT))>>,
   TableCitation |-> <<Req("column", IntT), Opt("label", UnionOf("TextSource")), Req("reference", Text),
      Req("row", IntT)>>,
   TrackEntry |-> <<Omit("default", BoolT, Bool(FALSE)), Req("kind", EnumOf("TrackKind")),
      Req("label", UnionOf("TextSource")), Req("src", BindingOf(Text)), Req("srcLang", Text)>>,
   TransformParam |-> <<Req("from", BindingOf(Json)), Req("name", Text)>>,
   TreeItem |-> <<Omit("children", ListOf(RecordOf("TreeItem")), Arr(<<>>)), Opt("icon", Text), Req("id", Text),
      Req("label", UnionOf("TextSource"))>>,
   ViewBox |-> <<Req("height", Float), Req("minX", Float), Req("minY", Float), Req("width", Float)>>]

RecordFields == Records_Accessibility_SemanticStyle @@ Records_SrcSetEntry_ViewBox

\* The cases of Action and their members.
Union_Action == [
   Chain |-> <<Req("ops", ListOf(UnionOf("Action")))>>,
   WriteToClipboard |-> <<Req("text", UnionOf("TextSource"))>>,
   Dispatch |-> <<Host("msg")>>,
   Invoke |-> <<Req("capabilityId", Text), Req("args", ListOf(RecordOf("InvokeArg")))>>,
   ReadFileBody |-> <<Req("fileRef", Text), Host("fileHandle"), Req("encoding", EnumOf("FileReadEncoding")),
      Opt("onRead", Fn)>>,
   Call |-> <<Req("endpoint", Text), Opt("onResult", Fn), Opt("into", UnionOf("CallResultTarget"))>>,
   Navigate |-> <<Req("route", UnionOf("TextSource")), Omit("target", EnumOf("NavigateTarget"), Str("Self"))>>,
   CommitLocal |-> <<Req("nodeId", Text)>>,
   Notify |-> <<Req("channel", Text), Req("payload", Json)>>,
   SetState |-> <<Req("key", Text), Opt("value", Json), Opt("valueFrom", BindingOf(Json))>>,
   AiTool |-> <<Req("toolName", Text), Req("args", Json)>>,
   Confirm |-> <<Req("prompt", UnionOf("TextSource")), Req("onConfirm", UnionOf("Action")),
      Opt("onCancel", UnionOf("Action"))>>,
   Focus |-> <<Req("nodeId", Text)>>] @@ ("Print" :> << >>)

\* The cases of Binding and their members.
Union_Binding == [
   Static |-> <<Opt("value", Json)>>,
   Query |-> <<Req("name", Text), Host("accessor"), Opt("dependsOn", ListOf(Text))>>,
   Filter |-> <<Req("name", Text), Opt("defaultValue", Json)>>,
   Selection |-> <<Req("nodeId", Text), Host("accessor"), Opt("defaultValue", Json), Opt("field", Text)>>,
   State |-> <<Req("key", Text), Opt("defaultValue", Json)>>,
   Now |-> <<Host("accessor"), Opt("grain", EnumOf("TimeGrain"))>>,
   Computed |-> <<Req("fn", Fn)>>,
   Local |-> <<Req("flushOn", UnionOf("LocalFlushTrigger")), Req("format", Fn),
      Req("initialFrom", BindingOf(Json)), Opt("onCommit", Fn), Req("parse", Fn),
      Opt("codec", UnionOf("Format")), Opt("commitTo", Text)>>,
   Format |-> <<Req("source", BindingOf(Float)), Req("format", UnionOf("Format")),
      Req("locale", UnionOf("LocaleSource"))>>,
   I18n |-> <<Req("key", Text), Opt("args", MapOf(BindingOf(Json)))>>,
   Transform |-> <<Req("source", Hosted), Req("pipeline", ListOf(Hosted)),
      Opt("params", ListOf(RecordOf("TransformParam")))>>,
   Expr |-> <<Req("expr", Hosted), Opt("params", ListOf(RecordOf("TransformParam")))>>,
   Invoke |-> <<Req("capabilityId", Text), Req("args", ListOf(RecordOf("InvokeArg")))>>]

\* The cases of BoxLayout and their members.
Union_BoxLayout == [
   Auto |-> << >>,
   Flex |-> <<Req("direction", EnumOf("Orientation")), Omit("wrap", BoolT, Bool(FALSE)), Opt("gap", IntT)>>,
   Grid |-> <<Req("cols", IntT), Opt("templateColumns", Text), Opt("gap", IntT)>>,
   Masonry |-> <<Req("cols", IntT), Opt("gap", IntT)>>]

\* The cases of CallResultTarget and their members.
Union_CallResultTarget == [
   State |-> <<Req("key", Text)>>,
   Query |-> <<Req("name", Text)>>]

\* The cases of CellFormat and their members.
Union_CellFormat == [
   None |-> << >>,
   Number |-> <<Opt("decimals", IntT), Opt("locale", UnionOf("LocaleSource"))>>,
   Currency |-> <<Req("code", Text), Opt("decimals", IntT), Opt("locale", UnionOf("LocaleSource"))>>,
   Percent |-> <<Opt("decimals", IntT), Opt("locale", UnionOf("LocaleSource"))>>,
   SignificantDigits |-> <<Req("digits", IntT)>>,
   DateTime |-> <<Req("format", Text)>>,
   Duration |-> <<Req("unit", EnumOf("DurationUnit")), Req("style", EnumOf("DurationStyle"))>>,
   RelativeTime |-> <<Req("unit", EnumOf("RelativeTimeUnit"))>>,
   Custom |-> <<Req("fn", Fn)>>]

\* The cases of CellKindErased and their members.
Union_CellKindErased == [
   Text |-> << >>,
   Numeric |-> << >>,
   Date |-> << >>,
   Editable |-> <<Opt("onEdit", Fn)>>,
   Checkbox |-> <<Req("get", Fn), Opt("onToggle", Fn)>>,
   Button |-> <<Req("label", UnionOf("TextSource")), Opt("onClick", Fn)>>,
   ButtonGroup |-> <<Req("buttons", ListOf(RecordOf("ButtonGroupItem")))>>,
   Link |-> <<Req("hrefFn", Fn), Req("labelFn", Fn)>>,
   Pill |-> <<Req("labelFn", Fn), Req("toneFn", Fn)>>,
   TonedPill |-> <<Req("field", Text), Req("map", MapOf(EnumOf("ToneVariant"))),
      Omit("default", EnumOf("ToneVariant"), Str("Default"))>>,
   Progress |-> <<Req("fractionFn", Fn), Opt("labelFn", Fn)>>,
   Custom |-> <<Req("fn", Fn)>>]

\* The cases of ChartAnnotation and their members.
Union_ChartAnnotation == [
   ReferenceLine |-> <<Req("value", Float), Opt("label", UnionOf("TextSource"))>>,
   EventMarker |-> <<Req("at", UnionOf("ChartAnnotationX")), Opt("label", UnionOf("TextSource"))>>,
   RangeBand |-> <<Req("range", UnionOf("ChartAnnotationRange")), Opt("label", UnionOf("TextSource"))>>]

\* The cases of ChartAnnotationRange and their members.
Union_ChartAnnotationRange == [
   ValueRange |-> <<Req("from", Float), Req("to", Float)>>,
   XRange |-> <<Req("from", UnionOf("ChartAnnotationX")), Req("to", UnionOf("ChartAnnotationX"))>>]

\* The cases of ChartAnnotationX and their members.
Union_ChartAnnotationX == [
   Category |-> <<Req("key", Text)>>,
   Date |-> <<Req("iso", Text)>>]

\* The cases of ColumnWidth and their members.
Union_ColumnWidth == [
   Auto |-> << >>,
   Fixed |-> <<Req("pixels", IntT)>>,
   Flex |-> <<Req("weight", Float)>>]

\* The cases of CurveCommand and their members.
Union_CurveCommand == [
   MoveTo |-> <<Req("to", RecordOf("DrawPoint"))>>,
   LineTo |-> <<Req("to", RecordOf("DrawPoint"))>>,
   CubicTo |-> <<Req("control1", RecordOf("DrawPoint")), Req("control2", RecordOf("DrawPoint")),
      Req("to", RecordOf("DrawPoint"))>>,
   QuadraticTo |-> <<Req("control", RecordOf("DrawPoint")), Req("to", RecordOf("DrawPoint"))>>,
   Close |-> << >>]

\* The cases of FormFieldKind and their members.
Union_FormFieldKind == [
   Text |-> <<Opt("value", Hosted), Opt("onChange", Fn)>>,
   Number |-> <<Opt("value", Hosted), Opt("onChange", Fn)>>,
   Checkbox |-> <<Opt("value", Hosted), Opt("onChange", Fn)>>,
   Toggle |-> <<Opt("value", Hosted), Opt("onChange", Fn)>>,
   Choice |-> <<Req("options", BindingOf(ListOf(RecordOf("SelectOption")))), Opt("value", Hosted),
      Opt("onChange", Fn)>>,
   TextArea |-> <<Opt("value", Hosted), Opt("onChange", Fn), Req("rows", IntT)>>,
   RangedNumber |-> <<Opt("value", Hosted), Opt("onChange", Fn), Opt("min", Float), Opt("max", Float),
      Opt("step", Float)>>,
   Range |-> <<Opt("value", Hosted), Opt("onChange", Fn), Opt("min", Float), Opt("max", Float),
      Opt("step", Float)>>,
   SegmentedChoice |-> <<Req("options", BindingOf(ListOf(RecordOf("SelectOption")))), Opt("value", Hosted),
      Opt("onChange", Fn), Omit("orientation", EnumOf("Orientation"), Str("Horizontal"))>>,
   DateTime |-> <<Opt("value", Hosted), Opt("onChange", Fn), Req("variant", EnumOf("DateTimeVariant")),
      Opt("min", Text), Opt("max", Text), Opt("step", Float)>>,
   DateTimeRange |-> <<Opt("value", Hosted), Opt("onChange", Fn), Req("variant", EnumOf("DateTimeVariant")),
      Opt("min", Text), Opt("max", Text), Opt("step", Float)>>,
   Combobox |-> <<Omit("allowFreeText", BoolT, Bool(FALSE)), Opt("onChange", Fn),
      Req("options", BindingOf(ListOf(RecordOf("SelectOption")))), Opt("value", Hosted)>>,
   Rating |-> <<Omit("allowHalf", BoolT, Bool(FALSE)), Req("max", IntT), Opt("onChange", Fn),
      Opt("value", Hosted)>>,
   Color |-> <<Opt("onChange", Fn), Opt("value", Hosted)>>,
   Tokens |-> <<Omit("allowFreeText", BoolT, Bool(TRUE)), Opt("onChange", Fn),
      Opt("suggestions", BindingOf(ListOf(RecordOf("SelectOption")))), Opt("value", Hosted)>>]

\* The cases of Format and their members.
Union_Format == [
   Number |-> <<Opt("decimals", IntT)>>,
   Currency |-> <<Req("isoCode", Text), Opt("decimals", IntT)>>,
   Percent |-> <<Opt("decimals", IntT)>>,
   DateTime |-> <<Opt("dateStyle", EnumOf("DateStyle")), Opt("timeStyle", EnumOf("TimeStyle"))>>,
   RelativeTime |-> <<Req("unit", EnumOf("RelativeTimeUnit"))>>,
   Duration |-> <<Req("unit", EnumOf("DurationUnit")), Req("style", EnumOf("DurationStyle"))>>,
   Since |-> <<Opt("unit", EnumOf("RelativeTimeUnit"))>>]

\* The cases of FragmentArg and their members.
Union_FragmentArg == [
   Int |-> <<Req("value", IntT)>>,
   Float |-> <<Req("value", Float)>>,
   Bool |-> <<Req("value", BoolT)>>,
   Str |-> <<Req("value", Text)>>,
   SlotArg |-> <<Req("tree", NodeT)>>]

\* The cases of HoleDecl and their members.
Union_HoleDecl == [
   Value |-> <<Req("name", Text), Req("space", UnionOf("HoleValueSpace")), Opt("default", UnionOf("Scalar"))>>,
   Slot |-> <<Req("name", Text), Opt("kindConstraint", Text)>>,
   Repeat |-> <<Req("name", Text), Req("countSpace", UnionOf("HoleValueSpace"))>>]

\* The cases of HoleValueSpace and their members.
Union_HoleValueSpace == [
   IntRange |-> <<Req("min", IntT), Req("max", IntT)>>,
   FloatRange |-> <<Req("min", Float), Req("max", Float)>>,
   StringLen |-> <<Req("minLen", IntT), Req("maxLen", IntT)>>,
   Enum |-> <<Req("choices", ListOf(Text))>>,
   AnyString |-> << >>]

\* The cases of LocalFlushTrigger and their members.
Union_LocalFlushTrigger == [
   OnBlur |-> << >>,
   OnSubmit |-> << >>,
   OnDebounce |-> <<Req("milliseconds", IntT)>>,
   OnCommitAction |-> << >>]

\* The cases of LocaleSource and their members.
Union_LocaleSource == [
   Ambient |-> << >>,
   Explicit |-> <<Req("tag", Text)>>]

\* The cases of MediaKind and their members.
Union_MediaKind == [
   Video |-> <<Omit("autoplay", BoolT, Bool(FALSE)), Opt("poster", BindingOf(Text))>>,
   Audio |-> << >>]

\* The cases of Scalar and their members.
Union_Scalar == [
   Int |-> <<Req("value", IntT)>>,
   Float |-> <<Req("value", Float)>>,
   Bool |-> <<Req("value", BoolT)>>,
   Str |-> <<Req("value", Text)>>]

\* The cases of Shape and their members.
Union_Shape == [
   Group |-> <<Req("children", ListOf(UnionOf("Shape"))), Req("style", RecordOf("DrawStyle"))>>,
   Rectangle |-> <<Req("x", Float), Req("y", Float), Req("width", Float), Req("height", Float),
      Opt("cornerRadius", Float), Req("style", RecordOf("DrawStyle"))>>,
   Line |-> <<Req("x1", Float), Req("y1", Float), Req("x2", Float), Req("y2", Float),
      Req("style", RecordOf("DrawStyle"))>>,
   Polyline |-> <<Req("points", ListOf(RecordOf("DrawPoint"))), Req("style", RecordOf("DrawStyle"))>>,
   Polygon |-> <<Req("points", ListOf(RecordOf("DrawPoint"))), Req("style", RecordOf("DrawStyle"))>>,
   Curve |-> <<Req("commands", ListOf(UnionOf("CurveCommand"))), Req("style", RecordOf("DrawStyle"))>>,
   Circle |-> <<Req("cx", Float), Req("cy", Float), Req("r", Float), Req("style", RecordOf("DrawStyle"))>>,
   Ellipse |-> <<Req("cx", Float), Req("cy", Float), Req("rx", Float), Req("ry", Float),
      Req("style", RecordOf("DrawStyle"))>>,
   Label |-> <<Req("x", Float), Req("y", Float), Req("text", UnionOf("TextSource")),
      Req("style", RecordOf("DrawStyle"))>>]

\* The cases of TextSource and their members.
Union_TextSource == [
   Literal |-> <<Req("text", Text)>>,
   Bound |-> <<Req("binding", BindingOf(Text))>>,
   I18n |-> <<Req("key", Text), Req("args", MapOf(Hosted))>>]

UnionFields == [Action |-> Union_Action, Binding |-> Union_Binding, BoxLayout |-> Union_BoxLayout,
   CallResultTarget |-> Union_CallResultTarget, CellFormat |-> Union_CellFormat,
   CellKindErased |-> Union_CellKindErased, ChartAnnotation |-> Union_ChartAnnotation,
   ChartAnnotationRange |-> Union_ChartAnnotationRange, ChartAnnotationX |-> Union_ChartAnnotationX,
   ColumnWidth |-> Union_ColumnWidth, CurveCommand |-> Union_CurveCommand,
   FormFieldKind |-> Union_FormFieldKind, Format |-> Union_Format, FragmentArg |-> Union_FragmentArg,
   HoleDecl |-> Union_HoleDecl, HoleValueSpace |-> Union_HoleValueSpace,
   LocalFlushTrigger |-> Union_LocalFlushTrigger, LocaleSource |-> Union_LocaleSource,
   MediaKind |-> Union_MediaKind, Scalar |-> Union_Scalar, Shape |-> Union_Shape,
   TextSource |-> Union_TextSource]

\* Every enum, in declaration order.
EnumCases == [
   BadgeVariant |-> <<"Neutral", "Brand", "Success", "Warning", "Critical", "Info">>,
   BoxRole |-> <<"Dashboard", "Card", "Group", "Separator">>,
   ButtonVariant |-> <<"Primary", "Secondary", "Tertiary", "Destructive">>,
   CaptureSource |-> <<"Camera", "Microphone">>, ChannelDirection |-> <<"OutOnly", "TwoWay">>,
   ChartDataLabels |-> <<"Off", "Ends">>, ChartKind |-> <<"Line", "Bar", "Area", "Pie", "Scatter", "Heatmap">>,
   ChartLegendPosition |-> <<"Top", "Right", "Bottom", "None">>, ChartXScale |-> <<"Category", "Temporal">>,
   CompareOp |-> <<"eq", "neq", "lt", "lte", "gt", "gte">>, DateStyle |-> <<"Short", "Medium", "Long", "Full">>,
   DateTimeVariant |-> <<"Date", "Time", "DateTime">>,
   DeterminismSource |-> <<"Deterministic", "Clock", "Random", "Network">>,
   DurationStyle |-> <<"Compact", "Clock", "Long">>, DurationUnit |-> <<"Seconds", "Minutes", "Hours">>,
   EmbedPermission |-> <<"AllowScripts", "AllowSameOrigin", "AllowForms", "AllowFullscreen">>,
   Emphasis |-> <<"Quiet", "Normal", "Loud">>, FileReadEncoding |-> <<"Text", "Base64", "DataUrl">>,
   FontVoice |-> <<"Default", "Display", "Structural">>,
   HashStrictness |-> <<"StrictReplay", "AdvisoryWarning", "Enforced">>,
   HeadingVariant |-> <<"Standard", "Eyebrow", "Caption", "Lead">>,
   HostEffect |-> <<"Pure", "ReadsHost", "WritesHost">>, IconSize |-> <<"Small", "Medium", "Large">>,
   ImageAspect |-> <<"Natural", "Square", "FourThree", "ThreeTwo", "SixteenNine">>,
   ImageFit |-> <<"Natural", "Cover", "Contain">>, ImageLoading |-> <<"Eager", "Lazy">>,
   ImageVariant |-> <<"Default", "Avatar", "Rounded">>, LinkProtection |-> <<"email">>,
   LiveRegionKind |-> <<"polite", "assertive", "off">>, MathDisplay |-> <<"Inline", "Block">>,
   ModalityKind |-> <<"Modal", "Popover">>,
   Motion |-> <<"None", "PulseDuringLoad", "FadeInOnMount", "SlideInFromBelow", "ShakeOnError", "RotateOnRefresh", "SlideInFromRight", "ExpandCollapse", "CrossFade", "SlideBetween">>,
   NavigateTarget |-> <<"Self", "Blank">>, Orientation |-> <<"Vertical", "Horizontal">>,
   RelativeTimeUnit |-> <<"Second", "Minute", "Hour", "Day", "Week", "Month", "Year">>,
   ScrollOrientation |-> <<"Vertical", "Horizontal", "Both">>, SortDirection |-> <<"asc", "desc">>,
   StyleRole |-> <<"None", "Eyebrow", "Data", "Lede", "Caption">>,
   StyleWeight |-> <<"Compact", "Standard", "Spacious">>, TextAnchor |-> <<"Start", "Middle", "End">>,
   TextDirection |-> <<"auto", "ltr", "rtl">>, TextFormat |-> <<"email", "url", "tel">>,
   TimeGrain |-> <<"Second", "Minute", "Hour", "Day">>, TimeStyle |-> <<"Short", "Medium", "Long", "Full">>,
   ToneVariant |-> <<"Default", "Subdued", "Brand", "Success", "Warning", "Critical", "Info">>,
   TrackKind |-> <<"Subtitles", "Captions", "Descriptions", "Chapters">>,
   TrendPolarity |-> <<"HigherIsBetter", "LowerIsBetter">>]

\* The tree operations and their members.
OpFields == [
   Batch |-> <<Req("ops", ListOf(OpT))>>,
   EditNode |-> <<Req("newKind", KindT), Req("target", Text)>>,
   InsertChild |-> <<Req("child", NodeT), Req("parentId", Text)>>,
   MoveNode |-> <<Req("newParentId", Text), Req("target", Text)>>,
   PatchStyle |-> <<Req("style", RecordOf("StyleDelta")), Req("target", Text)>>,
   RemoveNode |-> <<Req("target", Text)>>,
   ReorderChildren |-> <<Req("newOrder", ListOf(Text)), Req("parentId", Text)>>,
   ReplaceBinding |-> <<Req("binding", BindingOf(Json)), Req("slot", Text), Req("target", Text)>>,
   ReplaceRoot |-> <<Req("node", NodeT)>>,
   UpdateAccessibility |-> <<Req("accessibility", RecordOf("Accessibility")), Req("target", Text)>>,
   UpdateProp |-> <<Req("path", Text), Req("target", Text), Req("value", Json)>>,
   UpdateState |-> <<Req("state", RecordOf("StateBehaviour")), Req("target", Text)>>,
   UpdateStyle |-> <<Req("style", RecordOf("SemanticStyle")), Req("target", Text)>>,
   UpdateTooltip |-> <<Req("target", Text), Opt("tooltip", UnionOf("TextSource"))>>]

(***************************************************************************)
(* Tables derived from the rows.                                           *)
(***************************************************************************)
UnionCases(u)   == DOMAIN UnionFields[u]
EnumSet(e)      == {EnumCases[e][i] : i \in DOMAIN EnumCases[e]}
=============================================================================
