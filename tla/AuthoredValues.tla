--------------------------- MODULE AuthoredValues ---------------------------
(***************************************************************************)
(* The typed classes an author builds the parts of a node from             *)
(* (schema/types.py): what each writes for the parameters it was given.    *)
(*                                                                         *)
(* A class is the tag it writes and its members.  A member names the       *)
(* values an author gives its parameter, the default first, and the one    *)
(* value the class leaves out; Drop is a parameter at None, never written. *)
(* What a constructor raises at has no document.                           *)
(***************************************************************************)
EXTENDS Wire

Member(n, values, leaves) == [name |-> n, takes |-> values, leaves |-> leaves]
Put(n, w)         == Member(n, <<w>>, Drop)
Either(n, w, x)   == Member(n, <<w, x>>, Drop)
May(n, w)         == Member(n, <<Drop, w>>, Drop)
Apart(n, d, w)    == Member(n, <<d, w>>, d)
Flag(n)           == Apart(n, Bool(FALSE), Bool(TRUE))
NotFlag(n)        == Apart(n, Bool(TRUE), Bool(FALSE))
Filled(n, w)      == Apart(n, Arr(<<>>), Arr(<<w>>))
Listed(n, w)      == Either(n, Arr(<<>>), Arr(<<w>>))
\* A host closure is written as its presence: there by default, or not.
CLOSURE      == Str("<closure>")
Handles(n)   == Member(n, <<CLOSURE, Drop>>, Drop)
MayHandle(n) == May(n, CLOSURE)

Class(tag, members) == [tag |-> tag, members |-> members]
Plain(members)      == Class("", members)

(***************************************************************************)
(* What a class writes: every parameter at its default, every one at       *)
(* another value, or all but one at the default.                           *)
(***************************************************************************)
Defaults(ms) == [i \in DOMAIN ms |-> 1]
Choices(ms)  == {Defaults(ms), [i \in DOMAIN ms |-> Len(ms[i].takes)]} \cup
                {[Defaults(ms) EXCEPT ![i] = 2] : i \in {j \in DOMAIN ms : Len(ms[j].takes) = 2}}
Lowered(c, choice) ==
    LET given == [i \in DOMAIN c.members |-> c.members[i].takes[choice[i]]]
        kept  == {i \in DOMAIN c.members : given[i] # c.members[i].leaves}
        wire  == [n \in {c.members[i].name : i \in kept} |->
                     given[CHOOSE i \in kept : c.members[i].name = n]]
    IN IF c.tag = "" THEN Obj(wire) ELSE Case(c.tag, wire)
Least(c)    == Lowered(c, Defaults(c.members))
Writes(cs)  == UNION {{Lowered(cs[i], choice) : choice \in Choices(cs[i].members)} : i \in DOMAIN cs}
\* A class holding each of some parts, its other parameters at their defaults.
Holding(c, n, parts) == {With(Least(c), n, part) : part \in parts}
Lists(parts) == {Arr(<<part>>) : part \in parts}

(***************************************************************************)
(* Bindings.                                                               *)
(***************************************************************************)
Key     == Str("region")
Txt     == Str("amount")
Locale  == Case("Explicit", [tag |-> Key])
Live    == Case("State", [key |-> Key])
Fixed(v) == Case("Static", [value |-> v])
Chain   == Case("Chain", [ops |-> Arr(<<>>)])
Kid     == Obj([id |-> Str("floor"), kind |-> Case("Badge", [label |-> Txt])])

\* A binding carries a default only when one was given; None is no value.
Sources == <<
    Class("Static", <<May("value", Txt)>>),
    Class("State", <<Put("key", Key), May("defaultValue", Int32(7))>>),
    Class("Filter", <<Put("name", Key), May("defaultValue", Int32(7))>>),
    Class("Selection", <<Put("nodeId", Key), May("defaultValue", Int32(7)), May("field", Txt)>>),
    Class("Now", <<May("grain", Str("Day"))>>)>>

\* The display formats a value is put into text by.
DisplayFormats == <<
    Class("Number", <<May("decimals", Int32(7))>>),
    Class("Currency", <<Put("isoCode", Txt), May("decimals", Int32(7))>>),
    Class("Percent", <<May("decimals", Int32(7))>>),
    Class("DateTime", <<May("dateStyle", Str("Short")), May("timeStyle", Str("Long"))>>),
    Class("RelativeTime", <<Put("unit", Str("Day"))>>),
    Class("Duration", <<Put("style", Str("Clock")), Put("unit", Str("Hours"))>>),
    Class("Since", <<May("unit", Str("Day"))>>)>>

Locales  == <<Class("Ambient", <<>>), Class("Explicit", <<Put("tag", Key)>>)>>
Triggers == <<Class("OnBlur", <<>>), Class("OnDebounce", <<Put("milliseconds", Int32(7))>>),
              Class("OnSubmit", <<>>), Class("OnCommitAction", <<>>)>>

Formatted == Class("Format", <<Put("format", Least(DisplayFormats[1])), Put("locale", Locale), Put("source", Live)>>)

\* An edit buffer commits through its closure or to a state key: one of them.
Buffer(commits) == Class("Local",
    <<May("codec", Case("Number", NoMembers)), Put("flushOn", Case("OnBlur", NoMembers)), Put("format", CLOSURE),
      Put("initialFrom", Live), commits, Put("parse", CLOSURE)>>)
Buffers == <<Buffer(Put("onCommit", CLOSURE)), Buffer(Put("commitTo", Key))>>

Queries == <<
    Class("Query", <<Put("name", Key), Filled("dependsOn", Txt)>>),
    Class("Invoke", <<Put("capabilityId", Key), Listed("args", Obj([addr |-> Key, value |-> Txt]))>>)>>

AuthoredBindings ==
    Writes(Tail(Sources)) \cup Writes(Queries) \cup Writes(Buffers) \cup Holding(Buffers[1], "flushOn", Writes(Triggers))
    \cup Holding(Formatted, "format", Writes(DisplayFormats)) \cup Holding(Formatted, "locale", Writes(Locales))

(***************************************************************************)
(* Texts, actions, the formats of a cell.                                  *)
(***************************************************************************)
\* A literal is the bare string; the arguments of a message are always written.
AuthoredTexts == {Txt} \cup Writes(<<
    Class("Bound", <<Put("binding", Live)>>),
    Class("I18n", <<Put("key", Key), Either("args", Obj(NoMembers), Obj([amount |-> Live]))>>)>>)

\* Where a SetState takes its value from wins over the value it is given.
Effects == <<
    Class("Chain", <<Listed("ops", Case("Print", NoMembers))>>),
    Class("Dispatch", <<>>),
    Class("Navigate", <<Put("route", Txt), Apart("target", Str("Self"), Str("Blank"))>>),
    Class("SetState", <<Put("key", Key), Put("value", Txt)>>),
    Class("SetState", <<Put("key", Key), Put("valueFrom", Live)>>),
    Class("Notify", <<Put("channel", Key), Put("payload", Txt)>>),
    Class("WriteToClipboard", <<Put("text", Txt)>>)>>

\* What the reader of the document is asked to do.
Requests == <<
    Class("Print", <<>>),
    Class("Confirm", <<May("onCancel", Chain), Put("onConfirm", Chain), Put("prompt", Txt)>>),
    Class("Focus", <<Put("nodeId", Key)>>)>>

\* What calls out of the document.
Calls == <<
    Class("ReadFileBody", <<Either("encoding", Str("Text"), Str("Base64")), Put("fileRef", Key), Handles("onRead")>>),
    Class("CommitLocal", <<Put("nodeId", Key)>>),
    Class("Call", <<Put("endpoint", Key), May("into", Case("State", [key |-> Key])), MayHandle("onResult")>>),
    Class("Call", <<Put("endpoint", Key), Put("into", Case("Query", [name |-> Key]))>>),
    Class("AiTool", <<Put("args", Txt), Put("toolName", Key)>>),
    Class("Invoke", <<Put("capabilityId", Key), Listed("args", Obj([addr |-> Key, value |-> Txt]))>>)>>

CellFormats == <<
    Class("None", <<>>),
    Class("Currency", <<Put("code", Txt), May("decimals", Int32(7)), May("locale", Locale)>>),
    Class("Number", <<May("decimals", Int32(7)), May("locale", Locale)>>),
    Class("Percent", <<May("decimals", Int32(7)), May("locale", Locale)>>),
    Class("SignificantDigits", <<Put("digits", Int32(7))>>),
    Class("DateTime", <<Put("format", Txt)>>),
    Class("Duration", <<Put("style", Str("Clock")), Put("unit", Str("Hours"))>>),
    Class("RelativeTime", <<Put("unit", Str("Day"))>>)>>
Money == Case("Currency", [code |-> Txt])
Format == Apart("format", Case("None", NoMembers), Money)

(***************************************************************************)
(* The node's own records, and the options of a choice.                    *)
(***************************************************************************)
Tone     == Apart("tone", Str("Default"), Str("Brand"))
Weight   == Apart("weight", Str("Standard"), Str("Compact"))
Emphasis == Apart("emphasis", Str("Normal"), Str("Loud"))
Accessible == Plain(<<May("describedBy", Key), May("hidden", Live), May("label", Live), May("labelledBy", Key),
                      May("liveRegion", Str("polite")), May("role", Key), May("speak", Txt)>>)
\* The style names a default role or voice by leaving it out too.
SemanticStyle == Plain(<<Apart("direction", Str("auto"), Str("rtl")), Emphasis,
                         Apart("role", Str("None"), Str("Data")), Tone,
                         Apart("voice", Str("Default"), Str("Display")), Weight>>)
StateBehaviour == Plain(<<May("onEmpty", Kid), MayHandle("onError"), May("onLoading", Kid)>>)

SelectOption == Obj([label |-> Txt, value |-> Key])
OptionGroup  == Obj([label |-> Txt, values |-> Arr(<<Key>>)])
MapMarker    == Obj([label |-> Txt, latitude |-> Half(5), longitude |-> Int32(7)])
TabHeader    == Plain(<<May("disabled", Live), May("icon", Key), Put("label", Txt)>>)
Options      == Fixed(Arr(<<SelectOption>>))

(***************************************************************************)
(* Layouts, shapes, annotations.                                           *)
(***************************************************************************)
Gap     == May("gap", Int32(7))
Layouts == <<
    Class("Flex", <<Either("direction", Str("Vertical"), Str("Horizontal")), Gap, Flag("wrap")>>),
    Class("Grid", <<Either("cols", Int32(12), Int32(7)), Gap, May("templateColumns", Txt)>>),
    Class("Masonry", <<Either("cols", Int32(3), Int32(7)), Gap>>),
    Class("Auto", <<>>)>>

DrawStyle == Plain(<<
    May("emphasis", Str("Loud")), May("fill", Live), May("fontFamily", Txt), May("fontSize", Int32(7)),
    May("markId", Key), May("opacity", Live), May("rotation", Half(5)), May("stroke", Live),
    May("strokeWidth", Live), May("textAnchor", Str("Middle")), May("tip", Txt)>>)
Point   == Obj([x |-> Half(5), y |-> Int32(7)])
ViewBox == Obj([height |-> Int32(7), minX |-> Int32(0), minY |-> Int32(0), width |-> Half(5)])

Strokes == <<
    Class("MoveTo", <<Put("to", Point)>>), Class("LineTo", <<Put("to", Point)>>),
    Class("CubicTo", <<Put("control1", Point), Put("control2", Point), Put("to", Point)>>),
    Class("QuadraticTo", <<Put("control", Point), Put("to", Point)>>), Class("Close", <<>>)>>

\* A shape always writes its style, the empty one too.
Sized(ns) == [i \in DOMAIN ns |-> Put(ns[i], Half(5))] \o <<Either("style", Obj(NoMembers), Obj([fill |-> Live]))>>
Shapes == <<
    Class("Group", <<Listed("children", Case("Circle", [cx |-> Half(5), cy |-> Half(5), r |-> Half(5),
                                                        style |-> Obj(NoMembers)]))>> \o Sized(<<>>)),
    Class("Rectangle", <<May("cornerRadius", Half(5))>> \o Sized(<<"height", "width", "x", "y">>)),
    Class("Line", Sized(<<"x1", "x2", "y1", "y2">>)),
    Class("Polyline", <<Listed("points", Point)>> \o Sized(<<>>)),
    Class("Polygon", <<Listed("points", Point)>> \o Sized(<<>>)),
    Class("Curve", <<Listed("commands", Case("Close", NoMembers))>> \o Sized(<<>>)),
    Class("Circle", Sized(<<"cx", "cy", "r">>)),
    Class("Ellipse", Sized(<<"cx", "cy", "rx", "ry">>)),
    Class("Label", <<Put("text", Txt)>> \o Sized(<<"x", "y">>))>>

Category  == Case("Category", [key |-> Key])
OnDay     == Case("Date", [iso |-> Str("2024-02-29")])
Annotations == <<
    Class("ReferenceLine", <<May("label", Txt), Put("value", Half(5))>>),
    Class("EventMarker", <<Either("at", Category, OnDay), May("label", Txt)>>),
    Class("RangeBand", <<May("label", Txt),
        Either("range", Case("ValueRange", [from |-> Half(5), to |-> Int32(7)]),
                        Case("XRange", [from |-> OnDay, to |-> OnDay]))>>)>>
=============================================================================
