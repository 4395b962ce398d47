------------------------------ MODULE Documents ------------------------------
(***************************************************************************)
(* The life of a document between hosts: an author's classes write it,     *)
(* tools spell it otherwise, damage it or set it inside another document,  *)
(* and a host reads it and may send on what it read (schema/types.py,      *)
(* schema/decode.py), in an envelope that says of which profile it is      *)
(* (envelope.py).                                                          *)
(***************************************************************************)
EXTENDS Decoder

(***************************************************************************)
(* Documents and their paths.                                              *)
(***************************************************************************)
RECURSIVE Paths(_)
Paths(v) ==
    {<<>>} \cup
    CASE IsArr(v) -> UNION {{<<ToString(i - 1)>> \o p : p \in Paths(v.arr[i])} : i \in DOMAIN v.arr}
      [] IsObj(v) -> UNION {{<<k>> \o p : p \in Paths(v.obj[k])} : k \in DOMAIN v.obj}
      [] OTHER -> {}

Part(v, k) == IF IsObj(v) THEN Get(v, k) ELSE v.arr[CHOOSE i \in DOMAIN v.arr : ToString(i - 1) = k]
RECURSIVE ValueAt(_, _)
ValueAt(v, path) == IF path = <<>> THEN v ELSE ValueAt(Part(v, path[1]), Tail(path))

\* Another value at a path; Drop leaves the member out.
RECURSIVE Replaced(_, _, _)
Replaced(v, path, w) ==
    CASE path = <<>> -> w
      [] path # <<>> /\ IsArr(v) ->
            Arr([i \in DOMAIN v.arr |->
                    IF ToString(i - 1) = path[1] THEN Replaced(v.arr[i], Tail(path), w) ELSE v.arr[i]])
      [] Len(path) = 1 /\ IsObj(v) /\ w = Drop -> Without(v, {path[1]})
      [] OTHER -> With(v, path[1], Replaced(Get(v, path[1]), Tail(path), w))

Prefix(p, q) == Len(p) <= Len(q) /\ SubSeq(q, 1, Len(p)) = p
\* Where two paths part, neither being the other's beginning.
Parting(p, q) == CHOOSE i \in 1..Len(p) : p[i] # q[i] /\ SubSeq(p, 1, i - 1) = SubSeq(q, 1, i - 1)
Strange == {Null, Int32(-1), OPAQUE, Str("zz"), Arr(<<>>), Obj(NoMembers)}

(***************************************************************************)
(* The places the reader reads, each with its type.                        *)
(***************************************************************************)
\* The selector and the interval of a Switch are not as its table has them, and
\* the hash of a Custom is carried.
PlanOf(t, v) ==
    LET case(plans) == IF TagOf(v) \in DOMAIN plans THEN plans[TagOf(v)] ELSE <<>>
    IN CASE t = NodeT -> <<Req("id", Text), Req("kind", KindT)>> \o EnvelopePlan
         [] t = KindT -> IF TagOf(v) = "Switch" THEN SwitchPlan ELSE OnWire(case(KindFields))
         [] t = RecordOf("ContentHash") -> <<>>
         [] t = OpT -> case(OpFields)
         [] t = By("wholeStyle") -> StylePlan
         [] t[1] = "record" -> IF t[2] \in DOMAIN RecordPlans THEN RecordPlans[t[2]] ELSE RecordFields[t[2]]
         [] t[1] = "binding" -> case(BindingPlans(PayloadOf(t[2])))
         [] t = UnionOf("Action") -> case(ActionPlans)
         [] t = UnionOf("Shape") -> case(ShapePlans)
         [] t = UnionOf("CellFormat") -> case(FormatPlans)
         [] t = By("column") -> ColumnPlan
         [] t = By("accessibility") -> AccessibilityPlan
         [] t = By("style") -> StylePlan
         [] t = By("formField") -> FormFieldPlan \o <<Req("kind", By("control")), Req("id", Text)>>
         [] t = By("control") -> case(ControlPlans)
         [] OTHER -> <<>>
Owner(t, v) == CASE t = By("column") -> "Column" [] t = By("formField") -> "FormField"
                 [] t[1] = "record" -> t[2] [] OTHER -> TagOf(v)

Place(t, v, path) == [type |-> t, value |-> v, path |-> path]
RECURSIVE Places(_, _, _)
Places(t, v, path) ==
    LET plan == PlanOf(t, v)
        member(f) == Places(Reader(Owner(t, v), f), Get(v, f.name), Append(path, f.name))
    IN {Place(t, v, path)} \cup
       IF t[1] \in {"list", "some"} /\ IsArr(v)
       THEN UNION {Places(t[2], v.arr[i], Append(path, ToString(i - 1))) : i \in DOMAIN v.arr}
       ELSE UNION {member(plan[i]) : i \in {j \in DOMAIN plan : Has(v, plan[j].name)}}

(***************************************************************************)
(* The other spellings of a place.                                         *)
(***************************************************************************)
OtherMembers(t, v, plan) ==
    LET names(f) == {Spellings(Owner(t, v), f.name)[i] : i \in DOMAIN Spellings(Owner(t, v), f.name)}
        spelled  == {plan[i] : i \in {j \in DOMAIN plan : Has(v, plan[j].name)}}
        left     == {plan[i] : i \in {j \in DOMAIN plan :
                        /\ plan[j].rule = "omit" /\ names(plan[j]) \cap DOMAIN v.obj = {}
                        /\ Reader(Owner(t, v), plan[j]) # By("markdownCitations")}}
    IN UNION {{With(Without(v, {f.name}), n, Get(v, f.name)) : n \in names(f) \ {f.name}} : f \in spelled}
       \cup {With(v, f.name, f.default) : f \in left}
       \cup {With(v, n, Int32(7)) : n \in IF t = KindT THEN Retired(TagOf(v)) ELSE {}}

Statics(v) == Case("Static", [value |-> v])
OtherValues(t, v) ==
    CASE TagOf(v) = "Static" /\ t \in Scalars -> {}      \* it unwraps once
      [] t \in Scalars /\ ~ IsInt(v) /\ ~ IsObj(v) -> {Statics(v)}
      [] t \in Scalars /\ IsInt(v) -> {Statics(v), Half(2 * v.int)}
      [] t[1] = "aliased" -> LET aliases == IF t[2] \in DOMAIN EnumAliases THEN EnumAliases[t[2]] ELSE NoAliases
                             IN {Str(a) : a \in {b \in DOMAIN aliases : Str(aliases[b]) = v}}
      [] t[1] = "binding" -> {Case("Bound", [binding |-> v])} \cup
                             IF TagOf(v) = "Static" /\ ~ Absent(v, "value") /\ ~ IsObj(Get(v, "value"))
                             THEN {Get(v, "value")} ELSE {}
      [] t = UnionOf("TextSource") /\ IsStr(v) -> {Case("Literal", [text |-> v])}
      [] t = UnionOf("CellFormat") /\ TagOf(v) = "DateTime" -> {With(v, "$type", Str("Date"))}
      [] t = RecordOf("SelectOption") /\ Get(v, "label") = Get(v, "value") -> {Get(v, "value")}
      [] OTHER -> {}
Respellings(t, v) == OtherValues(t, v) \cup IF IsObj(v) THEN OtherMembers(t, v, PlanOf(t, v)) ELSE {}

(***************************************************************************)
(* Where a document may stand in another.                                  *)
(***************************************************************************)
Leaf(id)   == Obj([id |-> Str(id), kind |-> Case("Badge", [label |-> Str(id)])])
Around(kind) == Obj([id |-> Str("region"), kind |-> kind])
Outer(slot) ==
    LET leaf == Leaf("floor") IN
    CASE slot = <<"fallback">> -> With(leaf, "fallback", leaf)
      [] slot = <<"state", "onEmpty">> -> With(leaf, "state", Obj([onEmpty |-> leaf]))
      [] slot = <<"kind", "children", "0">> -> Around(Case("SummaryList", [children |-> Arr(<<leaf>>)]))
      [] slot = <<"kind", "cases", "0", "child">> ->
            Around(Case("Switch", [cases |-> Arr(<<Obj([child |-> leaf, match |-> Str("floor")])>>),
                                   default |-> leaf, stateKey |-> Str("region")]))
      [] slot = <<"kind", "args", "amount", "tree">> ->
            Around(Case("FragmentRef", [args |-> Obj([amount |-> Case("SlotArg", [tree |-> leaf])]),
                                        name |-> Str("region")]))
      [] slot = <<"child">> -> Case("InsertChild", [child |-> leaf, parentId |-> Str("region")])
      [] slot = <<"ops", "0">> -> Case("Batch", [ops |-> Arr(<<Case("ReplaceRoot", [node |-> leaf])>>)])
NodeSlots == {<<"fallback">>, <<"state", "onEmpty">>, <<"kind", "children", "0">>,
              <<"kind", "cases", "0", "child">>, <<"kind", "args", "amount", "tree">>}

-----------------------------------------------------------------------------
Authors  == INSTANCE AuthoredFacade
FrameAuthors == INSTANCE AuthoredFrames

CONSTANTS MaxEdits      \* bound: changes made to one document

VARIABLES doc,     \* the document as it stands
          form,    \* what it is one of: a node, an operation or an envelope
          how,     \* what was done to it last
          where,   \* at which path
          before,  \* what is known of its reading: that of the document it was made of
          read,    \* its reading
          edits    \* how many places were changed
vars == <<doc, form, how, where, before, read, edits>>

Unread == Null
Authored == Authors!AuthoredNodes \cup FrameAuthors!FrameNodes
Composed == Authors!FacadeNodes \cup Authors!NotebookNodes

\* Bound: what is composed of the kinds is changed in one place less.
Init == /\ \/ doc \in Authored /\ form = NodeT /\ edits = 0
           \/ doc \in Composed \ Authored /\ form = NodeT /\ edits = MaxEdits - 1
           \/ doc \in Authors!AuthoredOps /\ form = OpT /\ edits = 0
        /\ before = doc
        /\ how = "authored" /\ where = <<>> /\ read = Unread

Made(d, done, path, known) == doc' = d /\ how' = done /\ where' = path /\ before' = known /\ read' = Unread

(***************************************************************************)
(* The envelope.  A profile is taken for what this host makes of it.       *)
(***************************************************************************)
EnvelopeT == <<"envelope">>
FOREIGN_PROFILE == "FOREIGN_PROFILE"
Profiles  == {"core@1.0", "core@1.7", "core@2.0"}
Negotiate(profile) ==
    CASE profile = "core@1.0" -> "Current" [] profile = "core@1.7" -> "Behind" [] OTHER -> "Foreign"
Envelope(payload, profile) == Obj(("$payload" :> payload) @@ ("$profile" :> Str(profile)))
Profile(v) == Get(v, "$profile").str
Payload(v) == Get(v, "$payload")

\* What is read of an envelope, of whose payload node is the reading: a host behind keeps a
\* node of a kind it does not know whole, its other faults with it.
ReadPayload(v, negotiation, node) ==
    CASE ~ Bad(node) -> node
      [] Bad(node) /\ negotiation = "Behind" /\ node.fail = WRONG_NODE_KIND -> Canonical(v)
      [] OTHER -> [node EXCEPT !.at = <<"$payload">> \o @]
ReadEnvelope(v, node) ==
    LET profile == At(Root, "$profile")
        relayed(payload) == Envelope(payload, Profile(v))
    IN CASE ~ IsObj(v) -> Fail(WRONG_TYPE, Root)
         [] ~ Has(v, "$profile") -> Fail(MISSING_FIELD, profile)
         [] ~ IsStr(Get(v, "$profile")) -> Fail(WRONG_TYPE, profile)
         [] ~ Has(v, "$payload") -> Fail(MISSING_FIELD, At(Root, "$payload"))
         [] Negotiate(Profile(v)) = "Foreign" -> Fail(FOREIGN_PROFILE, profile)
         [] OTHER -> Then(ReadPayload(Payload(v), Negotiate(Profile(v)), node), relayed)

-----------------------------------------------------------------------------
\* decode_node and decode_op; decode_envelope.
Decode == /\ read = Unread
          /\ LET enveloped == form = EnvelopeT
                 inner == Read(IF enveloped THEN NodeT ELSE form, IF enveloped THEN Payload(doc) ELSE doc, Root)
             IN read' = IF enveloped THEN ReadEnvelope(doc, inner) ELSE inner
          /\ UNCHANGED <<doc, form, how, where, before, edits>>

\* A tool that knows the format writes one place another way.
Respell == /\ read = Unread /\ how \in {"authored", "respelled"} /\ edits < MaxEdits
           /\ \E p \in Places(form, doc, <<>>) : \E w \in Respellings(p.type, p.value) :
                  Made(Replaced(doc, p.path, w), "respelled", p.path, before)
           /\ edits' = edits + 1 /\ UNCHANGED form

\* A tool that does not leaves a member out, or writes something else there.
Damage == /\ read = Unread /\ how = "authored" /\ edits < MaxEdits
          /\ \E path \in Paths(doc) \ {<<>>} : \E w \in Strange \cup {Drop} :
                 /\ ValueAt(doc, path) # w
                 /\ Made(Replaced(doc, path, w), "damaged", path, before)
          /\ edits' = edits + 1 /\ UNCHANGED form

\* A document is set where one has its place; bound: a damaged one once and in one place.
PlacesFor(edited) == CASE form = OpT -> {<<"ops", "0">>}
                   [] form = NodeT /\ edited -> {<<"kind", "cases", "0", "child">>}
                   [] OTHER -> NodeSlots \cup {<<"child">>}
Nest == /\ read # Unread /\ form # EnvelopeT /\ how \in {"authored", "damaged", "nested"}
        /\ Bad(read) => read.fail # LIMIT_EXCEEDED
        /\ how = "nested" => edits = 0
        /\ \E slot \in PlacesFor(edits > 0) :
               /\ Made(Replaced(Outer(slot), slot, doc), "nested", slot, read)
               /\ form' = IF slot \in NodeSlots THEN NodeT ELSE OpT
        /\ UNCHANGED edits

\* A node is sent in an envelope.  Bounds: to a host that is behind, a damaged one where
\* its kind is not known or its damage is at the top; a badge, for the rest, stands for all.
IsBadge == TagOf(Get(doc, "kind")) = "Badge"
Wrap == /\ read # Unread /\ form = NodeT
        /\ \E profile \in Profiles :
              /\ \/ how = "authored" /\ (Negotiate(profile) = "Behind" \/ IsBadge)
                 \/ /\ how = "damaged" /\ Bad(read) /\ Negotiate(profile) = "Behind"
                    /\ read.fail = WRONG_NODE_KIND \/ Len(where) = 1
              /\ Made(Envelope(doc, profile), "nested", <<"$payload">>, read)
        /\ form' = EnvelopeT /\ UNCHANGED edits

\* An envelope is damaged at its own two members.
DamageEnvelope == /\ read # Unread /\ ~ Bad(read) /\ form = EnvelopeT /\ how = "nested"
                  /\ Negotiate(Profile(doc)) = "Current"
                  /\ \E member \in {"$payload", "$profile"} : \E w \in Strange \cup {Drop} :
                         Made(Replaced(doc, <<member>>, w), "damaged", <<member>>, before)
                  /\ UNCHANGED <<form, edits>>

\* lift_fallback: what the author wrote for hosts that do not know the kind.
Lift == /\ read # Unread /\ form = EnvelopeT /\ how = "nested" /\ Bad(before) /\ ~ Bad(read)
        /\ ~ Absent(Payload(read), "fallback")
        /\ Made(Get(Payload(read), "fallback"), "lifted", <<"fallback">>, before)
        /\ form' = NodeT /\ UNCHANGED edits

\* A host sends the node of an envelope on without it.
Unwrap == /\ read # Unread /\ form = EnvelopeT /\ how = "nested" /\ ~ Bad(read)
          /\ Made(Payload(read), "unwrapped", <<>>, before)
          /\ form' = NodeT /\ UNCHANGED edits

\* A host sends on what it read.
Resend == /\ read # Unread /\ ~ Bad(read)
          /\ how \in {"respelled", "damaged"} \/ (form = EnvelopeT /\ how = "nested")
          /\ Made(read, "resent", <<>>, read)
          /\ UNCHANGED <<form, edits>>

Next == Decode \/ Respell \/ Damage \/ Nest \/ Wrap \/ DamageEnvelope \/ Lift \/ Unwrap \/ Resend
Spec == Init /\ [][Next]_vars

-----------------------------------------------------------------------------
HasBeenRead(done) == how = done /\ read # Unread

\* What an author's class writes, and what a host sends on, is the canonical form: it is
\* read as itself.
CanonicalIsFixed == HasBeenRead("authored") \/ HasBeenRead("resent") => read = doc

\* Every spelling the reader tolerates is read as the document it was spelled from.
SpellingsMeanTheSame == HasBeenRead("respelled") => read = before

\* Members that are judged together: a member may be refused for what another says.
Together == {{"multiple", "value"}, {"on", "stateKey"}, {"source", "groups"}, {"when", "match"},
             {"suggestions", "allowFreeText"}, {"rows", "citations"}, {"params", "expr"},
             {"valueFrom", "value"}} \cup {{"$type", end} : end \in {"max", "min", "from", "to"}}
\* A refusal stands where the damage is, or at a member judged together with the
\* damaged one; the source of a parameter is found by its name.
RefusalsNameTheDamage ==
    HasBeenRead("damaged") /\ Bad(read) =>
      \/ Prefix(read.at, where) \/ Prefix(where, read.at)
      \/ LET i == Parting(where, read.at)
         IN {where[i], read.at[i]} \in Together \/ (i > 1 /\ where[i - 1] = "params")

\* A host refuses an envelope that is foreign, and otherwise for what the node is refused
\* for, unless that is its kind.
EnvelopesAreOpened ==
    CASE ~ Bad(read) -> Profile(read) = Profile(doc)
      [] Bad(read) /\ read.fail = FOREIGN_PROFILE -> Negotiate(Profile(doc)) = "Foreign"
      [] OTHER -> read = [before EXCEPT !.at = where \o @] /\ read.fail # WRONG_NODE_KIND
\* And the fallback of a node of an unknown kind is the node it is where the kind is known.
LiftedIsTheFallback == IF Bad(read) THEN before = [read EXCEPT !.at = where \o @] ELSE read = doc

\* A document is read inside another as it is by itself; one that went through an envelope,
\* opened by a host that knew less, is read as if it had come by itself.
NestingChangesNothing ==
    /\ HasBeenRead("nested") /\ form = EnvelopeT => EnvelopesAreOpened
    /\ HasBeenRead("unwrapped") => read = before
    /\ HasBeenRead("lifted") => LiftedIsTheFallback
    /\ HasBeenRead("nested") /\ form # EnvelopeT =>
      \/ read = IF Bad(before) THEN [before EXCEPT !.at = where \o @] ELSE Replaced(Outer(where), where, before)
      \/ Bad(read) /\ read.fail = LIMIT_EXCEEDED
=============================================================================
