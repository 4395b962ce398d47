------------------------------- MODULE Merge -------------------------------
(***************************************************************************)
(* The three-way merge (merge.py): two branches of one tree, facet by      *)
(* facet, down the layout children of the base.                            *)
(*                                                                         *)
(* A side of the merge is "base", "a" or "b".  What the sides hold is a    *)
(* record of three; pin is the side that wins a conflict, which is "base"  *)
(* when no branch is the human's.  A node is a place, [tree, at].  The     *)
(* trees hold each id once and share the id of the root.                   *)
(*                                                                         *)
(* The merge takes the children of a Modal or a ScrollArea for children,   *)
(* which ops/apply.py does not: of the kinds "Modal" stands for, those are *)
(* not modelled here, only the ones that hold SlotArg trees.               *)
(***************************************************************************)
EXTENDS Apply

Sides == {"base", "a", "b"}
On(three, Op(_)) == [s \in Sides |-> Op(three[s])]

Clash(v) == v.a # v.base /\ v.b # v.base /\ v.a # v.b

\* Mutant: nobody has precedence.
WinnerFirst(v, pin) == IF v.a # v.base THEN "a" ELSE IF v.b # v.base THEN "b" ELSE "base"
WinnerUnpinned(v, pin) == IF Clash(v) THEN "base" ELSE WinnerFirst(v, pin)

\* _pick_canonical, _pick_field: the one side that changed the value, if one did.
Winner(v, pin) ==
    IF Clash(v) THEN pin
    ELSE IF v.a # v.base THEN "a"
    ELSE IF v.b # v.base THEN "b" ELSE "base"

-----------------------------------------------------------------------------
\* Facets.  What is no facet is encoded with each but the style's.
Extras(n) == <<n.tree[n.at].trait["tooltip"],
               [i \in Slots(n.tree, n.at, FallbackSlot) |-> Sub(n.tree, Append(n.at, FallbackSlot + i))]>>

Probe(n) ==
    [f \in {"kind", "state", "accessibility", "tone", "voice"} |->
       CASE f = "kind"          -> <<KindOwn(n.tree, n.at), Extras(n)>>
         [] f = "state"         -> <<n.tree[n.at].state, ArmsAt(n.tree, n.at), Extras(n)>>
         [] f = "accessibility" -> <<n.tree[n.at].trait[f], Extras(n)>>
         [] OTHER               -> n.tree[n.at].trait[f]]

Children(n) == IF IsLayout(n.tree[n.at]) THEN KidIds(n.tree, n.at) ELSE << >>
Kid(n, id) == Append(n.at, CHOOSE i \in DOMAIN Children(n) : Children(n)[i] = id)
KidTree(n, id) == Sub(n.tree, Kid(n, id))
Holds(n, id) == id \in ToSet(Children(n))

\* _is_pure_addition: no removal and no reorder.
IsPureAddition(baseIds, ids) ==
    SelectSeq(ids, LAMBDA id : id \in ToSet(baseIds)) = baseIds

Added(v, s) == ToSet(v[s]) \ ToSet(v.base)

\* Mutant: what the branches removed or reordered is not looked at.
DisjointAdds(v) == Added(v, "a") \intersect Added(v, "b") = {}
Disjoint(v) ==
    /\ IsPureAddition(v.base, v.a) /\ IsPureAddition(v.base, v.b)
    /\ Added(v, "a") \intersect Added(v, "b") = {}

\* Mutant: new ones as they come, a's first.
MergedIdsByArrival(v, pin) ==
    IF Clash(v) /\ Disjoint(v) THEN v.base \o InOrder(Added(v, "a")) \o InOrder(Added(v, "b"))
    ELSE v[Winner(v, pin)]

\* The child ids of the merged node; new ones after the rest, in order of id.
MergedIds(v, pin) ==
    IF Clash(v) /\ Disjoint(v) THEN v.base \o InOrder(Added(v, "a") \union Added(v, "b"))
    ELSE v[Winner(v, pin)]

\* recurse_child: a side without the child is taken to hold the base's.
Below(three, id) ==
    [s \in Sides |-> IF Holds(three[s], id)
                     THEN [tree |-> three[s].tree, at |-> Kid(three[s], id)]
                     ELSE [tree |-> three.base.tree, at |-> Kid(three.base, id)]]

\* A child the base does not have there: whose it is, or, when both branches put
\* in nodes that differ, whichever is encoded first.
Inserted(three, id) ==
    CHOOSE t \in {KidTree(three[s], id) : s \in {s \in Sides : Holds(three[s], id)}} : TRUE

-----------------------------------------------------------------------------
\* Where the three are when the recursion is at x of the base.
ThreeAt(base, a, b, x) ==
    FoldLeft(LAMBDA three, i : Below(three, Children(three.base)[i]),
             [base |-> [tree |-> base, at |-> << >>],
              a |-> [tree |-> a, at |-> << >>], b |-> [tree |-> b, at |-> << >>]], x)

\* A conflict: what each side has, by the name of the facet.
Cell(id, f, v) == [id |-> id, facet |-> f, base |-> f :> v.base, a |-> f :> v.a, b |-> f :> v.b]

ConflictsAt(three, pin) ==
    LET id == three.base.tree[three.base.at].id
        probes == On(three, Probe)
        of(f) == [s \in Sides |-> probes[s][f]]
        ids == On(three, Children)
        new == {i \in ToSet(MergedIds(ids, pin)) : i \notin ToSet(ids.base) /\ i \in ToSet(ids.a) /\ i \in ToSet(ids.b)}
    IN  {Cell(id, f, of(f)) : f \in {f \in DOMAIN probes.base : Clash(of(f))}}
          \union (IF Clash(ids) /\ ~Disjoint(ids) THEN {Cell(id, "children", ids)} ELSE {})
          \union {Cell(i, "insert", [base |-> "", a |-> KidTree(three.a, i), b |-> KidTree(three.b, i)]) :
                    i \in {i \in new : KidTree(three.a, i) # KidTree(three.b, i)}}

\* Whose each facet is.
Source(three, f, pin) ==
    three[Winner([s \in Sides |-> Probe(three[s])[f]], pin)]

\* _mk_node of the base, with every facet of its source; its tooltip stays.
MergedLabel(three, pin) ==
    LET label(f) == LET n == Source(three, f, pin) IN n.tree[n.at]
    IN  [three.base.tree[three.base.at] EXCEPT
           !.kind = label("kind").kind, !.prop = label("kind").prop, !.sealed = label("kind").sealed,
           !.state = label("state").state,
           !.trait = [f \in Traits |-> IF f = "tooltip" THEN @[f] ELSE label(f).trait[f]]]

\* _with_kind_children: a kind that is no layout keeps what it holds.
WithKindChildren(n, kids) == IF IsLayout(n.tree[n.at]) THEN kids ELSE Held(n.tree, n.at)

MergedNode(three, pin, kids) ==
    LET label == MergedLabel(three, pin)
        own == WithKindChildren(Source(three, "kind", pin), kids)
        state == Source(three, "state", pin)
        node == WithSlots([x \in {<< >>} |-> label], << >>, 0, own)
    IN  WithSlots(WithSlots(node, << >>, StateSlot, ArmsAt(state.tree, state.at)),
                  << >>, FallbackSlot, Extras(three.base)[2])

\* _merge3, as a function of where it is in the base; the conflicts are those of
\* the nodes it comes to.
Merged(base, at, ids, pin) ==
    LET merged[x \in Structural(base)] ==
          LET kid(id) == IF Holds(at[x].base, id) THEN merged[Kid(at[x].base, id)]
                         ELSE Inserted(at[x], id)
          IN  MergedNode(at[x], pin, [i \in DOMAIN ids[x] |-> kid(ids[x][i])])
    IN  merged[<< >>]

Conflicts(base, at, ids, pin) ==
    LET visited == {x \in Structural(base) :
                      \A k \in DOMAIN x : base[SubSeq(x, 1, k)].id \in ToSet(ids[SubSeq(x, 1, k - 1)])}
    IN  UNION {ConflictsAt(at[x], pin) : x \in visited}

Answer(tree, conflicts, pin) ==
    [ok |-> pin # "base" \/ conflicts = {}, conflicts |-> conflicts, tree |-> tree]

\* merge3: a conflict that a pin resolves does not block.
Merge3(base, a, b, pin) ==
    LET at == [x \in Structural(base) |-> ThreeAt(base, a, b, x)]
        ids == [x \in Structural(base) |-> MergedIds(On(at[x], Children), pin)]
    IN  Answer(Merged(base, at, ids, pin), Conflicts(base, at, ids, pin), pin)
=============================================================================
