-------------------------------- MODULE Tree --------------------------------
(***************************************************************************)
(* The generic tree the op engine works over (model.py's Node as           *)
(* ops/apply.py walks it).                                                 *)
(*                                                                         *)
(* A tree is a function from positions to labels.  Its positions are the   *)
(* nodes the id walk reaches (_child_slots, which _find, _map and _all_ids *)
(* go by): a position is the sequence of slots from the root, which is at  *)
(* << >>; slot i holds the i-th sub-node of the kind, slot StateSlot + i   *)
(* the i-th alternative of the State record and slot FallbackSlot + 1 the  *)
(* declared fallback, so that the engine's depth-first order is the        *)
(* lexicographic one.                                                      *)
(*                                                                         *)
(* A label has an id, a kind, the kind's own fields (prop), the trees held *)
(* where the id walk does not go (sealed), the traits of the envelope, and *)
(* whether there is a State record.  Two members stand for the six of a    *)
(* style.                                                                  *)
(* Four kinds tell the engine's cases apart: "Box" stands for the layout   *)
(* kinds, whose sub-nodes are the ordered children the structural ops      *)
(* edit; "Switch" for those that hold nodes in fixed slots (ErrorBoundary, *)
(* Switch, FragmentDecl); "Modal" for those whose nodes are sealed (the    *)
(* children of Modal and ScrollArea, the SlotArg trees of FragmentRef and  *)
(* Mount); "Leaf" for the childless ones.  Only the walk that measures a   *)
(* tree (_sub_nodes) sees a sealed node.  One inside another is not        *)
(* represented.                                                            *)
(***************************************************************************)
EXTENDS Integers, Sequences, FiniteSets, SequencesExt

CONSTANT MaxSlots             \* more sub-nodes of one sort than any tree has
ASSUME MaxSlotsAssumption == MaxSlots \in Nat \ {0}

StateSlot == MaxSlots
FallbackSlot == 2 * MaxSlots

Traits == {"tone", "voice", "accessibility", "tooltip"}
NoTraits == [n \in Traits |-> 0]
Label(id, kind) == [id |-> id, kind |-> kind, prop |-> 0, sealed |-> << >>,
                    trait |-> NoTraits, state |-> FALSE]

\* Slot by slot, the shallower position first.
Before(x, y) ==
    \/ IsStrictPrefix(x, y)
    \/ \E k \in DOMAIN x \intersect DOMAIN y :
         x[k] < y[k] /\ SubSeq(x, 1, k - 1) = SubSeq(y, 1, k - 1)

InOrder(positions) ==
    [i \in 1 .. Cardinality(positions) |->
       CHOOSE x \in positions : Cardinality({y \in positions : Before(y, x)}) = i - 1]

IsLayout(label) == label.kind = "Box"

\* _all_ids.
Ids(t) == {t[x].id : x \in DOMAIN t}

\* Every node, as _tree_exceeds_limits counts them: the way down from x to itself
\* or to a node of a tree x holds sealed.
Down(label) == {<< >>} \union UNION {{<<i>> \o y : y \in DOMAIN label.sealed[i]} : i \in DOMAIN label.sealed}
Nodes(t) == UNION {{<<x, y>> : y \in Down(t[x])} : x \in DOMAIN t}
Level(n) == Len(n[1]) + Len(n[2])

Size(t) == Cardinality(Nodes(t))
Depth(t) == 1 + CHOOSE d \in {Level(n) : n \in Nodes(t)} : \A n \in Nodes(t) : Level(n) <= d

Copies(id, t) == Cardinality({x \in DOMAIN t : t[x].id = id})
Unique(t) == \A x, y \in DOMAIN t : t[x].id = t[y].id => x = y

\* _find, of an id the tree holds: where the first match is.
Find(id, t) ==
    CHOOSE x \in DOMAIN t :
      t[x].id = id /\ \A y \in DOMAIN t : t[y].id = id => y = x \/ Before(x, y)

Sub(t, p) ==
    LET below == {x \in DOMAIN t : IsPrefix(p, x)}
    IN  [y \in {SubSeq(x, Len(p) + 1, Len(x)) : x \in below} |-> t[p \o y]]

\* The tree with the subs in the slots first + 1 .. of p, whatever held them, up
\* to the last slot there is.
WithSlots(t, p, first, subs) ==
    LET gone == {x \in DOMAIN t : \E i \in 1 .. MaxSlots : IsPrefix(Append(p, first + i), x)}
        come == UNION {{Append(p, first + i) \o y : y \in DOMAIN subs[i]} :
                         i \in DOMAIN subs \intersect 1 .. MaxSlots}
    IN  [x \in (DOMAIN t \ gone) \union come |->
           IF x \in come
           THEN subs[x[Len(p) + 1] - first][SubSeq(x, Len(p) + 2, Len(x))]
           ELSE t[x]]

Slots(t, p, first) == {i \in 1 .. MaxSlots : Append(p, first + i) \in DOMAIN t}
Held(t, p) == [i \in Slots(t, p, 0) |-> Sub(t, Append(p, i))]
KidIds(t, p) == [i \in Slots(t, p, 0) |-> t[Append(p, i)].id]

Leaf(id) == [x \in {<< >>} |-> Label(id, "Leaf")]
Box(id, kids) == WithSlots([x \in {<< >>} |-> Label(id, "Box")], << >>, 0, kids)
Switch(id, kids) == WithSlots([x \in {<< >>} |-> Label(id, "Switch")], << >>, 0, kids)
Modal(id, trees) == [x \in {<< >>} |-> [Label(id, "Modal") EXCEPT !.sealed = trees]]

\* The layout nodes with this child; _find_layout_parent answers the first.
LayoutParents(id, t) == {p \in DOMAIN t : IsLayout(t[p]) /\ id \in ToSet(KidIds(t, p))}

\* _with_layout_children.  A childless kind is given a field no reader of the
\* tree looks at, which is not represented.
WithKids(t, p, kids) == IF IsLayout(t[p]) THEN WithSlots(t, p, 0, kids) ELSE t

\* The positions reached through layout children.
Structural(t) ==
    {x \in DOMAIN t : \A k \in DOMAIN x : x[k] <= MaxSlots /\ IsLayout(t[SubSeq(x, 1, k - 1)])}

\* A node's own kind fields: a layout kind's children are not of them.
KindOwn(t, p) == [kind |-> t[p].kind, prop |-> t[p].prop, sealed |-> t[p].sealed,
                  held |-> IF IsLayout(t[p]) THEN << >> ELSE Held(t, p)]

ArmsAt(t, p) ==
    [i \in Slots(t, p, StateSlot) |-> Sub(t, Append(p, StateSlot + i))]

\* _is_ancestor: strictly below.
IsAncestor(id, below, t) ==
    id \in Ids(t) /\ \E x \in DOMAIN t : t[x].id = below /\ IsStrictPrefix(Find(id, t), x)

\* Every node hangs from a node, in a slot its kind or its envelope has, with no
\* gap before it.
Shaped(t) ==
    /\ << >> \in DOMAIN t
    /\ \A x \in DOMAIN t :
         /\ DOMAIN t[x] = DOMAIN Label(x, "Leaf") /\ t[x].kind \in {"Box", "Switch", "Modal", "Leaf"}
         /\ t[x].kind \in {"Modal", "Leaf"} => Slots(t, x, 0) = {}
         /\ ~t[x].state => Slots(t, x, StateSlot) = {}
         /\ x # << >> => /\ Front(x) \in DOMAIN t
                         /\ Last(x) \notin {1, StateSlot + 1, FallbackSlot + 1} =>
                              Append(Front(x), Last(x) - 1) \in DOMAIN t

\* What a node may hold sealed: a row of trees, with nothing sealed in them.
AreSealed(trees) ==
    /\ trees \in Seq(ToSet(trees))
    /\ \A i \in DOMAIN trees :
         /\ IsFiniteSet(DOMAIN trees[i]) /\ DOMAIN trees[i] \subseteq Seq(Nat)
         /\ Shaped(trees[i]) /\ \A x \in DOMAIN trees[i] : trees[i][x].sealed = << >>

\* A tree of the four kinds.
WellFormed(t) ==
    /\ Shaped(t)
    /\ \A x \in DOMAIN t : AreSealed(t[x].sealed) /\ (t[x].kind # "Modal" => t[x].sealed = << >>)
=============================================================================
