----------------------------- MODULE MCBranches -----------------------------
\* Small trees and alphabets for Branches.  Ids are numbers one long; 1 is the root.
EXTENDS Branches

r == <<1>>
p == <<2>>
q == <<3>>
x == <<4>>
n1 == <<5>>
n2 == <<6>>

Boxes == Box(r, <<Box(p, <<Leaf(x)>>), Box(q, << >>)>>)
Row == Box(r, <<Leaf(p), Leaf(q)>>)
Both == {Boxes, Row}

TwoEach == [a |-> 2, b |-> 2]
TwoAndOne == [a |-> 2, b |-> 1]

Set(id, f, v) == [tag |-> "SetTrait", target |-> id, value |-> f :> v]
Prop(id, v) == [tag |-> "UpdateProp", target |-> id, value |-> v]
Insert(id, c) == [tag |-> "InsertChild", parent |-> id, child |-> c]
Delete(id) == [tag |-> "RemoveNode", target |-> id]
MoveTo(id, to) == [tag |-> "MoveNode", target |-> id, parent |-> to]
Order(id, ids) == [tag |-> "ReorderChildren", parent |-> id, order |-> ids]
State(id, arms) == [tag |-> "UpdateState", target |-> id, arms |-> arms]
Kind(id, k, kids) == [tag |-> "EditNode", target |-> id, newKind |-> [kind |-> k, prop |-> 0, sealed |-> << >>, kids |-> kids]]

FacetEdits == {Set(q, "tone", 1), Set(q, "tone", 2), Set(q, "voice", 1), Set(q, "tooltip", 1),
               Set(q, "accessibility", 1), State(q, << >>), State(q, <<Leaf(n1)>>), Prop(q, 1), Prop(x, 2)}
ChildEdits == {Insert(q, Leaf(n1)), Insert(q, Leaf(n2)), Insert(p, UpdateProp(n1, 1, Leaf(n1)).tree), Insert(r, Leaf(n1)),
               Delete(x), Delete(q), MoveTo(x, q), MoveTo(q, p), MoveTo(p, q), Order(r, <<q, p>>),
               Kind(q, "Leaf", << >>), Kind(p, "Box", <<Leaf(n1)>>), Set(x, "tone", 1), Set(x, "tone", 2)}
FacetsOrChildren == {FacetEdits, ChildEdits}
ChildrenOnly == {ChildEdits}
=============================================================================
