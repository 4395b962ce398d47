---------------------------- MODULE MCTreeEditor ----------------------------
(* Small alphabets for TreeEditor.  Ids are numbers one long; 1 is the root. *)
EXTENDS TreeEditor

NoNode == <<0>>
r == <<1>>
a == <<2>>
b == <<3>>
c == <<4>>
s == <<5>>
n1 == <<6>>
m == <<7>>

\* A box with a child, a fixed-slot kind with another; within both limits.
Plain == Box(r, <<Box(a, <<Leaf(b)>>), Switch(s, <<Leaf(c)>>)>>)
\* One level too deep on arrival.
Deep == Box(r, <<Box(a, <<Box(b, <<Leaf(c)>>)>>), Leaf(s)>>)
\* One id twice on arrival.
Twice == Box(r, <<Leaf(b), Box(a, <<Leaf(b), Leaf(c)>>)>>)
\* An id sealed in one node that another may take.
Sealing == Box(r, <<Box(a, <<Leaf(b)>>), Modal(s, <<Box(c, <<Leaf(b)>>)>>)>>)
\* Two boxes to move between.
Boxes == Box(r, <<Box(a, <<Leaf(b), Leaf(c)>>), Box(s, << >>)>>)

KindOf(t) ==
    [kind |-> t[<< >>].kind, prop |-> 0, sealed |-> t[<< >>].sealed, kids |-> Held(t, << >>)]

\* The clone verbs also meet a node whose State alternative collides, and what it
\* holds sealed.
MCFresh == {Box(n1, <<Leaf(b)>>), UpdateState(n1, <<Leaf(b)>>, Modal(n1, <<Leaf(c)>>)).tree}
MCKinds == {KindOf(Leaf(m)), KindOf(Box(m, <<Leaf(c)>>)), KindOf(Switch(m, <<Leaf(b)>>)),
            KindOf(Modal(m, <<Leaf(b)>>))}
MCStates == {<< >>, <<Leaf(n1)>>, <<Leaf(b)>>}
MCRoots == {Box(r, <<Leaf(b), Leaf(b)>>), Box(a, <<Leaf(b)>>)}
MCBatches == {<<InsertOp(r, Box(n1, << >>)), MoveOp(b, n1)>>,
              <<InsertOp(r, Leaf(n1)), InsertOp(a, Leaf(n1))>>,
              <<[tag |-> "EditNode", target |-> s, newKind |-> KindOf(Box(m, <<Leaf(b)>>))],
                [tag |-> "RemoveNode", target |-> a]>>}
MCStarts == {Plain, Deep, Twice, Sealing}
DiffStarts == {Boxes}
=============================================================================
