----------------------------- MODULE TreeEditor -----------------------------
(***************************************************************************)
(* A document under edit: the tree a host holds, and the ops the engine    *)
(* accepted since it was loaded.  Every public op of ops/apply.py is an    *)
(* action, and so is every verb of ops/placement.py, whose emitted op goes *)
(* through the same engine.  A refused op leaves no trace.                 *)
(*                                                                         *)
(* The alphabets of nodes, kinds, states and batches an op may carry are   *)
(* constants; MaxEdits bounds the length of a session.                     *)
(***************************************************************************)
EXTENDS Diff

CONSTANTS Starts,     \* the trees a session may load
          Fresh,      \* the nodes an insert or a paste may carry
          NewKinds,   \* the kinds an EditNode may install
          NewStates,  \* the alternatives an UpdateState may attach
          NewRoots,   \* the trees a ReplaceRoot may install
          Batches,    \* the sequences of ops a Batch may carry
          Absent,     \* an id no tree holds
          MaxEdits

\* The alphabets hold trees of the four kinds, and ops the decoder gives.
ASSUME AlphabetAssumption ==
    /\ MaxEdits \in Nat
    /\ \A n \in Starts \union Fresh \union NewRoots : IsNode(n)
    /\ \A k \in NewKinds : IsKind(k)
    /\ \A arms \in NewStates : AreNodes(arms)
    /\ \A ops \in Batches : InARow(ops) /\ \A i \in DOMAIN ops : IsEdit(ops[i])

-----------------------------------------------------------------------------
VARIABLES base,       \* the tree loaded
          tree,       \* the tree held now
          script      \* the ops accepted since

vars == <<base, tree, script>>

Init == /\ base \in Starts
        /\ tree = base
        /\ script = << >>

Accept(op, r) ==
    /\ r.err = "None"
    /\ tree' = r.tree
    /\ script' = Append(script, op)
    /\ UNCHANGED base

Submit(op) == Len(script) < MaxEdits /\ Accept(op, ApplyOp(op, tree))

Targets == Ids(tree) \union {Absent}
Layouts == {id \in Ids(tree) : IsLayout(tree[Find(id, tree)])}
KidsOf(id) == KidIds(tree, Find(id, tree))

Insert == \E p \in Targets, c \in Fresh : Submit(InsertOp(p, c))
DoRemove == \E t \in Targets : Submit([tag |-> "RemoveNode", target |-> t])
Move == \E t, p \in Targets : Submit(MoveOp(t, p))
Reorder == \E p \in Layouts : Submit(ReorderOp(p, Reverse(KidsOf(p))))
SetProp == \E t \in Targets : Submit([tag |-> "UpdateProp", target |-> t, value |-> 1])
Edit == \E t \in Targets, k \in NewKinds :
          Submit([tag |-> "EditNode", target |-> t, newKind |-> k])
SetState == \E t \in Targets, arms \in NewStates :
              Submit([tag |-> "UpdateState", target |-> t, arms |-> arms])
Style == \E t \in Targets : Submit([tag |-> "SetTrait", target |-> t, value |-> "tone" :> 1])
SwapRoot == \E n \in NewRoots : Submit([tag |-> "ReplaceRoot", node |-> n])
Batch == \E ops \in Batches : Submit(BatchOp(ops))

-----------------------------------------------------------------------------
(***************************************************************************)
(* The same document edited by a person: drop, nudge, duplicate, paste.    *)
(***************************************************************************)
\* Where a drop can point: an end, a sibling there, or an id that is not.
Places(p) ==
    {[at |-> "Last"], [at |-> "First"]}
      \union [at : {"Before", "After"},
              anchor : {Absent} \union IF p \in Layouts THEN ToSet(KidsOf(p)) ELSE {}]

Spots == UNION {[parent : {p}, placement : Places(p)] : p \in Targets}

SubmitEmitted(r) == r.err = "None" /\ Submit(r.op)

Drop == \E t \in Targets, spot \in Spots : SubmitEmitted(MovePlaced(tree, t, spot))
NudgeBy == \E t \in Targets, d \in {-1, 1} : SubmitEmitted(Nudge(tree, t, d))
Clone == \E t \in Targets, p \in Layouts :
           SubmitEmitted(Duplicate(tree, t, [parent |-> p, placement |-> [at |-> "Last"]]))
PasteIn == \E n \in Fresh, p \in Layouts :
             SubmitEmitted(Paste(tree, n, [parent |-> p, placement |-> [at |-> "First"]]))

Next == \/ Insert \/ DoRemove \/ Move \/ Reorder \/ SetProp
        \/ Edit \/ SetState \/ Style \/ SwapRoot \/ Batch
        \/ Drop \/ NudgeBy \/ Clone \/ PasteIn

Spec == Init /\ [][Next]_vars

-----------------------------------------------------------------------------
(***************************************************************************)
(* The engine.                                                             *)
(***************************************************************************)
\* Both trees stay trees of the four kinds, and the script within its bound.
TypeOK == WellFormed(base) /\ WellFormed(tree) /\ Len(script) <= MaxEdits

\* No sequence of accepted ops gives two nodes that an op can address one id: apply
\* reads its result for every id the op installed (apply.py, id uniqueness, "over
\* the same child surface every other id check here walks").  An id held sealed, in
\* a Modal or an argument tree, is outside that surface and may be taken again.
UniqueKept == Unique(base) => Unique(tree)

\* A tree over a limit was over it before: no accepted op takes a tree past
\* MAX_NODE_DEPTH or MAX_NODES or pushes it further past, and an op that cannot
\* grow the tree still applies to one already there (apply.py, the limits).  Of a
\* tree that holds each id once: _op_can_grow says that RemoveNode cannot grow a
\* tree, but where two layout nodes share an id it writes the children kept of one
\* into the other, which may have had fewer, and nothing is measured.
LimitsHold ==
    [][Unique(tree) => /\ Depth(tree') > MaxDepth => Depth(tree') <= Depth(tree)
                       /\ Size(tree') > MaxNodes => Size(tree') <= Size(tree)]_vars

\* Ops accepted one at a time are accepted as one Batch, with the same tree: the
\* checks a Batch skips between its ops and makes once at the end agree (of a tree
\* that holds each id once, for the same reason).
Together == BatchOp(FlattenSeq([i \in DOMAIN script |-> Edits(script[i])]))

BatchAgrees == Unique(base) /\ script # << >> => ApplyOp(Together, base) = Ok(tree)

Labels(t) == {t[x] : x \in DOMAIN t}

\* Among the children of q in t, x is there and no later than y.
NoLater(x, y, q, t) ==
    LET kids == KidIds(t, Find(q, t))
    IN  \E i, j \in DOMAIN kids : i <= j /\ kids[i] = x /\ kids[j] = y

\* Each node outside the subtree at id has in u the children it had, in the order
\* it had them, id aside.
OthersStand(id, u) ==
    \A q \in Ids(tree) \ Ids(Sub(tree, Find(id, tree))) : \A x, y \in Ids(tree) \ {id} :
      NoLater(x, y, q, u) <=> NoLater(x, y, q, tree)

\* A move keeps every node and what it says, the moved subtree whole and at the end
\* of its new parent's children, and everyone else's order; it is refused only for
\* where it goes or for the depth it would build, never for ids it merely carries.
SafelyMoved(t, p, r) ==
    IF r.err # "None"
    THEN r.err \in {"KindMismatch", "NodeNotFound", "ParentNotFound", "ChildlessKind",
                    "LimitExceeded"}
    ELSE /\ Labels(r.tree) = Labels(tree) /\ Size(r.tree) = Size(tree)
         /\ Last(Held(r.tree, Find(p, r.tree))) = Sub(tree, Find(t, tree))
         /\ OthersStand(t, r.tree)

\* No node has MaxSlots children: there is a slot for one more.
Roomy(t) == \A p \in DOMAIN t : MaxSlots \notin Slots(t, p, 0)

MoveIsSafe ==
    Unique(tree) /\ Roomy(tree) =>
      \A t, p \in Targets : SafelyMoved(t, p, ApplyOp(MoveOp(t, p), tree))

\* A removal takes the subtree of its target and nothing else, leaves everyone
\* else's order, and is refused only for a node no layout node holds: one in a fixed
\* slot or a State alternative cannot be removed on its own.
ExactlyRemoved(t, r) ==
    IF r.err # "None" THEN LayoutParents(t, tree) = {}
    ELSE /\ Labels(r.tree) = Labels(tree) \ Labels(Sub(tree, Find(t, tree)))
         /\ OthersStand(t, r.tree)

RemoveIsExact ==
    Unique(tree) =>
      \A t \in Targets : ExactlyRemoved(t, ApplyOp([tag |-> "RemoveNode", target |-> t], tree))

\* The two ops that take a node from its place do that and nothing else.
EditsAreExact == TypeOK /\ MoveIsSafe /\ RemoveIsExact

-----------------------------------------------------------------------------
(***************************************************************************)
(* The placement verbs.                                                    *)
(***************************************************************************)
\* The order a placement asks for, said without building the list.
Stands(id, placement, order) ==
    LET at(x) == SelectInSeq(order, LAMBDA k : k = x) IN
    CASE placement.at = "Last"   -> at(id) = Len(order)
      [] placement.at = "First"  -> at(id) = 1
      [] placement.at = "Before" -> at(id) + 1 = at(placement.anchor)
      [] placement.at = "After"  -> at(id) = at(placement.anchor) + 1

\* A drop the helper permits is applied, unless it breaches a node limit, and
\* leaves the node exactly where the placement says (placement.py's header).
Landed(t, spot, r) ==
    \/ r.err = "LimitExceeded"
    \/ /\ r.err = "None"
       /\ Stands(t, spot.placement, KidIds(r.tree, Find(spot.parent, r.tree)))
       /\ Ids(r.tree) = Ids(tree)

PermittedLands(t, spot, m) == m.err = "None" => Landed(t, spot, ApplyOp(m.op, tree))

DropsLand ==
    Unique(tree) /\ Roomy(tree) =>
      \A t \in Targets, spot \in Spots : PermittedLands(t, spot, MovePlaced(tree, t, spot))

\* A drop the helper refuses, the engine would have refused too, save one whose
\* anchor is unknown (placement.py 12-19, 94-96).
NoFalseRefuse ==
    Unique(tree) => \A t \in Targets, spot \in Spots :
      CanPlace(tree, t, spot) \notin {"None", "UnknownAnchor"} =>
        ApplyOp(MoveOp(t, spot.parent), tree).err # "None"

\* A clone or a paste is never refused for its ids: every colliding id the id walk
\* finds in the subtree is renamed to a fresh one, and the rest are kept; every node
\* goes in, those held sealed too.
AddsAll(n, r) ==
    /\ r.err \in {"None", "LimitExceeded"}
    /\ r.err = "None" => /\ Size(r.tree) = Size(tree) + Size(n)
                         /\ (Ids(n) \ Ids(tree)) \subseteq Ids(r.tree)

FreshlyIn(n, m) ==
    m.err = "None" /\ AddsAll(n, ApplyOp(m.op, tree))

ClonesAreFresh ==
    Unique(tree) /\ Roomy(tree) =>
      \A p \in Layouts, n \in {n \in Fresh : Unique(n)} \union {Sub(tree, x) : x \in DOMAIN tree} :
        FreshlyIn(n, Paste(tree, n, [parent |-> p, placement |-> [at |-> "Last"]]))

\* A nudge one way and back gives the tree it started from, node for node.
Again(t) == DOMAIN t = DOMAIN tree /\ \A x \in DOMAIN t : t[x] = tree[x]
NudgedBack(back, r) == back.err = "None" /\ r.err = "None" /\ Again(r.tree)

NudgeUndoes ==
    Unique(tree) => \A t \in Targets :
      Nudge(tree, t, 1).err = "None" =>
        LET after == ApplyOp(Nudge(tree, t, 1).op, tree).tree
            back == Nudge(after, t, -1)
        IN NudgedBack(back, ApplyOp(back.op, after))

\* What a person does by hand lands where it points, is refused for a reason,
\* and can be taken back; and every node of what is pasted that an op can address
\* has an id of its own.
GesturesLand == DropsLand /\ NoFalseRefuse /\ NudgeUndoes /\ ClonesAreFresh

\* "No false permit": every op a helper emits is accepted by the engine
\* (placement.py 94-96 and its tests' header).  The helpers do not measure depth.
NoFalsePermit ==
    \A t \in Targets, spot \in Spots :
      CanPlace(tree, t, spot) = "None" =>
        ApplyOp(MovePlaced(tree, t, spot).op, tree).err = "None"

-----------------------------------------------------------------------------
(***************************************************************************)
(* The diff, between the tree loaded and the tree held now.                *)
(***************************************************************************)
\* What the diff has no op for: a state or a fallback the node lost or changed.
Sayable(t) ==
    [x \in {x \in DOMAIN t : \A k \in DOMAIN x : x[k] <= MaxSlots} |-> [t[x] EXCEPT !.state = FALSE]]

\* A script that applies in full lands on the target, up to the state and
\* fallback edits the vocabulary cannot say: what the pre-pass moved, what
\* survived and what was inserted never end in another order, under another
\* parent or with other fields.
SaysTheSame(r) == r.err = "None" => Sayable(r.tree) = Sayable(tree)

DiffLands == Unique(base) /\ Unique(tree) => SaysTheSame(Fold(DiffTrees(base, tree), base))

\* The round-trip law (diff.py 8-10, 32-33: "correctness (the round-trip law) is
\* unconditional").
RoundTrip == Fold(DiffTrees(base, tree), base) = Ok(tree)
=============================================================================
