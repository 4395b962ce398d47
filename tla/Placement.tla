----------------------------- MODULE Placement -----------------------------
(***************************************************************************)
(* The placement algebra (ops/placement.py): what an editor's drop, nudge, *)
(* duplicate and paste become in the positionless op vocabulary.           *)
(*                                                                         *)
(* A placement is [at |-> "Last" | "First"] or [at |-> "Before" | "After", *)
(* anchor |-> id].  A helper answers [err, op]; err is "None" when it      *)
(* emits an op.                                                            *)
(***************************************************************************)
EXTENDS Apply

Emit(op) == [err |-> "None", op |-> op]
Refused(code) == [err |-> code, op |-> << >>]

InsertOp(parent, child) == [tag |-> "InsertChild", parent |-> parent, child |-> child]
MoveOp(target, parent) == [tag |-> "MoveNode", target |-> target, parent |-> parent]
ReorderOp(parent, order) == [tag |-> "ReorderChildren", parent |-> parent, order |-> order]
BatchOp(ops) == [tag |-> "Batch", ops |-> ops]

ContainerError(t, parent) ==
    IF parent \notin Ids(t) THEN "ParentNotFound"
    ELSE IF ~IsLayout(t[Find(parent, t)]) THEN "ChildlessKind"
    ELSE "None"

Siblings(t, parent) == KidIds(t, Find(parent, t))

Without(order, moved) ==
    FoldLeft(LAMBDA rest, id : IF id = moved THEN rest ELSE Append(rest, id), << >>, order)

AnchorMissing(order, moved, placement) ==
    placement.at \in {"Before", "After"}
      /\ placement.anchor \notin ToSet(Without(order, moved))

\* Mutant: "Before" and "After" are taken one for the other.
RepositionSwapped(order, moved, placement) ==
    LET rest == Without(order, moved)
        at == CASE placement.at = "Last"   -> Len(rest)
                [] placement.at = "First"  -> 0
                [] placement.at = "Before" -> SelectInSeq(rest, LAMBDA id : id = placement.anchor)
                [] OTHER                   -> SelectInSeq(rest, LAMBDA id : id = placement.anchor) - 1
    IN  InsertAt(rest, at + 1, moved)

\* _reposition, once the anchor is known to be there.
Reposition(order, moved, placement) ==
    LET rest == Without(order, moved)
        at == CASE placement.at = "Last"   -> Len(rest)
                [] placement.at = "First"  -> 0
                [] placement.at = "Before" -> SelectInSeq(rest, LAMBDA id : id = placement.anchor) - 1
                [] OTHER                   -> SelectInSeq(rest, LAMBDA id : id = placement.anchor)
    IN  InsertAt(rest, at + 1, moved)

StructurallyPresent(id, t) == t[<< >>].id = id \/ LayoutParents(id, t) # {}

\* The reorder leg is left out when appending already gives the order wanted.
Placed(op, parent, appended, wanted) ==
    IF wanted = appended THEN op ELSE BatchOp(<<op, ReorderOp(parent, wanted)>>)

CanPlace(t, moved, target) ==
    IF ~StructurallyPresent(moved, t) THEN "NodeNotFound"
    ELSE IF target.parent = moved THEN "MoveIntoSelf"
    ELSE IF IsAncestor(moved, target.parent, t) THEN "MoveIntoDescendant"
    ELSE IF ContainerError(t, target.parent) # "None" THEN ContainerError(t, target.parent)
    ELSE IF AnchorMissing(Siblings(t, target.parent), moved, target.placement)
         THEN "UnknownAnchor"
    ELSE "None"

PlaceChild(t, child, target) ==
    LET id == child[<< >>].id
        appended == Append(Siblings(t, target.parent), id)
    IN  IF ContainerError(t, target.parent) # "None"
        THEN Refused(ContainerError(t, target.parent))
        ELSE IF Ids(child) \intersect Ids(t) # {} THEN Refused("DuplicateId")
        ELSE IF AnchorMissing(appended, id, target.placement) THEN Refused("UnknownAnchor")
        ELSE Emit(Placed(InsertOp(target.parent, child), target.parent, appended,
                         Reposition(appended, id, target.placement)))

MovePlaced(t, moved, target) ==
    LET appended == Append(Without(Siblings(t, target.parent), moved), moved)
    IN  IF CanPlace(t, moved, target) # "None" THEN Refused(CanPlace(t, moved, target))
        ELSE Emit(Placed(MoveOp(moved, target.parent), target.parent, appended,
                         Reposition(appended, moved, target.placement)))

Swapped(ids, at, with) == [ids EXCEPT ![at] = ids[with], ![with] = ids[at]]

Nudge(t, id, delta) ==
    LET p == InOrder(LayoutParents(id, t))[1]
        ids == KidIds(t, p)
        at == SelectInSeq(ids, LAMBDA k : k = id)
    IN  IF t[<< >>].id = id THEN Refused("CannotNudgeRoot")
        ELSE IF LayoutParents(id, t) = {} THEN Refused("NodeNotFound")
        ELSE IF at + delta \notin DOMAIN ids THEN Refused("NudgeOutOfRange")
        ELSE Emit(ReorderOp(t[p].id, Swapped(ids, at, at + delta)))

-----------------------------------------------------------------------------
(***************************************************************************)
(* The clone verbs.  A copy's id is told by the id it was made of and a    *)
(* number: <<id, k>> is "<id>-copy-k".                                     *)
(***************************************************************************)
DerivedId(old, taken) ==
    LET free(k) == <<old, k>> \notin taken
    IN  <<old, CHOOSE k \in 1 .. Cardinality(taken) + 1 : free(k) /\ \A j \in 1 .. k - 1 : ~free(j)>>

\* The rename map _remap_for_insert builds, in the order of the id walk: only an id
\* that walk finds in the target tree is renamed, dodging those of both trees and
\* the ids minted so far.
Mint(acc, old, t) ==
    IF old \notin Ids(t) \/ old \in DOMAIN acc.new THEN acc
    ELSE LET fresh == DerivedId(old, acc.taken)
         IN  [new |-> [id \in DOMAIN acc.new \union {old} |-> IF id = old THEN fresh ELSE acc.new[id]],
              taken |-> acc.taken \union {fresh}]

Renaming(t, incoming) ==
    FoldLeft(LAMBDA acc, x : Mint(acc, incoming[x].id, t),
             [new |-> << >>, taken |-> Ids(t) \union Ids(incoming)],
             InOrder(DOMAIN incoming)).new

\* _remap_ids: what a node holds sealed keeps the ids it has.
RemapIds(n, new) ==
    [x \in DOMAIN n |-> IF n[x].id \in DOMAIN new THEN [n[x] EXCEPT !.id = new[@]] ELSE n[x]]

RemapForInsert(t, incoming) == RemapIds(incoming, Renaming(t, incoming))

Duplicate(t, source, target) ==
    IF source \notin Ids(t) THEN Refused("NodeNotFound")
    ELSE PlaceChild(t, RemapForInsert(t, Sub(t, Find(source, t))), target)

Paste(t, incoming, target) == PlaceChild(t, RemapForInsert(t, incoming), target)
=============================================================================
