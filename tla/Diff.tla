-------------------------------- MODULE Diff --------------------------------
(***************************************************************************)
(* The structural diff (ops/diff.py): a deterministic op sequence meant to *)
(* take one tree to another, over trees that hold each id once.  It sees   *)
(* children through layout kinds only; whatever else a kind holds is part  *)
(* of the kind.                                                            *)
(***************************************************************************)
EXTENDS Placement

\* _index_parents, as pairs <<child id, parent id>>.
ParentIndex(t) == {<<t[x].id, t[Front(x)].id>> : x \in Structural(t) \ {<< >>}}

\* _detect_moves, in the order of the ids.
DetectMoves(a, b) ==
    LET at(id) == CHOOSE x \in Structural(a) : a[x].id = id
        held == {a[x].id : x \in Structural(a)}
        moved == {e \in ParentIndex(b) :
                    /\ \E f \in ParentIndex(a) : f[1] = e[1] /\ f[2] # e[2]
                    /\ e[2] \in held
                    /\ ~IsStrictPrefix(at(e[1]), at(e[2]))}
        ofId(id) == CHOOSE e \in moved : e[1] = id
        order == InOrder({e[1] : e \in moved})
    IN  [i \in DOMAIN order |-> ofId(order[i])]

-----------------------------------------------------------------------------
\* _try_field_level: a field edit where the kind stays and has writable fields;
\* otherwise the floor, which carries the whole new kind.
FieldLevel(a, b) == a.kind = b.kind /\ a.kind \notin {"Switch", "Modal"}

\* Mutant: the floor restates the kind but carries the old subtree.
KindOpsKeepKids(a, y, b, x) ==
    IF KindOwn(a, y) = KindOwn(b, x) THEN << >>
    ELSE IF FieldLevel(a[y], b[x])
    THEN <<[tag |-> "UpdateProp", target |-> b[x].id, value |-> b[x].prop]>>
    ELSE <<[tag |-> "EditNode", target |-> b[x].id,
            newKind |-> [kind |-> b[x].kind, prop |-> b[x].prop, sealed |-> b[x].sealed, kids |-> Held(a, y)]]>>

KindOps(a, y, b, x) ==
    IF KindOwn(a, y) = KindOwn(b, x) THEN << >>
    ELSE IF FieldLevel(a[y], b[x])
    THEN <<[tag |-> "UpdateProp", target |-> b[x].id, value |-> b[x].prop]>>
    ELSE <<[tag |-> "EditNode", target |-> b[x].id,
            newKind |-> [kind |-> b[x].kind, prop |-> b[x].prop, sealed |-> b[x].sealed, kids |-> Held(b, x)]]>>

Floored(a, y, b, x) == KindOwn(a, y) # KindOwn(b, x) /\ ~FieldLevel(a[y], b[x])

\* A state the target lost has no op, nor has the fallback.
FacetOps(a, y, b, x) ==
    LET moved == {n \in Traits : a[y].trait[n] # b[x].trait[n]} IN
    (IF b[x].state /\ (~a[y].state \/ ArmsAt(a, y) # ArmsAt(b, x))
       THEN <<[tag |-> "UpdateState", target |-> b[x].id, arms |-> ArmsAt(b, x)]>> ELSE << >>)
      \o (IF moved # {}
            THEN <<[tag |-> "SetTrait", target |-> b[x].id,
                    value |-> [n \in moved |-> b[x].trait[n]]]>> ELSE << >>)

\* _children_diff but its recursion: removals, inserts at the tail, one reorder.
ChildOps(a, y, b, x) ==
    LET aIds == IF IsLayout(a[y]) THEN KidIds(a, y) ELSE << >>
        bIds == IF IsLayout(b[x]) THEN KidIds(b, x) ELSE << >>
        removes == SelectSeq(aIds, LAMBDA id : id \notin ToSet(bIds))
        inserts == SelectSeq(bIds, LAMBDA id : id \notin ToSet(aIds))
        survivors == SelectSeq(aIds, LAMBDA id : id \in ToSet(bIds))
    IN  [i \in DOMAIN removes |-> [tag |-> "RemoveNode", target |-> removes[i]]]
          \o [i \in DOMAIN inserts |-> InsertOp(b[x].id, Sub(b, Find(inserts[i], b)))]
          \o (IF survivors \o inserts = bIds THEN << >> ELSE <<ReorderOp(b[x].id, bIds)>>)

\* The nodes of b the recursion visits: each is a child of its parent on both
\* sides, and no node above it took the floor.
Visited(a, b) ==
    {x \in Structural(b) :
       \A k \in DOMAIN x :
         LET up == SubSeq(x, 1, k - 1)
             on == SubSeq(x, 1, k)
         IN  /\ <<b[on].id, b[up].id>> \in ParentIndex(a)
             /\ ~Floored(a, Find(b[up].id, a), b, up)}

\* _diff_node, from the root down, in the order of the target's children.
NodeOps(a, y, b, x) ==
    KindOps(a, y, b, x) \o FacetOps(a, y, b, x)
      \o (IF Floored(a, y, b, x) THEN << >> ELSE ChildOps(a, y, b, x))

DiffNode(a, b) ==
    FoldLeft(LAMBDA ops, x : ops \o NodeOps(a, Find(b[x].id, a), b, x),
             << >>, InOrder(Visited(a, b)))

\* A move the engine refuses is left out; the rest is diffed against the tree
\* the accepted ones produce.
Moved(acc, move, r) ==
    IF r.err = "None" THEN [ops |-> Append(acc.ops, move), tree |-> r.tree] ELSE acc

AfterMoves(before, after) ==
    FoldLeft(LAMBDA acc, m : Moved(acc, MoveOp(m[1], m[2]), ApplyOp(MoveOp(m[1], m[2]), acc.tree)),
             [ops |-> << >>, tree |-> before], DetectMoves(before, after))

ThenDiff(pre, after) == pre.ops \o DiffNode(pre.tree, after)

DiffTrees(before, after) ==
    IF before[<< >>].id # after[<< >>].id THEN <<[tag |-> "ReplaceRoot", node |-> after]>>
    ELSE ThenDiff(AfterMoves(before, after), after)

\* Applying a script, one op at a time, up to the first refusal.
Fold(ops, t) ==
    FoldLeft(LAMBDA acc, op : IF acc.err = "None" THEN ApplyOp(op, acc.tree) ELSE acc,
             Ok(t), ops)
=============================================================================
