------------------------------- MODULE Apply -------------------------------
(***************************************************************************)
(* The apply engine (ops/apply.py): apply(op, tree) answers a new tree or  *)
(* a typed error, and never changes the tree it was given.                 *)
(*                                                                         *)
(* An answer is [err, tree]; err is "None" on success.  The ops that write *)
(* fields of one node and leave its sub-nodes alone are two here:          *)
(* UpdateProp (with ReplaceBinding), which the kind may refuse, and        *)
(* SetTrait (UpdateStyle, PatchStyle, UpdateAccessibility, UpdateTooltip), *)
(* which it may not.  A Batch holds other ops; one inside another is its   *)
(* ops in its place.                                                       *)
(***************************************************************************)
EXTENDS Tree, TLC

CONSTANTS MaxDepth, MaxNodes    \* MAX_NODE_DEPTH, MAX_NODES
ASSUME NodeLimitsAssumption == MaxDepth \in Nat /\ MaxNodes \in Nat

Ok(tree) == [err |-> "None", tree |-> tree]
Fail(code, t) == [err |-> code, tree |-> t]

InsertChild(parent, child, t) ==
    LET p == Find(parent, t) IN
    IF parent \notin Ids(t) THEN Fail("ParentNotFound", t)
    ELSE IF ~IsLayout(t[p]) THEN Fail("ChildlessKind", t)
    ELSE IF Ids(child) \intersect Ids(t) # {} THEN Fail("DuplicateNodeId", t)
    ELSE Ok(WithKids(t, p, Append(Held(t, p), child)))

\* Only a node some layout node holds as a child can be removed.  The children
\* kept are those of the parent found, stored in the first node of its id.
RemoveNode(target, t) ==
    LET p == InOrder(LayoutParents(target, t))[1]
        kept == FoldLeft(LAMBDA s, n : IF n[<< >>].id = target THEN s ELSE Append(s, n),
                         << >>, Held(t, p))
    IN  IF t[<< >>].id = target THEN Fail("KindMismatch", t)
        ELSE IF LayoutParents(target, t) = {} THEN Fail("NodeNotFound", t)
        ELSE Ok(WithKids(t, Find(t[p].id, t), kept))

\* Mutant: the node is put in its new place before it is taken from the old.
ThenRemove(target, inserted) ==
    IF inserted.err = "None" THEN RemoveNode(target, inserted.tree) ELSE inserted
MoveNodeInsertsFirst(target, parent, t) ==
    IF target \notin Ids(t) THEN Fail("NodeNotFound", t)
    ELSE ThenRemove(target, InsertChild(parent, Sub(t, Find(target, t)), t))

\* A removal, then an insert of what was removed.
ThenInsert(parent, child, removed) ==
    IF removed.err = "None" THEN InsertChild(parent, child, removed.tree) ELSE removed

MoveNode(target, parent, t) ==
    IF target = parent \/ IsAncestor(target, parent, t) THEN Fail("KindMismatch", t)
    ELSE IF target \notin Ids(t) THEN Fail("NodeNotFound", t)
    ELSE IF parent \notin Ids(t) THEN Fail("ParentNotFound", t)
    ELSE IF ~IsLayout(t[Find(parent, t)]) THEN Fail("ChildlessKind", t)
    ELSE ThenInsert(parent, Sub(t, Find(target, t)), RemoveNode(target, t))

\* The order names exactly the current child ids, as many and each as often as it
\* occurs; of two children with one id, the last stands for both.
ReorderChildren(parent, order, t) ==
    LET p == Find(parent, t)
        ids == KidIds(t, p)
        count(id, s) == Cardinality({i \in DOMAIN s : s[i] = id})
        kid(id) == Sub(t, Append(p, SelectLastInSeq(ids, LAMBDA k : k = id)))
    IN  IF parent \notin Ids(t) THEN Fail("ParentNotFound", t)
        ELSE IF ~IsLayout(t[p]) THEN Fail("ChildlessKind", t)
        ELSE IF \/ DOMAIN order # DOMAIN ids
                \/ \E id \in ToSet(order) \union ToSet(ids) : count(id, order) # count(id, ids)
             THEN Fail("OrderingMismatch", t)
        ELSE Ok(WithKids(t, p, [i \in DOMAIN order |-> kid(order[i])]))

\* A kind with no field surface answers PathNotSupportedYet.
UpdateProp(target, value, t) ==
    LET p == Find(target, t) IN
    IF target \notin Ids(t) THEN Fail("NodeNotFound", t)
    ELSE IF t[p].kind \in {"Switch", "Modal"} THEN Fail("PathNotSupportedYet", t)
    ELSE Ok([t EXCEPT ![p].prop = value])

\* The new kind brings its own fields and sub-nodes, sealed or not; id and envelope
\* stay.
EditNode(target, k, t) ==
    LET p == Find(target, t) IN
    IF target \notin Ids(t) THEN Fail("NodeNotFound", t)
    ELSE Ok(WithSlots([t EXCEPT ![p].kind = k.kind, ![p].prop = k.prop, ![p].sealed = k.sealed],
                      p, 0, k.kids))

UpdateState(target, arms, t) ==
    LET p == Find(target, t) IN
    IF target \notin Ids(t) THEN Fail("NodeNotFound", t)
    ELSE Ok(WithSlots([t EXCEPT ![p].state = TRUE], p, StateSlot, arms))

\* The traits named are set, the others stay (_patch_style).
SetTrait(target, value, t) ==
    IF target \notin Ids(t) THEN Fail("NodeNotFound", t)
    ELSE Ok([t EXCEPT ![Find(target, t)].trait = value @@ @])

\* The arms of _apply_one but the Batch.
ApplyEdit(op, t) ==
    CASE op.tag = "InsertChild"     -> InsertChild(op.parent, op.child, t)
      [] op.tag = "RemoveNode"      -> RemoveNode(op.target, t)
      [] op.tag = "MoveNode"        -> MoveNode(op.target, op.parent, t)
      [] op.tag = "ReorderChildren" -> ReorderChildren(op.parent, op.order, t)
      [] op.tag = "UpdateProp"      -> UpdateProp(op.target, op.value, t)
      [] op.tag = "EditNode"        -> EditNode(op.target, op.newKind, t)
      [] op.tag = "UpdateState"     -> UpdateState(op.target, op.arms, t)
      [] op.tag = "SetTrait"        -> SetTrait(op.target, op.value, t)
      [] op.tag = "ReplaceRoot"     -> Ok(op.node)

\* A Batch discards its partial state when an inner op fails.
OrAborted(r, t) == IF r.err = "None" THEN r ELSE Fail("BatchAborted", t)

ApplyOne(op, t) ==
    IF op.tag = "Batch"
    THEN FoldLeft(LAMBDA acc, inner :
                    IF acc.err = "None" THEN OrAborted(ApplyEdit(inner, acc.tree), t) ELSE acc,
                  Ok(t), op.ops)
    ELSE ApplyEdit(op, t)

-----------------------------------------------------------------------------
\* The ops an op is made of.
Edits(op) == IF op.tag = "Batch" THEN op.ops ELSE <<op>>

\* The outermost nodes an op puts in (_nodes_in of the op), those it seals too.
Carried(e) ==
    CASE e.tag = "InsertChild" -> {e.child}
      [] e.tag = "ReplaceRoot" -> {e.node}
      [] e.tag = "EditNode"    -> ToSet(e.newKind.kids) \union ToSet(e.newKind.sealed)
      [] e.tag = "UpdateState" -> ToSet(e.arms)
      [] OTHER                 -> {}

Installed(op) == UNION {Carried(Edits(op)[i]) : i \in DOMAIN Edits(op)}

\* Mutant: only an op that carries a node is measured.
CanGrowByPayload(op) == Installed(op) # {}

CanGrow(op) ==
    Installed(op) # {} \/ \E i \in DOMAIN Edits(op) : Edits(op)[i].tag = "MoveNode"

ExceedsLimits(t) == Depth(t) > MaxDepth \/ Size(t) > MaxNodes

\* Mutants: only the ops that add a node are checked; an id two ops of a Batch
\* put in is refused, though the first left before the second arrived.
InstalledDuplicateOfInserts(op, t) ==
    /\ op.tag \in {"InsertChild", "ReplaceRoot"}
    /\ \E n \in Installed(op) : \E id \in Ids(n) : Copies(id, t) > 1
InstalledDuplicateInPayload(op, t) ==
    \/ \E n \in Installed(op) : \E id \in Ids(n) : Copies(id, t) > 1
    \/ \E i, j \in DOMAIN Edits(op) :
         i # j /\ \E n \in Carried(Edits(op)[i]), m \in Carried(Edits(op)[j]) :
                     Ids(n) \intersect Ids(m) # {}

\* Only the ids the op installed are charged to it, those the id walk reaches from
\* an outermost node; and only where the walk of the result finds them: a sealed
\* node has whatever id it has.
InstalledDuplicate(op, t) ==
    \E n \in Installed(op) : \E id \in Ids(n) : Copies(id, t) > 1

\* apply: both checks read the result, a Batch once, limits before ids.
Checked(op, t, r) ==
    IF r.err # "None" THEN r
    ELSE IF CanGrow(op) /\ ExceedsLimits(r.tree) THEN Fail("LimitExceeded", t)
    ELSE IF InstalledDuplicate(op, r.tree) THEN Fail("DuplicateNodeId", t)
    ELSE r

ApplyOp(op, t) == Checked(op, t, ApplyOne(op, t))

-----------------------------------------------------------------------------
(***************************************************************************)
(* What the engine is given: trees of the four kinds, and ops the decoder  *)
(* admits; and what whoever holds a tree asks of it.                       *)
(***************************************************************************)
IsNode(n) == IsFiniteSet(DOMAIN n) /\ DOMAIN n \subseteq Seq(Nat) /\ WellFormed(n)

InARow(s) == s \in Seq(ToSet(s))
AreNodes(s) == InARow(s) /\ \A i \in DOMAIN s : IsNode(s[i])

IsKind(k) == /\ k.kind \in {"Box", "Switch", "Modal", "Leaf"} /\ AreNodes(k.kids) /\ AreSealed(k.sealed)
             /\ k.kind \in {"Modal", "Leaf"} => k.kids = << >>
             /\ k.kind # "Modal" => k.sealed = << >>

IsEdit(e) ==
    /\ e.tag \in {"InsertChild", "RemoveNode", "MoveNode", "ReorderChildren", "UpdateProp",
                  "EditNode", "UpdateState", "SetTrait", "ReplaceRoot"}
    /\ e.tag = "InsertChild" => IsNode(e.child)
    /\ e.tag = "ReplaceRoot" => IsNode(e.node)
    /\ e.tag = "EditNode" => IsKind(e.newKind)
    /\ e.tag = "UpdateState" => AreNodes(e.arms)

IsOp(op) ==
    IF op.tag = "Batch" THEN InARow(op.ops) /\ \A i \in DOMAIN op.ops : IsEdit(op.ops[i]) ELSE IsEdit(op)

\* A document whose nodes can be told apart: of those an op can address, each id once.
IsDocument(t) == IsNode(t) /\ Unique(t)

\* An op accepted makes a document of a document.
EngineKeeps(ops) ==
    \A op \in ops : \A t :
      IsDocument(t) /\ ApplyOp(op, t).err = "None" => IsDocument(ApplyOp(op, t).tree)
=============================================================================
