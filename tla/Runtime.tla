------------------------------ MODULE Runtime ------------------------------
(***************************************************************************)
(* The interactive runtime (runtime/runtime.py) over the apply engine:     *)
(* mount, dispatch, set_compute_state, and the listeners a paint binds.    *)
(*                                                                         *)
(* The document has root elements a runtime can be mounted at, none inside *)
(* another.  A paint throws the elements away that its root shows, and no  *)
(* others: a runtime mounted elsewhere leaves the old root as it is, and   *)
(* one mounted at a root that is missing paints no more, while its last    *)
(* page and listeners stay.  An element is [paint, at]: the paint that     *)
(* made it and the position of its node.  A click walks the path of        *)
(* elements that were above its target when it began, calling on_event for *)
(* each that still has a listener; on_event is host code, and may          *)
(* dispatch, or change the compute state, itself before it returns an op,  *)
(* or nothing.                                                             *)
(*                                                                         *)
(* "Switch" is here the Switch kind: slot 1 its default, slot 1 + v the    *)
(* case that matches compute value v.  A node whose prop is 1 has a        *)
(* Transform source, and so a derived row.  Trees and ops have no Modal:   *)
(* both walks of the runtime enter one, and the id walk of the engine, by  *)
(* which a tree has its positions, does not.                               *)
(***************************************************************************)
EXTENDS Apply, FiniteSetTheorems, TLAPS

CONSTANTS Start,      \* the trees a runtime may be made with
          Ops,        \* the ops the host may dispatch
          Values,     \* of the one compute-state key; 0 when it has none
          Roots,      \* the root elements, numbered in document order
          MaxPaints   \* bound: paints in a run
ASSUME ValuesAssumption == 0 \in Values /\ Values \subseteq Nat
ASSUME RootsAssumption ==
    /\ Roots \subseteq Nat \ {0}
    /\ \A some \in (SUBSET Roots) \ {{}} : \E i \in some : \A j \in some : i <= j
ASSUME HostAssumption == /\ \A t \in Start : IsDocument(t) /\ \A x \in DOMAIN t : t[x].kind # "Modal"
                         /\ \A op \in Ops : IsOp(op)
                         /\ MaxPaints \in Nat

VARIABLES tree, compute, derived, lastError,
          root,        \* _root; 0 when it is None
          page,        \* what each root shows: the tree, the compute state and the paint
          paints,      \* how many paints there were
          listeners,   \* of the document: [element, id], id being what on_event is told
          cleanups,    \* _cleanups: the listeners the runtime knows how to remove
          click        \* the click being dispatched

vars == <<tree, compute, derived, lastError, root, page, paints, listeners, cleanups, click>>
model == <<tree, compute, derived, lastError>>
surface == <<page, paints, listeners, cleanups>>

Blank == [tree |-> << >>, compute |-> 0, paint |-> 0]
NoClick == [path |-> << >>, at |-> 1, busy |-> FALSE]
Mounted == root # 0

\* evaluate_tree: a row for every node with a Transform, under the present state.
Derived(t, v) == [id \in {t[x].id : x \in {y \in DOMAIN t : t[y].prop = 1}} |-> v]

\* render_html: the children of a layout node; of a Switch the case that matches,
\* else its default.  Alternatives and fallbacks are not shown.
Shown(t, v, p) ==
    IF t[p].kind = "Switch" THEN {IF Append(p, 1 + v) \in DOMAIN t THEN 1 + v ELSE 1} ELSE 1 .. MaxSlots
Rendered(t, v) ==
    {x \in DOMAIN t : \A k \in 1 .. Len(x) : x[k] \in Shown(t, v, SubSeq(x, 1, k - 1))}

\* _node_ids: children, State alternatives and fallbacks; not what a Switch holds.
Walked(t) ==
    {x \in DOMAIN t : \A k \in 1 .. Len(x) :
       x[k] > StateSlot \/ t[SubSeq(x, 1, k - 1)].kind # "Switch"}

\* What a root shows, and its first element with the id.
ShownAt(shows) == Rendered(shows.tree, shows.compute)
IdsAt(shows) == {shows.tree[x].id : x \in ShownAt(shows)}
ElementAt(id, shows) ==
    [paint |-> shows.paint, at |-> InOrder({x \in ShownAt(shows) : shows.tree[x].id = id})[1]]

\* getElementById: the first element of the document with the id, of those it has.
ElementOf(id, pages) ==
    ElementAt(id, pages[CHOOSE i \in {j \in Roots : id \in IdsAt(pages[j])} :
                          \A j \in Roots : id \in IdsAt(pages[j]) => i <= j])

Bound(t, pages) ==
    LET ids == {t[x].id : x \in Walked(t)} \intersect UNION {IdsAt(pages[i]) : i \in Roots}
    IN  {[element |-> ElementOf(id, pages), id |-> id] : id \in ids}

\* set_inner_html.
Fill(i, t, v) ==
    /\ paints < MaxPaints
    /\ paints' = paints + 1
    /\ page' = [page EXCEPT ![i] = [tree |-> t, compute |-> v, paint |-> paints']]
    /\ cleanups' = Bound(t, page')

\* Mutant: the listeners of the last paint are never removed.
PaintKeepsOld(i, t, v) == Fill(i, t, v) /\ listeners' = listeners \union cleanups'

\* _paint: render, then _bind, which first runs the cleanups it has.
Paint(i, t, v) == Fill(i, t, v) /\ listeners' = (listeners \ cleanups) \union cleanups'

PaintIfMounted(t, v) == IF Mounted THEN Paint(root, t, v) ELSE UNCHANGED surface

Init ==
    /\ tree \in Start
    /\ compute = 0
    /\ derived = Derived(tree, 0)
    /\ lastError = "None"
    /\ root = 0
    /\ page = [i \in Roots |-> Blank] /\ paints = 0 /\ listeners = {} /\ cleanups = {}
    /\ click = NoClick

\* The host runs at the top level, or inside on_event.
HostTurn == click.path # << >> => click.busy

Mount(i) ==
    /\ click = NoClick
    /\ root' = i
    /\ Paint(i, tree, compute)
    /\ UNCHANGED <<model, click>>

\* mount raises, when it has let go of the root it had.
MountMissing ==
    /\ click = NoClick
    /\ root' = 0
    /\ UNCHANGED <<model, surface, click>>

\* A refused op changes nothing but last_error.
Accepted(r) ==
    /\ tree' = r.tree
    /\ lastError' = "None"
    /\ derived' = Derived(r.tree, compute)
    /\ PaintIfMounted(r.tree, compute)
Refused(r) ==
    /\ lastError' = r.err
    /\ UNCHANGED <<tree, derived, surface>>

DoDispatch(op) ==
    LET r == ApplyOp(op, tree)
    IN  (IF r.err = "None" THEN Accepted(r) ELSE Refused(r)) /\ UNCHANGED <<compute, root>>

Dispatch(op) == HostTurn /\ DoDispatch(op) /\ UNCHANGED click

\* Mutant: the page is not painted again.
SetComputeStateQuietly(v) ==
    /\ HostTurn
    /\ compute' = v
    /\ derived' = Derived(tree, v)
    /\ UNCHANGED <<tree, lastError, root, surface, click>>

SetComputeState(v) ==
    /\ HostTurn
    /\ compute' = v
    /\ derived' = Derived(tree, v)
    /\ PaintIfMounted(tree, v)
    /\ UNCHANGED <<tree, lastError, root, click>>

-----------------------------------------------------------------------------
\* The browser: an event goes from its target up, and a listener that was
\* removed meanwhile is not called.
PathFrom(i, p) ==
    [k \in 1 .. Len(p) + 1 |-> [paint |-> page[i].paint, at |-> SubSeq(p, 1, Len(p) + 1 - k)]]

Click ==
    /\ click = NoClick
    /\ \E i \in Roots : \E p \in ShownAt(page[i]) :
         click' = [path |-> PathFrom(i, p), at |-> 1, busy |-> FALSE]
    /\ UNCHANGED <<model, root, surface>>

Listens(e) == \E l \in listeners : l.element = e
Bubbles == click.path # << >> /\ ~click.busy

Bubble ==
    /\ Bubbles
    /\ click' = IF click.at > Len(click.path) THEN NoClick
                ELSE IF Listens(click.path[click.at]) THEN [click EXCEPT !.busy = TRUE]
                ELSE [click EXCEPT !.at = @ + 1]
    /\ UNCHANGED <<model, root, surface>>

\* _on_dom_event: on_event answers nothing, or an op to dispatch.
Ignore ==
    /\ click.busy
    /\ click' = [click EXCEPT !.busy = FALSE, !.at = @ + 1]
    /\ UNCHANGED <<model, root, surface>>

Answer(op) ==
    /\ click.busy
    /\ DoDispatch(op)
    /\ click' = [click EXCEPT !.busy = FALSE, !.at = @ + 1]

Next ==
    \/ (\E i \in Roots : Mount(i)) \/ MountMissing
    \/ Click \/ Bubble \/ Ignore
    \/ \E op \in Ops : Dispatch(op) \/ Answer(op)
    \/ \E v \in Values : SetComputeState(v)

Spec == Init /\ [][Next]_vars

-----------------------------------------------------------------------------
TypeOK ==
    /\ tree # << >> /\ compute \in Values
    /\ derived = Derived(tree, compute)
    /\ paints \in 0 .. MaxPaints
    /\ cleanups \subseteq listeners
    /\ click.at \in 1 .. Len(click.path) + 1

\* Only one root was ever painted.
OneRoot == \A i, j \in Roots : page[i] # Blank /\ page[j] # Blank => i = j

\* Whoever changed the tree or the compute state, the root shows the current ones:
\* no dispatch, however deep in a click, leaves the page of an older tree.
PageIsCurrent == Mounted => page[root].tree = tree /\ page[root].compute = compute

\* A listener does not outlive the elements of its paint, and tells the id of the
\* node its element shows.
ListenersAreLive ==
    \A l \in listeners : \E i \in Roots :
        l.element.paint = page[i].paint /\ page[i].tree[l.element.at].id = l.id

\* The walk that binds finds what the walk that renders shows, outside of Switches.
\* What another root shows from an earlier mount may hide it from getElementById.
ShownAreFound ==
    Mounted => \A x \in ShownAt(page[root]) \intersect Walked(tree) :
                 \E l \in listeners :
                   l.id = tree[x].id /\ (OneRoot => l.element = [paint |-> paints, at |-> x])

PageIsLive == TypeOK /\ PageIsCurrent /\ ListenersAreLive /\ ShownAreFound

\* Once a handler of a click has repainted, no other handler of it is called: the
\* ancestors the click would still reach stand for nodes of an older tree.  With an
\* older root shown before the present one they are bound again, and called.
OneAnswerPerPaint ==
    [][OneRoot /\ ~click.busy /\ click'.busy => click.path[click.at].paint = paints]_vars

\* _node_ids: "Every node id in the tree (the binding set), mirroring the render
\* walk": every node that is shown has a listener.
ShownAreBound ==
    Mounted => \A x \in ShownAt(page[root]) : \E l \in listeners : l.id = tree[x].id

-----------------------------------------------------------------------------
(***************************************************************************)
(* What holds for all trees, ops and values.  A paint knows every listener *)
(* there is, so it removes them all and leaves its own alone.              *)
(***************************************************************************)
Painted == /\ paints \in 0 .. MaxPaints /\ page = [i \in Roots |-> page[i]]
           /\ root \in Roots \union {0}
OfLastPaint == /\ listeners = cleanups
               /\ OneRoot => \A l \in listeners : l.element.paint = paints
ClickTyped  == click = [path |-> click.path, at |-> click.at, busy |-> click.busy]

LiveInv == Painted /\ OfLastPaint /\ ClickTyped /\ PageIsCurrent

LEMMA BlankShows == ShownAt(Blank) = {} /\ IdsAt(Blank) = {}
<1>1. DOMAIN Blank.tree = {}
    BY DEF Blank
<1>2. ShownAt(Blank) = {}
    BY <1>1 DEF ShownAt, Rendered
<1> QED
    BY <1>1, <1>2 DEF IdsAt

\* getElementById finds an element of a root that has the id.
LEMMA FoundWhereShown ==
    ASSUME NEW pages, NEW id, NEW r \in Roots, id \in IdsAt(pages[r])
    PROVE  \E i \in Roots : id \in IdsAt(pages[i]) /\ ElementOf(id, pages) = ElementAt(id, pages[i])
<1> DEFINE having == {j \in Roots : id \in IdsAt(pages[j])}
           First(i) == \A j \in Roots : id \in IdsAt(pages[j]) => i <= j
<1>1. \E i \in having : First(i)
    BY RootsAssumption
<1> DEFINE i == CHOOSE k \in having : First(k)
<1>2. i \in having
    BY <1>1
<1> QED
    BY <1>2 DEF ElementOf

\* A paint leaves the listeners of its own elements, where no other root was painted.
LEMMA PaintBinds ==
    ASSUME Painted, OfLastPaint, NEW i \in Roots, NEW t, NEW v, Paint(i, t, v)
    PROVE  /\ OfLastPaint' /\ paints' \in 0 .. MaxPaints /\ page' = [k \in Roots |-> page'[k]]
           /\ page'[i] = [tree |-> t, compute |-> v, paint |-> paints']
<1>1. /\ listeners' = cleanups' /\ cleanups' = Bound(t, page')
      /\ paints' \in 0 .. MaxPaints /\ paints' # 0
    BY HostAssumption DEF OfLastPaint, Painted, Paint, Fill
<1>2. /\ page' = [k \in Roots |-> page'[k]]
      /\ page'[i] = [tree |-> t, compute |-> v, paint |-> paints']
    BY DEF Painted, Paint, Fill
<1>3. page'[i] # Blank
    BY <1>1, <1>2 DEF Blank
<1>4. ASSUME OneRoot', NEW l \in Bound(t, page')
      PROVE  l.element.paint = paints'
    <2>1. PICK id : l.element = ElementOf(id, page') /\ \E r \in Roots : id \in IdsAt(page'[r])
        BY <1>4 DEF Bound
    <2>2. PICK k \in Roots : id \in IdsAt(page'[k]) /\ ElementOf(id, page') = ElementAt(id, page'[k])
        BY <2>1, FoundWhereShown
    <2>3. k = i
        BY <1>3, <1>4, <2>2, BlankShows DEF OneRoot
    <2> QED
        BY <1>2, <2>1, <2>2, <2>3 DEF ElementAt
<1> QED
    BY <1>1, <1>2, <1>4 DEF OfLastPaint

\* An op that is dispatched, at the top or in a handler's answer, paints what it made.
LEMMA DispatchShows ==
    ASSUME Painted, OfLastPaint, PageIsCurrent, NEW op, DoDispatch(op)
    PROVE  Painted' /\ OfLastPaint' /\ PageIsCurrent'
<1> DEFINE r == ApplyOp(op, tree)
<1>1. CASE r.err = "None" /\ Mounted
    <2>1. Paint(root, r.tree, compute) /\ root \in Roots
        BY <1>1 DEF DoDispatch, Accepted, PaintIfMounted, Mounted, Painted
    <2>2. /\ OfLastPaint' /\ paints' \in 0 .. MaxPaints /\ page' = [k \in Roots |-> page'[k]]
          /\ page'[root] = [tree |-> r.tree, compute |-> compute, paint |-> paints']
        BY <2>1, PaintBinds
    <2>3. tree' = r.tree /\ compute' = compute /\ root' = root
        BY <1>1 DEF DoDispatch, Accepted
    <2> HIDE DEF r
    <2> QED
        BY <2>2, <2>3 DEF PageIsCurrent, Painted
<1>2. CASE r.err = "None" /\ ~ Mounted
    <2>1. UNCHANGED surface /\ root' = root
        BY <1>2 DEF DoDispatch, Accepted, PaintIfMounted
    <2> QED
        BY <1>2, <2>1 DEF surface, OfLastPaint, PageIsCurrent, Painted, Mounted, OneRoot
<1>3. CASE r.err # "None"
    <2>1. UNCHANGED <<surface, tree, compute, root>>
        BY <1>3 DEF DoDispatch, Refused
    <2> QED
        BY <2>1 DEF surface, OfLastPaint, PageIsCurrent, Painted, Mounted, OneRoot
<1> QED
    BY <1>1, <1>2, <1>3

LEMMA LiveStep == LiveInv /\ [Next]_vars => LiveInv'
<1> SUFFICES ASSUME LiveInv, [Next]_vars PROVE LiveInv'
    OBVIOUS
<1> USE DEF LiveInv
<1>0. ASSUME UNCHANGED surface, OfLastPaint PROVE OfLastPaint'
    BY <1>0 DEF surface, OfLastPaint, OneRoot
<1>1. ASSUME NEW i \in Roots, Mount(i) PROVE LiveInv'
    <2>1. /\ OfLastPaint' /\ paints' \in 0 .. MaxPaints /\ page' = [k \in Roots |-> page'[k]]
          /\ page'[i] = [tree |-> tree, compute |-> compute, paint |-> paints']
        BY <1>1, PaintBinds DEF Mount
    <2> QED
        BY <1>1, <2>1 DEF Mount, model, PageIsCurrent, ClickTyped, Painted
<1>2. ASSUME MountMissing PROVE LiveInv'
    BY <1>0, <1>2 DEF MountMissing, PageIsCurrent, ClickTyped, Painted, Mounted, surface
<1>3. ASSUME Click \/ Bubble \/ Ignore PROVE LiveInv'
    <2>1. UNCHANGED <<model, root, surface>>
        BY <1>3 DEF Click, Bubble, Ignore
    <2>2. Painted' /\ OfLastPaint' /\ PageIsCurrent'
        BY <1>0, <2>1 DEF model, surface, PageIsCurrent, Painted, Mounted
    <2>3. CASE click' = NoClick \/ \E path : click' = [path |-> path, at |-> 1, busy |-> FALSE]
        BY <2>2, <2>3 DEF NoClick, ClickTyped
    <2>4. CASE \/ click' = [click EXCEPT !.busy = TRUE] \/ click' = [click EXCEPT !.at = @ + 1]
               \/ click' = [click EXCEPT !.busy = FALSE, !.at = @ + 1]
        BY <2>2, <2>4 DEF ClickTyped
    <2> QED
        BY <1>3, <2>3, <2>4 DEF Click, Bubble, Ignore
<1>4. ASSUME NEW op \in Ops, Dispatch(op) PROVE LiveInv'
    <2>1. Painted' /\ OfLastPaint' /\ PageIsCurrent'
        BY <1>4, DispatchShows DEF Dispatch
    <2> QED
        BY <1>4, <2>1 DEF Dispatch, ClickTyped
<1>5. ASSUME NEW op \in Ops, Answer(op) PROVE LiveInv'
    <2>1. Painted' /\ OfLastPaint' /\ PageIsCurrent'
        BY <1>5, DispatchShows DEF Answer
    <2> QED
        BY <1>5, <2>1 DEF Answer, ClickTyped
<1>6. ASSUME NEW v \in Values, SetComputeState(v) PROVE LiveInv'
    <2>1. CASE Mounted
        <3>1. Paint(root, tree, v) /\ root \in Roots
            BY <1>6, <2>1 DEF SetComputeState, PaintIfMounted, Mounted, Painted
        <3>2. /\ OfLastPaint' /\ paints' \in 0 .. MaxPaints /\ page' = [k \in Roots |-> page'[k]]
              /\ page'[root] = [tree |-> tree, compute |-> v, paint |-> paints']
            BY <3>1, PaintBinds
        <3> QED
            BY <1>6, <3>2 DEF SetComputeState, PageIsCurrent, ClickTyped, Painted
    <2>2. CASE ~ Mounted
        <3>1. UNCHANGED surface
            BY <1>6, <2>2 DEF SetComputeState, PaintIfMounted
        <3> QED
            BY <1>0, <1>6, <2>2, <3>1 DEF SetComputeState, surface, PageIsCurrent, ClickTyped, Painted, Mounted
    <2> QED
        BY <2>1, <2>2
<1>7. CASE UNCHANGED vars
    BY <1>0, <1>7 DEF vars, surface, ClickTyped, PageIsCurrent, Painted, Mounted
<1> QED
    BY <1>1, <1>2, <1>3, <1>4, <1>5, <1>6, <1>7 DEF Next

LEMMA LiveAlways == Spec => []LiveInv
<1>1. Init => LiveInv
    BY HostAssumption DEF Init, LiveInv, OfLastPaint, ClickTyped, PageIsCurrent, NoClick, Painted, Mounted
<1> QED
    BY <1>1, LiveStep, PTL DEF Spec

\* Whatever handlers dispatch and change before they answer, and wherever the runtime was
\* asked to mount, while one root alone was painted a click calls at most the handlers of
\* the page that is shown when it reaches them: FuaranRuntime._bind.
THEOREM OneAnswer == Spec => OneAnswerPerPaint
<1>1. ASSUME LiveInv, [Next]_vars
      PROVE  [OneRoot /\ ~click.busy /\ click'.busy => click.path[click.at].paint = paints]_vars
    <2> USE DEF LiveInv
    <2>1. CASE Bubble
        <3>1. OneRoot /\ Listens(click.path[click.at]) => click.path[click.at].paint = paints
            BY <1>1 DEF Listens, OfLastPaint
        <3> QED
            BY <1>1, <2>1, <3>1 DEF Bubble, Bubbles, NoClick, ClickTyped
    <2>2. CASE \/ (\E i \in Roots : Mount(i)) \/ MountMissing \/ (\E op \in Ops : Dispatch(op))
               \/ (\E v \in Values : SetComputeState(v))
        BY <2>2 DEF Mount, MountMissing, Dispatch, SetComputeState
    <2>3. CASE Click
        BY <2>3 DEF Click
    <2>4. CASE Ignore \/ \E op \in Ops : Answer(op)
        BY <1>1, <2>4 DEF Ignore, Answer, ClickTyped
    <2>5. CASE UNCHANGED vars
        BY <2>5
    <2> QED
        BY <1>1, <2>1, <2>2, <2>3, <2>4, <2>5 DEF Next
<1> QED
    BY <1>1, LiveAlways, PTL DEF Spec, OneAnswerPerPaint

\* However deep in a click a dispatch or a change of the compute state happens, and
\* whichever roots the runtime was mounted at before, the page of its root is that of the
\* tree and the state it holds: FuaranRuntime._paint.
THEOREM PageStaysCurrent == Spec => []PageIsCurrent
    BY LiveAlways, PTL DEF LiveInv

-----------------------------------------------------------------------------
(***************************************************************************)
(* The listeners.  A document holds each id once, so getElementById finds  *)
(* in a root the element of the node that has it, and the listeners there  *)
(* are, are those the last paint bound.                                    *)
(***************************************************************************)
AreDocuments(pages) == \A i \in Roots : pages[i] = Blank \/ IsDocument(pages[i].tree)
Listening ==
    \/ paints = 0 /\ ~Mounted /\ listeners = {}
    \/ \E i \in Roots : /\ page[i].paint = paints /\ listeners = Bound(page[i].tree, page)
                        /\ Mounted => root = i
Clicking  == /\ Len(click.path) \in Nat /\ click.at \in 1 .. Len(click.path) + 1
             /\ click.busy => click.at <= Len(click.path)

PageInv ==
    /\ IsDocument(tree) /\ compute \in Values /\ derived = Derived(tree, compute)
    /\ AreDocuments(page)
    /\ LiveInv /\ Listening /\ Clicking

LEMMA FirstOfOne ==
    ASSUME NEW x, ~ Before(x, x)
    PROVE  InOrder({x})[1] = x
<1> DEFINE S == {x}
<1>1. Cardinality(S) = 1 /\ Cardinality({}) = 0
    BY FS_Singleton, FS_EmptySet
<1>2. 1 \in 1 .. 1 /\ 1 - 1 = 0
    OBVIOUS
<1>3. InOrder(S)[1] = CHOOSE y \in S : Cardinality({z \in S : Before(z, y)}) = 0
    BY <1>1, <1>2, Zenon DEF InOrder
<1>4. {z \in S : Before(z, x)} = {}
    OBVIOUS
<1>5. \E y \in S : Cardinality({z \in S : Before(z, y)}) = 0
    BY <1>1, <1>4
<1> QED
    BY <1>3, <1>5

\* The one node with the id is the first.
LEMMA ElementIsNode ==
    ASSUME NEW shows, IsDocument(shows.tree), NEW x \in ShownAt(shows)
    PROVE  ElementAt(shows.tree[x].id, shows) = [paint |-> shows.paint, at |-> x]
<1> DEFINE t == shows.tree
<1>1. ShownAt(shows) \in SUBSET DOMAIN t
    BY DEF ShownAt, Rendered
<1>2. {y \in ShownAt(shows) : t[y].id = t[x].id} = {x}
    BY <1>1 DEF IsDocument, Unique
<1>3. ~ Before(x, x)
    <2>1. x \in Seq(Nat)
        BY <1>1 DEF IsDocument, IsNode
    <2>2. \A k \in DOMAIN x : ~ (x[k] < x[k])
        BY <2>1
    <2> QED
        BY <2>2 DEF Before, IsStrictPrefix
<1> QED
    BY <1>2, <1>3, FirstOfOne DEF ElementAt

\* A listener sits on an element of a page and tells the id of its node.
LEMMA BoundAreLive ==
    ASSUME NEW pages, AreDocuments(pages), NEW t, NEW l \in Bound(t, pages)
    PROVE  \E i \in Roots : l.element.paint = pages[i].paint /\ pages[i].tree[l.element.at].id = l.id
<1>1. PICK id : l = [element |-> ElementOf(id, pages), id |-> id] /\ \E r \in Roots : id \in IdsAt(pages[r])
    BY DEF Bound
<1>2. PICK i \in Roots : id \in IdsAt(pages[i]) /\ ElementOf(id, pages) = ElementAt(id, pages[i])
    BY <1>1, FoundWhereShown
<1>3. PICK x \in ShownAt(pages[i]) : id = pages[i].tree[x].id
    BY <1>2 DEF IdsAt
<1>4. IsDocument(pages[i].tree)
    BY <1>3, BlankShows DEF AreDocuments
<1>5. ElementAt(id, pages[i]) = [paint |-> pages[i].paint, at |-> x]
    BY <1>3, <1>4, ElementIsNode
<1> QED
    BY <1>1, <1>2, <1>3, <1>5

\* And every node that is shown and found has one, at its element if no other root
\* shows anything.
LEMMA ShownAreBoundTo ==
    ASSUME NEW pages, AreDocuments(pages), NEW i \in Roots,
           NEW x \in ShownAt(pages[i]) \intersect Walked(pages[i].tree)
    PROVE  \E l \in Bound(pages[i].tree, pages) :
             /\ l.id = pages[i].tree[x].id
             /\ (\A j \in Roots : pages[j] # Blank => j = i) =>
                  l.element = [paint |-> pages[i].paint, at |-> x]
<1> DEFINE id == pages[i].tree[x].id
           l == [element |-> ElementOf(id, pages), id |-> id]
<1>1. id \in IdsAt(pages[i]) /\ id \in {pages[i].tree[y].id : y \in Walked(pages[i].tree)}
    BY DEF IdsAt
<1> HIDE DEF id
<1>2. l \in Bound(pages[i].tree, pages)
    BY <1>1 DEF Bound
<1>3. ASSUME \A j \in Roots : pages[j] # Blank => j = i
      PROVE  ElementOf(id, pages) = [paint |-> pages[i].paint, at |-> x]
    <2>1. PICK k \in Roots : id \in IdsAt(pages[k]) /\ ElementOf(id, pages) = ElementAt(id, pages[k])
        BY <1>1, FoundWhereShown
    <2>2. k = i
        BY <1>3, <2>1, BlankShows
    <2>3. IsDocument(pages[i].tree)
        BY BlankShows DEF AreDocuments
    <2> QED
        BY <2>1, <2>2, <2>3, ElementIsNode DEF id
<1> QED
    BY <1>2, <1>3 DEF id

\* What is kept is what a page that is live asks.
LEMMA KeptIsLive == PageInv => PageIsLive
<1> SUFFICES ASSUME PageInv PROVE PageIsLive
    OBVIOUS
<1>1. TypeOK
    <2>1. tree # << >>
        BY DEF PageInv, IsDocument, IsNode, WellFormed, Shaped
    <2> QED
        BY <2>1 DEF PageInv, LiveInv, OfLastPaint, Painted, Clicking, TypeOK
<1>2. PageIsCurrent /\ AreDocuments(page)
    BY DEF PageInv, LiveInv
<1>3. CASE listeners = {} /\ ~Mounted
    BY <1>1, <1>2, <1>3 DEF PageIsLive, ListenersAreLive, ShownAreFound
<1>4. ASSUME NEW i \in Roots, page[i].paint = paints, listeners = Bound(page[i].tree, page),
             Mounted => root = i
      PROVE  PageIsLive
    <2>1. ListenersAreLive
        BY <1>2, <1>4, BoundAreLive DEF ListenersAreLive
    <2>2. ASSUME Mounted, NEW x \in ShownAt(page[root]) \intersect Walked(tree)
          PROVE  \E l \in listeners :
                   l.id = tree[x].id /\ (OneRoot => l.element = [paint |-> paints, at |-> x])
        <3>1. root = i /\ page[i].tree = tree
            BY <1>2, <1>4, <2>2 DEF PageIsCurrent
        <3>2. PICK l \in Bound(page[i].tree, page) :
                 /\ l.id = page[i].tree[x].id
                 /\ (\A j \in Roots : page[j] # Blank => j = i) =>
                      l.element = [paint |-> page[i].paint, at |-> x]
            BY <1>2, <2>2, <3>1, ShownAreBoundTo
        <3>3. page[i] # Blank
            BY <2>2, <3>1, BlankShows
        <3>4. OneRoot => \A j \in Roots : page[j] # Blank => j = i
            BY <3>3 DEF OneRoot
        <3> QED
            BY <1>4, <3>1, <3>2, <3>4
    <2> QED
        BY <1>1, <1>2, <2>1, <2>2 DEF PageIsLive, ShownAreFound
<1> QED
    BY <1>3, <1>4 DEF PageInv, Listening

\* A paint of what the runtime then holds leaves the listeners it asks for, and no more.
LEMMA PaintListens ==
    ASSUME Painted, OfLastPaint, AreDocuments(page), NEW i \in Roots, NEW t, IsDocument(t),
           root' = i, Paint(i, t, compute')
    PROVE  Listening' /\ AreDocuments(page')
<1>1. page'[i] = [tree |-> t, compute |-> compute', paint |-> paints']
    BY PaintBinds
<1>2. listeners' = Bound(t, page') /\ \A k \in Roots \ {i} : page'[k] = page[k]
    BY DEF Painted, OfLastPaint, Paint, Fill
<1>3. Listening'
    BY <1>1, <1>2 DEF Listening, Mounted
<1>4. AreDocuments(page')
    BY <1>1, <1>2 DEF AreDocuments
<1> QED
    BY <1>3, <1>4

LEMMA NothingListens ==
    ASSUME Listening, UNCHANGED <<root, surface>>
    PROVE  Listening'
    BY DEF Listening, Mounted, surface

LEMMA StillDocuments ==
    ASSUME AreDocuments(page')
    PROVE  AreDocuments(page)'
    BY DEF AreDocuments, IsDocument, IsNode, WellFormed, Shaped, Unique, Blank

\* An op accepted leaves a document and its page; one refused leaves all as it was.
LEMMA DispatchListens ==
    ASSUME PageInv, EngineKeeps(Ops), NEW op \in Ops, DoDispatch(op)
    PROVE  /\ IsDocument(tree') /\ derived' = Derived(tree', compute')
           /\ AreDocuments(page') /\ Listening' /\ compute' = compute
<1> DEFINE r == ApplyOp(op, tree)
<1>0. Painted /\ OfLastPaint /\ AreDocuments(page) /\ Listening /\ IsDocument(tree)
    BY DEF PageInv, LiveInv
<1>1. compute' = compute /\ root' = root
    BY DEF DoDispatch
<1>2. CASE r.err = "None"
    <2>1. IsDocument(r.tree)
        BY <1>0, <1>2 DEF EngineKeeps
    <2> HIDE DEF r
    <2>2. tree' = r.tree /\ derived' = Derived(r.tree, compute) /\ PaintIfMounted(r.tree, compute)
        BY <1>2 DEF DoDispatch, Accepted, r
    <2>3. IsDocument(tree') /\ derived' = Derived(tree', compute')
        BY <1>1, <2>1, <2>2
    <2>4. CASE Mounted
        <3>1. Paint(root, r.tree, compute') /\ root \in Roots
            BY <1>0, <1>1, <2>2, <2>4 DEF PaintIfMounted, Mounted, Painted
        <3>2. Listening' /\ AreDocuments(page')
            BY <1>0, <1>1, <2>1, <3>1, PaintListens
        <3> QED
            BY <1>1, <2>3, <3>2
    <2>5. CASE ~ Mounted
        <3>1. UNCHANGED surface
            BY <2>2, <2>5 DEF PaintIfMounted
        <3>2. Listening' /\ page' = page
            BY <1>0, <1>1, <3>1, NothingListens DEF surface
        <3> QED
            BY <1>0, <1>1, <2>3, <3>2
    <2> QED
        BY <2>4, <2>5
<1>3. CASE r.err # "None"
    <2>1. UNCHANGED <<tree, derived, surface>>
        BY <1>3 DEF DoDispatch, Refused
    <2>2. Listening' /\ page' = page
        BY <1>0, <1>1, <2>1, NothingListens DEF surface
    <2> QED
        BY <1>0, <1>1, <2>1, <2>2 DEF PageInv
<1> QED
    BY <1>2, <1>3

\* Every step keeps it.
LEMMA PageStep == PageInv /\ EngineKeeps(Ops) /\ [Next]_vars => PageInv'
<1> SUFFICES ASSUME PageInv, EngineKeeps(Ops), [Next]_vars PROVE PageInv'
    OBVIOUS
<1> DEFINE Kept == /\ IsDocument(tree') /\ compute' \in Values /\ derived' = Derived(tree', compute')
                   /\ AreDocuments(page') /\ Listening'
<1>0. /\ LiveInv' /\ LiveInv /\ Painted /\ OfLastPaint /\ AreDocuments(page) /\ Listening
      /\ IsDocument(tree) /\ compute \in Values /\ derived = Derived(tree, compute)
    BY LiveStep DEF PageInv, LiveInv
<1>1. ASSUME Kept, Clicking' PROVE PageInv'
    <2>1. IsDocument(tree)' /\ (derived = Derived(tree, compute))'
        BY <1>1 DEF IsDocument, IsNode, WellFormed, Shaped, Unique, Derived
    <2> QED
        BY <1>0, <1>1, <2>1, StillDocuments DEF PageInv
<1>2. ASSUME UNCHANGED <<model, root, surface>> PROVE Kept
    <2>1. Listening'
        BY <1>0, <1>2, NothingListens
    <2> QED
        BY <1>0, <1>2, <2>1 DEF model, surface
<1>3. ASSUME click' = click PROVE Clicking'
    BY <1>3 DEF PageInv, Clicking
<1> HIDE DEF Kept
<1>4. ASSUME NEW i \in Roots, Mount(i) PROVE PageInv'
    <2>1. root' = i /\ Paint(i, tree, compute') /\ UNCHANGED <<model, click>>
        BY <1>4 DEF Mount, model
    <2>2. Listening' /\ AreDocuments(page')
        BY <1>0, <2>1, PaintListens
    <2>3. Kept
        BY <1>0, <2>1, <2>2 DEF Kept, model
    <2> QED
        BY <1>1, <1>3, <2>1, <2>3
<1>5. CASE MountMissing
    <2>1. root' = 0 /\ UNCHANGED <<model, surface, click>>
        BY <1>5 DEF MountMissing
    <2>2. Listening'
        BY <1>0, <2>1 DEF Listening, Mounted, surface
    <2>3. Kept
        BY <1>0, <2>1, <2>2 DEF Kept, model, surface
    <2> QED
        BY <1>1, <1>3, <2>1, <2>3
<1>6. CASE Click
    <2>1. UNCHANGED <<model, root, surface>>
        BY <1>6 DEF Click
    <2>2. PICK i \in Roots, p \in Seq(Nat) : click' = [path |-> PathFrom(i, p), at |-> 1, busy |-> FALSE]
        <3>1. PICK i \in Roots : \E p \in ShownAt(page[i]) :
                click' = [path |-> PathFrom(i, p), at |-> 1, busy |-> FALSE]
            BY <1>6 DEF Click
        <3>2. PICK p \in ShownAt(page[i]) : click' = [path |-> PathFrom(i, p), at |-> 1, busy |-> FALSE]
            BY <3>1
        <3>3. IsDocument(page[i].tree)
            BY <1>0, <3>2, BlankShows DEF AreDocuments
        <3>4. p \in Seq(Nat)
            BY <3>2, <3>3 DEF ShownAt, Rendered, IsDocument, IsNode
        <3> QED
            BY <3>2, <3>4
    <2>3. Len(PathFrom(i, p)) = Len(p) + 1 /\ Len(p) \in Nat
        BY <2>2 DEF PathFrom
    <2>4. Clicking'
        BY <2>2, <2>3 DEF Clicking
    <2> QED
        BY <1>1, <1>2, <2>1, <2>4
<1>7. CASE Bubble
    <2>1. UNCHANGED <<model, root, surface>>
        BY <1>7 DEF Bubble
    <2>2. Clicking /\ ClickTyped
        BY DEF PageInv, LiveInv
    <2>3. ASSUME click' = NoClick PROVE Clicking'
        BY <2>3 DEF NoClick, Clicking
    <2>4. ASSUME click.at <= Len(click.path), click' = [click EXCEPT !.busy = TRUE] PROVE Clicking'
        <3>1. click' = [path |-> click.path, at |-> click.at, busy |-> TRUE]
            BY <2>2, <2>4 DEF ClickTyped
        <3> QED
            BY <2>2, <2>4, <3>1 DEF Clicking
    <2>5. ASSUME click.at <= Len(click.path), click' = [click EXCEPT !.at = @ + 1] PROVE Clicking'
        <3>1. click' = [path |-> click.path, at |-> click.at + 1, busy |-> click.busy]
            BY <2>2, <2>5 DEF ClickTyped
        <3>2. ~ click.busy
            BY <1>7 DEF Bubble, Bubbles
        <3> QED
            BY <2>2, <2>5, <3>1, <3>2 DEF Clicking
    <2>6. \/ click' = NoClick
          \/ /\ ~ (click.at > Len(click.path))
             /\ click' = [click EXCEPT !.busy = TRUE] \/ click' = [click EXCEPT !.at = @ + 1]
        BY <1>7 DEF Bubble
    <2>7. click.at > Len(click.path) \/ click.at <= Len(click.path)
        BY <2>2 DEF Clicking
    <2> QED
        BY <1>1, <1>2, <2>1, <2>3, <2>4, <2>5, <2>6, <2>7
<1>8. ASSUME click.busy, click' = [click EXCEPT !.busy = FALSE, !.at = @ + 1]
      PROVE  Clicking'
    <2>1. Clicking /\ ClickTyped
        BY DEF PageInv, LiveInv
    <2>2. click' = [path |-> click.path, at |-> click.at + 1, busy |-> FALSE]
        BY <1>8, <2>1 DEF ClickTyped
    <2> QED
        BY <1>8, <2>1, <2>2 DEF Clicking
<1>9. CASE Ignore
    BY <1>1, <1>2, <1>8, <1>9 DEF Ignore
<1>10. ASSUME NEW op \in Ops, DoDispatch(op) PROVE Kept
    BY <1>0, <1>10, DispatchListens DEF Kept
<1>11. ASSUME NEW op \in Ops, Dispatch(op) PROVE PageInv'
    BY <1>1, <1>3, <1>10, <1>11 DEF Dispatch
<1>12. ASSUME NEW op \in Ops, Answer(op) PROVE PageInv'
    BY <1>1, <1>8, <1>10, <1>12 DEF Answer
<1>13. ASSUME NEW v \in Values, SetComputeState(v) PROVE PageInv'
    <2>1. tree' = tree /\ compute' = v /\ derived' = Derived(tree', v) /\ root' = root /\ click' = click
          /\ PaintIfMounted(tree, compute')
        BY <1>13 DEF SetComputeState
    <2>2. Listening' /\ AreDocuments(page')
        <3>1. CASE Mounted
            <4>1. Paint(root, tree, compute') /\ root \in Roots
                BY <1>0, <2>1, <3>1 DEF PaintIfMounted, Mounted, Painted
            <4> QED
                BY <1>0, <2>1, <4>1, PaintListens
        <3>2. CASE ~ Mounted
            <4>1. UNCHANGED surface
                BY <2>1, <3>2 DEF PaintIfMounted
            <4> QED
                BY <1>0, <2>1, <4>1, NothingListens DEF surface
        <3> QED
            BY <3>1, <3>2
    <2>3. Kept
        BY <1>0, <1>13, <2>1, <2>2 DEF Kept
    <2> QED
        BY <1>1, <1>3, <2>1, <2>3
<1>14. CASE UNCHANGED vars
    <2>1. UNCHANGED <<model, root, surface>> /\ click' = click
        BY <1>14 DEF vars, model, surface
    <2> QED
        BY <1>1, <1>2, <1>3, <2>1
<1> QED
    BY <1>4, <1>5, <1>6, <1>7, <1>9, <1>11, <1>12, <1>13, <1>14 DEF Next

\* However deep in a click the host dispatches or changes the compute state, and wherever
\* it mounts the runtime: the root shows what the runtime holds, each listener sits on an
\* element of a page and tells the id of its node, and every node that the walk that binds
\* finds on the root's page has one, at its element if no other root was painted:
\* FuaranRuntime._paint, _bind.  Of the engine it is used that it keeps documents.
THEOREM PageStaysLive ==
    ASSUME EngineKeeps(Ops)
    PROVE  Spec => []PageIsLive
<1>1. Init => PageInv
    <2> SUFFICES ASSUME Init PROVE PageInv
        OBVIOUS
    <2>1. LiveInv
        BY HostAssumption DEF Init, LiveInv, OfLastPaint, ClickTyped, PageIsCurrent, NoClick, Painted, Mounted
    <2>2. Clicking
        BY DEF Init, NoClick, Clicking
    <2>3. AreDocuments(page) /\ Listening
        BY DEF Init, AreDocuments, Listening, Mounted
    <2> QED
        BY <2>1, <2>2, <2>3, HostAssumption, ValuesAssumption DEF Init, PageInv
<1>2. PageInv /\ [Next]_vars => PageInv'
    BY PageStep
<1> QED
    BY <1>1, <1>2, KeptIsLive, PTL DEF Spec
=============================================================================
