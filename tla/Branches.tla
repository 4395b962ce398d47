------------------------------ MODULE Branches ------------------------------
(***************************************************************************)
(* Two branches of a document, edited apart through the apply engine, and  *)
(* the merge of what they have become (merge.py over ops/apply.py).  The   *)
(* merge keeps no state: the properties are about its outcome wherever the *)
(* branches are.  No edit replaces the root, whose id a merge takes as     *)
(* shared.                                                                 *)
(***************************************************************************)
EXTENDS Merge

CONSTANTS Starts,     \* the trees to fork from
          Alphabets,  \* sets of ops: those the two branches of a document apply
          MaxEdits    \* bound: the edits of each branch, by its name
ASSUME StartsAssumption == \A t \in Starts : DOMAIN t \subseteq Seq(Nat)

VARIABLES base, a, b,
          alphabet,     \* the ops of this document's branches
          left          \* edits a branch has left

vars == <<base, a, b, alphabet, left>>

Init ==
    /\ base \in Starts
    /\ a = base /\ b = base
    /\ alphabet \in Alphabets
    /\ left = MaxEdits

EditA(op) ==
    LET r == ApplyOp(op, a) IN
    /\ left.a > 0 /\ r.err = "None"
    /\ a' = r.tree
    /\ left' = [left EXCEPT !.a = @ - 1]
    /\ UNCHANGED <<base, b, alphabet>>

EditB(op) ==
    LET r == ApplyOp(op, b) IN
    /\ left.b > 0 /\ r.err = "None"
    /\ b' = r.tree
    /\ left' = [left EXCEPT !.b = @ - 1]
    /\ UNCHANGED <<base, a, alphabet>>

Next == \E op \in alphabet : EditA(op) \/ EditB(op)

Spec == Init /\ [][Next]_vars

-----------------------------------------------------------------------------
Outcome(pin) == Merge3(base, a, b, pin)
OtherSide(s) == CASE s = "a" -> "b" [] s = "b" -> "a" [] OTHER -> "base"

\* What is read and what is merged are trees, whoever has precedence.
TypeOK ==
    /\ WellFormed(base) /\ WellFormed(a) /\ WellFormed(b)
    /\ \A s \in {"a", "b"} : left[s] \in 0 .. MaxEdits[s]
    /\ \A pin \in Sides : WellFormed(Outcome(pin).tree)

\* Two replicas that merge the same pair in opposite orders end with one tree, or
\* with refusals that transpose the sides and change nothing else.
Transposes ==
    \A pin \in Sides :
      LET there == Outcome(pin)
          back == Merge3(base, b, a, OtherSide(pin))
      IN  /\ back.ok = there.ok /\ back.tree = there.tree
          /\ back.conflicts = {[c EXCEPT !.a = c.b, !.b = c.a] : c \in there.conflicts}

\* A branch merged with one that did nothing, or that did the same, is that
\* branch, but for the tooltips, which are no facet.
SansTooltip(t) == [x \in DOMAIN t |-> [t[x] EXCEPT !.trait["tooltip"] = 0]]
Gives(other, t) ==
    LET m == Merge3(base, t, other, "base") IN m.ok /\ SansTooltip(m.tree) = SansTooltip(t)
OneSided == Gives(base, a) /\ Gives(a, a)

\* The places of the base that both branches still reach by the same ids, and
\* what a tree has there.
At(t, x) ==
    LET three == ThreeAt(base, t, t, x) IN three.a
Reaches(t, x) == \A k \in DOMAIN x :
    Holds(At(t, SubSeq(x, 1, k - 1)), base[SubSeq(x, 1, k)].id) /\ At(t, SubSeq(x, 1, k)).tree = t
Shared == {x \in Structural(base) : Reaches(a, x) /\ Reaches(b, x)}

Facets(n) ==
    LET l == n.tree[n.at]
    IN  [kind |-> KindOwn(n.tree, n.at), state |-> <<l.state, ArmsAt(n.tree, n.at)>>,
         accessibility |-> l.trait["accessibility"], tone |-> l.trait["tone"], voice |-> l.trait["voice"]]

\* v is what the three hold, m what came out, s the side whose edit counts first.
Takes(v, m, s) ==
    m = IF v[s] # v.base THEN v[s] ELSE v[OtherSide(s)]

KeepsEdits(t, s) ==
    \A x \in Shared :
      /\ Reaches(t, x)
      /\ \A f \in {"kind", "state", "accessibility", "tone", "voice"} :
           Takes([base |-> Facets(At(base, x))[f], a |-> Facets(At(a, x))[f], b |-> Facets(At(b, x))[f]],
                 Facets(At(t, x))[f], s)

\* A merge that goes through has every edit of both branches to the nodes that
\* neither moved nor removed: of no facet is one picked over the other.
EditsKept ==
    LET m == Outcome("base") IN m.ok => KeepsEdits(m.tree, "a") /\ KeepsEdits(m.tree, "b")

\* With a human on one branch the merge always goes through, with every edit of
\* the human and those of the agent that are not in their way.  Where a branch has
\* set a tooltip, which is compared with every facet, more is in their way.
NoTooltips == \A t \in {a, b} : SansTooltip(t) = t
HumanWins == \A s \in {"a", "b"} : Outcome(s).ok /\ (NoTooltips => KeepsEdits(Outcome(s).tree, s))

EditsCount == TypeOK /\ OneSided /\ EditsKept /\ HumanWins

\* Both branches put in one id at one place: there is no base to merge against, and
\* only what both put in alike goes through.
InsertsAgree ==
    LET added(x) == (ToSet(Children(At(a, x))) \intersect ToSet(Children(At(b, x)))) \ ToSet(Children(At(base, x)))
        put(t, id) == SansTooltip(Sub(t, Find(id, t)))
    IN  Outcome("base").ok => \A x \in Shared : \A id \in added(x) : put(a, id) = put(b, id)

\* The children a node is left with: those both kept, and those either added; and
\* what both added is one node.
KidsMerged ==
  InsertsAgree /\
    LET m == Outcome("base")
        kids(t, x) == ToSet(Children(At(t, x)))
    IN  m.ok => \A x \in Shared :
          (\A t \in {base, a, b} : IsLayout(At(t, x).tree[At(t, x).at])) =>
             kids(m.tree, x) = (kids(base, x) \intersect kids(a, x) \intersect kids(b, x))
                                 \union (kids(a, x) \ kids(base, x)) \union (kids(b, x) \ kids(base, x))

-----------------------------------------------------------------------------
\* merge.py: "When a facet changed on at most one side, that side's value is taken":
\* of a node all three have, wherever it is.
Everywhere == Ids(base) \intersect Ids(a) \intersect Ids(b)
Node(t, id) == [tree |-> t, at |-> Find(id, t)]
FacetsFollow ==
    LET m == Outcome("base")
    IN  m.ok => \A id \in Everywhere \intersect Ids(m.tree) :
          \A f \in {"accessibility", "tone", "voice"} :
            LET v == [base |-> Facets(Node(base, id))[f], a |-> Facets(Node(a, id))[f], b |-> Facets(Node(b, id))[f]]
            IN  ~Clash(v) => Facets(Node(m.tree, id))[f] = v[Winner(v, "base")]

\* A node that neither branch removed is in the merged tree once.
MovesMerged ==
    LET m == Outcome("base") IN m.ok => \A id \in Everywhere : Copies(id, m.tree) = 1

\* merge.py: "`state` - the StateBehaviour block", a conflict "when both changed it
\* differently": a refused facet was changed by both branches.
RefusedWasChanged ==
    \A c \in Outcome("base").conflicts :
      c.facet \in {"kind", "state", "accessibility"} =>
        \A t \in {a, b} : Facets(Node(t, c.id))[c.facet] # Facets(Node(base, c.id))[c.facet]

\* merge.py: a conflict with a Primary is "resolved in the primary's favour", that
\* of two nodes put in with one id too.
HumanInsertsWin ==
    \A s \in {"a", "b"} :
      \A c \in Outcome(s).conflicts :
        c.facet = "insert" => Sub(Outcome(s).tree, Find(c.id, Outcome(s).tree)) = c[s]["insert"]
=============================================================================
