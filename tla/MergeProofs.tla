----------------------------- MODULE MergeProofs -----------------------------
(***************************************************************************)
(* Proofs about Branches: two replicas that merge the same pair of         *)
(* branches in opposite orders end with one tree and transposed refusals,  *)
(* for any document, any ops and branches of any length.                   *)
(***************************************************************************)
EXTENDS Branches, WellFoundedInduction, TLAPS

\* What the sides hold, with the branches exchanged.
Exchanged(v) == [s \in Sides |-> v[OtherSide(s)]]

\* Each side has its opposite, and exchanging is its own inverse.
LEMMA SidesExchange ==
    /\ OtherSide("a") = "b" /\ OtherSide("b") = "a" /\ OtherSide("base") = "base"
    /\ \A s \in Sides : OtherSide(s) \in Sides /\ OtherSide(OtherSide(s)) = s
    /\ \A v : /\ Exchanged(v).a = v.b /\ Exchanged(v).b = v.a /\ Exchanged(v).base = v.base
              /\ \A s \in Sides : Exchanged(v)[s] = v[OtherSide(s)]
BY DEF OtherSide, Sides, Exchanged

\* Two of the three clash whoever is named first, and the value that wins is the same.
LEMMA WinnerExchanges ==
    ASSUME NEW v, NEW pin \in Sides
    PROVE  /\ Clash(Exchanged(v)) <=> Clash(v)
           /\ Exchanged(v)[Winner(Exchanged(v), OtherSide(pin))] = v[Winner(v, pin)]
           /\ Winner(v, pin) \in Sides /\ Winner(Exchanged(v), OtherSide(pin)) \in Sides
<1>. DEFINE e == Exchanged(v)
<1>1. e.a = v.b /\ e.b = v.a /\ e.base = v.base /\ e[OtherSide(pin)] = v[pin] /\ OtherSide(pin) \in Sides
  <2>1. OtherSide(pin) \in Sides /\ OtherSide(OtherSide(pin)) = pin
    BY SidesExchange
  <2>. QED  BY <2>1, SidesExchange
<1>. HIDE DEF e
<1>2. Clash(e) <=> Clash(v)
  BY <1>1 DEF Clash
<1>3. Winner(v, pin) \in Sides /\ Winner(e, OtherSide(pin)) \in Sides
  BY <1>1 DEF Winner, Sides
<1>4. e[Winner(e, OtherSide(pin))] = v[Winner(v, pin)]
  <2>1. CASE Clash(v)
    BY <1>1, <1>2, <2>1 DEF Winner
  <2>2. CASE ~Clash(v)
    BY <1>1, <1>2, <2>2 DEF Winner, Clash
  <2>. QED  BY <2>1, <2>2
<1>. QED  BY <1>2, <1>3, <1>4 DEF e

\* So the nodes a facet is taken from have that facet alike.
LEMMA SourceExchanges ==
    ASSUME NEW three, NEW f, NEW pin \in Sides
    PROVE  Probe(Source(Exchanged(three), f, OtherSide(pin)))[f] = Probe(Source(three, f, pin))[f]
<1>. DEFINE v == [s \in Sides |-> Probe(three[s])[f]]
            w == [s \in Sides |-> Probe(Exchanged(three)[s])[f]]
<1>1. w = Exchanged(v)
  <2>1. \A s \in Sides : w[s] = v[OtherSide(s)]
    BY SidesExchange
  <2>. HIDE DEF v
  <2>. QED  BY <2>1 DEF Exchanged
<1>2. /\ Source(three, f, pin) = three[Winner(v, pin)]
      /\ Source(Exchanged(three), f, OtherSide(pin)) = Exchanged(three)[Winner(w, OtherSide(pin))]
  BY DEF Source
<1>3. Winner(v, pin) \in Sides /\ Winner(w, OtherSide(pin)) \in Sides
  BY <1>1, WinnerExchanges
<1>4. w[Winner(w, OtherSide(pin))] = v[Winner(v, pin)]
  BY <1>1, WinnerExchanges
<1>5. \A s \in Sides : v[s] = Probe(three[s])[f] /\ w[s] = Probe(Exchanged(three)[s])[f]
  OBVIOUS
<1>. HIDE DEF v, w
<1>. QED  BY <1>2, <1>3, <1>4, <1>5

\* And what the merged node takes of them.
LEMMA FacetsExchange ==
    ASSUME NEW three, NEW pin \in Sides
    PROVE  LET m(f) == Source(three, f, pin)
               n(f) == Source(Exchanged(three), f, OtherSide(pin))
               l(f) == m(f).tree[m(f).at]
               k(f) == n(f).tree[n(f).at]
           IN  /\ KindOwn(n("kind").tree, n("kind").at) = KindOwn(m("kind").tree, m("kind").at)
               /\ k("state").state = l("state").state
               /\ ArmsAt(n("state").tree, n("state").at) = ArmsAt(m("state").tree, m("state").at)
               /\ \A f \in {"accessibility", "tone", "voice"} : k(f).trait[f] = l(f).trait[f]
<1>. DEFINE m(f) == Source(three, f, pin)
            n(f) == Source(Exchanged(three), f, OtherSide(pin))
<1>1. \A f : Probe(n(f))[f] = Probe(m(f))[f]
  BY SourceExchanges
<1>. HIDE DEF m, n
<1>2. /\ \A x : Probe(x)["kind"] = <<KindOwn(x.tree, x.at), Extras(x)>>
      /\ \A x : Probe(x)["state"] = <<x.tree[x.at].state, ArmsAt(x.tree, x.at), Extras(x)>>
      /\ \A x : Probe(x)["accessibility"] = <<x.tree[x.at].trait["accessibility"], Extras(x)>>
      /\ \A x : \A f \in {"tone", "voice"} : Probe(x)[f] = x.tree[x.at].trait[f]
  BY DEF Probe
<1>3. KindOwn(n("kind").tree, n("kind").at) = KindOwn(m("kind").tree, m("kind").at)
  BY <1>1, <1>2
<1>4. /\ n("state").tree[n("state").at].state = m("state").tree[m("state").at].state
      /\ ArmsAt(n("state").tree, n("state").at) = ArmsAt(m("state").tree, m("state").at)
  BY <1>1, <1>2
<1>5. \A f \in {"accessibility", "tone", "voice"} :
        n(f).tree[n(f).at].trait[f] = m(f).tree[m(f).at].trait[f]
  <2>1. n("accessibility").tree[n("accessibility").at].trait["accessibility"]
          = m("accessibility").tree[m("accessibility").at].trait["accessibility"]
    BY <1>1, <1>2
  <2>2. \A f \in {"tone", "voice"} : n(f).tree[n(f).at].trait[f] = m(f).tree[m(f).at].trait[f]
    BY <1>1, <1>2
  <2>. QED  BY <2>1, <2>2
<1>. QED  BY <1>3, <1>4, <1>5 DEF m, n

\* So the merged node is one.
LEMMA NodeExchanges ==
    ASSUME NEW three, NEW pin \in Sides, NEW kids
    PROVE  MergedNode(Exchanged(three), OtherSide(pin), kids) = MergedNode(three, pin, kids)
<1>. DEFINE m(f) == Source(three, f, pin)
            n(f) == Source(Exchanged(three), f, OtherSide(pin))
            l(f) == m(f).tree[m(f).at]
            k(f) == n(f).tree[n(f).at]
<1>1. /\ KindOwn(n("kind").tree, n("kind").at) = KindOwn(m("kind").tree, m("kind").at)
      /\ k("state").state = l("state").state
      /\ ArmsAt(n("state").tree, n("state").at) = ArmsAt(m("state").tree, m("state").at)
      /\ \A f \in {"accessibility", "tone", "voice"} : k(f).trait[f] = l(f).trait[f]
  BY FacetsExchange
<1>2. Exchanged(three).base = three.base
  BY SidesExchange
<1>3. /\ k("kind").kind = l("kind").kind /\ k("kind").prop = l("kind").prop /\ k("kind").sealed = l("kind").sealed
      /\ ~IsLayout(l("kind")) => Held(n("kind").tree, n("kind").at) = Held(m("kind").tree, m("kind").at)
  <2>. HIDE DEF m, n
  <2>. QED  BY <1>1 DEF KindOwn, IsLayout
<1>4. MergedLabel(Exchanged(three), OtherSide(pin)) = MergedLabel(three, pin)
  <2>. DEFINE x == three.base.tree[three.base.at]
  <2>1. \A f \in Traits : f = "tooltip" \/ k(f).trait[f] = l(f).trait[f]
    BY <1>1 DEF Traits
  <2>2. [f \in Traits |-> IF f = "tooltip" THEN x.trait[f] ELSE k(f).trait[f]]
          = [f \in Traits |-> IF f = "tooltip" THEN x.trait[f] ELSE l(f).trait[f]]
    <3>. HIDE DEF x, k, l
    <3>. QED  BY <2>1
  <2>3. MergedLabel(three, pin) =
          [x EXCEPT !.kind = l("kind").kind, !.prop = l("kind").prop, !.sealed = l("kind").sealed, !.state = l("state").state,
                    !.trait = [f \in Traits |-> IF f = "tooltip" THEN x.trait[f] ELSE l(f).trait[f]]]
    BY DEF MergedLabel
  <2>4. MergedLabel(Exchanged(three), OtherSide(pin)) =
          [x EXCEPT !.kind = k("kind").kind, !.prop = k("kind").prop, !.sealed = k("kind").sealed, !.state = k("state").state,
                    !.trait = [f \in Traits |-> IF f = "tooltip" THEN x.trait[f] ELSE k(f).trait[f]]]
    BY <1>2 DEF MergedLabel
  <2>. QED  BY <1>1, <1>3, <2>2, <2>3, <2>4
<1>5. WithKindChildren(n("kind"), kids) = WithKindChildren(m("kind"), kids)
  <2>1. IsLayout(k("kind")) <=> IsLayout(l("kind"))
    <3>. HIDE DEF m, n
    <3>. QED  BY <1>3 DEF IsLayout
  <2>. HIDE DEF m, n
  <2>. QED  BY <1>3, <2>1 DEF WithKindChildren
<1>. QED  BY <1>1, <1>2, <1>4, <1>5 DEF MergedNode

-----------------------------------------------------------------------------
\* What the sides' nodes have of a kind, the children here, goes with them.
LEMMA ChildrenExchange ==
    ASSUME NEW three
    PROVE  On(Exchanged(three), Children) = Exchanged(On(three, Children))
<1>. DEFINE v == [s \in Sides |-> Children(three[s])]
            w == [s \in Sides |-> Children(Exchanged(three)[s])]
<1>1. \A s \in Sides : w[s] = v[OtherSide(s)]
  BY SidesExchange
<1>2. On(three, Children) = v /\ On(Exchanged(three), Children) = w
  BY DEF On
<1>3. DOMAIN w = Sides
  OBVIOUS
<1>. HIDE DEF v
<1>4. w = Exchanged(v)
  BY <1>1 DEF Exchanged
<1>. QED  BY <1>2, <1>4

\* The children of the merged node are in one order.
LEMMA IdsExchange ==
    ASSUME NEW v, NEW pin \in Sides
    PROVE  /\ MergedIds(Exchanged(v), OtherSide(pin)) = MergedIds(v, pin)
           /\ Disjoint(Exchanged(v)) <=> Disjoint(v)
<1>. DEFINE e == Exchanged(v)
<1>1. e.a = v.b /\ e.b = v.a /\ e.base = v.base
  BY SidesExchange
<1>2. /\ Clash(e) <=> Clash(v)
      /\ e[Winner(e, OtherSide(pin))] = v[Winner(v, pin)]
  BY WinnerExchanges
<1>. HIDE DEF e
<1>3. Added(e, "a") = Added(v, "b") /\ Added(e, "b") = Added(v, "a")
  BY <1>1 DEF Added
<1>4. Disjoint(e) <=> Disjoint(v)
  BY <1>1, <1>3 DEF Disjoint
<1>5. Added(e, "a") \union Added(e, "b") = Added(v, "a") \union Added(v, "b")
  BY <1>3
<1>6. MergedIds(e, OtherSide(pin)) = MergedIds(v, pin)
  BY <1>1, <1>2, <1>4, <1>5 DEF MergedIds
<1>. QED  BY <1>4, <1>6 DEF e

\* A child the base does not have is the same node.
LEMMA InsertedExchanges ==
    ASSUME NEW three, NEW id
    PROVE  Inserted(Exchanged(three), id) = Inserted(three, id)
<1>. DEFINE e == Exchanged(three)
            S == {s \in Sides : Holds(three[s], id)}
            R == {s \in Sides : Holds(e[s], id)}
            M == {KidTree(three[s], id) : s \in S}
            N == {KidTree(e[s], id) : s \in R}
<1>1. \A s \in Sides : OtherSide(s) \in Sides /\ OtherSide(OtherSide(s)) = s /\ e[s] = three[OtherSide(s)]
  BY SidesExchange
<1>. HIDE DEF e
<1>2. \A s \in S : OtherSide(s) \in R /\ KidTree(e[OtherSide(s)], id) = KidTree(three[s], id)
  BY <1>1
<1>3. \A s \in R : OtherSide(s) \in S /\ KidTree(e[s], id) = KidTree(three[OtherSide(s)], id)
  BY <1>1
<1>4. M = N
  <2>. HIDE DEF S, R
  <2>. QED  BY <1>2, <1>3
<1>5. Inserted(three, id) = (CHOOSE t \in M : TRUE) /\ Inserted(e, id) = (CHOOSE t \in N : TRUE)
  BY DEF Inserted
<1>. HIDE DEF M, N
<1>. QED  BY <1>4, <1>5 DEF e

\* The recursion comes to the same place from both orders.
LEMMA BelowExchanges ==
    ASSUME NEW three, NEW id
    PROVE  Below(Exchanged(three), id) = Exchanged(Below(three, id))
<1>. DEFINE e == Exchanged(three)
            B(t, s) == IF Holds(t[s], id) THEN [tree |-> t[s].tree, at |-> Kid(t[s], id)]
                       ELSE [tree |-> t.base.tree, at |-> Kid(t.base, id)]
            v == [s \in Sides |-> B(three, s)]
            w == [s \in Sides |-> B(e, s)]
<1>1. /\ e.base = three.base
      /\ \A s \in Sides : OtherSide(s) \in Sides /\ e[s] = three[OtherSide(s)]
  BY SidesExchange
<1>2. Below(three, id) = v /\ Below(e, id) = w
  BY DEF Below
<1>. HIDE DEF e
<1>3. \A s \in Sides : B(e, s) = B(three, OtherSide(s))
  BY <1>1
<1>. HIDE DEF B
<1>4. \A s \in Sides : w[s] = v[OtherSide(s)]
  BY <1>1, <1>3
<1>5. DOMAIN w = Sides
  OBVIOUS
<1>. HIDE DEF v
<1>6. w = Exchanged(v)
  BY <1>4 DEF Exchanged
<1>. QED  BY <1>2, <1>6 DEF e

-----------------------------------------------------------------------------
(***************************************************************************)
(* Where the recursion is: a fold over a position.  FoldLeft chooses a     *)
(* function on the subsets of a sequence's domain; that there is one, and  *)
(* what it gives the whole, is shown by the least length where it fails.   *)
(***************************************************************************)
\* A set of numbers has a least one.
LEMMA Least ==
    ASSUME NEW T, T \subseteq Nat, T # {}
    PROVE  \E m \in T : \A n \in T : m <= n
<1>1. PICK m \in T : \A n \in T : ~ (<<n, m>> \in OpToRel(<, Nat))
  BY WFMin, NatLessThanWellFounded
<1>2. \A n \in T : ~ (n < m)
  BY <1>1 DEF OpToRel
<1>. QED  BY <1>2

\* The greatest of a set of numbers, which a fold takes away first.
LEMMA MaxOf ==
    ASSUME NEW n \in Nat, NEW s \in SUBSET (1 .. n), n \in s
    PROVE  Max(s) = n
<1>1. \A x \in s : (\A y \in s : x >= y) => x = n
  OBVIOUS
<1>2. \A y \in s : n >= y
  OBVIOUS
<1>. QED  BY <1>1, <1>2 DEF Max

\* A fold over 1 .. n takes n away and goes on over 1 .. n - 1.
LEMMA RangeIs ==
    ASSUME NEW n \in Nat \ {0}
    PROVE  Max(1 .. n) = n /\ 1 .. n # {} /\ (1 .. n) \ {n} = 1 .. n - 1 /\ 1 .. n \in SUBSET (1 .. n)
<1>1. n \in 1 .. n /\ 1 .. n \in SUBSET (1 .. n)
  OBVIOUS
<1>2. Max(1 .. n) = n
  BY <1>1, MaxOf
<1>3. ASSUME NEW x
      PROVE  x \in (1 .. n) \ {n} <=> x \in 1 .. n - 1
  OBVIOUS
<1>. QED  BY <1>1, <1>2, <1>3

StepDown(three, i) == Below(three, Children(three.base)[i])
Roots(t, u, v) == [base |-> [tree |-> t, at |-> << >>],
                   a |-> [tree |-> u, at |-> << >>], b |-> [tree |-> v, at |-> << >>]]

IsFold(f, three, x, n) ==
    /\ DOMAIN f = SUBSET (1 .. n)
    /\ \A s \in SUBSET (1 .. n) : f[s] = IF s = {} THEN three ELSE StepDown(f[s \ {Max(s)}], x[Max(s)])

\* There is a fold over every length.
LEMMA FoldExists ==
    ASSUME NEW three, NEW x, NEW n \in Nat
    PROVE  \E f : IsFold(f, three, x, n)
<1>. DEFINE T == {m \in Nat : ~ \E f : IsFold(f, three, x, m)}
<1>. SUFFICES ASSUME T # {}
              PROVE  FALSE
  OBVIOUS
<1>1. PICK m \in T : \A k \in T : m <= k
  BY Least
<1>2. CASE m = 0
  <2>. DEFINE f == [s \in SUBSET (1 .. 0) |-> three]
  <2>1. SUBSET (1 .. 0) = {{}}
    OBVIOUS
  <2>2. IsFold(f, three, x, 0)
    BY <2>1 DEF IsFold
  <2>. QED  BY <1>1, <1>2, <2>2
<1>3. CASE m # 0
  <2>1. m - 1 \in Nat /\ m - 1 \notin T
    BY <1>1, <1>3
  <2>2. PICK g : IsFold(g, three, x, m - 1)
    BY <2>1
  <2>. DEFINE f == [s \in SUBSET (1 .. m) |-> IF m \in s THEN StepDown(g[s \ {m}], x[m]) ELSE g[s]]
  <2>3. ASSUME NEW s \in SUBSET (1 .. m)
        PROVE  f[s] = IF s = {} THEN three ELSE StepDown(f[s \ {Max(s)}], x[Max(s)])
    <3>1. CASE m \in s
      <4>1. Max(s) = m
        BY <1>1, <3>1, MaxOf
      <4>2. s \ {m} \in SUBSET (1 .. m) /\ m \notin s \ {m}
        OBVIOUS
      <4>3. f[s \ {m}] = g[s \ {m}]
        BY <4>2
      <4>4. f[s] = StepDown(g[s \ {m}], x[m])
        BY <3>1
      <4>. QED  BY <3>1, <4>1, <4>3, <4>4
    <3>2. CASE m \notin s
      <4>1. s \in SUBSET (1 .. m - 1)
        BY <1>1, <3>2
      <4>2. f[s] = g[s] /\ f[s \ {Max(s)}] = g[s \ {Max(s)}]
        BY <3>2
      <4>. QED  BY <2>2, <4>1, <4>2 DEF IsFold
    <3>. QED  BY <3>1, <3>2
  <2>4. DOMAIN f = SUBSET (1 .. m)
    OBVIOUS
  <2>. HIDE DEF f
  <2>5. IsFold(f, three, x, m)
    BY <2>3, <2>4 DEF IsFold
  <2>. QED  BY <1>1, <2>5
<1>. QED  BY <1>2, <1>3

\* Two folds over one position, from exchanged branches, stay exchanged.
LEMMA FoldsExchange ==
    ASSUME NEW three, NEW x, NEW n \in Nat, NEW f, NEW g,
           IsFold(f, three, x, n), IsFold(g, Exchanged(three), x, n)
    PROVE  g[1 .. n] = Exchanged(f[1 .. n])
<1>. DEFINE T == {i \in Nat : i <= n /\ g[1 .. i] # Exchanged(f[1 .. i])}
<1>. SUFFICES ASSUME T # {}
              PROVE  FALSE
  OBVIOUS
<1>1. PICK i \in T : \A j \in T : i <= j
  BY Least
<1>2. 1 .. i \in SUBSET (1 .. n)
  BY <1>1
<1>3. CASE i = 0
  <2>1. 1 .. i = {}
    BY <1>3
  <2>. QED  BY <1>1, <1>2, <2>1 DEF IsFold
<1>4. CASE i # 0
  <2>1. Max(1 .. i) = i /\ 1 .. i # {} /\ (1 .. i) \ {i} = 1 .. i - 1
    BY <1>1, <1>4, RangeIs
  <2>2. i - 1 \in Nat /\ i - 1 <= n /\ i - 1 \notin T
    BY <1>1, <1>4
  <2>. DEFINE u == f[1 .. i - 1]
  <2>3. g[1 .. i - 1] = Exchanged(u)
    BY <2>2
  <2>4. f[1 .. i] = StepDown(u, x[i])
    BY <1>2, <2>1 DEF IsFold
  <2>5. g[1 .. i] = StepDown(g[1 .. i - 1], x[i])
    BY <1>2, <2>1 DEF IsFold
  <2>. HIDE DEF u
  <2>6. Exchanged(u).base = u.base
    BY SidesExchange
  <2>7. StepDown(Exchanged(u), x[i]) = Exchanged(StepDown(u, x[i]))
    BY <2>6, BelowExchanges DEF StepDown
  <2>. QED  BY <1>1, <2>3, <2>4, <2>5, <2>7
<1>. QED  BY <1>3, <1>4

\* Where the three trees hold a node of the base: found along its path, step by step.
LEMMA ThreeAtFolds ==
    ASSUME NEW t, NEW u, NEW v, NEW x, NEW n \in Nat, DOMAIN x = 1 .. n
    PROVE  \E f : IsFold(f, Roots(t, u, v), x, n) /\ ThreeAt(t, u, v, x) = f[1 .. n]
<1>. DEFINE F(f) == f = [s \in SUBSET DOMAIN x |->
                         IF s = {} THEN Roots(t, u, v) ELSE StepDown(f[s \ {Max(s)}], x[Max(s)])]
            c == CHOOSE f : F(f)
<1>1. ThreeAt(t, u, v, x) = c[DOMAIN x]
  BY DEF ThreeAt, FoldLeft, MapThenFoldSet, StepDown, Roots
<1>2. \E f : F(f)
  <2>1. PICK f : IsFold(f, Roots(t, u, v), x, n)
    BY FoldExists
  <2>. DEFINE g == [s \in SUBSET (1 .. n) |-> f[s]]
  <2>2. g = [s \in SUBSET (1 .. n) |-> IF s = {} THEN Roots(t, u, v) ELSE StepDown(g[s \ {Max(s)}], x[Max(s)])]
    BY <2>1 DEF IsFold
  <2>. HIDE DEF g
  <2>3. F(g)
    BY <2>2
  <2>. HIDE DEF F
  <2>. QED  BY <2>3
<1>. HIDE DEF F
<1>3. F(c)
  BY <1>2
<1>. HIDE DEF c
<1>4. c = [s \in SUBSET (1 .. n) |-> IF s = {} THEN Roots(t, u, v) ELSE StepDown(c[s \ {Max(s)}], x[Max(s)])]
  BY <1>3 DEF F
<1>5. IsFold(c, Roots(t, u, v), x, n)
  <2>. DEFINE B(s) == IF s = {} THEN Roots(t, u, v) ELSE StepDown(c[s \ {Max(s)}], x[Max(s)])
  <2>1. c = [s \in SUBSET (1 .. n) |-> B(s)]
    BY <1>4
  <2>. HIDE DEF B
  <2>2. DOMAIN c = SUBSET (1 .. n) /\ \A s \in SUBSET (1 .. n) : c[s] = B(s)
    BY <2>1
  <2>. QED  BY <2>2 DEF IsFold, B
<1>. QED  BY <1>1, <1>5

\* With the branches exchanged they are found where they were.
LEMMA ThreeAtExchanges ==
    ASSUME NEW t, NEW u, NEW v, NEW x, NEW n \in Nat, DOMAIN x = 1 .. n
    PROVE  ThreeAt(t, v, u, x) = Exchanged(ThreeAt(t, u, v, x))
<1>1. PICK f : IsFold(f, Roots(t, u, v), x, n) /\ ThreeAt(t, u, v, x) = f[1 .. n]
  BY ThreeAtFolds
<1>2. PICK g : IsFold(g, Roots(t, v, u), x, n) /\ ThreeAt(t, v, u, x) = g[1 .. n]
  BY ThreeAtFolds
<1>3. Roots(t, v, u) = Exchanged(Roots(t, u, v))
  BY DEF Roots, Exchanged, OtherSide, Sides
<1>. QED  BY <1>1, <1>2, <1>3, FoldsExchange

-----------------------------------------------------------------------------
\* A conflict with what the branches have exchanged.
Transposed(c) == [c EXCEPT !.a = c.b, !.b = c.a]

\* One conflict in a facet of a node transposes.
LEMMA CellTransposes ==
    ASSUME NEW id, NEW f, NEW v, NEW w, w.base = v.base, w.a = v.b, w.b = v.a
    PROVE  Cell(id, f, w) = Transposed(Cell(id, f, v))
<1>. DEFINE x == f :> v.base
            y == f :> v.a
            z == f :> v.b
            c == [id |-> id, facet |-> f, base |-> x, a |-> y, b |-> z]
            c1 == [id |-> id, facet |-> f, base |-> x, a |-> z, b |-> z]
            d == [id |-> id, facet |-> f, base |-> x, a |-> z, b |-> y]
<1>1. Cell(id, f, v) = c /\ Cell(id, f, w) = d
  BY DEF Cell
<1>. HIDE DEF x, y, z
<1>2. c.a = y /\ c.b = z
  OBVIOUS
<1>3. [c EXCEPT !.a = z] = c1 /\ [c1 EXCEPT !.b = y] = d
  OBVIOUS
<1>. HIDE DEF c, c1, d
<1>4. [c EXCEPT !.a = z, !.b = y] = [[c EXCEPT !.a = z] EXCEPT !.b = y]
  OBVIOUS
<1>5. Transposed(c) = [c EXCEPT !.a = z, !.b = y]
  BY <1>2, Zenon DEF Transposed
<1>. QED  BY <1>1, <1>3, <1>4, <1>5

\* The three parts of a node's conflicts: its facets, its children, what was put in.
OfFacets(three) ==
    LET id == three.base.tree[three.base.at].id
        of(f) == [s \in Sides |-> Probe(three[s])[f]]
    IN  {Cell(id, f, of(f)) : f \in {f \in DOMAIN Probe(three.base) : Clash(of(f))}}
OfChildren(three) ==
    LET id == three.base.tree[three.base.at].id
        ids == On(three, Children)
    IN  IF Clash(ids) /\ ~Disjoint(ids) THEN {Cell(id, "children", ids)} ELSE {}
OfInserts(three, pin) ==
    LET ids == On(three, Children)
        new == {i \in ToSet(MergedIds(ids, pin)) :
                  i \notin ToSet(ids.base) /\ i \in ToSet(ids.a) /\ i \in ToSet(ids.b)}
    IN  {Cell(i, "insert", [base |-> "", a |-> KidTree(three.a, i), b |-> KidTree(three.b, i)]) :
           i \in {i \in new : KidTree(three.a, i) # KidTree(three.b, i)}}

\* The conflicts at a node are those of its facets, its children and its insertions.
LEMMA ConflictParts ==
    ASSUME NEW three, NEW pin
    PROVE  ConflictsAt(three, pin) = OfFacets(three) \union OfChildren(three) \union OfInserts(three, pin)
<1>. DEFINE id == three.base.tree[three.base.at].id
            probes == On(three, Probe)
            of(f) == [s \in Sides |-> probes[s][f]]
            by(f) == [s \in Sides |-> Probe(three[s])[f]]
<1>1. probes = [s \in Sides |-> Probe(three[s])]
  BY DEF On
<1>2. \A f : of(f) = by(f)
  BY <1>1
<1>3. probes.base = Probe(three.base)
  BY <1>1 DEF Sides
<1>4. {Cell(id, f, of(f)) : f \in {f \in DOMAIN probes.base : Clash(of(f))}} = OfFacets(three)
  <2>. HIDE DEF probes, of, by
  <2>. QED  BY <1>2, <1>3 DEF OfFacets, by
<1>. HIDE DEF probes, of, by
<1>. QED  BY <1>4 DEF ConflictsAt, OfChildren, OfInserts, probes, of

\* A set of cells goes to the transposed ones, when the clashes are the same.
LEMMA FacetConflictsExchange ==
    ASSUME NEW three
    PROVE  OfFacets(Exchanged(three)) = {Transposed(c) : c \in OfFacets(three)}
<1>. DEFINE e == Exchanged(three)
            id == three.base.tree[three.base.at].id
            of(f) == [s \in Sides |-> Probe(three[s])[f]]
            by(f) == [s \in Sides |-> Probe(e[s])[f]]
            D == DOMAIN Probe(three.base)
<1>1. e.base = three.base
  BY SidesExchange
<1>2. \A f : by(f) = Exchanged(of(f))
  <2>1. \A f : \A s \in Sides : by(f)[s] = of(f)[OtherSide(s)]
    BY SidesExchange
  <2>2. \A f : by(f) = [s \in Sides |-> by(f)[s]]
    OBVIOUS
  <2>. HIDE DEF by, of
  <2>. QED  BY <2>1, <2>2 DEF Exchanged
<1>3. \A f : by(f).base = of(f).base /\ by(f).a = of(f).b /\ by(f).b = of(f).a
  <2>. HIDE DEF by, of
  <2>. QED  BY <1>2, SidesExchange
<1>4. OfFacets(three) = {Cell(id, f, of(f)) : f \in {f \in D : Clash(of(f))}}
  BY DEF OfFacets
<1>5. OfFacets(e) = {Cell(id, f, by(f)) : f \in {f \in D : Clash(by(f))}}
  BY <1>1 DEF OfFacets
<1>. HIDE DEF by, of, e, id, D
<1>6. \A f : Clash(by(f)) <=> Clash(of(f))
  BY <1>3 DEF Clash
<1>7. \A f : Cell(id, f, by(f)) = Transposed(Cell(id, f, of(f)))
  BY <1>3, CellTransposes
<1>. QED  BY <1>4, <1>5, <1>6, <1>7 DEF e

\* The conflicts of the children's order transpose.
LEMMA ChildConflictsExchange ==
    ASSUME NEW three
    PROVE  OfChildren(Exchanged(three)) = {Transposed(c) : c \in OfChildren(three)}
<1>. DEFINE v == On(three, Children)
            id == three.base.tree[three.base.at].id
<1>1. On(Exchanged(three), Children) = Exchanged(v)
  BY ChildrenExchange
<1>2. Exchanged(three).base = three.base
  BY SidesExchange
<1>3. Exchanged(v).base = v.base /\ Exchanged(v).a = v.b /\ Exchanged(v).b = v.a
  BY SidesExchange
<1>4. Disjoint(Exchanged(v)) <=> Disjoint(v)
  BY IdsExchange DEF Sides
<1>5. Clash(Exchanged(v)) <=> Clash(v)
  BY <1>3 DEF Clash
<1>6. Cell(id, "children", Exchanged(v)) = Transposed(Cell(id, "children", v))
  BY <1>3, CellTransposes
<1>7. /\ OfChildren(three) = IF Clash(v) /\ ~Disjoint(v) THEN {Cell(id, "children", v)} ELSE {}
      /\ OfChildren(Exchanged(three)) =
           IF Clash(Exchanged(v)) /\ ~Disjoint(Exchanged(v)) THEN {Cell(id, "children", Exchanged(v))} ELSE {}
  BY <1>1, <1>2 DEF OfChildren
<1>. HIDE DEF v, id
<1>. QED  BY <1>4, <1>5, <1>6, <1>7

\* Two insertions of one id conflict whoever is named first.
LEMMA InsertConflictsExchange ==
    ASSUME NEW three, NEW pin \in Sides
    PROVE  OfInserts(Exchanged(three), OtherSide(pin)) = {Transposed(c) : c \in OfInserts(three, pin)}
<1>. DEFINE e == Exchanged(three)
            v == On(three, Children)
            w == On(e, Children)
            New(ids, p) == {i \in ToSet(MergedIds(ids, p)) :
                              i \notin ToSet(ids.base) /\ i \in ToSet(ids.a) /\ i \in ToSet(ids.b)}
            cell(t, i) == Cell(i, "insert", [base |-> "", a |-> KidTree(t.a, i), b |-> KidTree(t.b, i)])
            Differ(t, i) == KidTree(t.a, i) # KidTree(t.b, i)
<1>1. w = Exchanged(v)
  BY ChildrenExchange
<1>2. w.base = v.base /\ w.a = v.b /\ w.b = v.a /\ MergedIds(w, OtherSide(pin)) = MergedIds(v, pin)
  <2>. HIDE DEF w, v
  <2>. QED  BY <1>1, SidesExchange, IdsExchange
<1>3. e.a = three.b /\ e.b = three.a
  BY SidesExchange
<1>4. /\ OfInserts(three, pin) = {cell(three, i) : i \in {i \in New(v, pin) : Differ(three, i)}}
      /\ OfInserts(e, OtherSide(pin)) = {cell(e, i) : i \in {i \in New(w, OtherSide(pin)) : Differ(e, i)}}
  BY DEF OfInserts
<1>. HIDE DEF e, v, w
<1>5. New(w, OtherSide(pin)) = New(v, pin)
  BY <1>2
<1>6. \A i : Differ(e, i) <=> Differ(three, i)
  BY <1>3
<1>7. \A i : cell(e, i) = Transposed(cell(three, i))
  BY <1>3, CellTransposes
<1>. HIDE DEF New, cell, Differ
<1>. QED  BY <1>4, <1>5, <1>6, <1>7 DEF e

\* All the conflicts at a node transpose.
LEMMA ConflictsExchange ==
    ASSUME NEW three, NEW pin \in Sides
    PROVE  ConflictsAt(Exchanged(three), OtherSide(pin)) = {Transposed(c) : c \in ConflictsAt(three, pin)}
<1>1. /\ OfFacets(Exchanged(three)) = {Transposed(c) : c \in OfFacets(three)}
      /\ OfChildren(Exchanged(three)) = {Transposed(c) : c \in OfChildren(three)}
      /\ OfInserts(Exchanged(three), OtherSide(pin)) = {Transposed(c) : c \in OfInserts(three, pin)}
  BY FacetConflictsExchange, ChildConflictsExchange, InsertConflictsExchange
<1>2. /\ ConflictsAt(three, pin) = OfFacets(three) \union OfChildren(three) \union OfInserts(three, pin)
      /\ ConflictsAt(Exchanged(three), OtherSide(pin))
           = OfFacets(Exchanged(three)) \union OfChildren(Exchanged(three))
               \union OfInserts(Exchanged(three), OtherSide(pin))
  BY ConflictParts
<1>. QED  BY <1>1, <1>2

-----------------------------------------------------------------------------
\* The merge of a tree is what it makes of the positions, taken one by one.
Step(base0, at, ids, pin, merged, x) ==
    LET kid(id) == IF Holds(at[x].base, id) THEN merged[Kid(at[x].base, id)] ELSE Inserted(at[x], id)
    IN  MergedNode(at[x], pin, [i \in DOMAIN ids[x] |-> kid(ids[x][i])])

\* The merged tree, by the rule each node of the base follows.
LEMMA MergedIs ==
    ASSUME NEW base0, NEW at, NEW ids, NEW pin
    PROVE  Merged(base0, at, ids, pin)
             = (CHOOSE merged :
                  merged = [x \in Structural(base0) |-> Step(base0, at, ids, pin, merged, x)])[<< >>]
BY DEF Merged, Step

\* The same rule holds of the exchanged branches, so the merged tree is the same.
LEMMA MergedExchanges ==
    ASSUME NEW base0, NEW at, NEW ids, NEW up, NEW pin \in Sides,
           \A x \in Structural(base0) : up[x] = Exchanged(at[x])
    PROVE  Merged(base0, up, ids, OtherSide(pin)) = Merged(base0, at, ids, pin)
<1>1. ASSUME NEW merged, NEW x \in Structural(base0)
      PROVE  Step(base0, up, ids, OtherSide(pin), merged, x) = Step(base0, at, ids, pin, merged, x)
  <2>. DEFINE kid(id) == IF Holds(at[x].base, id) THEN merged[Kid(at[x].base, id)] ELSE Inserted(at[x], id)
              dik(id) == IF Holds(up[x].base, id) THEN merged[Kid(up[x].base, id)] ELSE Inserted(up[x], id)
              kids == [i \in DOMAIN ids[x] |-> kid(ids[x][i])]
              diks == [i \in DOMAIN ids[x] |-> dik(ids[x][i])]
  <2>1. up[x] = Exchanged(at[x]) /\ up[x].base = at[x].base
    BY SidesExchange
  <2>2. \A id : dik(id) = kid(id)
    BY <2>1, InsertedExchanges
  <2>. HIDE DEF kid, dik
  <2>3. diks = kids
    BY <2>2
  <2>4. /\ Step(base0, at, ids, pin, merged, x) = MergedNode(at[x], pin, kids)
        /\ Step(base0, up, ids, OtherSide(pin), merged, x) = MergedNode(up[x], OtherSide(pin), diks)
    BY DEF Step, kid, dik
  <2>. HIDE DEF kids, diks
  <2>5. MergedNode(up[x], OtherSide(pin), kids) = MergedNode(at[x], pin, kids)
    BY <2>1, NodeExchanges
  <2>. QED  BY <2>3, <2>4, <2>5
<1>. DEFINE F(merged) == [x \in Structural(base0) |-> Step(base0, at, ids, pin, merged, x)]
            G(merged) == [x \in Structural(base0) |-> Step(base0, up, ids, OtherSide(pin), merged, x)]
<1>2. \A merged : G(merged) = F(merged)
  BY <1>1
<1>3. /\ Merged(base0, at, ids, pin) = (CHOOSE merged : merged = F(merged))[<< >>]
      /\ Merged(base0, up, ids, OtherSide(pin)) = (CHOOSE merged : merged = G(merged))[<< >>]
  BY MergedIs
<1>. HIDE DEF F, G
<1>. QED  BY <1>2, <1>3

\* The conflicts of a document transpose, those below a removed node left out of both.
LEMMA AllConflictsExchange ==
    ASSUME NEW base0, NEW at, NEW ids, NEW up, NEW pin \in Sides,
           \A x \in Structural(base0) : up[x] = Exchanged(at[x])
    PROVE  Conflicts(base0, up, ids, OtherSide(pin)) = {Transposed(c) : c \in Conflicts(base0, at, ids, pin)}
<1>. DEFINE V == {x \in Structural(base0) :
                    \A k \in DOMAIN x : base0[SubSeq(x, 1, k)].id \in ToSet(ids[SubSeq(x, 1, k - 1)])}
            C(x) == ConflictsAt(at[x], pin)
            K(x) == ConflictsAt(up[x], OtherSide(pin))
<1>1. \A x \in V : K(x) = {Transposed(c) : c \in C(x)}
  <2>. SUFFICES ASSUME NEW x \in V
                PROVE  K(x) = {Transposed(c) : c \in C(x)}
    OBVIOUS
  <2>1. up[x] = Exchanged(at[x])
    OBVIOUS
  <2>. HIDE DEF V
  <2>. QED  BY <2>1, ConflictsExchange
<1>2. /\ Conflicts(base0, at, ids, pin) = UNION {C(x) : x \in V}
      /\ Conflicts(base0, up, ids, OtherSide(pin)) = UNION {K(x) : x \in V}
  BY DEF Conflicts
<1>. HIDE DEF V, C, K
<1>. QED  BY <1>1, <1>2

-----------------------------------------------------------------------------
\* Both orders, for a document whose positions are sequences of numbers: the trees
\* are one, and the conflicts transposed.
LEMMA MergesExchange ==
    ASSUME NEW t, NEW u, NEW v, NEW pin \in Sides, DOMAIN t \subseteq Seq(Nat)
    PROVE  LET there == Merge3(t, u, v, pin)
               back == Merge3(t, v, u, OtherSide(pin))
           IN  /\ back.ok = there.ok /\ back.tree = there.tree
               /\ back.conflicts = {Transposed(c) : c \in there.conflicts}
<1>. DEFINE S == Structural(t)
            at == [x \in S |-> ThreeAt(t, u, v, x)]
            up == [x \in S |-> ThreeAt(t, v, u, x)]
            ids == [x \in S |-> MergedIds(On(at[x], Children), pin)]
            sdi == [x \in S |-> MergedIds(On(up[x], Children), OtherSide(pin))]
            tree == Merged(t, at, ids, pin)
            eert == Merged(t, up, sdi, OtherSide(pin))
            refused == Conflicts(t, at, ids, pin)
            desufer == Conflicts(t, up, sdi, OtherSide(pin))
<1>1. \A x \in S : ThreeAt(t, v, u, x) = Exchanged(ThreeAt(t, u, v, x))
  <2>. SUFFICES ASSUME NEW x \in S
                PROVE  ThreeAt(t, v, u, x) = Exchanged(ThreeAt(t, u, v, x))
    OBVIOUS
  <2>1. x \in Seq(Nat)
    BY DEF Structural
  <2>2. Len(x) \in Nat /\ DOMAIN x = 1 .. Len(x)
    BY <2>1
  <2>. QED  BY <2>2, ThreeAtExchanges
<1>2. \A x \in S : up[x] = Exchanged(at[x])
  <2>. HIDE DEF S
  <2>. QED  BY <1>1
<1>3. sdi = ids
  <2>1. ASSUME NEW x \in S
        PROVE  MergedIds(On(up[x], Children), OtherSide(pin)) = MergedIds(On(at[x], Children), pin)
    <3>1. On(up[x], Children) = Exchanged(On(at[x], Children))
      <4>. HIDE DEF S, at, up
      <4>. QED  BY <1>2, ChildrenExchange
    <3>. QED  BY <3>1, IdsExchange
  <2>. HIDE DEF S, at, up
  <2>. QED  BY <2>1
<1>. HIDE DEF S, at, up, ids, sdi
<1>4. eert = tree
  BY <1>2, <1>3, MergedExchanges DEF S
<1>5. desufer = {Transposed(c) : c \in refused}
  BY <1>2, <1>3, AllConflictsExchange DEF S
<1>6. desufer = {} <=> refused = {}
  <2>. HIDE DEF desufer, refused
  <2>. QED  BY <1>5
<1>7. OtherSide(pin) # "base" <=> pin # "base"
  BY SidesExchange DEF Sides
<1>8. /\ Merge3(t, u, v, pin) = Answer(tree, refused, pin)
      /\ Merge3(t, v, u, OtherSide(pin)) = Answer(eert, desufer, OtherSide(pin))
  BY DEF Merge3, S, at, up, ids, sdi
<1>. HIDE DEF tree, eert, refused, desufer
<1>. QED  BY <1>4, <1>5, <1>6, <1>7, <1>8 DEF Answer

\* merge3: two replicas that merge the same pair of branches in opposite orders end
\* with one tree, or with refusals that transpose the sides and change nothing else:
\* whatever the document, the ops and the bounds are.
THEOREM MergeIsSymmetric == Spec => []Transposes
<1>. DEFINE Inv == base \in Starts
<1>1. Init => Inv
  BY DEF Init
<1>2. Inv /\ [Next]_vars => Inv'
  BY DEF Next, EditA, EditB, vars
<1>3. Inv => Transposes
  <2>. SUFFICES ASSUME Inv, NEW pin \in Sides
                PROVE  LET there == Outcome(pin)
                           back == Merge3(base, b, a, OtherSide(pin))
                       IN  /\ back.ok = there.ok /\ back.tree = there.tree
                           /\ back.conflicts = {[c EXCEPT !.a = c.b, !.b = c.a] : c \in there.conflicts}
    BY DEF Transposes
  <2>1. DOMAIN base \subseteq Seq(Nat)
    BY StartsAssumption
  <2>2. LET there == Merge3(base, a, b, pin)
            back == Merge3(base, b, a, OtherSide(pin))
        IN  /\ back.ok = there.ok /\ back.tree = there.tree
            /\ back.conflicts = {Transposed(c) : c \in there.conflicts}
    BY <2>1, MergesExchange
  <2>. QED  BY <2>2 DEF Outcome, Transposed
<1>. QED  BY <1>1, <1>2, <1>3, PTL DEF Spec

=============================================================================
