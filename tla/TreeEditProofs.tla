--------------------------- MODULE TreeEditProofs ---------------------------
(***************************************************************************)
(* Proofs about TreeEditor: whatever ops are accepted, in whatever order,  *)
(* the document stays a tree of the four kinds, no id an op can address is *)
(* given to two nodes, no limit is passed, a script of single edits does   *)
(* what one Batch of them does, a removal and a move touch nothing but     *)
(* their target, and the gestures of the editing facade promise no more    *)
(* than the engine does.                                                   *)
(*                                                                         *)
(* A tree is a function on positions, so most of this is about positions:  *)
(* what is below which slot, what an Append and a concatenation put where, *)
(* which position comes first.  Then each op of the engine is taken in     *)
(* turn, and after the ops the drop, the nudge and the paste.              *)
(***************************************************************************)
EXTENDS TreeEditor, FiniteSetTheorems, WellFoundedInduction, TLAPS

-----------------------------------------------------------------------------
\* Where a node can be.
Pos == Seq(Nat)

\* Below slot s of p, the position y has in the sub-node there.
At(p, s, y) == Append(p, s) \o y

\* Slot s of x.
Child(x, s) == Append(x, s)

\* x is y below slot s of p, element by element.
Sits(x, p, s, y) ==
    /\ x \in Seq(Nat) /\ Len(x) = Len(p) + 1 + Len(y)
    /\ \A i \in 1 .. Len(p) : x[i] = p[i]
    /\ x[Len(p) + 1] = s
    /\ \A i \in 1 .. Len(y) : x[Len(p) + 1 + i] = y[i]

\* f is x without its last element, l.
Parted(x, f, l) ==
    /\ f \in Seq(Nat) /\ l \in Nat /\ Len(x) \in Nat \ {0} /\ Len(f) = Len(x) - 1
    /\ \A i \in 1 .. Len(x) - 1 : f[i] = x[i]
    /\ l = x[Len(x)]

\* A position below a slot is what it is built from.
LEMMA AtSits ==
    ASSUME NEW p \in Pos, NEW s \in Nat, NEW y \in Pos
    PROVE  Sits(At(p, s, y), p, s, y)
<1>. DEFINE q == Append(p, s)
<1>1. q \in Seq(Nat) /\ Len(q) = Len(p) + 1 /\ q[Len(p) + 1] = s /\ \A i \in 1 .. Len(p) : q[i] = p[i]
  BY DEF Pos
<1>. HIDE DEF q
<1>2. q \o y \in Seq(Nat) /\ Len(q \o y) = Len(q) + Len(y)
  BY <1>1, SMTT(20) DEF Pos
<1>3. \A i \in 1 .. Len(q) : (q \o y)[i] = q[i]
  BY <1>1 DEF Pos
<1>4. \A i \in 1 .. Len(y) : (q \o y)[Len(q) + i] = y[i]
  BY <1>1 DEF Pos
<1>. QED  BY <1>1, <1>2, <1>3, <1>4 DEF At, q, Sits, Pos

\* Two positions with the same elements are one.
SameSeq(x, y) == Len(x) = Len(y) /\ \A i \in 1 .. Len(x) : x[i] = y[i]

\* Two positions of the same elements are one.
LEMMA SeqIs ==
    ASSUME NEW x \in Pos, NEW y \in Pos, SameSeq(x, y)
    PROVE  x = y
BY DEF Pos, SameSeq

\* Slot and tail are read off a position below p.
LEMMA SitsOnce ==
    ASSUME NEW p \in Pos, NEW s \in Nat, NEW r \in Nat, NEW y \in Pos, NEW z \in Pos, NEW x,
           Sits(x, p, s, y), Sits(x, p, r, z)
    PROVE  s = r /\ y = z
<1>1. s = r /\ Len(y) = Len(z)
  BY DEF Sits, Pos
<1>2. \A i \in 1 .. Len(y) : y[i] = z[i]
  BY <1>1 DEF Sits, Pos
<1>3. SameSeq(y, z)
  BY <1>1, <1>2 DEF SameSeq
<1>. QED  BY <1>1, <1>3, SeqIs

\* So two slots, or two tails, make two positions.
LEMMA AtInjective ==
    ASSUME NEW p \in Pos, NEW s \in Nat, NEW r \in Nat, NEW y \in Pos, NEW z \in Pos,
           At(p, s, y) = At(p, r, z)
    PROVE  s = r /\ y = z
<1>. DEFINE x == At(p, s, y)
<1>1. Sits(x, p, s, y) /\ Sits(x, p, r, z)
  BY AtSits
<1>. HIDE DEF x
<1>. QED  BY <1>1, SitsOnce

\* There is one position of a slot and a tail.
LEMMA SitsUnique ==
    ASSUME NEW p \in Pos, NEW s \in Nat, NEW y \in Pos, NEW x, NEW w,
           Sits(x, p, s, y), Sits(w, p, s, y)
    PROVE  x = w
<1>1. x \in Pos /\ w \in Pos /\ Len(x) = Len(w) /\ Len(p) \in Nat /\ Len(y) \in Nat
      /\ Len(x) = Len(p) + 1 + Len(y)
  BY DEF Sits, Pos
<1>2. ASSUME NEW i \in 1 .. Len(x)
      PROVE  x[i] = w[i]
  <2>1. CASE i <= Len(p)
    BY <1>1, <2>1 DEF Sits
  <2>2. CASE i = Len(p) + 1
    BY <2>2 DEF Sits
  <2>3. CASE i > Len(p) + 1
    <3>1. \E j \in 1 .. Len(y) : i = Len(p) + 1 + j
      <4>1. i - (Len(p) + 1) \in 1 .. Len(y) /\ i = Len(p) + 1 + (i - (Len(p) + 1))
        BY <2>3, <1>1
      <4>. QED  BY <4>1
    <3>. QED  BY <3>1 DEF Sits
  <2>. QED  BY <1>1, <2>1, <2>2, <2>3
<1>3. SameSeq(x, w)
  BY <1>1, <1>2 DEF SameSeq
<1>. QED  BY <1>1, <1>3, SeqIs

\* Front and Last are what a position parts into.
LEMMA FrontParts ==
    ASSUME NEW x \in Pos, x # << >>
    PROVE  Parted(x, Front(x), Last(x))
<1>1. Len(x) \in Nat \ {0} /\ x[Len(x)] \in Nat /\ \A i \in 1 .. Len(x) : x[i] \in Nat
  BY DEF Pos
<1>. DEFINE f == SubSeq(x, 1, Len(x) - 1)
<1>2. f \in Seq(Nat) /\ Len(f) = Len(x) - 1 /\ \A i \in 1 .. Len(x) - 1 : f[i] = x[i]
  <2>1. PICK n \in Nat : Len(x) = n + 1
    <3>1. Len(x) - 1 \in Nat /\ Len(x) = Len(x) - 1 + 1
      BY <1>1
    <3>. QED  BY <3>1
  <2>2. n = Len(x) - 1 /\ n <= Len(x) /\ x \in Seq(Nat)
    BY <2>1 DEF Pos
  <2>3. SubSeq(x, 1, n) \in Seq(Nat) /\ Len(SubSeq(x, 1, n)) = n /\ \A i \in 1 .. n : SubSeq(x, 1, n)[i] = x[i]
    BY <2>2
  <2>. QED  BY <2>2, <2>3
<1>. HIDE DEF f
<1>3. Front(x) = f /\ Last(x) = x[Len(x)]
  BY DEF Front, Last, f
<1>. QED  BY <1>1, <1>2, <1>3 DEF Parted

\* A position parts in one way.
LEMMA PartedOnce ==
    ASSUME NEW x \in Pos, NEW f, NEW l, NEW g, NEW m, Parted(x, f, l), Parted(x, g, m)
    PROVE  f = g /\ l = m
<1>1. f \in Pos /\ g \in Pos /\ SameSeq(f, g) /\ l = m
  BY DEF Parted, SameSeq, Pos
<1>. QED  BY <1>1, SeqIs

\* What it parts into makes one position.
LEMMA PartsOnce ==
    ASSUME NEW x \in Pos, NEW w \in Pos, NEW f, NEW l, Parted(x, f, l), Parted(w, f, l)
    PROVE  x = w
<1>1. Len(x) = Len(w) /\ Len(x) \in Nat \ {0} /\ Len(f) = Len(x) - 1
  BY DEF Parted, Pos
<1>2. ASSUME NEW i \in 1 .. Len(x)
      PROVE  x[i] = w[i]
  <2>1. CASE i = Len(x)
    BY <1>1, <2>1 DEF Parted
  <2>2. CASE i # Len(x)
    <3>1. i \in 1 .. Len(x) - 1
      BY <1>1, <2>2
    <3>. QED  BY <1>1, <3>1 DEF Parted
  <2>. QED  BY <2>1, <2>2
<1>3. SameSeq(x, w)
  BY <1>1, <1>2 DEF SameSeq
<1>. QED  BY <1>3, SeqIs

\* A child parts into its parent and its slot.
LEMMA AppendParts ==
    ASSUME NEW p \in Pos, NEW s \in Nat
    PROVE  Child(p, s) \in Pos /\ Child(p, s) # << >> /\ Parted(Child(p, s), p, s)
<1>. DEFINE q == Append(p, s)
<1>1. q \in Seq(Nat) /\ Len(q) = Len(p) + 1 /\ q[Len(p) + 1] = s /\ (\A i \in 1 .. Len(p) : q[i] = p[i])
      /\ Len(p) \in Nat /\ q # << >>
  BY DEF Pos
<1>. HIDE DEF q
<1>2. Parted(q, p, s)
  BY <1>1 DEF Parted, Pos
<1>. QED  BY <1>1, <1>2 DEF q, Pos, Child

\* Front and Last take an Append apart, and Append puts them together.
LEMMA FrontLast ==
    ASSUME NEW p \in Pos, NEW s \in Nat
    PROVE  Front(Child(p, s)) = p /\ Last(Child(p, s)) = s
<1>. DEFINE q == Child(p, s)
<1>1. q \in Pos /\ q # << >> /\ Parted(q, p, s)
  BY AppendParts
<1>. HIDE DEF q
<1>2. Parted(q, Front(q), Last(q))
  BY <1>1, FrontParts
<1>3. Front(q) = p /\ Last(q) = s
  BY <1>1, <1>2, PartedOnce
<1>. QED  BY <1>3 DEF q

\* A position that is not the root is a child.
LEMMA LastOf ==
    ASSUME NEW x \in Pos, x # << >>
    PROVE  Front(x) \in Pos /\ Last(x) \in Nat /\ x = Child(Front(x), Last(x))
<1>1. Parted(x, Front(x), Last(x))
  BY FrontParts
<1>2. Front(x) \in Pos /\ Last(x) \in Nat
  BY <1>1 DEF Parted, Pos
<1>3. Child(Front(x), Last(x)) \in Pos /\ Parted(Child(Front(x), Last(x)), Front(x), Last(x))
  BY <1>2, AppendParts
<1>. QED  BY <1>1, <1>2, <1>3, PartsOnce

\* The root of what is in a slot is the child there.
LEMMA AtEmpty ==
    ASSUME NEW p \in Pos, NEW s \in Nat
    PROVE  At(p, s, << >>) = Child(p, s)
BY AppendParts DEF At, Pos, Child

\* A position below a slot parts where its tail does.
LEMMA SitsParts ==
    ASSUME NEW p \in Pos, NEW s \in Nat, NEW y \in Pos, NEW f \in Pos, NEW l \in Nat, NEW x \in Pos, NEW w \in Pos,
           Parted(y, f, l), Sits(x, p, s, y), Sits(w, p, s, f)
    PROVE  Parted(x, w, l)
<1>1. /\ Len(y) \in Nat \ {0} /\ Len(f) = Len(y) - 1 /\ Len(p) \in Nat
      /\ Len(x) = Len(p) + 1 + Len(y) /\ Len(w) = Len(x) - 1 /\ Len(x) \in Nat \ {0}
  <2>1. Len(y) \in Nat \ {0} /\ Len(f) = Len(y) - 1
    BY DEF Parted
  <2>2. Len(x) = Len(p) + 1 + Len(y) /\ Len(w) = Len(p) + 1 + Len(f)
    BY DEF Sits
  <2>3. Len(p) \in Nat
    BY DEF Pos
  <2>. QED  BY <2>1, <2>2, <2>3
<1>2. x[Len(x)] = l
  <2>1. x[Len(p) + 1 + Len(y)] = y[Len(y)]
    BY <1>1, SMTT(20) DEF Sits
  <2>. QED  BY <1>1, <2>1 DEF Parted
<1>3. ASSUME NEW i \in 1 .. Len(x) - 1
      PROVE  w[i] = x[i]
  <2>1. CASE i <= Len(p)
    BY <1>1, <2>1 DEF Sits
  <2>2. CASE i = Len(p) + 1
    BY <2>2 DEF Sits
  <2>3. CASE i > Len(p) + 1
    <3>1. \E j \in 1 .. Len(y) - 1 : i = Len(p) + 1 + j
      <4>1. i - (Len(p) + 1) \in 1 .. Len(y) - 1 /\ i = Len(p) + 1 + (i - (Len(p) + 1))
        BY <2>3, <1>1
      <4>. QED  BY <4>1
    <3>2. PICK j \in 1 .. Len(y) - 1 : i = Len(p) + 1 + j
      BY <3>1
    <3>3. j \in 1 .. Len(y) /\ j \in 1 .. Len(f)
      BY <1>1, <3>2
    <3>4. x[i] = y[j] /\ w[i] = f[j]
      BY <3>2, <3>3 DEF Sits
    <3>5. f[j] = y[j]
      BY <3>2 DEF Parted
    <3>. QED  BY <3>4, <3>5
  <2>. QED  BY <1>1, <2>1, <2>2, <2>3
<1>. QED  BY <1>1, <1>2, <1>3 DEF Parted, Pos

\* What hangs in a slot hangs below it from its own parent.
LEMMA FrontOfAt ==
    ASSUME NEW p \in Pos, NEW s \in Nat, NEW y \in Pos, y # << >>
    PROVE  Front(At(p, s, y)) = At(p, s, Front(y)) /\ Last(At(p, s, y)) = Last(y)
<1>. DEFINE x == At(p, s, y)
            w == At(p, s, Front(y))
<1>1. Parted(y, Front(y), Last(y)) /\ Front(y) \in Pos /\ Last(y) \in Nat
  BY FrontParts, LastOf
<1>2. Sits(x, p, s, y) /\ Sits(w, p, s, Front(y))
  BY <1>1, AtSits
<1>. HIDE DEF x, w
<1>3. x \in Pos /\ w \in Pos
  BY <1>2 DEF Sits, Pos
<1>4. Parted(x, w, Last(y))
  BY <1>1, <1>2, <1>3, SitsParts
<1>5. x # << >>
  BY <1>3, <1>4 DEF Parted, Pos
<1>6. Parted(x, Front(x), Last(x))
  BY <1>3, <1>5, FrontParts
<1>7. Front(x) = w /\ Last(x) = Last(y)
  BY <1>3, <1>4, <1>6, PartedOnce
<1>. QED  BY <1>7 DEF x, w

\* A node is not below a slot of itself.
LEMMA AtBelow ==
    ASSUME NEW p \in Pos, NEW s \in Nat, NEW y \in Pos
    PROVE  At(p, s, y) \in Pos /\ At(p, s, y) # p /\ At(p, s, y) # << >>
<1>. DEFINE x == At(p, s, y)
<1>1. Sits(x, p, s, y)
  BY AtSits
<1>. HIDE DEF x
<1>2. x \in Pos /\ Len(x) = Len(p) + 1 + Len(y) /\ Len(p) \in Nat /\ Len(y) \in Nat
  BY <1>1 DEF Sits, Pos
<1>3. x # p /\ x # << >>
  BY <1>2
<1>. QED  BY <1>2, <1>3 DEF x

\* What hangs from a node below a slot is below it too.
LEMMA AtAppend ==
    ASSUME NEW p \in Pos, NEW s \in Nat, NEW y \in Pos, NEW l \in Nat
    PROVE  Child(At(p, s, y), l) = At(p, s, Child(y, l)) /\ Child(y, l) \in Pos
<1>. DEFINE z == Child(y, l)
            x == At(p, s, z)
<1>1. z \in Pos /\ z # << >> /\ Front(z) = y /\ Last(z) = l
  BY AppendParts, FrontLast
<1>. HIDE DEF z
<1>2. Front(x) = At(p, s, y) /\ Last(x) = l
  BY <1>1, FrontOfAt
<1>3. x \in Pos /\ x # << >>
  BY <1>1, AtBelow
<1>4. x = Child(Front(x), Last(x))
  BY <1>3, LastOf
<1>. QED  BY <1>1, <1>2, <1>4 DEF z

\* A position extends that of a child when it is below its slot.
LEMMA PrefixIsAt ==
    ASSUME NEW p \in Pos, NEW s \in Nat, NEW x \in Pos
    PROVE  IsPrefix(Child(p, s), x) <=> \E y \in Pos : x = At(p, s, y)
<1>. DEFINE q == Append(p, s)
<1>1. q \in Seq(Nat) /\ Len(q) = Len(p) + 1 /\ q[Len(p) + 1] = s /\ (\A i \in 1 .. Len(p) : q[i] = p[i])
      /\ Len(p) \in Nat /\ Len(x) \in Nat /\ x \in Seq(Nat)
  BY DEF Pos
<1>. HIDE DEF q
<1>2. IsPrefix(q, x) <=> Len(q) <= Len(x) /\ \A i \in 1 .. Len(q) : q[i] = x[i]
  <2>1. ASSUME Len(q) <= Len(x)
        PROVE  SubSeq(q, 1, Len(q)) = SubSeq(x, 1, Len(q)) <=> \A i \in 1 .. Len(q) : q[i] = x[i]
    <3>. DEFINE a == SubSeq(q, 1, Len(q))
                b == SubSeq(x, 1, Len(q))
    <3>1. a \in Seq(Nat) /\ Len(a) = Len(q) /\ \A i \in 1 .. Len(q) : a[i] = q[i]
      BY <1>1
    <3>2. b \in Seq(Nat) /\ Len(b) = Len(q) /\ \A i \in 1 .. Len(q) : b[i] = x[i]
      BY <1>1, <2>1
    <3>. HIDE DEF a, b
    <3>3. (\A i \in 1 .. Len(q) : q[i] = x[i]) => SameSeq(a, b)
      BY <3>1, <3>2 DEF SameSeq
    <3>4. a = b <=> \A i \in 1 .. Len(q) : q[i] = x[i]
      BY <3>1, <3>2, <3>3, SeqIs DEF Pos
    <3>. QED  BY <3>4 DEF a, b
  <2>. QED  BY <2>1 DEF IsPrefix
<1>3. ASSUME NEW y \in Pos, x = At(p, s, y)
      PROVE  IsPrefix(q, x)
  <2>1. Sits(x, p, s, y)
    BY <1>3, AtSits
  <2>2. Len(y) \in Nat
    BY DEF Pos
  <2>3. Len(q) <= Len(x) /\ \A i \in 1 .. Len(q) : q[i] = x[i]
    BY <1>1, <2>1, <2>2, SMTT(20) DEF Sits
  <2>. QED  BY <1>2, <2>3
<1>4. ASSUME IsPrefix(q, x)
      PROVE  \E y \in Pos : x = At(p, s, y)
  <2>1. Len(q) <= Len(x) /\ \A i \in 1 .. Len(q) : q[i] = x[i]
    BY <1>2, <1>4
  <2>. DEFINE y == SubSeq(x, Len(q) + 1, Len(x))
  <2>2. y \in Seq(Nat) /\ Len(y) = Len(x) - Len(q) /\ \A i \in 1 .. Len(y) : y[i] = x[Len(q) + i]
    BY <1>1, <2>1
  <2>. HIDE DEF y
  <2>3. Sits(x, p, s, y)
    BY <1>1, <2>1, <2>2, SMTT(20) DEF Sits
  <2>4. y \in Pos
    BY <2>2 DEF Pos
  <2>5. Sits(At(p, s, y), p, s, y)
    BY <2>4, AtSits
  <2>6. x = At(p, s, y)
    BY <2>3, <2>4, <2>5, SitsUnique
  <2>. QED  BY <2>4, <2>6
<1>. QED  BY <1>3, <1>4 DEF q, Child

\* The tail of a position below a slot.
LEMMA AtTail ==
    ASSUME NEW p \in Pos, NEW s \in Nat, NEW y \in Pos
    PROVE  /\ At(p, s, y)[Len(p) + 1] = s
           /\ SubSeq(At(p, s, y), Len(p) + 2, Len(At(p, s, y))) = y
<1>. DEFINE x == At(p, s, y)
            z == SubSeq(x, Len(p) + 2, Len(x))
<1>1. Sits(x, p, s, y)
  BY AtSits
<1>. HIDE DEF x
<1>2. x \in Seq(Nat) /\ Len(x) = Len(p) + 1 + Len(y) /\ Len(p) \in Nat /\ Len(y) \in Nat
      /\ \A i \in 1 .. Len(y) : x[Len(p) + 1 + i] = y[i]
  BY <1>1 DEF Sits, Pos
<1>3. z \in Seq(Nat) /\ Len(z) = Len(y) /\ \A i \in 1 .. Len(y) : z[i] = x[Len(p) + 2 + i - 1]
  BY <1>2
<1>. HIDE DEF z
<1>4. \A i \in 1 .. Len(y) : z[i] = y[i]
  <2>1. \A i \in 1 .. Len(y) : Len(p) + 2 + i - 1 = Len(p) + 1 + i
    BY <1>2
  <2>. QED  BY <1>2, <1>3, <2>1
<1>5. z = y
  BY <1>3, <1>4, SeqIs DEF SameSeq, Pos
<1>6. x[Len(p) + 1] = s
  BY <1>1 DEF Sits
<1>. QED  BY <1>5, <1>6 DEF x, z

-----------------------------------------------------------------------------
(***************************************************************************)
(* Trees.                                                                  *)
(***************************************************************************)
\* The positions hang together.
Rooted(t) ==
    /\ IsFiniteSet(DOMAIN t) /\ DOMAIN t \subseteq Pos /\ << >> \in DOMAIN t
    /\ \A x \in DOMAIN t : x # << >> => Front(x) \in DOMAIN t

\* Below one of the slots first + 1 .. of p.
Under(p, first, x) == \E i \in 1 .. MaxSlots, y \in Pos : x = At(p, first + i, y)

\* A number of sub-nodes there is a slot for each of.
Seats(subs) == {i \in 1 .. MaxSlots : i \in DOMAIN subs}

\* u is t with the subs in the slots first + 1 .. of p.
Seated(u, t, p, first, subs) ==
    /\ \A i \in Seats(subs) : \A y \in DOMAIN subs[i] :
         At(p, first + i, y) \in DOMAIN u /\ u[At(p, first + i, y)] = subs[i][y]
    /\ \A x \in DOMAIN t : ~Under(p, first, x) => x \in DOMAIN u /\ u[x] = t[x]
    /\ \A x \in DOMAIN u : \/ x \in DOMAIN t /\ ~Under(p, first, x)
                           \/ \E i \in Seats(subs) : \E y \in DOMAIN subs[i] : x = At(p, first + i, y)

\* WithSlots puts the subs where it says.
LEMMA SlotsSeat ==
    ASSUME NEW t, NEW p \in Pos, NEW first \in Nat, NEW subs, DOMAIN t \subseteq Pos,
           \A i \in Seats(subs) : DOMAIN subs[i] \subseteq Pos
    PROVE  Seated(WithSlots(t, p, first, subs), t, p, first, subs)
<1>. DEFINE gone == {x \in DOMAIN t : \E i \in 1 .. MaxSlots : IsPrefix(Append(p, first + i), x)}
            come == UNION {{Append(p, first + i) \o y : y \in DOMAIN subs[i]} :
                             i \in DOMAIN subs \intersect 1 .. MaxSlots}
            val(x) == IF x \in come
                      THEN subs[x[Len(p) + 1] - first][SubSeq(x, Len(p) + 2, Len(x))]
                      ELSE t[x]
            u == [x \in (DOMAIN t \ gone) \union come |-> val(x)]
<1>0. WithSlots(t, p, first, subs) = u
  BY DEF WithSlots
<1>1. \A i \in 1 .. MaxSlots : i \in Nat /\ first + i \in Nat /\ first + i - first = i
  BY MaxSlotsAssumption
<1>2. ASSUME NEW x \in DOMAIN t
      PROVE  x \in gone <=> Under(p, first, x)
  <2>1. \A i \in 1 .. MaxSlots : IsPrefix(Child(p, first + i), x) <=> \E y \in Pos : x = At(p, first + i, y)
    BY <1>1, PrefixIsAt
  <2>. QED  BY <2>1 DEF Under, Child
<1>3. ASSUME NEW x
      PROVE  x \in come <=> \E i \in Seats(subs) : \E y \in DOMAIN subs[i] : x = At(p, first + i, y)
  <2>. DEFINE part(i) == {At(p, first + i, y) : y \in DOMAIN subs[i]}
  <2>1. come = UNION {part(i) : i \in DOMAIN subs \intersect 1 .. MaxSlots}
    BY DEF At
  <2>2. \A i : x \in part(i) <=> \E y \in DOMAIN subs[i] : x = At(p, first + i, y)
    OBVIOUS
  <2>3. DOMAIN subs \intersect 1 .. MaxSlots = Seats(subs)
    BY DEF Seats
  <2>. HIDE DEF come, part
  <2>. QED  BY <2>1, <2>2, <2>3
<1>4. ASSUME NEW i \in Seats(subs), NEW y \in DOMAIN subs[i]
      PROVE  At(p, first + i, y) \in come /\ val(At(p, first + i, y)) = subs[i][y]
             /\ Under(p, first, At(p, first + i, y))
  <2>1. i \in 1 .. MaxSlots /\ y \in Pos /\ first + i \in Nat
    BY <1>1 DEF Seats
  <2>. DEFINE x == At(p, first + i, y)
  <2>2. x \in come
    BY <1>3
  <2>3. x[Len(p) + 1] = first + i /\ SubSeq(x, Len(p) + 2, Len(x)) = y
    BY <2>1, AtTail
  <2>4. x[Len(p) + 1] - first = i
    BY <1>1, <2>1, <2>3
  <2>. HIDE DEF x, come
  <2>5. val(x) = subs[i][y]
    BY <2>2, <2>3, <2>4
  <2>6. Under(p, first, x)
    BY <2>1 DEF Under, x
  <2>. QED  BY <2>2, <2>5, <2>6 DEF x
<1>5. ASSUME NEW x \in come
      PROVE  Under(p, first, x)
  <2>1. PICK i \in Seats(subs) : \E y \in DOMAIN subs[i] : x = At(p, first + i, y)
    BY <1>3
  <2>2. PICK y \in DOMAIN subs[i] : x = At(p, first + i, y)
    BY <2>1
  <2>3. Under(p, first, At(p, first + i, y))
    BY <1>4
  <2>. QED  BY <2>2, <2>3
<1>. HIDE DEF gone, come
<1>6. ASSUME NEW x \in DOMAIN t, ~Under(p, first, x)
      PROVE  x \in DOMAIN u /\ u[x] = t[x]
  BY <1>2, <1>5, <1>6
<1>7. ASSUME NEW i \in Seats(subs), NEW y \in DOMAIN subs[i]
      PROVE  At(p, first + i, y) \in DOMAIN u /\ u[At(p, first + i, y)] = subs[i][y]
  <2>. HIDE DEF val
  <2>1. At(p, first + i, y) \in come /\ val(At(p, first + i, y)) = subs[i][y]
    BY <1>4
  <2>. QED  BY <2>1
<1>8. ASSUME NEW x \in DOMAIN u
      PROVE  \/ x \in DOMAIN t /\ ~Under(p, first, x)
             \/ \E i \in Seats(subs) : \E y \in DOMAIN subs[i] : x = At(p, first + i, y)
  BY <1>2, <1>3
<1>. HIDE DEF u
<1>9. Seated(u, t, p, first, subs)
  BY <1>6, <1>7, <1>8 DEF Seated
<1>. QED  BY <1>0, <1>9

\* The sub-node in a slot.
LEMMA SubIs ==
    ASSUME NEW t, NEW p \in Pos, NEW s \in Nat, DOMAIN t \subseteq Pos
    PROVE  /\ DOMAIN Sub(t, Child(p, s)) = {y \in Pos : At(p, s, y) \in DOMAIN t}
           /\ \A y \in Pos : At(p, s, y) \in DOMAIN t => Sub(t, Child(p, s))[y] = t[At(p, s, y)]
<1>. DEFINE q == Child(p, s)
            below == {x \in DOMAIN t : IsPrefix(q, x)}
            tails == {SubSeq(x, Len(q) + 1, Len(x)) : x \in below}
<1>1. q \in Pos /\ Len(q) + 1 = Len(p) + 2
  <2>1. q \in Pos /\ Parted(q, p, s)
    BY AppendParts
  <2>2. Len(p) \in Nat
    BY DEF Pos
  <2>. HIDE DEF q
  <2>. QED  BY <2>1, <2>2 DEF Parted
<1>2. ASSUME NEW y \in Pos, At(p, s, y) \in DOMAIN t
      PROVE  y \in tails
  <2>1. At(p, s, y) \in below
    BY <1>2, PrefixIsAt
  <2>2. SubSeq(At(p, s, y), Len(p) + 2, Len(At(p, s, y))) = y
    BY AtTail
  <2>3. SubSeq(At(p, s, y), Len(q) + 1, Len(At(p, s, y))) = y
    BY <1>1, <2>2
  <2>. QED  BY <2>1, <2>3
<1>3. ASSUME NEW y \in tails
      PROVE  y \in Pos /\ At(p, s, y) \in DOMAIN t
  <2>1. PICK x \in below : y = SubSeq(x, Len(q) + 1, Len(x))
    OBVIOUS
  <2>2. PICK z \in Pos : x = At(p, s, z)
    BY <2>1, PrefixIsAt
  <2>3. SubSeq(At(p, s, z), Len(p) + 2, Len(At(p, s, z))) = z
    BY AtTail
  <2>4. y = z
    BY <1>1, <2>1, <2>2, <2>3
  <2>. QED  BY <2>1, <2>2, <2>4
<1>4. Sub(t, q) = [y \in tails |-> t[q \o y]]
  BY DEF Sub
<1>. HIDE DEF tails
<1>5. tails = {y \in Pos : At(p, s, y) \in DOMAIN t}
  BY <1>2, <1>3
<1>6. \A y : At(p, s, y) = q \o y
  BY DEF At, Child
<1>. HIDE DEF q
<1>. QED  BY <1>4, <1>5, <1>6 DEF q

\* The sub-node in a slot has the labels below it.
LEMMA SubAt ==
    ASSUME NEW t, NEW p \in Pos, NEW s \in Nat, DOMAIN t \subseteq Pos, NEW y \in Pos, At(p, s, y) \in DOMAIN t
    PROVE  Sub(t, Child(p, s))[y] = t[At(p, s, y)]
BY SubIs

\* A set of numbers has a least one.
LEMMA LeastIn ==
    ASSUME NEW T, T \subseteq Nat, T # {}
    PROVE  \E m \in T : \A n \in T : m <= n
<1>1. PICK m \in T : \A n \in T : ~ (<<n, m>> \in OpToRel(<, Nat))
  BY WFMin, NatLessThanWellFounded
<1>2. \A n \in T : ~ (n < m)
  BY <1>1 DEF OpToRel
<1>. QED  BY <1>2

\* The slots that come first in their sort.
FirstSlots == {1, MaxSlots + 1, 2 * MaxSlots + 1}

LabelOk(l) ==
    /\ DOMAIN l = DOMAIN Label(0, "Leaf") /\ l.kind \in {"Box", "Switch", "Modal", "Leaf"}
    /\ AreSealed(l.sealed) /\ (l.kind # "Modal" => l.sealed = << >>)

GoodAt(t, x) ==
    /\ LabelOk(t[x])
    /\ t[x].kind \in {"Modal", "Leaf"} => \A i \in 1 .. MaxSlots : Child(x, i) \notin DOMAIN t
    /\ ~t[x].state => \A i \in 1 .. MaxSlots : Child(x, MaxSlots + i) \notin DOMAIN t
    /\ \A s \in Nat \ FirstSlots :
         Child(x, s) \in DOMAIN t => s # 0 /\ Child(x, s - 1) \in DOMAIN t

\* WellFormed, said of a node and what hangs from it.
Good(t) == Rooted(t) /\ \A x \in DOMAIN t : GoodAt(t, x)

\* Good is WellFormed, said of a node and its children.
LEMMA GoodIs ==
    ASSUME NEW t, IsFiniteSet(DOMAIN t), DOMAIN t \subseteq Pos
    PROVE  WellFormed(t) <=> Good(t)
<1>1. ASSUME NEW x \in DOMAIN t
      PROVE  /\ (Slots(t, x, 0) = {}) <=> \A i \in 1 .. MaxSlots : Child(x, i) \notin DOMAIN t
             /\ (Slots(t, x, StateSlot) = {}) <=> \A i \in 1 .. MaxSlots : Child(x, MaxSlots + i) \notin DOMAIN t
             /\ (/\ DOMAIN t[x] = DOMAIN Label(x, "Leaf") /\ t[x].kind \in {"Box", "Switch", "Modal", "Leaf"}
                 /\ AreSealed(t[x].sealed) /\ (t[x].kind # "Modal" => t[x].sealed = << >>))
                  <=> LabelOk(t[x])
  <2>1. \A i \in 1 .. MaxSlots : 0 + i = i
    BY MaxSlotsAssumption
  <2>2. Slots(t, x, 0) = {i \in 1 .. MaxSlots : Child(x, i) \in DOMAIN t}
    BY <2>1 DEF Slots, Child
  <2>3. Slots(t, x, StateSlot) = {i \in 1 .. MaxSlots : Child(x, MaxSlots + i) \in DOMAIN t}
    BY DEF Slots, StateSlot, Child
  <2>4. DOMAIN Label(x, "Leaf") = DOMAIN Label(0, "Leaf")
    BY DEF Label
  <2>. QED  BY <2>2, <2>3, <2>4 DEF LabelOk
<1>2. {1, StateSlot + 1, FallbackSlot + 1} = FirstSlots
  BY DEF FirstSlots, StateSlot, FallbackSlot
<1>3. ASSUME WellFormed(t)
      PROVE  Good(t)
  <2>1. << >> \in DOMAIN t /\ \A x \in DOMAIN t : x # << >> => Front(x) \in DOMAIN t
    BY <1>3 DEF WellFormed, Shaped
  <2>2. ASSUME NEW x \in DOMAIN t, NEW s \in Nat \ FirstSlots, Child(x, s) \in DOMAIN t
        PROVE  s # 0 /\ Child(x, s - 1) \in DOMAIN t
    <3>. DEFINE z == Child(x, s)
    <3>1. z # << >> /\ Front(z) = x /\ Last(z) = s
      BY AppendParts, FrontLast
    <3>2. Last(z) \notin {1, StateSlot + 1, FallbackSlot + 1} => Child(Front(z), Last(z) - 1) \in DOMAIN t
      BY <1>3, <2>2, <3>1 DEF WellFormed, Shaped, Child
    <3>. HIDE DEF z
    <3>3. Child(x, s - 1) \in DOMAIN t
      BY <1>2, <3>1, <3>2
    <3>4. s # 0
      <4>1. Child(x, 0 - 1) \notin Pos
        BY DEF Child, Pos
      <4>. QED  BY <3>3, <4>1
    <3>. QED  BY <3>3, <3>4
  <2>3. ASSUME NEW x \in DOMAIN t
        PROVE  GoodAt(t, x)
    <3>1. /\ DOMAIN t[x] = DOMAIN Label(x, "Leaf") /\ t[x].kind \in {"Box", "Switch", "Modal", "Leaf"}
          /\ t[x].kind \in {"Modal", "Leaf"} => Slots(t, x, 0) = {}
          /\ ~t[x].state => Slots(t, x, StateSlot) = {}
          /\ AreSealed(t[x].sealed) /\ (t[x].kind # "Modal" => t[x].sealed = << >>)
      BY <1>3 DEF WellFormed, Shaped
    <3>. QED  BY <1>1, <2>2, <3>1 DEF GoodAt
  <2>. QED  BY <2>1, <2>3 DEF Good, Rooted
<1>4. ASSUME Good(t)
      PROVE  WellFormed(t)
  <2>1. ASSUME NEW x \in DOMAIN t
        PROVE  /\ DOMAIN t[x] = DOMAIN Label(x, "Leaf") /\ t[x].kind \in {"Box", "Switch", "Modal", "Leaf"}
               /\ t[x].kind \in {"Modal", "Leaf"} => Slots(t, x, 0) = {}
               /\ ~t[x].state => Slots(t, x, StateSlot) = {}
               /\ AreSealed(t[x].sealed) /\ (t[x].kind # "Modal" => t[x].sealed = << >>)
    BY <1>1, <1>4 DEF Good, GoodAt
  <2>2. ASSUME NEW x \in DOMAIN t, x # << >>
        PROVE  /\ Front(x) \in DOMAIN t
               /\ Last(x) \notin {1, StateSlot + 1, FallbackSlot + 1} => Child(Front(x), Last(x) - 1) \in DOMAIN t
    <3>1. Front(x) \in DOMAIN t
      BY <1>4, <2>2 DEF Good, Rooted
    <3>2. x = Child(Front(x), Last(x)) /\ Last(x) \in Nat
      BY <2>2, LastOf
    <3>3. \A s \in Nat \ FirstSlots : Child(Front(x), s) \in DOMAIN t => Child(Front(x), s - 1) \in DOMAIN t
      BY <1>4, <3>1 DEF Good, GoodAt
    <3>. QED  BY <1>2, <3>1, <3>2, <3>3
  <2>. QED  BY <1>4, <2>1, <2>2 DEF WellFormed, Shaped, Good, Rooted, Child
<1>. QED  BY <1>3, <1>4

\* A child is below the slots of p where its parent is, or is a child of p in one.
LEMMA UnderStep ==
    ASSUME NEW p \in Pos, NEW first \in Nat, NEW x \in Pos, NEW s \in Nat
    PROVE  Under(p, first, Child(x, s)) <=> Under(p, first, x) \/ (x = p /\ s \in first + 1 .. first + MaxSlots)
<1>0. \A i \in 1 .. MaxSlots : first + i \in Nat
  BY MaxSlotsAssumption
<1>. DEFINE z == Child(x, s)
<1>1. z \in Pos /\ z # << >> /\ Front(z) = x /\ Last(z) = s
  BY AppendParts, FrontLast
<1>2. ASSUME Under(p, first, x)
      PROVE  Under(p, first, z)
  <2>1. PICK i \in 1 .. MaxSlots, y \in Pos : x = At(p, first + i, y)
    BY <1>2 DEF Under
  <2>2. PICK k \in Nat : k = first + i
    BY <1>0
  <2>3. Child(At(p, k, y), s) = At(p, k, Child(y, s)) /\ Child(y, s) \in Pos
    <3>1. p \in Pos /\ k \in Nat /\ y \in Pos /\ s \in Nat
      OBVIOUS
    <3>. HIDE DEF z
    <3>. QED  BY <3>1, AtAppend
  <2>. QED  BY <2>1, <2>2, <2>3 DEF Under
<1>3. ASSUME x = p, s \in first + 1 .. first + MaxSlots
      PROVE  Under(p, first, z)
  <2>1. s - first \in 1 .. MaxSlots /\ s = first + (s - first)
    BY <1>3, MaxSlotsAssumption
  <2>2. z = At(p, s, << >>)
    BY <1>3, AtEmpty
  <2>3. << >> \in Pos
    BY DEF Pos
  <2>. QED  BY <2>1, <2>2, <2>3 DEF Under
<1>4. ASSUME Under(p, first, z)
      PROVE  Under(p, first, x) \/ (x = p /\ s \in first + 1 .. first + MaxSlots)
  <2>1. PICK i \in 1 .. MaxSlots, y \in Pos : z = At(p, first + i, y)
    BY <1>4 DEF Under
  <2>. HIDE DEF z
  <2>2. CASE y = << >>
    <3>1. z = Child(p, first + i)
      BY <1>0, <2>1, <2>2, AtEmpty
    <3>2. Front(z) = p /\ Last(z) = first + i
      BY <1>0, <3>1, FrontLast
    <3>3. first + i \in first + 1 .. first + MaxSlots
      BY MaxSlotsAssumption
    <3>. QED  BY <1>1, <3>2, <3>3
  <2>3. CASE y # << >>
    <3>1. x = At(p, first + i, Front(y))
      BY <1>0, <1>1, <2>1, <2>3, FrontOfAt
    <3>2. Front(y) \in Pos
      BY <2>3, LastOf
    <3>. QED  BY <3>1, <3>2 DEF Under
  <2>. QED  BY <2>2, <2>3
<1>. QED  BY <1>2, <1>3, <1>4

\* A node, and the root, is not below a slot of the node.
LEMMA UnderSelf ==
    ASSUME NEW p \in Pos, NEW first \in Nat
    PROVE  ~Under(p, first, p) /\ ~Under(p, first, << >>)
<1>0. \A i \in 1 .. MaxSlots : first + i \in Nat
  BY MaxSlotsAssumption
<1>. QED  BY <1>0, AtBelow DEF Under

-----------------------------------------------------------------------------
(***************************************************************************)
(* A tree with other subs in some of its slots.                            *)
(***************************************************************************)
\* What is needed of the parts.
Parts(t, p, first, subs) ==
    /\ DOMAIN t \subseteq Pos /\ p \in DOMAIN t /\ first \in Nat
    /\ \A i \in Seats(subs) : DOMAIN subs[i] \subseteq Pos

\* Where what came is.
LEMMA SeatIs ==
    ASSUME NEW t, NEW p, NEW first, NEW subs, Parts(t, p, first, subs),
           NEW i \in Seats(subs), NEW y \in DOMAIN subs[i]
    PROVE  /\ i \in 1 .. MaxSlots /\ first + i \in Nat /\ y \in Pos
           /\ Under(p, first, At(p, first + i, y)) /\ At(p, first + i, y) \in Pos
<1>1. i \in 1 .. MaxSlots /\ first + i \in Nat /\ y \in Pos /\ p \in Pos
  BY MaxSlotsAssumption DEF Parts, Seats
<1>2. Under(p, first, At(p, first + i, y))
  BY <1>1 DEF Under
<1>. QED  BY <1>1, <1>2, AtBelow

\* What stayed keeps its children, but for the slots filled.
LEMMA ChildOld ==
    ASSUME NEW t, NEW p, NEW first, NEW subs, NEW u, Parts(t, p, first, subs), Seated(u, t, p, first, subs),
           NEW x \in DOMAIN t, ~Under(p, first, x), NEW s \in Nat,
           ~(x = p /\ s \in first + 1 .. first + MaxSlots)
    PROVE  Child(x, s) \in DOMAIN u <=> Child(x, s) \in DOMAIN t
<1>. DEFINE z == Child(x, s)
<1>1. ~Under(p, first, z)
  BY UnderStep DEF Parts
<1>. HIDE DEF z
<1>2. z \in DOMAIN t => z \in DOMAIN u
  BY <1>1 DEF Seated
<1>3. ASSUME z \in DOMAIN u
      PROVE  z \in DOMAIN t
  <2>1. ASSUME NEW i \in Seats(subs), NEW y \in DOMAIN subs[i], z = At(p, first + i, y)
        PROVE  FALSE
    BY <1>1, <2>1, SeatIs
  <2>. QED  BY <1>3, <2>1 DEF Seated
<1>. QED  BY <1>2, <1>3 DEF z

\* What came has the children it had.
LEMMA ChildNew ==
    ASSUME NEW t, NEW p, NEW first, NEW subs, NEW u, Parts(t, p, first, subs), Seated(u, t, p, first, subs),
           NEW i \in Seats(subs), NEW y \in DOMAIN subs[i], NEW s \in Nat
    PROVE  /\ Child(At(p, first + i, y), s) \in DOMAIN u <=> Child(y, s) \in DOMAIN subs[i]
           /\ Child(At(p, first + i, y), s) = At(p, first + i, Child(y, s))
<1>1. i \in 1 .. MaxSlots /\ first + i \in Nat /\ y \in Pos /\ p \in Pos /\ first \in Nat
  BY SeatIs DEF Parts
<1>2. Child(At(p, first + i, y), s) = At(p, first + i, Child(y, s)) /\ Child(y, s) \in Pos
  BY <1>1, AtAppend
<1>. DEFINE z == At(p, first + i, Child(y, s))
<1>3. Child(y, s) \in DOMAIN subs[i] => z \in DOMAIN u
  BY DEF Seated
<1>4. ASSUME z \in DOMAIN u
      PROVE  Child(y, s) \in DOMAIN subs[i]
  <2>1. Under(p, first, z)
    BY <1>1, <1>2 DEF Under
  <2>2. PICK j \in Seats(subs) : \E w \in DOMAIN subs[j] : z = At(p, first + j, w)
    BY <1>4, <2>1 DEF Seated
  <2>3. PICK w \in DOMAIN subs[j] : z = At(p, first + j, w)
    BY <2>2
  <2>4. j \in 1 .. MaxSlots /\ first + j \in Nat /\ w \in Pos
    BY SeatIs
  <2>5. first + i = first + j /\ Child(y, s) = w
    <3>1. PICK k \in Nat, l \in Nat : k = first + i /\ l = first + j
      BY <1>1, <2>4
    <3>. DEFINE v == Child(y, s)
    <3>2. At(p, k, v) = At(p, l, w) /\ v \in Pos
      BY <1>2, <2>3, <3>1
    <3>. HIDE DEF v
    <3>3. k = l /\ v = w
      BY <1>1, <2>4, <3>2, AtInjective
    <3>. QED  BY <3>1, <3>3 DEF v
  <2>6. i = j
    BY <1>1, <2>4, <2>5
  <2>. QED  BY <2>5, <2>6
<1>. QED  BY <1>2, <1>3, <1>4

\* The slots of p are filled as the subs say.
LEMMA ChildSeat ==
    ASSUME NEW t, NEW p, NEW first, NEW subs, NEW u, Parts(t, p, first, subs), Seated(u, t, p, first, subs),
           \A i \in Seats(subs) : << >> \in DOMAIN subs[i], NEW i \in 1 .. MaxSlots
    PROVE  Child(p, first + i) \in DOMAIN u <=> i \in Seats(subs)
<1>1. first + i \in Nat /\ p \in Pos /\ first \in Nat /\ << >> \in Pos
  BY MaxSlotsAssumption DEF Parts, Pos
<1>. DEFINE z == At(p, first + i, << >>)
<1>2. z = Child(p, first + i)
  BY <1>1, AtEmpty
<1>3. i \in Seats(subs) => z \in DOMAIN u
  BY DEF Seated
<1>4. ASSUME z \in DOMAIN u
      PROVE  i \in Seats(subs)
  <2>1. Under(p, first, z)
    BY <1>1 DEF Under
  <2>2. PICK j \in Seats(subs) : \E w \in DOMAIN subs[j] : z = At(p, first + j, w)
    BY <1>4, <2>1 DEF Seated
  <2>3. PICK w \in DOMAIN subs[j] : z = At(p, first + j, w)
    BY <2>2
  <2>4. j \in 1 .. MaxSlots /\ first + j \in Nat /\ w \in Pos
    BY SeatIs
  <2>5. first + i = first + j
    BY <1>1, <2>3, <2>4, AtInjective
  <2>6. i = j
    BY <1>1, <2>4, <2>5
  <2>. QED  BY <2>6
<1>. QED  BY <1>2, <1>3, <1>4

\* Where the nodes of the subs come to be.
Landings(p, first, subs) == UNION {{At(p, first + i, y) : y \in DOMAIN subs[i]} : i \in Seats(subs)}

\* The subs of finitely many slots have finitely many nodes.
LEMMA SeatsFinite ==
    ASSUME NEW p, NEW first, NEW subs, \A i \in Seats(subs) : IsFiniteSet(DOMAIN subs[i])
    PROVE  IsFiniteSet(Landings(p, first, subs))
<1>. DEFINE part(i) == {At(p, first + i, y) : y \in DOMAIN subs[i]}
            upto(k) == UNION {part(i) : i \in {i \in Seats(subs) : i <= k}}
            T == {k \in 0 .. MaxSlots : ~IsFiniteSet(upto(k))}
<1>1. ASSUME NEW i \in Seats(subs)
      PROVE  IsFiniteSet(part(i))
  <2>. DEFINE f == [y \in DOMAIN subs[i] |-> At(p, first + i, y)]
  <2>1. f \in Surjection(DOMAIN subs[i], part(i))
    BY DEF Surjection
  <2>. QED  BY <2>1, FS_Surjection
<1>2. ASSUME T # {}
      PROVE  FALSE
  <2>0. T \subseteq Nat
    BY MaxSlotsAssumption
  <2>1. PICK k \in T : \A n \in T : k <= n
    <3>. HIDE DEF T
    <3>. QED  BY <1>2, <2>0, LeastIn
  <2>2. k # 0
    <3>1. {i \in Seats(subs) : i <= 0} = {}
      BY MaxSlotsAssumption DEF Seats
    <3>2. upto(0) = {}
      BY <3>1
    <3>. QED  BY <2>1, <3>2, FS_EmptySet
  <2>3. k - 1 \in 0 .. MaxSlots /\ k - 1 \notin T /\ k \in 1 .. MaxSlots
    BY <2>1, <2>2, MaxSlotsAssumption
  <2>4. IsFiniteSet(upto(k - 1))
    BY <2>3
  <2>5. {i \in Seats(subs) : i <= k}
          = {i \in Seats(subs) : i <= k - 1} \union (IF k \in Seats(subs) THEN {k} ELSE {})
    BY <2>3, MaxSlotsAssumption DEF Seats
  <2>. HIDE DEF part
  <2>6. upto(k) = upto(k - 1) \union (IF k \in Seats(subs) THEN part(k) ELSE {})
    BY <2>5
  <2>7. IsFiniteSet(IF k \in Seats(subs) THEN part(k) ELSE {})
    BY <1>1, FS_EmptySet
  <2>. HIDE DEF upto
  <2>8. IsFiniteSet(upto(k))
    BY <2>4, <2>6, <2>7, FS_Union
  <2>. QED  BY <2>1, <2>8
<1>3. IsFiniteSet(upto(MaxSlots))
  <2>1. MaxSlots \in 0 .. MaxSlots
    BY MaxSlotsAssumption
  <2>. HIDE DEF upto
  <2>. QED  BY <1>2, <2>1
<1>4. {i \in Seats(subs) : i <= MaxSlots} = Seats(subs)
  BY MaxSlotsAssumption DEF Seats
<1>5. upto(MaxSlots) = Landings(p, first, subs)
  BY <1>4 DEF Landings
<1>. HIDE DEF upto
<1>. QED  BY <1>3, <1>5

\* A tree with other subs has a root and the nodes above each node.
LEMMA SeatRooted ==
    ASSUME NEW t, NEW p, NEW first \in Nat, NEW subs, NEW u, Rooted(t), p \in DOMAIN t,
           \A i \in Seats(subs) : Rooted(subs[i]), Seated(u, t, p, first, subs)
    PROVE  Rooted(u) /\ Parts(t, p, first, subs)
<1>0. Parts(t, p, first, subs) /\ p \in Pos
  BY DEF Parts, Rooted
<1>. DEFINE come == Landings(p, first, subs)
<1>1. DOMAIN u \subseteq DOMAIN t \union come
  <2>1. \A x \in DOMAIN u :
          x \in DOMAIN t \/ \E i \in Seats(subs) : \E y \in DOMAIN subs[i] : x = At(p, first + i, y)
    BY DEF Seated
  <2>2. ASSUME NEW x, NEW i \in Seats(subs), NEW y \in DOMAIN subs[i], x = At(p, first + i, y)
        PROVE  x \in come
    BY <2>2 DEF Landings
  <2>. HIDE DEF come
  <2>. QED  BY <2>1, <2>2
<1>2. IsFiniteSet(come)
  <2>1. \A i \in Seats(subs) : IsFiniteSet(DOMAIN subs[i])
    BY DEF Rooted
  <2>. QED  BY <2>1, SeatsFinite
<1>. HIDE DEF come
<1>3. IsFiniteSet(DOMAIN t \union come)
  BY <1>2, FS_Union DEF Rooted
<1>4. IsFiniteSet(DOMAIN u)
  BY <1>1, <1>3, FS_Subset
<1>5. DOMAIN u \subseteq Pos
  <2>. SUFFICES ASSUME NEW x \in DOMAIN u
                PROVE  x \in Pos
    OBVIOUS
  <2>1. CASE x \in DOMAIN t
    BY <2>1 DEF Rooted
  <2>2. CASE \E i \in Seats(subs) : \E y \in DOMAIN subs[i] : x = At(p, first + i, y)
    <3>1. PICK i \in Seats(subs) : \E y \in DOMAIN subs[i] : x = At(p, first + i, y)
      BY <2>2
    <3>2. PICK y \in DOMAIN subs[i] : x = At(p, first + i, y)
      BY <3>1
    <3>3. At(p, first + i, y) \in Pos
      BY <1>0, SeatIs
    <3>. QED  BY <3>2, <3>3
  <2>. QED  BY <2>1, <2>2 DEF Seated
<1>6. << >> \in DOMAIN u
  BY <1>0, UnderSelf DEF Rooted, Seated
<1>7. ASSUME NEW x \in DOMAIN u, x # << >>
      PROVE  Front(x) \in DOMAIN u
  <2>1. CASE x \in DOMAIN t /\ ~Under(p, first, x)
    <3>1. Front(x) \in DOMAIN t /\ Front(x) \in Pos /\ Last(x) \in Nat /\ x = Child(Front(x), Last(x))
      BY <1>5, <1>7, <2>1, LastOf DEF Rooted
    <3>2. ~Under(p, first, Front(x))
      BY <1>0, <2>1, <3>1, UnderStep
    <3>. QED  BY <3>1, <3>2 DEF Seated
  <2>2. CASE \E i \in Seats(subs) : \E y \in DOMAIN subs[i] : x = At(p, first + i, y)
    <3>1. PICK i \in Seats(subs) : \E y \in DOMAIN subs[i] : x = At(p, first + i, y)
      BY <2>2
    <3>2. PICK y \in DOMAIN subs[i] : x = At(p, first + i, y)
      BY <3>1
    <3>3. first + i \in Nat /\ y \in Pos
      BY <1>0, SeatIs
    <3>4. CASE y = << >>
      <4>1. Front(x) = p
        BY <1>0, <3>2, <3>3, <3>4, AtEmpty, FrontLast
      <4>2. ~Under(p, first, p)
        BY <1>0, UnderSelf
      <4>. QED  BY <4>1, <4>2 DEF Seated
    <3>5. CASE y # << >>
      <4>1. Front(x) = At(p, first + i, Front(y))
        BY <1>0, <3>2, <3>3, <3>5, FrontOfAt
      <4>2. Front(y) \in DOMAIN subs[i]
        BY <3>5 DEF Rooted
      <4>. QED  BY <4>1, <4>2 DEF Seated
    <3>. QED  BY <3>4, <3>5
  <2>. QED  BY <2>1, <2>2 DEF Seated
<1>. QED  BY <1>0, <1>4, <1>5, <1>6, <1>7 DEF Rooted

\* The subs are good trees, one after another from the first slot.
GoodSubs(subs) ==
    \A i \in Seats(subs) : Good(subs[i]) /\ (i # 1 => i - 1 \in Seats(subs))

\* l is the label of p in u, and allows what is below.
Allows(l, t, p, first, subs) ==
    /\ LabelOk(l)
    /\ l.kind \in {"Modal", "Leaf"} => IF first = 0 THEN Seats(subs) = {} ELSE t[p].kind = l.kind
    /\ ~l.state => IF first = 0 THEN ~t[p].state ELSE Seats(subs) = {}

\* A good tree with good subs, where the label of p allows them, is good.
LEMMA SeatGood ==
    ASSUME NEW t, NEW l, NEW p \in DOMAIN t, NEW first \in {0, MaxSlots}, NEW subs, NEW u, Good(t), GoodSubs(subs),
           Allows(l, t, p, first, subs), Seated(u, [t EXCEPT ![p] = l], p, first, subs)
    PROVE  Good(u)
<1>. DEFINE v == [t EXCEPT ![p] = l]
<1>0. /\ DOMAIN v = DOMAIN t /\ v[p] = l /\ \A x \in DOMAIN t : x # p => v[x] = t[x]
      /\ first \in Nat /\ Seated(u, v, p, first, subs)
  BY MaxSlotsAssumption
<1>. HIDE DEF v
<1>1. Rooted(v) /\ \A i \in Seats(subs) : Rooted(subs[i])
  BY <1>0 DEF Good, Rooted, GoodSubs
<1>2. Rooted(u) /\ Parts(v, p, first, subs) /\ p \in Pos
  BY <1>0, <1>1, SeatRooted DEF Parts, Rooted
<1>3. \A i \in 1 .. MaxSlots : i \in Nat /\ MaxSlots + i \in Nat
  BY MaxSlotsAssumption
<1>4. ASSUME NEW i \in Seats(subs), NEW y \in DOMAIN subs[i]
      PROVE  GoodAt(u, At(p, first + i, y))
  <2>. DEFINE x == At(p, first + i, y)
  <2>1. u[x] = subs[i][y]
    BY <1>0 DEF Seated
  <2>2. \A s \in Nat : Child(x, s) \in DOMAIN u <=> Child(y, s) \in DOMAIN subs[i]
    BY <1>0, <1>2, ChildNew
  <2>3. GoodAt(subs[i], y)
    BY DEF GoodSubs, Good
  <2>. HIDE DEF x
  <2>4. ASSUME NEW s \in Nat \ FirstSlots, Child(x, s) \in DOMAIN u
        PROVE  s # 0 /\ Child(x, s - 1) \in DOMAIN u
    <3>1. s # 0 /\ Child(y, s - 1) \in DOMAIN subs[i]
      BY <2>2, <2>3, <2>4 DEF GoodAt
    <3>. QED  BY <2>2, <3>1
  <2>5. GoodAt(u, x)
    BY <1>3, <2>1, <2>2, <2>3, <2>4 DEF GoodAt
  <2>. QED  BY <2>5 DEF x
<1>5. ASSUME NEW x \in DOMAIN t, ~Under(p, first, x), x # p
      PROVE  GoodAt(u, x)
  <2>1. u[x] = t[x]
    BY <1>0, <1>5 DEF Seated
  <2>2. \A s \in Nat : Child(x, s) \in DOMAIN u <=> Child(x, s) \in DOMAIN t
    BY <1>0, <1>2, <1>5, ChildOld
  <2>3. GoodAt(t, x)
    BY DEF Good
  <2>4. ASSUME NEW s \in Nat \ FirstSlots, Child(x, s) \in DOMAIN u
        PROVE  s # 0 /\ Child(x, s - 1) \in DOMAIN u
    <3>1. s # 0 /\ Child(x, s - 1) \in DOMAIN t
      BY <2>2, <2>3, <2>4 DEF GoodAt
    <3>. QED  BY <2>2, <3>1
  <2>. QED  BY <1>3, <2>1, <2>2, <2>3, <2>4 DEF GoodAt
<1>6. GoodAt(u, p)
  <2>0. ~Under(p, first, p)
    BY <1>0, <1>2, UnderSelf
  <2>1. u[p] = l
    BY <1>0, <2>0 DEF Seated
  <2>2. \A s \in Nat \ first + 1 .. first + MaxSlots : Child(p, s) \in DOMAIN u <=> Child(p, s) \in DOMAIN t
    BY <1>0, <1>2, <2>0, ChildOld
  <2>3. \A i \in 1 .. MaxSlots : Child(p, first + i) \in DOMAIN u <=> i \in Seats(subs)
    <3>1. \A i \in Seats(subs) : << >> \in DOMAIN subs[i]
      BY <1>1 DEF Rooted
    <3>. QED  BY <1>0, <1>2, <3>1, ChildSeat
  <2>4. GoodAt(t, p)
    BY DEF Good
  <2>5. l.kind \in {"Modal", "Leaf"} => \A i \in 1 .. MaxSlots : Child(p, i) \notin DOMAIN u
    <3>1. CASE first = 0
      BY <1>3, <2>3, <3>1 DEF Allows
    <3>2. CASE first # 0
      <4>1. \A i \in 1 .. MaxSlots : i \in Nat \ first + 1 .. first + MaxSlots
        BY <3>2, MaxSlotsAssumption
      <4>. QED  BY <2>2, <2>4, <3>2, <4>1 DEF Allows, GoodAt
    <3>. QED  BY <3>1, <3>2
  <2>6. ~l.state => \A i \in 1 .. MaxSlots : Child(p, MaxSlots + i) \notin DOMAIN u
    <3>1. CASE first = 0
      <4>1. \A i \in 1 .. MaxSlots : MaxSlots + i \in Nat \ first + 1 .. first + MaxSlots
        BY <3>1, MaxSlotsAssumption
      <4>. QED  BY <2>2, <2>4, <3>1, <4>1 DEF Allows, GoodAt
    <3>2. CASE first # 0
      <4>1. first = MaxSlots
        BY <3>2
      <4>. QED  BY <2>3, <3>2, <4>1 DEF Allows
    <3>. QED  BY <3>1, <3>2
  <2>7. ASSUME NEW s \in Nat \ FirstSlots, Child(p, s) \in DOMAIN u
        PROVE  s # 0 /\ Child(p, s - 1) \in DOMAIN u
    <3>1. CASE s \in first + 1 .. first + MaxSlots
      <4>1. PICK i \in 1 .. MaxSlots : s = first + i
        <5>1. s - first \in 1 .. MaxSlots /\ s = first + (s - first)
          BY <3>1, MaxSlotsAssumption
        <5>. QED  BY <5>1
      <4>2. i # 1 /\ s # 0
        BY <4>1, MaxSlotsAssumption DEF FirstSlots
      <4>3. i \in Seats(subs)
        BY <2>3, <2>7, <4>1
      <4>4. i - 1 \in Seats(subs)
        BY <4>2, <4>3 DEF GoodSubs
      <4>5. i - 1 \in 1 .. MaxSlots /\ first + (i - 1) = s - 1
        BY <4>1, <4>2, MaxSlotsAssumption
      <4>. QED  BY <2>3, <4>2, <4>4, <4>5
    <3>2. CASE s \notin first + 1 .. first + MaxSlots
      <4>1. s # 0 /\ Child(p, s - 1) \in DOMAIN t
        BY <2>2, <2>4, <2>7, <3>2 DEF GoodAt
      <4>2. s - 1 \in Nat \ first + 1 .. first + MaxSlots
        BY <3>2, <4>1, MaxSlotsAssumption DEF FirstSlots
      <4>. QED  BY <2>2, <4>1, <4>2
    <3>. QED  BY <3>1, <3>2
  <2>. QED  BY <2>1, <2>5, <2>6, <2>7 DEF GoodAt, Allows
<1>7. ASSUME NEW x \in DOMAIN u
      PROVE  GoodAt(u, x)
  <2>1. CASE x \in DOMAIN t /\ ~Under(p, first, x)
    BY <1>5, <1>6, <2>1
  <2>2. CASE \E i \in Seats(subs) : \E y \in DOMAIN subs[i] : x = At(p, first + i, y)
    BY <1>4, <2>2
  <2>. QED  BY <1>0, <2>1, <2>2 DEF Seated
<1>. QED  BY <1>2, <1>7 DEF Good

-----------------------------------------------------------------------------
(***************************************************************************)
(* The children of a node, and their subtrees.                             *)
(***************************************************************************)
\* The children of a node are numbered from one.
LEMMA SlotsAre ==
    ASSUME NEW t, NEW p \in DOMAIN t, Good(t)
    PROVE  \E n \in 0 .. MaxSlots : Slots(t, p, 0) = 1 .. n
<1>. DEFINE S == Slots(t, p, 0)
            T == {m \in Nat : m + 1 \notin S}
<1>1. S = {i \in 1 .. MaxSlots : Child(p, i) \in DOMAIN t}
  <2>1. \A i \in 1 .. MaxSlots : 0 + i = i
    BY MaxSlotsAssumption
  <2>. QED  BY <2>1 DEF Slots, Child
<1>. HIDE DEF S
<1>2. MaxSlots \in T /\ T \subseteq Nat
  BY <1>1, MaxSlotsAssumption
<1>3. PICK n \in T : \A m \in T : n <= m
  <2>. HIDE DEF T
  <2>. QED  BY <1>2, LeastIn
<1>4. n \in 0 .. MaxSlots /\ n + 1 \notin S
  BY <1>2, <1>3, MaxSlotsAssumption
<1>5. ASSUME NEW k \in 1 .. n
      PROVE  k \in S
  <2>1. k - 1 \in Nat /\ k - 1 \notin T
    BY <1>3, <1>4
  <2>2. k - 1 + 1 = k
    BY <1>4
  <2>. QED  BY <2>1, <2>2
<1>6. ASSUME NEW j \in S, j \notin 1 .. n
      PROVE  FALSE
  <2>. DEFINE B == {k \in S : k > n}
  <2>1. B \subseteq Nat /\ j \in B
    BY <1>1, <1>4, <1>6, MaxSlotsAssumption
  <2>2. PICK m \in B : \A k \in B : m <= k
    <3>. HIDE DEF B
    <3>. QED  BY <2>1, LeastIn
  <2>3. m \in 1 .. MaxSlots /\ m > n + 1 /\ Child(p, m) \in DOMAIN t
    BY <1>1, <1>4, <2>2, MaxSlotsAssumption
  <2>4. m \in Nat \ FirstSlots /\ m - 1 \in 1 .. MaxSlots /\ m - 1 > n /\ ~(m <= m - 1)
    BY <1>4, <2>3, MaxSlotsAssumption DEF FirstSlots
  <2>5. Child(p, m - 1) \in DOMAIN t
    BY <2>3, <2>4 DEF Good, GoodAt
  <2>6. m - 1 \in B
    BY <1>1, <2>4, <2>5
  <2>. HIDE DEF B
  <2>. QED  BY <2>2, <2>4, <2>6
<1>7. S = 1 .. n
  <2>1. \A k : k \in S <=> k \in 1 .. n
    BY <1>5, <1>6
  <2>. QED  BY <2>1
<1>. QED  BY <1>4, <1>7 DEF S

\* A tree has the nodes above those it has.
LEMMA Above ==
    ASSUME NEW t, Rooted(t), NEW p \in Pos, NEW s \in Nat, NEW y \in Pos, At(p, s, y) \in DOMAIN t
    PROVE  Child(p, s) \in DOMAIN t
<1>. DEFINE T == {m \in Nat : \E z \in Pos : Len(z) = m /\ At(p, s, z) \in DOMAIN t}
<1>1. T \subseteq Nat /\ Len(y) \in T
  BY DEF Pos
<1>2. PICK m \in T : \A k \in T : m <= k
  <2>. HIDE DEF T
  <2>. QED  BY <1>1, LeastIn
<1>3. PICK z \in Pos : Len(z) = m /\ At(p, s, z) \in DOMAIN t
  BY <1>2
<1>4. CASE z = << >>
  BY <1>3, <1>4, AtEmpty
<1>5. CASE z # << >>
  <2>1. Parted(z, Front(z), Last(z)) /\ Front(z) \in Pos
    BY <1>5, FrontParts, LastOf
  <2>2. At(p, s, Front(z)) \in DOMAIN t
    <3>1. At(p, s, z) # << >> /\ Front(At(p, s, z)) = At(p, s, Front(z))
      BY <1>5, AtBelow, FrontOfAt
    <3>. QED  BY <1>3, <3>1 DEF Rooted
  <2>3. Len(Front(z)) = m - 1 /\ m \in Nat /\ m - 1 \in Nat
    BY <1>3, <2>1 DEF Parted
  <2>4. m - 1 \in T
    BY <2>1, <2>2, <2>3
  <2>. HIDE DEF T
  <2>. QED  BY <1>2, <2>3, <2>4
<1>. QED  BY <1>4, <1>5

\* What hangs in a slot of a good tree is good.
LEMMA SubGood ==
    ASSUME NEW t, Good(t), NEW p \in Pos, NEW s \in Nat, Child(p, s) \in DOMAIN t
    PROVE  Good(Sub(t, Child(p, s)))
<1>. DEFINE u == Sub(t, Child(p, s))
<1>1. /\ DOMAIN u = {y \in Pos : At(p, s, y) \in DOMAIN t}
      /\ \A y \in DOMAIN u : u[y] = t[At(p, s, y)]
  <2>1. DOMAIN t \subseteq Pos
    BY DEF Good, Rooted
  <2>2. DOMAIN u = {y \in Pos : At(p, s, y) \in DOMAIN t}
    BY <2>1, SubIs
  <2>3. \A y \in Pos : At(p, s, y) \in DOMAIN t => u[y] = t[At(p, s, y)]
    BY <2>1, SubIs
  <2>. HIDE DEF u
  <2>4. ASSUME NEW y \in DOMAIN u
        PROVE  u[y] = t[At(p, s, y)]
    BY <2>2, <2>3
  <2>. QED  BY <2>2, <2>4
<1>. HIDE DEF u
<1>2. IsFiniteSet(DOMAIN u)
  <2>. DEFINE f == [y \in DOMAIN u |-> At(p, s, y)]
  <2>1. f \in Injection(DOMAIN u, DOMAIN t)
    BY <1>1, AtInjective DEF Injection, IsInjective
  <2>. QED  BY <2>1, FS_Injection DEF Good, Rooted
<1>3. << >> \in DOMAIN u
  BY <1>1, AtEmpty DEF Pos
<1>4. ASSUME NEW y \in DOMAIN u, y # << >>
      PROVE  Front(y) \in DOMAIN u
  <2>1. Front(y) \in Pos /\ Front(At(p, s, y)) = At(p, s, Front(y)) /\ At(p, s, y) # << >>
    BY <1>1, <1>4, LastOf, FrontOfAt, AtBelow
  <2>. QED  BY <1>1, <2>1 DEF Good, Rooted
<1>5. ASSUME NEW y \in DOMAIN u
      PROVE  GoodAt(u, y)
  <2>1. GoodAt(t, At(p, s, y)) /\ u[y] = t[At(p, s, y)] /\ y \in Pos
    BY <1>1 DEF Good
  <2>2. \A i \in Nat : Child(y, i) \in DOMAIN u <=> Child(At(p, s, y), i) \in DOMAIN t
    BY <1>1, <2>1, AtAppend
  <2>3. \A i \in 1 .. MaxSlots : i \in Nat /\ MaxSlots + i \in Nat
    BY MaxSlotsAssumption
  <2>4. ASSUME NEW i \in Nat \ FirstSlots, Child(y, i) \in DOMAIN u
        PROVE  i # 0 /\ Child(y, i - 1) \in DOMAIN u
    <3>1. i # 0 /\ Child(At(p, s, y), i - 1) \in DOMAIN t
      BY <2>1, <2>2, <2>4 DEF GoodAt
    <3>. QED  BY <2>2, <3>1
  <2>5. \A i \in 1 .. MaxSlots :
          /\ Child(y, i) \in DOMAIN u <=> Child(At(p, s, y), i) \in DOMAIN t
          /\ Child(y, MaxSlots + i) \in DOMAIN u <=> Child(At(p, s, y), MaxSlots + i) \in DOMAIN t
    BY <2>2, <2>3
  <2>6. LabelOk(u[y])
    BY <2>1 DEF GoodAt
  <2>7. u[y].kind \in {"Modal", "Leaf"} => \A i \in 1 .. MaxSlots : Child(y, i) \notin DOMAIN u
    BY <2>1, <2>5 DEF GoodAt
  <2>8. ~u[y].state => \A i \in 1 .. MaxSlots : Child(y, MaxSlots + i) \notin DOMAIN u
    BY <2>1, <2>5 DEF GoodAt
  <2>. QED  BY <2>4, <2>6, <2>7, <2>8 DEF GoodAt
<1>6. DOMAIN u \subseteq Pos
  BY <1>1
<1>7. Good(u)
  BY <1>2, <1>3, <1>4, <1>5, <1>6 DEF Good, Rooted
<1>. QED  BY <1>7 DEF u

\* The children of p, n of them.
HeldAre(t, p, n) ==
    /\ n \in 0 .. MaxSlots /\ DOMAIN Held(t, p) = 1 .. n
    /\ \A i \in 1 .. MaxSlots : Child(p, i) \in DOMAIN t <=> i \in 1 .. n
    /\ \A i \in 1 .. n : Held(t, p)[i] = Sub(t, Child(p, i)) /\ Good(Sub(t, Child(p, i)))
    /\ Held(t, p) \in Seq({Sub(t, Child(p, i)) : i \in 1 .. n})

\* The children of a node are a sequence of good trees.
LEMMA HeldIs ==
    ASSUME NEW t, NEW p \in DOMAIN t, Good(t)
    PROVE  \E n : HeldAre(t, p, n)
<1>1. PICK n \in 0 .. MaxSlots : Slots(t, p, 0) = 1 .. n
  BY SlotsAre
<1>2. \A i \in 1 .. MaxSlots : Child(p, i) \in DOMAIN t <=> i \in 1 .. n
  <2>1. \A i \in 1 .. MaxSlots : 0 + i = i
    BY MaxSlotsAssumption
  <2>. QED  BY <1>1, <2>1 DEF Slots, Child
<1>3. Held(t, p) = [i \in 1 .. n |-> Sub(t, Child(p, i))]
  BY <1>1 DEF Held, Child
<1>4. \A i \in 1 .. n : i \in 1 .. MaxSlots /\ i \in Nat
  BY MaxSlotsAssumption
<1>5. p \in Pos
  BY DEF Good, Rooted
<1>6. \A i \in 1 .. n : Good(Sub(t, Child(p, i)))
  BY <1>2, <1>4, <1>5, SubGood
<1>7. Held(t, p) \in Seq({Sub(t, Child(p, i)) : i \in 1 .. n})
  BY <1>3
<1>. QED  BY <1>1, <1>2, <1>3, <1>6, <1>7 DEF HeldAre

-----------------------------------------------------------------------------
(***************************************************************************)
(* The order of the positions, and what comes first in it.                 *)
(***************************************************************************)
\* x and y part after their first k elements, and x comes first.
Splits(x, y, k) ==
    /\ k <= Len(x) /\ k < Len(y)
    /\ \A i \in 1 .. k : x[i] = y[i]
    /\ k < Len(x) => x[k + 1] < y[k + 1]

\* The first k elements are the same.
LEMMA SamePrefix ==
    ASSUME NEW x \in Pos, NEW y \in Pos, NEW k \in Nat, k <= Len(x), k <= Len(y)
    PROVE  SubSeq(x, 1, k) = SubSeq(y, 1, k) <=> \A i \in 1 .. k : x[i] = y[i]
<1>. DEFINE a == SubSeq(x, 1, k)
            b == SubSeq(y, 1, k)
<1>1. a \in Seq(Nat) /\ Len(a) = k /\ \A i \in 1 .. k : a[i] = x[i]
  BY DEF Pos
<1>2. b \in Seq(Nat) /\ Len(b) = k /\ \A i \in 1 .. k : b[i] = y[i]
  BY DEF Pos
<1>. HIDE DEF a, b
<1>3. (\A i \in 1 .. k : x[i] = y[i]) => SameSeq(a, b)
  BY <1>1, <1>2 DEF SameSeq
<1>4. a = b <=> \A i \in 1 .. k : x[i] = y[i]
  BY <1>1, <1>2, <1>3, SeqIs DEF Pos
<1>. QED  BY <1>4 DEF a, b

\* The order is decided where two positions part.
LEMMA BeforeIs ==
    ASSUME NEW x \in Pos, NEW y \in Pos
    PROVE  Before(x, y) <=> \E k \in Nat : Splits(x, y, k)
<1>0. Len(x) \in Nat /\ Len(y) \in Nat
  BY DEF Pos
<1>9. DOMAIN x = 1 .. Len(x) /\ DOMAIN y = 1 .. Len(y)
  BY DEF Pos
<1>1. IsStrictPrefix(x, y) <=> Splits(x, y, Len(x))
  <2>1. ASSUME Len(x) <= Len(y)
        PROVE  IsPrefix(x, y) <=> \A i \in 1 .. Len(x) : x[i] = y[i]
    <3>1. SubSeq(x, 1, Len(x)) = SubSeq(y, 1, Len(x)) <=> \A i \in 1 .. Len(x) : x[i] = y[i]
      BY <1>0, <2>1, SamePrefix
    <3>. QED  BY <2>1, <3>1 DEF IsPrefix
  <2>2. IsPrefix(x, y) => Len(x) <= Len(y)
    BY DEF IsPrefix
  <2>3. ASSUME Len(x) = Len(y), \A i \in 1 .. Len(x) : x[i] = y[i]
        PROVE  x = y
    BY <2>3, SeqIs DEF SameSeq
  <2>4. ASSUME Splits(x, y, Len(x))
        PROVE  IsStrictPrefix(x, y)
    <3>1. Len(x) < Len(y) /\ \A i \in 1 .. Len(x) : x[i] = y[i]
      BY <2>4 DEF Splits
    <3>2. Len(x) <= Len(y) /\ x # y
      BY <1>0, <3>1
    <3>. QED  BY <2>1, <3>1, <3>2 DEF IsStrictPrefix
  <2>5. ASSUME IsStrictPrefix(x, y)
        PROVE  Splits(x, y, Len(x))
    <3>1. IsPrefix(x, y) /\ x # y
      BY <2>5 DEF IsStrictPrefix
    <3>2. Len(x) <= Len(y) /\ \A i \in 1 .. Len(x) : x[i] = y[i]
      BY <2>1, <2>2, <3>1
    <3>3. Len(x) # Len(y)
      BY <2>3, <3>1, <3>2
    <3>4. Len(x) <= Len(x) /\ Len(x) < Len(y) /\ ~(Len(x) < Len(x))
      BY <1>0, <3>2, <3>3
    <3>. QED  BY <3>2, <3>4 DEF Splits
  <2>. QED  BY <2>4, <2>5
<1>2. ASSUME NEW k \in 1 .. Len(x), k <= Len(y)
      PROVE  SubSeq(x, 1, k - 1) = SubSeq(y, 1, k - 1) <=> \A i \in 1 .. k - 1 : x[i] = y[i]
  <2>1. k - 1 \in Nat /\ k - 1 <= Len(x) /\ k - 1 <= Len(y)
    BY <1>0, <1>2
  <2>2. PICK l \in Nat : l = k - 1
    BY <2>1
  <2>3. SubSeq(x, 1, l) = SubSeq(y, 1, l) <=> \A i \in 1 .. l : x[i] = y[i]
    BY <2>1, <2>2, SamePrefix
  <2>. QED  BY <2>2, <2>3
<1>3. ASSUME NEW k \in DOMAIN x \intersect DOMAIN y, x[k] < y[k], SubSeq(x, 1, k - 1) = SubSeq(y, 1, k - 1)
      PROVE  \E j \in Nat : Splits(x, y, j)
  <2>1. k \in 1 .. Len(x) /\ k <= Len(y)
    BY <1>0, <1>9
  <2>2. \A i \in 1 .. k - 1 : x[i] = y[i]
    BY <1>2, <1>3, <2>1
  <2>3. PICK l \in Nat : l = k - 1 /\ l + 1 = k
    <3>1. k - 1 \in Nat /\ k - 1 + 1 = k
      BY <1>0, <2>1
    <3>. QED  BY <3>1
  <2>4. Splits(x, y, l)
    BY <1>0, <1>3, <2>1, <2>2, <2>3 DEF Splits
  <2>. QED  BY <2>4
<1>4. ASSUME NEW k \in Nat, Splits(x, y, k)
      PROVE  Before(x, y)
  <2>1. CASE k = Len(x)
    <3>1. IsStrictPrefix(x, y)
      BY <1>1, <1>4, <2>1
    <3>. QED  BY <3>1 DEF Before
  <2>2. CASE k # Len(x)
    <3>0. k <= Len(x) /\ k < Len(y)
      BY <1>4 DEF Splits
    <3>1. k + 1 \in 1 .. Len(x) /\ k + 1 \in 1 .. Len(y) /\ k + 1 <= Len(y) /\ k + 1 - 1 = k
      BY <1>0, <2>2, <3>0
    <3>2. PICK j \in 1 .. Len(x) : j = k + 1 /\ j <= Len(y) /\ j - 1 = k /\ j \in DOMAIN x \intersect DOMAIN y
      BY <1>9, <3>1
    <3>3. x[j] < y[j]
      <4>1. k < Len(x)
        BY <1>0, <2>2, <3>0
      <4>. QED  BY <1>4, <3>2, <4>1 DEF Splits
    <3>4. \A i \in 1 .. j - 1 : x[i] = y[i]
      BY <1>4, <3>2 DEF Splits
    <3>5. SubSeq(x, 1, j - 1) = SubSeq(y, 1, j - 1)
      BY <1>2, <3>2, <3>4
    <3>. QED  BY <3>2, <3>3, <3>5 DEF Before
  <2>. QED  BY <2>1, <2>2
<1>. QED  BY <1>0, <1>1, <1>3, <1>4 DEF Before

\* No position comes before itself.
LEMMA BeforeStrict ==
    ASSUME NEW x \in Pos
    PROVE  ~Before(x, x)
<1>1. \A i \in 1 .. Len(x) : x[i] \in Nat
  BY DEF Pos
<1>2. Len(x) \in Nat
  BY DEF Pos
<1>3. ASSUME NEW k \in Nat, Splits(x, x, k)
      PROVE  FALSE
  <2>1. k + 1 \in 1 .. Len(x) /\ x[k + 1] < x[k + 1]
    BY <1>2, <1>3 DEF Splits
  <2>. QED  BY <1>1, <2>1
<1>. QED  BY <1>3, BeforeIs

\* The order is transitive.
LEMMA BeforeChain ==
    ASSUME NEW x \in Pos, NEW y \in Pos, NEW z \in Pos, Before(x, y), Before(y, z)
    PROVE  Before(x, z)
<1>0. /\ Len(x) \in Nat /\ Len(y) \in Nat /\ Len(z) \in Nat
      /\ \A i \in 1 .. Len(x) : x[i] \in Nat
      /\ \A i \in 1 .. Len(y) : y[i] \in Nat
      /\ \A i \in 1 .. Len(z) : z[i] \in Nat
  BY DEF Pos
<1>1. PICK k \in Nat : Splits(x, y, k)
  BY BeforeIs
<1>2. PICK l \in Nat : Splits(y, z, l)
  BY BeforeIs
<1>3. CASE k < l
  <2>1. Splits(x, z, k)
    BY <1>0, <1>1, <1>2, <1>3 DEF Splits
  <2>. QED  BY <2>1, BeforeIs
<1>4. CASE l < k
  <2>1. l \in Nat /\ l + 1 \in 1 .. k /\ l + 1 <= Len(x) /\ x[l + 1] = y[l + 1]
    BY <1>0, <1>1, <1>4 DEF Splits
  <2>2. Splits(x, z, l)
    BY <1>0, <1>1, <1>2, <1>4, <2>1 DEF Splits
  <2>. QED  BY <2>2, BeforeIs
<1>5. CASE k = l
  <2>1. k < Len(x) => k + 1 \in 1 .. Len(x) /\ k + 1 \in 1 .. Len(y) /\ k + 1 \in 1 .. Len(z)
    BY <1>0, <1>1, <1>2, <1>5 DEF Splits
  <2>2. Splits(x, z, k)
    BY <1>0, <1>1, <1>2, <1>5, <2>1 DEF Splits
  <2>. QED  BY <2>2, BeforeIs
<1>. QED  BY <1>3, <1>4, <1>5

\* Of two positions, one comes before the other.
LEMMA BeforeTotal ==
    ASSUME NEW x \in Pos, NEW y \in Pos
    PROVE  x = y \/ Before(x, y) \/ Before(y, x)
<1>0. /\ Len(x) \in Nat /\ Len(y) \in Nat
      /\ \A i \in 1 .. Len(x) : x[i] \in Nat
      /\ \A i \in 1 .. Len(y) : y[i] \in Nat
  BY DEF Pos
<1>. DEFINE T == {k \in Nat : \/ k = Len(x) \/ k = Len(y)
                              \/ k < Len(x) /\ k < Len(y) /\ x[k + 1] # y[k + 1]}
<1>1. Len(x) \in T /\ T \subseteq Nat
  BY <1>0
<1>2. PICK k \in T : \A j \in T : k <= j
  <2>. HIDE DEF T
  <2>. QED  BY <1>1, LeastIn
<1>3. k \in Nat /\ k <= Len(x) /\ k <= Len(y)
  <2>1. Len(x) \in T /\ Len(y) \in T
    BY <1>0
  <2>2. k \in Nat /\ k <= Len(x) /\ k <= Len(y)
    <3>. HIDE DEF T
    <3>. QED  BY <1>1, <1>2, <2>1
  <2>. QED  BY <2>2
<1>4. ASSUME NEW i \in 1 .. k
      PROVE  x[i] = y[i]
  <2>1. i - 1 \in Nat /\ i - 1 < k /\ i - 1 + 1 = i
    BY <1>3
  <2>2. i - 1 \notin T
    <3>. HIDE DEF T
    <3>. QED  BY <1>2, <1>3, <2>1
  <2>. QED  BY <1>0, <1>3, <2>1, <2>2
<1>5. CASE k = Len(x) /\ k = Len(y)
  BY <1>4, <1>5, SeqIs DEF SameSeq
<1>6. CASE k < Len(y) /\ (k < Len(x) => x[k + 1] < y[k + 1])
  <2>1. Splits(x, y, k)
    BY <1>3, <1>4, <1>6 DEF Splits
  <2>. QED  BY <1>3, <2>1, BeforeIs
<1>7. CASE k < Len(x) /\ (k < Len(y) => y[k + 1] < x[k + 1])
  <2>1. Splits(y, x, k)
    BY <1>3, <1>4, <1>7 DEF Splits
  <2>. QED  BY <1>3, <2>1, BeforeIs
<1>8. k < Len(x) /\ k < Len(y) => x[k + 1] # y[k + 1] /\ x[k + 1] \in Nat /\ y[k + 1] \in Nat
  <2>1. k < Len(x) => k + 1 \in 1 .. Len(x)
    BY <1>0, <1>3
  <2>2. k < Len(y) => k + 1 \in 1 .. Len(y)
    BY <1>0, <1>3
  <2>. QED  BY <1>0, <1>2, <2>1, <2>2
<1>. QED  BY <1>0, <1>3, <1>5, <1>6, <1>7, <1>8

\* The earlier of two has fewer before it.
LEMMA RankGrows ==
    ASSUME NEW S, S \subseteq Pos, IsFiniteSet(S), NEW x \in S, NEW y \in S, Before(x, y)
    PROVE  Cardinality({z \in S : Before(z, x)}) < Cardinality({z \in S : Before(z, y)})
<1>. DEFINE below(a) == {z \in S : Before(z, a)}
<1>1. below(x) \subseteq below(y)
  BY BeforeChain
<1>2. x \in below(y) /\ x \notin below(x)
  BY BeforeStrict
<1>3. below(x) \subseteq S /\ below(y) \subseteq S
  OBVIOUS
<1>. HIDE DEF below
<1>4. /\ IsFiniteSet(below(x)) /\ IsFiniteSet(below(y))
      /\ Cardinality(below(x)) \in Nat /\ Cardinality(below(y)) \in Nat
  BY <1>3, FS_Subset, FS_CardinalityType
<1>5. /\ Cardinality(below(x)) <= Cardinality(below(y))
      /\ Cardinality(below(x)) = Cardinality(below(y)) => below(y) = below(x)
  BY <1>1, <1>4, FS_Subset
<1>6. Cardinality(below(x)) < Cardinality(below(y))
  BY <1>2, <1>4, <1>5
<1>. QED  BY <1>6 DEF below

\* Of finitely many positions one comes first.
LEMMA FirstIn ==
    ASSUME NEW S, S \subseteq Pos, IsFiniteSet(S), S # {}
    PROVE  \E x \in S : {y \in S : Before(y, x)} = {} /\ \A y \in S : y = x \/ Before(x, y)
<1>. DEFINE below(x) == {y \in S : Before(y, x)}
            T == {Cardinality(below(x)) : x \in S}
<1>1. \A x : IsFiniteSet(below(x)) /\ Cardinality(below(x)) \in Nat
  <2>1. \A x : below(x) \subseteq S
    OBVIOUS
  <2>. HIDE DEF below
  <2>. QED  BY <2>1, FS_Subset, FS_CardinalityType
<1>2. T \subseteq Nat /\ T # {}
  <2>. HIDE DEF below
  <2>. QED  BY <1>1
<1>3. PICK m \in T : \A n \in T : m <= n
  <2>. HIDE DEF T
  <2>. QED  BY <1>2, LeastIn
<1>4. PICK x \in S : m = Cardinality(below(x))
  <2>. HIDE DEF below
  <2>. QED  OBVIOUS
<1>5. ASSUME NEW y \in S, Before(y, x)
      PROVE  FALSE
  <2>1. below(y) \subseteq below(x)
    BY <1>5, BeforeChain
  <2>2. y \in below(x) /\ y \notin below(y)
    BY <1>5, BeforeStrict
  <2>. HIDE DEF below
  <2>3. Cardinality(below(y)) < Cardinality(below(x))
    <3>1. /\ Cardinality(below(y)) <= Cardinality(below(x))
          /\ Cardinality(below(y)) = Cardinality(below(x)) => below(y) = below(x)
      BY <1>1, <2>1, FS_Subset
    <3>. QED  BY <1>1, <2>2, <3>1
  <2>4. Cardinality(below(x)) <= Cardinality(below(y))
    BY <1>3, <1>4
  <2>. QED  BY <1>1, <2>3, <2>4
<1>. QED  BY <1>5, BeforeTotal

\* Find answers a node of the id.
LEMMA FindIs ==
    ASSUME NEW t, Good(t), NEW id \in Ids(t)
    PROVE  Find(id, t) \in DOMAIN t /\ Find(id, t) \in Pos /\ t[Find(id, t)].id = id
<1>. DEFINE S == {x \in DOMAIN t : t[x].id = id}
<1>1. S \subseteq Pos /\ IsFiniteSet(S) /\ S # {}
  BY FS_Subset DEF Good, Rooted, Ids
<1>2. \E x \in S : \A y \in S : y = x \/ Before(x, y)
  <2>. HIDE DEF S
  <2>. QED  BY <1>1, FirstIn
<1>3. \E x \in DOMAIN t : t[x].id = id /\ \A y \in DOMAIN t : t[y].id = id => y = x \/ Before(x, y)
  BY <1>2
<1>4. Find(id, t) \in DOMAIN t /\ t[Find(id, t)].id = id
  BY <1>3 DEF Find
<1>. QED  BY <1>4 DEF Good, Rooted

\* The first of a sorted set is of the set.
LEMMA FirstInOrder ==
    ASSUME NEW S, S \subseteq Pos, IsFiniteSet(S), S # {}
    PROVE  InOrder(S)[1] \in S
<1>1. Cardinality(S) \in Nat \ {0}
  BY FS_CardinalityType, FS_EmptySet
<1>2. 1 \in 1 .. Cardinality(S)
  BY <1>1
<1>3. InOrder(S)[1] = CHOOSE x \in S : Cardinality({y \in S : Before(y, x)}) = 1 - 1
  BY <1>2 DEF InOrder
<1>4. \E x \in S : Cardinality({y \in S : Before(y, x)}) = 1 - 1
  BY FirstIn, FS_EmptySet
<1>. QED  BY <1>3, <1>4

\* The sub-node at the root is the tree.
LEMMA SubRoot ==
    ASSUME NEW t, DOMAIN t \subseteq Pos
    PROVE  DOMAIN Sub(t, << >>) = DOMAIN t /\ \A x \in DOMAIN t : Sub(t, << >>)[x] = t[x]
<1>0. \A x \in Pos : Len(x) \in Nat
  BY DEF Pos
<1>1. ASSUME NEW x \in Pos
      PROVE  IsPrefix(<< >>, x) /\ SubSeq(x, 1, Len(x)) = x /\ << >> \o x = x
  <2>1. SubSeq(<< >>, 1, 0) = << >> /\ SubSeq(x, 1, 0) = << >> /\ Len(<< >>) = 0 /\ 0 <= Len(x)
    BY <1>0 DEF Pos
  <2>2. SubSeq(x, 1, Len(x)) = x /\ << >> \o x = x
    BY DEF Pos
  <2>. QED  BY <2>1, <2>2 DEF IsPrefix
<1>2. {x \in DOMAIN t : IsPrefix(<< >>, x)} = DOMAIN t
  BY <1>1
<1>3. {SubSeq(x, Len(<< >>) + 1, Len(x)) : x \in DOMAIN t} = DOMAIN t
  <2>1. Len(<< >>) + 1 = 1
    OBVIOUS
  <2>2. \A x \in DOMAIN t : SubSeq(x, Len(<< >>) + 1, Len(x)) = x
    BY <1>1, <2>1
  <2>. QED  BY <2>2
<1>4. Sub(t, << >>) = [y \in DOMAIN t |-> t[<< >> \o y]]
  BY <1>2, <1>3 DEF Sub
<1>5. \A y \in DOMAIN t : << >> \o y = y
  BY <1>1
<1>. QED  BY <1>4, <1>5

\* A sub-node of a good tree is good, wherever it is.
LEMMA SubOf ==
    ASSUME NEW t, Good(t), NEW f \in DOMAIN t
    PROVE  Good(Sub(t, f))
<1>. DEFINE u == Sub(t, << >>)
<1>0. DOMAIN t \subseteq Pos
  BY DEF Good, Rooted
<1>1. CASE f = << >>
  <2>1. DOMAIN u = DOMAIN t /\ \A x \in DOMAIN t : u[x] = t[x]
    BY <1>0, SubRoot
  <2>. HIDE DEF u
  <2>2. \A x \in DOMAIN t : GoodAt(u, x)
    <3>. SUFFICES ASSUME NEW x \in DOMAIN t
                  PROVE  GoodAt(u, x)
      OBVIOUS
    <3>1. GoodAt(t, x) /\ u[x] = t[x]
      BY <2>1 DEF Good
    <3>. QED  BY <2>1, <3>1 DEF GoodAt
  <2>3. Good(u)
    BY <2>1, <2>2 DEF Good, Rooted
  <2>. QED  BY <1>1, <2>3 DEF u
<1>2. CASE f # << >>
  <2>1. Front(f) \in Pos /\ Last(f) \in Nat /\ f = Child(Front(f), Last(f))
    BY <1>0, <1>2, LastOf
  <2>2. Child(Front(f), Last(f)) \in DOMAIN t
    BY <2>1
  <2>3. Good(Sub(t, Child(Front(f), Last(f))))
    BY <2>1, <2>2, SubGood
  <2>. QED  BY <2>1, <2>3
<1>. QED  BY <1>1, <1>2

-----------------------------------------------------------------------------
(***************************************************************************)
(* Ids.  Within a Batch an id may be held more than once, and an op that   *)
(* works at the first node of an id may then copy children it did not      *)
(* read from there.  What stays true throughout is Kin: two nodes of one   *)
(* id are the Batch's own doing (U holds the ids it brought), or they hang *)
(* from two nodes of one id.  So when the ids brought are each held once,  *)
(* every id is.                                                            *)
(***************************************************************************)
\* x is a child, or a sub-node of the kind in a fixed slot.
IsKid(x) == Last(x) \in 1 .. MaxSlots

\* They hang from two nodes of one id, in the same sort of slot.
Cousins(t, x, y) ==
    /\ x # << >> /\ y # << >>
    /\ Front(x) # Front(y) /\ t[Front(x)].id = t[Front(y)].id
    /\ IsKid(x) <=> IsKid(y)

\* Two nodes of one id are the op's own doing, or cousins.
Kin(t, U) ==
    \A x, y \in DOMAIN t : x # y /\ t[x].id = t[y].id => t[x].id \in U \/ Cousins(t, x, y)

\* Where each id is held once, nothing is to be shown.
LEMMA UniqueIsKin ==
    ASSUME NEW t, NEW U, Unique(t)
    PROVE  Kin(t, U)
BY DEF Unique, Kin

\* Where the ids brought are held once, every id is: of two nodes of one id, the
\* parents would be two nodes of one id, and so on up to the root, which has none.
LEMMA KinIsUnique ==
    ASSUME NEW t, NEW U, Good(t), Kin(t, U),
           \A x, y \in DOMAIN t : t[x].id \in U /\ t[x].id = t[y].id => x = y
    PROVE  Unique(t)
<1>. DEFINE T == {m \in Nat : \E x, y \in DOMAIN t : Len(x) = m /\ x # y /\ t[x].id = t[y].id}
<1>. SUFFICES ASSUME T # {}
              PROVE  FALSE
  <2>1. \A x \in DOMAIN t : Len(x) \in Nat
    BY DEF Good, Rooted, Pos
  <2>. QED  BY <2>1 DEF Unique
<1>1. PICK m \in T : \A k \in T : m <= k
  <2>1. T \subseteq Nat
    OBVIOUS
  <2>. HIDE DEF T
  <2>. QED  BY <2>1, LeastIn
<1>2. PICK x \in DOMAIN t, y \in DOMAIN t : Len(x) = m /\ x # y /\ t[x].id = t[y].id
  BY <1>1
<1>3. Cousins(t, x, y)
  BY <1>2 DEF Kin
<1>4. Front(x) \in DOMAIN t /\ Front(y) \in DOMAIN t /\ Parted(x, Front(x), Last(x))
  BY <1>3, FrontParts DEF Cousins, Good, Rooted
<1>5. m - 1 \in Nat /\ Len(Front(x)) = m - 1 /\ m \in Nat
  BY <1>2, <1>4 DEF Parted
<1>6. m - 1 \in T
  BY <1>3, <1>4, <1>5 DEF Cousins
<1>. HIDE DEF T
<1>. QED  BY <1>1, <1>5, <1>6

-----------------------------------------------------------------------------
(***************************************************************************)
(* Children moved from p into the slots of q, a node of the same id.       *)
(***************************************************************************)
\* u is t with the child of p in slot j[i] in slot i of q, for each of the subs.
Moves(u, t, p, q, j, subs) ==
    /\ Good(t) /\ p \in DOMAIN t /\ q \in DOMAIN t /\ t[p].id = t[q].id
    /\ Seated(u, t, q, 0, subs)
    /\ \A i \in Seats(subs) :
         j[i] \in 1 .. MaxSlots /\ Child(p, j[i]) \in DOMAIN t /\ subs[i] = Sub(t, Child(p, j[i]))

\* What was below a slot of q left; what stayed, and what came in slot i.
Stayed(x, t, q) == x \in DOMAIN t /\ ~Under(q, 0, x)
Came(x, q, i, y, subs) == i \in Seats(subs) /\ y \in DOMAIN subs[i] /\ x = At(q, i, y)

\* o is where x was.
From(x, o, t, p, q, j, subs) ==
    \/ Stayed(x, t, q) /\ o = x
    \/ \E i, y : Came(x, q, i, y, subs) /\ o = At(p, j[i], y)

\* Where what came was.
LEMMA CameIs ==
    ASSUME NEW u, NEW t, NEW p, NEW q, NEW j, NEW subs, Moves(u, t, p, q, j, subs),
           NEW x, NEW i, NEW y, Came(x, q, i, y, subs)
    PROVE  /\ i \in 1 .. MaxSlots /\ i \in Nat /\ j[i] \in Nat /\ j[i] \in 1 .. MaxSlots /\ y \in Pos
           /\ p \in Pos /\ q \in Pos
           /\ x \in DOMAIN u /\ At(p, j[i], y) \in DOMAIN t /\ u[x] = t[At(p, j[i], y)]
           /\ x \in Pos /\ x # << >> /\ Under(q, 0, x)
<1>1. i \in 1 .. MaxSlots /\ i \in Nat /\ 0 + i = i
  BY MaxSlotsAssumption DEF Came, Seats
<1>2. j[i] \in 1 .. MaxSlots /\ j[i] \in Nat /\ subs[i] = Sub(t, Child(p, j[i]))
  BY MaxSlotsAssumption DEF Came, Moves
<1>3. p \in Pos /\ q \in Pos /\ DOMAIN t \subseteq Pos
  BY DEF Moves, Good, Rooted
<1>4. PICK k \in Nat : k = j[i]
  BY <1>2
<1>. DEFINE v == Sub(t, Child(p, k))
<1>12. subs[i] = v
  BY <1>2, <1>4
<1>5. DOMAIN v = {z \in Pos : At(p, k, z) \in DOMAIN t}
  BY <1>3, SubIs
<1>6. \A z \in Pos : At(p, k, z) \in DOMAIN t => v[z] = t[At(p, k, z)]
  BY <1>3, SubIs
<1>. HIDE DEF v
<1>7. y \in Pos /\ At(p, k, y) \in DOMAIN t /\ subs[i][y] = t[At(p, k, y)]
  BY <1>5, <1>6, <1>12 DEF Came
<1>8. At(q, 0 + i, y) \in DOMAIN u /\ u[At(q, 0 + i, y)] = subs[i][y]
  BY DEF Moves, Seated, Came
<1>9. x \in DOMAIN u /\ u[x] = t[At(p, k, y)]
  BY <1>1, <1>7, <1>8 DEF Came
<1>10. x \in Pos /\ x # << >>
  BY <1>1, <1>3, <1>7, AtBelow DEF Came
<1>11. Under(q, 0, x)
  BY <1>1, <1>7 DEF Under, Came
<1>. QED  BY <1>1, <1>2, <1>3, <1>4, <1>7, <1>9, <1>10, <1>11

\* Every node was somewhere, with the same label.
LEMMA FromIs ==
    ASSUME NEW u, NEW t, NEW p, NEW q, NEW j, NEW subs, Moves(u, t, p, q, j, subs), NEW x \in DOMAIN u
    PROVE  \E o \in DOMAIN t : From(x, o, t, p, q, j, subs) /\ u[x] = t[o]
<1>1. CASE Stayed(x, t, q)
  <2>1. u[x] = t[x]
    BY <1>1 DEF Moves, Seated, Stayed
  <2>. QED  BY <1>1, <2>1 DEF From, Stayed
<1>2. CASE \E i \in Seats(subs) : \E y \in DOMAIN subs[i] : x = At(q, 0 + i, y)
  <2>1. PICK i \in Seats(subs) : \E y \in DOMAIN subs[i] : x = At(q, 0 + i, y)
    BY <1>2
  <2>2. PICK y \in DOMAIN subs[i] : x = At(q, 0 + i, y)
    BY <2>1
  <2>3. 0 + i = i
    BY MaxSlotsAssumption DEF Seats
  <2>4. Came(x, q, i, y, subs)
    BY <2>2, <2>3 DEF Came
  <2>5. At(p, j[i], y) \in DOMAIN t /\ u[x] = t[At(p, j[i], y)]
    BY <2>4, CameIs
  <2>6. From(x, At(p, j[i], y), t, p, q, j, subs)
    BY <2>4 DEF From
  <2>. QED  BY <2>5, <2>6
<1>. QED  BY <1>1, <1>2 DEF Moves, Seated, Stayed

\* What hangs from a node hung from where it was, or from a node of its id.
LEMMA FromFront ==
    ASSUME NEW u, NEW t, NEW p, NEW q, NEW j, NEW subs, Moves(u, t, p, q, j, subs),
           NEW x \in DOMAIN u, NEW o \in DOMAIN t, From(x, o, t, p, q, j, subs), o # << >>
    PROVE  x # << >> /\ u[Front(x)].id = t[Front(o)].id /\ (IsKid(x) <=> IsKid(o))
<1>0. ~Under(q, 0, q) /\ q \in Pos /\ p \in Pos /\ q \in DOMAIN t /\ p \in DOMAIN t /\ t[p].id = t[q].id
  BY UnderSelf DEF Moves, Good, Rooted
<1>1. CASE Stayed(x, t, q) /\ o = x
  <2>1. x \in Pos /\ x # << >> /\ Front(x) \in DOMAIN t
    BY <1>1 DEF Moves, Good, Rooted
  <2>2. Front(x) \in Pos /\ Last(x) \in Nat /\ x = Child(Front(x), Last(x))
    BY <2>1, LastOf
  <2>3. ~Under(q, 0, Front(x))
    BY <1>0, <1>1, <2>2, UnderStep DEF Stayed
  <2>4. u[Front(x)] = t[Front(x)]
    BY <2>1, <2>3 DEF Moves, Seated
  <2>. QED  BY <1>1, <2>1, <2>4
<1>2. ASSUME NEW i, NEW y, Came(x, q, i, y, subs), o = At(p, j[i], y)
      PROVE  x # << >> /\ u[Front(x)].id = t[Front(o)].id /\ (IsKid(x) <=> IsKid(o))
  <2>1. /\ i \in 1 .. MaxSlots /\ i \in Nat /\ j[i] \in Nat /\ j[i] \in 1 .. MaxSlots /\ y \in Pos
        /\ x \in Pos /\ x # << >> /\ x = At(q, i, y)
    BY <1>2, CameIs DEF Came
  <2>2. PICK k \in Nat : k = j[i]
    BY <2>1
  <2>3. CASE y = << >>
    <3>1. x = Child(q, i) /\ o = Child(p, k)
      BY <1>0, <1>2, <2>1, <2>2, <2>3, AtEmpty
    <3>2. Front(x) = q /\ Last(x) = i
      BY <1>0, <2>1, <3>1, FrontLast
    <3>3. Front(o) = p /\ Last(o) = k
      BY <1>0, <2>1, <3>1, FrontLast
    <3>4. u[q] = t[q]
      BY <1>0 DEF Moves, Seated
    <3>. QED  BY <1>0, <2>1, <2>2, <3>2, <3>3, <3>4 DEF IsKid
  <2>4. CASE y # << >>
    <3>1. Front(x) = At(q, i, Front(y)) /\ Last(x) = Last(y)
      BY <1>0, <2>1, <2>4, FrontOfAt
    <3>2. Front(o) = At(p, k, Front(y)) /\ Last(o) = Last(y)
      BY <1>0, <1>2, <2>2, <2>1, <2>4, FrontOfAt
    <3>3. Front(y) \in DOMAIN subs[i]
      <4>1. i \in Seats(subs) /\ y \in DOMAIN subs[i]
        BY <1>2 DEF Came
      <4>2. Good(subs[i])
        BY <1>0, <2>1, <2>2, <4>1, SubGood DEF Moves
      <4>. QED  BY <2>4, <4>1, <4>2 DEF Good, Rooted
    <3>4. Came(Front(x), q, i, Front(y), subs)
      BY <1>2, <3>1, <3>3 DEF Came
    <3>5. u[Front(x)] = t[At(p, j[i], Front(y))]
      BY <3>4, CameIs
    <3>. QED  BY <2>1, <2>2, <3>1, <3>2, <3>5 DEF IsKid
  <2>. QED  BY <2>3, <2>4
<1>. QED  BY <1>1, <1>2 DEF From

\* A node that came has what hangs from it beside it; one that stayed, not.
LEMMA CameBeside ==
    ASSUME NEW u, NEW t, NEW p, NEW q, NEW j, NEW subs, Moves(u, t, p, q, j, subs),
           NEW x, NEW i, NEW y, Came(x, q, i, y, subs),
           NEW w \in DOMAIN u, w # << >>, Front(w) = Front(x), IsKid(w) <=> IsKid(x)
    PROVE  \E k, z : /\ Came(w, q, k, z, subs) /\ (y = << >> <=> z = << >>)
                     /\ y # << >> => k = i /\ Front(z) = Front(y)
<1>0. ~Under(q, 0, q) /\ q \in Pos /\ p \in Pos
  BY UnderSelf DEF Moves, Good, Rooted
<1>1. i \in 1 .. MaxSlots /\ i \in Nat /\ y \in Pos /\ x = At(q, i, y)
  BY CameIs DEF Came
<1>2. w \in Pos
  <2>1. CASE Stayed(w, t, q)
    BY <2>1 DEF Stayed, Moves, Good, Rooted
  <2>2. CASE \E k, z : Came(w, q, k, z, subs)
    BY <2>2, CameIs
  <2>. QED  BY <2>1, <2>2, FromIs DEF From
<1>3. Front(w) \in Pos /\ Last(w) \in Nat /\ w = Child(Front(w), Last(w))
  BY <1>2, LastOf
<1>4. Under(q, 0, w)
  <2>1. CASE y = << >>
    <3>1. Front(x) = q /\ Last(x) = i
      BY <1>0, <1>1, <2>1, AtEmpty, FrontLast
    <3>2. Last(w) \in 0 + 1 .. 0 + MaxSlots
      BY <1>1, <3>1, MaxSlotsAssumption DEF IsKid
    <3>. QED  BY <1>0, <1>3, <3>1, <3>2, UnderStep
  <2>2. CASE y # << >>
    <3>1. Front(x) = At(q, i, Front(y)) /\ Front(y) \in Pos
      BY <1>0, <1>1, <2>2, FrontOfAt, LastOf
    <3>2. 0 + i = i
      BY <1>1
    <3>3. Under(q, 0, Front(w))
      BY <1>1, <3>1, <3>2 DEF Under
    <3>. QED  BY <1>0, <1>3, <3>3, UnderStep
  <2>. QED  BY <2>1, <2>2
<1>5. PICK k, z : Came(w, q, k, z, subs)
  BY <1>4, FromIs DEF From, Stayed
<1>6. k \in 1 .. MaxSlots /\ k \in Nat /\ z \in Pos /\ w = At(q, k, z)
  BY <1>5, CameIs DEF Came
<1>7. y = << >> => Front(x) = q
  BY <1>0, <1>1, AtEmpty, FrontLast
<1>8. z = << >> => Front(w) = q
  BY <1>0, <1>6, AtEmpty, FrontLast
<1>9. y # << >> => Front(x) = At(q, i, Front(y)) /\ Front(y) \in Pos /\ Front(x) # q
  BY <1>0, <1>1, FrontOfAt, LastOf, AtBelow
<1>10. z # << >> => Front(w) = At(q, k, Front(z)) /\ Front(z) \in Pos /\ Front(w) # q
  BY <1>0, <1>6, FrontOfAt, LastOf, AtBelow
<1>11. y # << >> => k = i /\ Front(z) = Front(y)
  <2>. SUFFICES ASSUME y # << >>
                PROVE  k = i /\ Front(z) = Front(y)
    OBVIOUS
  <2>1. At(q, i, Front(y)) = At(q, k, Front(z)) /\ Front(y) \in Pos /\ Front(z) \in Pos
    BY <1>8, <1>9, <1>10
  <2>. QED  BY <1>0, <1>1, <1>6, <2>1, AtInjective
<1>. QED  BY <1>5, <1>7, <1>8, <1>9, <1>10, <1>11

\* Children that move from one node of an id to another stay kin.
LEMMA MovesKin ==
    ASSUME NEW u, NEW t, NEW p, NEW q, NEW j, NEW subs, Moves(u, t, p, q, j, subs), NEW U, Kin(t, U),
           \A i, k \in Seats(subs) : i # k /\ j[i] = j[k] => t[Child(p, j[i])].id \in U
    PROVE  Kin(u, U)
<1>. SUFFICES ASSUME NEW x \in DOMAIN u, NEW w \in DOMAIN u, x # w, u[x].id = u[w].id, u[x].id \notin U
              PROVE  Cousins(u, x, w)
  BY DEF Kin
<1>0. p \in Pos /\ q \in Pos
  BY DEF Moves, Good, Rooted
<1>1. PICK o \in DOMAIN t : From(x, o, t, p, q, j, subs) /\ u[x] = t[o]
  BY FromIs
<1>2. PICK n \in DOMAIN t : From(w, n, t, p, q, j, subs) /\ u[w] = t[n]
  BY FromIs
<1>3. o # n => Cousins(t, o, n)
  BY <1>1, <1>2 DEF Kin
<1>4. o # << >> /\ n # << >>
  <2>1. CASE o = n
    <3>1. \A i, y : Came(x, q, i, y, subs) => At(p, j[i], y) # << >>
      BY <1>0, CameIs, AtBelow
    <3>2. \A i, y : Came(w, q, i, y, subs) => At(p, j[i], y) # << >>
      BY <1>0, CameIs, AtBelow
    <3>. QED  BY <1>1, <1>2, <2>1, <3>1, <3>2 DEF From
  <2>. QED  BY <1>3, <2>1 DEF Cousins
<1>5. x # << >> /\ u[Front(x)].id = t[Front(o)].id /\ (IsKid(x) <=> IsKid(o))
  BY <1>1, <1>4, FromFront
<1>6. w # << >> /\ u[Front(w)].id = t[Front(n)].id /\ (IsKid(w) <=> IsKid(n))
  BY <1>2, <1>4, FromFront
<1>7. IsKid(x) <=> IsKid(w)
  BY <1>3, <1>5, <1>6 DEF Cousins
<1>8. ASSUME Front(x) = Front(w)
      PROVE  FALSE
  <2>1. CASE \E i, y : Came(x, q, i, y, subs) /\ o = At(p, j[i], y)
    <3>1. PICK i, y : Came(x, q, i, y, subs) /\ o = At(p, j[i], y)
      BY <2>1
    <3>2. PICK k, z : /\ Came(w, q, k, z, subs) /\ (y = << >> <=> z = << >>)
                      /\ y # << >> => k = i /\ Front(z) = Front(y)
      BY <1>6, <1>7, <1>8, <3>1, CameBeside
    <3>3. /\ i \in Nat /\ j[i] \in Nat /\ y \in Pos /\ x = At(q, i, y)
          /\ k \in Nat /\ j[k] \in Nat /\ z \in Pos /\ w = At(q, k, z) /\ Under(q, 0, w)
          /\ i \in Seats(subs) /\ k \in Seats(subs)
      <4>1. /\ i \in Nat /\ j[i] \in Nat /\ y \in Pos /\ x = At(q, i, y) /\ i \in Seats(subs)
        BY <3>1, CameIs DEF Came
      <4>2. /\ k \in Nat /\ j[k] \in Nat /\ z \in Pos /\ w = At(q, k, z) /\ Under(q, 0, w)
            /\ k \in Seats(subs)
        BY <3>2, CameIs DEF Came
      <4>. QED  BY <4>1, <4>2
    <3>4. n = At(p, j[k], z)
      <4>1. ASSUME NEW l, NEW v, Came(w, q, l, v, subs), n = At(p, j[l], v)
            PROVE  n = At(p, j[k], z)
        <5>1. l \in Nat /\ v \in Pos /\ At(q, l, v) = At(q, k, z)
          BY <3>3, <4>1, CameIs DEF Came
        <5>2. l = k /\ v = z
          BY <1>0, <3>3, <5>1, AtInjective
        <5>. QED  BY <4>1, <5>2
      <4>. QED  BY <1>2, <3>3, <4>1 DEF From, Stayed
    <3>5. PICK a \in Nat, b \in Nat : a = j[i] /\ b = j[k]
      BY <3>3
    <3>6. o = At(p, a, y) /\ n = At(p, b, z)
      BY <3>1, <3>4, <3>5
    <3>7. Front(o) = Front(n)
      <4>1. CASE y = << >>
        <5>1. o = Child(p, a) /\ n = Child(p, b)
          BY <1>0, <3>2, <3>6, <4>1, AtEmpty
        <5>. QED  BY <1>0, <5>1, FrontLast
      <4>2. CASE y # << >>
        <5>1. Front(o) = At(p, a, Front(y))
          BY <1>0, <3>3, <3>6, <4>2, FrontOfAt
        <5>2. Front(n) = At(p, b, Front(z))
          BY <1>0, <3>2, <3>3, <3>6, <4>2, FrontOfAt
        <5>. QED  BY <3>2, <3>5, <4>2, <5>1, <5>2
      <4>. QED  BY <4>1, <4>2
    <3>8. o = n
      BY <1>3, <3>7 DEF Cousins
    <3>9. a = b /\ y = z
      <4>1. At(p, a, y) = At(p, b, z)
        BY <3>6, <3>8
      <4>2. y \in Pos /\ z \in Pos
        BY <3>3
      <4>. QED  BY <1>0, <4>1, <4>2, AtInjective
    <3>10. i # k
      BY <3>3, <3>9
    <3>11. y = << >>
      BY <3>2, <3>10
    <3>12. t[Child(p, j[i])].id \in U
      BY <3>3, <3>5, <3>9, <3>10
    <3>13. o = Child(p, j[i])
      BY <1>0, <3>5, <3>6, <3>11, AtEmpty
    <3>. QED  BY <1>1, <3>12, <3>13
  <2>2. CASE Stayed(x, t, q) /\ o = x
    <3>1. CASE Stayed(w, t, q) /\ n = w
      BY <1>3, <1>8, <2>2, <3>1 DEF Cousins
    <3>2. ASSUME NEW k, NEW z, Came(w, q, k, z, subs)
          PROVE  FALSE
      <4>1. \E i, y : Came(x, q, i, y, subs)
        BY <1>5, <1>7, <1>8, <3>2, CameBeside
      <4>2. Under(q, 0, x)
        BY <4>1, CameIs
      <4>. QED  BY <2>2, <4>2 DEF Stayed
    <3>. QED  BY <1>2, <3>1, <3>2 DEF From
  <2>. QED  BY <1>1, <2>1, <2>2 DEF From
<1>9. u[Front(x)].id = u[Front(w)].id
  <2>1. CASE o = n
    BY <1>5, <1>6, <2>1
  <2>2. CASE o # n
    BY <1>3, <1>5, <1>6, <2>2 DEF Cousins
  <2>. QED  BY <2>1, <2>2
<1>. QED  BY <1>5, <1>6, <1>7, <1>8, <1>9 DEF Cousins

-----------------------------------------------------------------------------
(***************************************************************************)
(* What the ops do to a tree.                                              *)
(***************************************************************************)
Fine(t, U) == Good(t) /\ Kin(t, U)

\* The kids of a layout node are stored.
LEMMA KidsSeat ==
    ASSUME NEW t, Good(t), NEW p \in DOMAIN t, IsLayout(t[p]), NEW kids, GoodSubs(kids)
    PROVE  Good(WithSlots(t, p, 0, kids)) /\ Seated(WithSlots(t, p, 0, kids), t, p, 0, kids)
<1>. DEFINE u == WithSlots(t, p, 0, kids)
            v == [t EXCEPT ![p] = t[p]]
<1>1. DOMAIN t \subseteq Pos /\ p \in Pos /\ \A i \in Seats(kids) : DOMAIN kids[i] \subseteq Pos
  BY DEF Good, Rooted, GoodSubs
<1>2. Seated(u, t, p, 0, kids)
  BY <1>1, SlotsSeat
<1>. HIDE DEF u
<1>3. DOMAIN v = DOMAIN t /\ \A x \in DOMAIN t : v[x] = t[x]
  OBVIOUS
<1>4. Seated(u, v, p, 0, kids)
  <2>. HIDE DEF v
  <2>. QED  BY <1>2, <1>3 DEF Seated
<1>5. Allows(t[p], t, p, 0, kids)
  BY DEF Allows, Good, GoodAt, IsLayout
<1>6. Good(u)
  BY <1>4, <1>5, SeatGood
<1>. QED  BY <1>2, <1>6 DEF u

\* What is put below the slots of p has ids of the op's own.
LEMMA NewKin ==
    ASSUME NEW t, Good(t), NEW U, Kin(t, U), NEW v, DOMAIN v = DOMAIN t, \A x \in DOMAIN t : v[x].id = t[x].id,
           NEW p \in DOMAIN t, NEW first \in Nat, NEW subs, NEW u, Seated(u, v, p, first, subs),
           \A i \in Seats(subs) : \A y \in DOMAIN subs[i] : subs[i][y].id \in U
    PROVE  Kin(u, U)
<1>. SUFFICES ASSUME NEW x \in DOMAIN u, NEW w \in DOMAIN u, x # w, u[x].id = u[w].id, u[x].id \notin U
              PROVE  Cousins(u, x, w)
  BY DEF Kin
<1>0. p \in Pos
  BY DEF Good, Rooted
<1>1. ASSUME NEW z \in DOMAIN u, u[z].id \notin U
      PROVE  z \in DOMAIN t /\ ~Under(p, first, z) /\ u[z].id = t[z].id
  <2>1. CASE z \in DOMAIN v /\ ~Under(p, first, z)
    BY <2>1 DEF Seated
  <2>2. ASSUME NEW i \in Seats(subs), NEW y \in DOMAIN subs[i], z = At(p, first + i, y)
        PROVE  FALSE
    BY <1>1, <2>2 DEF Seated
  <2>. QED  BY <2>1, <2>2 DEF Seated
<1>2. ASSUME NEW z \in DOMAIN u, u[z].id \notin U, z # << >>
      PROVE  u[Front(z)].id = t[Front(z)].id
  <2>1. z \in DOMAIN t /\ ~Under(p, first, z)
    BY <1>1, <1>2
  <2>2. z \in Pos /\ Front(z) \in DOMAIN t
    BY <1>2, <2>1 DEF Good, Rooted
  <2>3. Front(z) \in Pos /\ Last(z) \in Nat /\ z = Child(Front(z), Last(z))
    BY <1>2, <2>2, LastOf
  <2>4. ~Under(p, first, Front(z))
    BY <1>0, <2>1, <2>3, UnderStep
  <2>. QED  BY <2>2, <2>4 DEF Seated
<1>3. Cousins(t, x, w)
  BY <1>1 DEF Kin
<1>4. x # << >> /\ w # << >> /\ Front(x) # Front(w) /\ t[Front(x)].id = t[Front(w)].id
      /\ (IsKid(x) <=> IsKid(w))
  BY <1>3 DEF Cousins
<1>5. u[Front(x)].id = u[Front(w)].id
  BY <1>2, <1>4
<1>. QED  BY <1>4, <1>5 DEF Cousins

\* Other fields of one node change nothing.
LEMMA FieldsFine ==
    ASSUME NEW t, NEW U, Fine(t, U), NEW p \in DOMAIN t, NEW l, DOMAIN l = DOMAIN t[p],
           l.id = t[p].id, l.kind = t[p].kind, l.sealed = t[p].sealed, l.state = t[p].state,
           NEW u, u = [t EXCEPT ![p] = l]
    PROVE  Fine(u, U)
<1>1. DOMAIN u = DOMAIN t /\ u[p] = l /\ \A x \in DOMAIN t : x # p => u[x] = t[x]
  OBVIOUS
<1>2. \A x \in DOMAIN t :
        /\ u[x].id = t[x].id /\ u[x].kind = t[x].kind /\ u[x].state = t[x].state
        /\ DOMAIN u[x] = DOMAIN t[x] /\ u[x].sealed = t[x].sealed
  BY <1>1
<1>3. ASSUME NEW x \in DOMAIN t
      PROVE  GoodAt(u, x)
  <2>1. GoodAt(t, x)
    BY DEF Fine, Good
  <2>2. LabelOk(u[x])
    BY <1>2, <2>1 DEF GoodAt, LabelOk
  <2>. QED  BY <1>1, <1>2, <2>1, <2>2 DEF GoodAt
<1>4. Rooted(u)
  BY <1>1 DEF Fine, Good, Rooted
<1>5. \A x \in DOMAIN t : x # << >> => Front(x) \in DOMAIN t
  BY DEF Fine, Good, Rooted
<1>6. Kin(u, U)
  <2>. SUFFICES ASSUME NEW x \in DOMAIN t, NEW w \in DOMAIN t, x # w, u[x].id = u[w].id, u[x].id \notin U
                PROVE  Cousins(u, x, w)
    BY <1>1 DEF Kin
  <2>1. Cousins(t, x, w)
    BY <1>2 DEF Kin, Fine
  <2>. QED  BY <1>2, <1>5, <2>1 DEF Cousins
<1>. QED  BY <1>1, <1>3, <1>4, <1>6 DEF Fine, Good

\* One more child, after those there are.
LEMMA AppendSubs ==
    ASSUME NEW t, Good(t), NEW p \in DOMAIN t, NEW n, HeldAre(t, p, n), NEW child, Good(child),
           NEW kids, kids = Append(Held(t, p), child)
    PROVE  /\ DOMAIN kids = 1 .. n + 1 /\ kids[n + 1] = child /\ n \in Nat
           /\ \A i \in 1 .. n : kids[i] = Sub(t, Child(p, i))
           /\ GoodSubs(kids)
<1>. DEFINE h == Held(t, p)
            S == {Sub(t, Child(p, i)) : i \in 1 .. n}
<1>1. n \in Nat /\ h \in Seq(S) /\ DOMAIN h = 1 .. n /\ (\A i \in 1 .. n : h[i] = Sub(t, Child(p, i)))
      /\ (\A i \in 1 .. n : Good(Sub(t, Child(p, i))))
  BY MaxSlotsAssumption DEF HeldAre
<1>. HIDE DEF h, S
<1>2. Len(h) = n
  BY <1>1
<1>3. DOMAIN kids = 1 .. n + 1 /\ kids[n + 1] = child /\ \A i \in 1 .. n : kids[i] = h[i]
  BY <1>1, <1>2 DEF h
<1>4. \A i \in 1 .. n + 1 : Good(kids[i])
  BY <1>1, <1>3
<1>5. \A i \in Seats(kids) : i # 1 => i - 1 \in Seats(kids)
  BY <1>1, <1>3, MaxSlotsAssumption DEF Seats
<1>6. GoodSubs(kids)
  BY <1>3, <1>4, <1>5 DEF GoodSubs, Seats
<1>. QED  BY <1>1, <1>3, <1>6

\* An insert of ids the tree does not hold.
LEMMA InsertFine ==
    ASSUME NEW t, NEW U, Fine(t, U), NEW p \in DOMAIN t, IsLayout(t[p]), NEW child, Fine(child, U),
           Ids(child) \intersect Ids(t) = {}
    PROVE  Fine(WithKids(t, p, Append(Held(t, p), child)), U)
<1>. DEFINE kids == Append(Held(t, p), child)
            u == WithSlots(t, p, 0, kids)
<1>0. Good(t) /\ Kin(t, U) /\ Good(child) /\ Kin(child, U) /\ p \in Pos /\ DOMAIN t \subseteq Pos
  BY DEF Fine, Good, Rooted
<1>1. PICK n : HeldAre(t, p, n)
  BY <1>0, HeldIs
<1>2. /\ DOMAIN kids = 1 .. n + 1 /\ kids[n + 1] = child /\ n \in Nat
      /\ \A i \in 1 .. n : kids[i] = Sub(t, Child(p, i))
      /\ GoodSubs(kids)
  BY <1>0, <1>1, AppendSubs
<1>. HIDE DEF kids
<1>3. Good(u) /\ Seated(u, t, p, 0, kids)
  BY <1>0, <1>2, KidsSeat
<1>. HIDE DEF u
<1>4. ASSUME NEW x \in DOMAIN u
      PROVE  \/ x \in DOMAIN t /\ u[x] = t[x]
             \/ /\ n + 1 \in 1 .. MaxSlots
                /\ \E y \in DOMAIN child : x = At(p, n + 1, y) /\ u[x] = child[y]
  <2>1. CASE x \in DOMAIN t /\ ~Under(p, 0, x)
    BY <1>3, <2>1 DEF Seated
  <2>2. ASSUME NEW i \in Seats(kids), NEW y \in DOMAIN kids[i], x = At(p, 0 + i, y)
        PROVE  \/ x \in DOMAIN t /\ u[x] = t[x]
               \/ /\ n + 1 \in 1 .. MaxSlots
                  /\ \E z \in DOMAIN child : x = At(p, n + 1, z) /\ u[x] = child[z]
    <3>1. i \in 1 .. MaxSlots /\ i \in 1 .. n + 1 /\ i \in Nat /\ 0 + i = i
      BY <1>2, MaxSlotsAssumption DEF Seats
    <3>2. u[x] = kids[i][y]
      BY <1>3, <2>2 DEF Seated
    <3>3. CASE i = n + 1
      BY <1>2, <2>2, <3>1, <3>2, <3>3
    <3>4. CASE i # n + 1
      <4>1. i \in 1 .. n
        BY <1>2, <3>1, <3>4
      <4>. DEFINE s == Sub(t, Child(p, i))
      <4>2. kids[i] = s
        BY <1>2, <4>1
      <4>5. p \in Pos /\ i \in Nat /\ DOMAIN t \subseteq Pos
        BY <1>0, <3>1
      <4>3. DOMAIN s = {z \in Pos : At(p, i, z) \in DOMAIN t}
        BY <4>5, SubIs
      <4>4. ASSUME NEW z \in Pos, At(p, i, z) \in DOMAIN t
            PROVE  s[z] = t[At(p, i, z)]
        BY <4>4, <4>5, SubAt
      <4>. HIDE DEF s
      <4>. QED  BY <2>2, <3>1, <3>2, <4>2, <4>3, <4>4
    <3>. QED  BY <3>3, <3>4
  <2>. QED  BY <1>3, <2>1, <2>2 DEF Seated
<1>5. ASSUME NEW y \in Pos, n + 1 \in 1 .. MaxSlots
      PROVE  At(p, n + 1, y) \notin DOMAIN t
  <2>1. Child(p, n + 1) \notin DOMAIN t
    BY <1>1, <1>2, <1>5 DEF HeldAre
  <2>2. PICK k \in Nat : k = n + 1
    BY <1>2
  <2>. QED  BY <1>0, <2>1, <2>2, Above DEF Good
<1>6. DOMAIN child \subseteq Pos
  BY <1>0 DEF Good, Rooted
<1>7. \A x \in DOMAIN u : x \in DOMAIN t => u[x] = t[x]
  BY <1>4, <1>5, <1>6
<1>8. Kin(u, U)
  <2>. SUFFICES ASSUME NEW x \in DOMAIN u, NEW w \in DOMAIN u, x # w, u[x].id = u[w].id, u[x].id \notin U
                PROVE  Cousins(u, x, w)
    BY DEF Kin
  <2>1. CASE x \in DOMAIN t /\ w \in DOMAIN t
    <3>1. Cousins(t, x, w)
      BY <1>0, <1>7, <2>1 DEF Kin
    <3>2. \A z \in DOMAIN t : z # << >> => Front(z) \in DOMAIN t
      BY <1>0 DEF Good, Rooted
    <3>3. \A z \in DOMAIN u : z # << >> => Front(z) \in DOMAIN u
      BY <1>3 DEF Good, Rooted
    <3>. QED  BY <1>7, <2>1, <3>1, <3>2, <3>3 DEF Cousins
  <2>2. CASE x \notin DOMAIN t /\ w \notin DOMAIN t
    <3>1. n + 1 \in 1 .. MaxSlots
      BY <1>4, <2>2
    <3>2. PICK k \in Nat : k = n + 1
      BY <1>2
    <3>3. PICK y \in DOMAIN child : x = At(p, k, y) /\ u[x] = child[y]
      BY <1>4, <2>2, <3>2
    <3>4. PICK z \in DOMAIN child : w = At(p, k, z) /\ u[w] = child[z]
      BY <1>4, <2>2, <3>2
    <3>5. Cousins(child, y, z)
      BY <1>0, <3>3, <3>4 DEF Kin
    <3>6. y # << >> /\ z # << >> /\ Front(y) # Front(z) /\ child[Front(y)].id = child[Front(z)].id
          /\ (IsKid(y) <=> IsKid(z)) /\ Front(y) \in DOMAIN child /\ Front(z) \in DOMAIN child
      BY <1>0, <3>5 DEF Cousins, Good, Rooted
    <3>7. y \in Pos /\ z \in Pos /\ Front(y) \in Pos /\ Front(z) \in Pos
      BY <1>6, <3>6
    <3>8. Front(x) = At(p, k, Front(y)) /\ Last(x) = Last(y) /\ x # << >>
      BY <1>0, <3>3, <3>6, <3>7, FrontOfAt, AtBelow
    <3>9. Front(w) = At(p, k, Front(z)) /\ Last(w) = Last(z) /\ w # << >>
      BY <1>0, <3>4, <3>6, <3>7, FrontOfAt, AtBelow
    <3>10. Front(x) # Front(w)
      BY <1>0, <3>6, <3>7, <3>8, <3>9, AtInjective
    <3>11. ASSUME NEW v \in DOMAIN child
           PROVE  u[At(p, k, v)] = child[v]
      <4>1. k \in Seats(kids) /\ 0 + k = k /\ kids[k] = child
        BY <1>2, <3>1, <3>2 DEF Seats
      <4>. QED  BY <1>3, <4>1 DEF Seated
    <3>. QED  BY <3>6, <3>8, <3>9, <3>10, <3>11 DEF Cousins, IsKid
  <2>3. ASSUME NEW a \in DOMAIN u, NEW b \in DOMAIN u, a \in DOMAIN t, b \notin DOMAIN t, u[a].id = u[b].id
        PROVE  FALSE
    <3>1. PICK y \in DOMAIN child : u[b] = child[y]
      BY <1>4, <2>3
    <3>2. u[b].id \in Ids(child) /\ u[a].id \in Ids(t)
      BY <1>7, <2>3, <3>1 DEF Ids
    <3>. QED  BY <2>3, <3>2
  <2>. QED  BY <2>1, <2>2, <2>3
<1>9. WithKids(t, p, kids) = u
  BY DEF WithKids, u
<1>. QED  BY <1>3, <1>8, <1>9 DEF Fine, kids

\* InsertChild goes from a fine tree to a fine one, refused or not.
LEMMA InsertKeeps ==
    ASSUME NEW t, NEW U, Fine(t, U), NEW parent, NEW child, Fine(child, U)
    PROVE  Fine(InsertChild(parent, child, t).tree, U)
<1>. DEFINE p == Find(parent, t)
            r == WithKids(t, p, Append(Held(t, p), child))
<1>1. CASE parent \in Ids(t) /\ IsLayout(t[p]) /\ Ids(child) \intersect Ids(t) = {}
  <2>1. p \in DOMAIN t
    BY <1>1, FindIs DEF Fine
  <2>. HIDE DEF p
  <2>2. Fine(r, U)
    BY <1>1, <2>1, InsertFine
  <2>. HIDE DEF r
  <2>3. InsertChild(parent, child, t).tree = r
    BY <1>1 DEF InsertChild, Ok, p, r
  <2>. QED  BY <2>2, <2>3
<1>2. CASE ~(parent \in Ids(t) /\ IsLayout(t[p]) /\ Ids(child) \intersect Ids(t) = {})
  <2>. HIDE DEF r
  <2>1. InsertChild(parent, child, t).tree = t
    BY <1>2 DEF InsertChild, Fail
  <2>. QED  BY <2>1
<1>. QED  BY <1>1, <1>2

\* A tree of ids the op brings.
LEMMA BroughtFine ==
    ASSUME NEW n, NEW U, Good(n), Ids(n) \subseteq U
    PROVE  Fine(n, U)
BY DEF Fine, Kin, Ids

\* So does UpdateProp.
LEMMA PropKeeps ==
    ASSUME NEW t, NEW U, Fine(t, U), NEW target, NEW value
    PROVE  Fine(UpdateProp(target, value, t).tree, U)
<1>. DEFINE p == Find(target, t)
            l == [t[p] EXCEPT !.prop = value]
            u == [t EXCEPT ![p] = l]
<1>1. CASE target \in Ids(t) /\ t[p].kind \notin {"Switch", "Modal"}
  <2>1. p \in DOMAIN t
    BY <1>1, FindIs DEF Fine
  <2>. HIDE DEF p
  <2>2. DOMAIN t[p] = {"id", "kind", "prop", "sealed", "trait", "state"}
    BY <2>1 DEF Fine, Good, GoodAt, LabelOk, Label
  <2>3. /\ DOMAIN l = DOMAIN t[p] /\ l.id = t[p].id /\ l.kind = t[p].kind
        /\ l.sealed = t[p].sealed /\ l.state = t[p].state
    BY <2>2
  <2>4. [t EXCEPT ![p].prop = value] = u
    OBVIOUS
  <2>. HIDE DEF l
  <2>5. Fine(u, U)
    BY <2>1, <2>3, FieldsFine
  <2>. HIDE DEF u
  <2>6. UpdateProp(target, value, t).tree = u
    BY <1>1, <2>4 DEF UpdateProp, Ok, p
  <2>. QED  BY <2>5, <2>6
<1>2. CASE ~(target \in Ids(t) /\ t[p].kind \notin {"Switch", "Modal"})
  <2>. HIDE DEF u
  <2>1. UpdateProp(target, value, t).tree = t
    BY <1>2 DEF UpdateProp, Fail
  <2>. QED  BY <2>1
<1>. QED  BY <1>1, <1>2

\* So does SetTrait.
LEMMA TraitKeeps ==
    ASSUME NEW t, NEW U, Fine(t, U), NEW target, NEW value
    PROVE  Fine(SetTrait(target, value, t).tree, U)
<1>. DEFINE p == Find(target, t)
            l == [t[p] EXCEPT !.trait = value @@ @]
            u == [t EXCEPT ![p] = l]
<1>1. CASE target \in Ids(t)
  <2>1. p \in DOMAIN t
    BY <1>1, FindIs DEF Fine
  <2>. HIDE DEF p
  <2>2. DOMAIN t[p] = {"id", "kind", "prop", "sealed", "trait", "state"}
    BY <2>1 DEF Fine, Good, GoodAt, LabelOk, Label
  <2>3. /\ DOMAIN l = DOMAIN t[p] /\ l.id = t[p].id /\ l.kind = t[p].kind
        /\ l.sealed = t[p].sealed /\ l.state = t[p].state
    BY <2>2
  <2>4. [t EXCEPT ![p].trait = value @@ @] = u
    OBVIOUS
  <2>. HIDE DEF l
  <2>5. Fine(u, U)
    BY <2>1, <2>3, FieldsFine
  <2>. HIDE DEF u
  <2>6. SetTrait(target, value, t).tree = u
    BY <1>1, <2>4 DEF SetTrait, Ok, p
  <2>. QED  BY <2>5, <2>6
<1>2. CASE target \notin Ids(t)
  <2>1. SetTrait(target, value, t).tree = t
    BY <1>2 DEF SetTrait, Fail
  <2>. QED  BY <2>1
<1>. QED  BY <1>1, <1>2

\* A kind that can be installed, and its ids.
KindFits(k, U) ==
    /\ k.kind \in {"Box", "Switch", "Modal", "Leaf"} /\ GoodSubs(k.kids)
    /\ k.kind \in {"Modal", "Leaf"} => Seats(k.kids) = {}
    /\ AreSealed(k.sealed) /\ (k.kind # "Modal" => k.sealed = << >>)
    /\ \A i \in Seats(k.kids) : Ids(k.kids[i]) \subseteq U

\* One label changed, and what is in some of its slots.
LEMMA SlotsFine ==
    ASSUME NEW t, NEW U, Fine(t, U), NEW p \in DOMAIN t, NEW l, l.id = t[p].id,
           NEW first \in {0, MaxSlots}, NEW subs, GoodSubs(subs), Allows(l, t, p, first, subs),
           \A i \in Seats(subs) : Ids(subs[i]) \subseteq U
    PROVE  Fine(WithSlots([t EXCEPT ![p] = l], p, first, subs), U)
<1>. DEFINE v == [t EXCEPT ![p] = l]
            u == WithSlots(v, p, first, subs)
<1>1. DOMAIN v = DOMAIN t /\ \A x \in DOMAIN t : v[x].id = t[x].id
  OBVIOUS
<1>2. /\ DOMAIN t \subseteq Pos /\ p \in Pos /\ first \in Nat /\ Good(t) /\ Kin(t, U)
      /\ \A i \in Seats(subs) : DOMAIN subs[i] \subseteq Pos
  BY MaxSlotsAssumption DEF Fine, Good, Rooted, GoodSubs
<1>3. Seated(u, v, p, first, subs)
  <2>. HIDE DEF v
  <2>. QED  BY <1>1, <1>2, SlotsSeat
<1>4. \A i \in Seats(subs) : \A y \in DOMAIN subs[i] : subs[i][y].id \in U
  BY DEF Ids
<1>. HIDE DEF u
<1>5. Good(u)
  BY <1>2, <1>3, SeatGood
<1>. HIDE DEF v
<1>6. Kin(u, U)
  BY <1>1, <1>2, <1>3, <1>4, NewKin
<1>. QED  BY <1>5, <1>6 DEF Fine, u, v

\* So does EditNode, with what the new kind brings.
LEMMA KindKeeps ==
    ASSUME NEW t, NEW U, Fine(t, U), NEW target, NEW k, KindFits(k, U)
    PROVE  Fine(EditNode(target, k, t).tree, U)
<1>. DEFINE p == Find(target, t)
            l == [t[p] EXCEPT !.kind = k.kind, !.prop = k.prop, !.sealed = k.sealed]
            v == [t EXCEPT ![p] = l]
            u == WithSlots(v, p, 0, k.kids)
<1>1. CASE target \in Ids(t)
  <2>1. p \in DOMAIN t
    BY <1>1, FindIs DEF Fine
  <2>. HIDE DEF p
  <2>2. DOMAIN t[p] = {"id", "kind", "prop", "sealed", "trait", "state"}
    BY <2>1 DEF Fine, Good, GoodAt, LabelOk, Label
  <2>3. /\ DOMAIN l = {"id", "kind", "prop", "sealed", "trait", "state"}
        /\ l.id = t[p].id /\ l.kind = k.kind /\ l.sealed = k.sealed /\ l.state = t[p].state
    BY <2>2
  <2>4. [t EXCEPT ![p].kind = k.kind, ![p].prop = k.prop, ![p].sealed = k.sealed] = v
    OBVIOUS
  <2>. HIDE DEF l
  <2>5. LabelOk(l)
    BY <2>3 DEF LabelOk, KindFits, Label
  <2>6. Allows(l, t, p, 0, k.kids)
    BY <2>3, <2>5 DEF Allows, KindFits
  <2>7. Fine(u, U)
    BY <2>1, <2>3, <2>6, SlotsFine DEF KindFits
  <2>. HIDE DEF v
  <2>8. EditNode(target, k, t).tree = u
    BY <1>1, <2>4 DEF EditNode, Ok, p
  <2>. QED  BY <2>7, <2>8
<1>2. CASE target \notin Ids(t)
  <2>1. EditNode(target, k, t).tree = t
    BY <1>2 DEF EditNode, Fail
  <2>. QED  BY <2>1
<1>. QED  BY <1>1, <1>2

\* So does UpdateState, with the alternatives it brings.
LEMMA StateKeeps ==
    ASSUME NEW t, NEW U, Fine(t, U), NEW target, NEW arms, GoodSubs(arms),
           \A i \in Seats(arms) : Ids(arms[i]) \subseteq U
    PROVE  Fine(UpdateState(target, arms, t).tree, U)
<1>. DEFINE p == Find(target, t)
            l == [t[p] EXCEPT !.state = TRUE]
            v == [t EXCEPT ![p] = l]
            u == WithSlots(v, p, StateSlot, arms)
<1>1. CASE target \in Ids(t)
  <2>1. p \in DOMAIN t
    BY <1>1, FindIs DEF Fine
  <2>. HIDE DEF p
  <2>2. DOMAIN t[p] = {"id", "kind", "prop", "sealed", "trait", "state"} /\ LabelOk(t[p])
    BY <2>1 DEF Fine, Good, GoodAt, LabelOk, Label
  <2>3. /\ DOMAIN l = DOMAIN t[p] /\ l.id = t[p].id /\ l.kind = t[p].kind
        /\ l.sealed = t[p].sealed /\ l.state = TRUE
    BY <2>2
  <2>4. [t EXCEPT ![p].state = TRUE] = v
    OBVIOUS
  <2>. HIDE DEF l
  <2>5. LabelOk(l)
    BY <2>2, <2>3 DEF LabelOk
  <2>6. StateSlot \in {0, MaxSlots}
    BY DEF StateSlot
  <2>7. Allows(l, t, p, StateSlot, arms)
    BY <2>3, <2>5, MaxSlotsAssumption DEF Allows, StateSlot, Seats
  <2>8. Fine(u, U)
    BY <2>1, <2>3, <2>6, <2>7, SlotsFine
  <2>. HIDE DEF v
  <2>9. UpdateState(target, arms, t).tree = u
    BY <1>1, <2>4 DEF UpdateState, Ok, p
  <2>. QED  BY <2>8, <2>9
<1>2. CASE target \notin Ids(t)
  <2>1. UpdateState(target, arms, t).tree = t
    BY <1>2 DEF UpdateState, Fail
  <2>. QED  BY <2>1
<1>. QED  BY <1>1, <1>2

-----------------------------------------------------------------------------
(***************************************************************************)
(* The two folds.  FoldLeft chooses a function on the subsets of a         *)
(* sequence's domain; that there is one, and what it gives the whole, is   *)
(* shown by the least length where it would fail.                          *)
(***************************************************************************)
\* One step of the fold named: a child kept, an id of a row kept, a fresh id minted
\* for an id of the node, or an op of a Batch.
Step(fold, acc, x, y) ==
    IF fold = "kept" THEN IF x[<< >>].id = y THEN acc ELSE Append(acc, x)
    ELSE IF fold = "without" THEN IF x = y THEN acc ELSE Append(acc, x)
    ELSE IF fold = "mint" THEN Mint(acc, y.node[x].id, y.tree)
    ELSE IF acc.err = "None" THEN OrAborted(ApplyEdit(x, acc.tree), y) ELSE acc

\* What FoldLeft chooses.
IsFold(f, fold, first, s, y, n) ==
    /\ DOMAIN f = SUBSET (1 .. n)
    /\ \A r \in SUBSET (1 .. n) : f[r] = IF r = {} THEN first ELSE Step(fold, f[r \ {Max(r)}], s[Max(r)], y)

\* A range has a greatest, its end.
LEMMA MaxOf ==
    ASSUME NEW n \in Nat, NEW r \in SUBSET (1 .. n), n \in r
    PROVE  Max(r) = n
<1>1. \A x \in r : (\A y \in r : x >= y) => x = n
  OBVIOUS
<1>2. \A y \in r : n >= y
  OBVIOUS
<1>. QED  BY <1>1, <1>2 DEF Max

\* A fold over 1 .. n takes n away and goes on over 1 .. n - 1.
LEMMA RangeIs ==
    ASSUME NEW n \in Nat \ {0}
    PROVE  Max(1 .. n) = n /\ 1 .. n # {} /\ (1 .. n) \ {n} = 1 .. n - 1 /\ 1 .. n \in SUBSET (1 .. n)
<1>1. n \in 1 .. n /\ 1 .. n \in SUBSET (1 .. n)
  OBVIOUS
<1>2. Max(1 .. n) = n
  BY <1>1, MaxOf
<1>3. ASSUME NEW x
      PROVE  x \in (1 .. n) \ {n} <=> x \in 1 .. n - 1
  OBVIOUS
<1>. QED  BY <1>1, <1>2, <1>3

\* There is a fold over every length.
LEMMA FoldExists ==
    ASSUME NEW fold, NEW first, NEW s, NEW y, NEW n \in Nat
    PROVE  \E f : IsFold(f, fold, first, s, y, n)
<1>. DEFINE T == {m \in Nat : ~ \E f : IsFold(f, fold, first, s, y, m)}
<1>. SUFFICES ASSUME T # {}
              PROVE  FALSE
  OBVIOUS
<1>1. PICK m \in T : \A k \in T : m <= k
  BY LeastIn
<1>2. CASE m = 0
  <2>. DEFINE f == [r \in SUBSET (1 .. 0) |-> first]
  <2>1. SUBSET (1 .. 0) = {{}}
    OBVIOUS
  <2>2. IsFold(f, fold, first, s, y, 0)
    BY <2>1 DEF IsFold
  <2>. QED  BY <1>1, <1>2, <2>2
<1>3. CASE m # 0
  <2>1. m - 1 \in Nat /\ m - 1 \notin T
    BY <1>1, <1>3
  <2>2. PICK g : IsFold(g, fold, first, s, y, m - 1)
    BY <2>1
  <2>. DEFINE f == [r \in SUBSET (1 .. m) |-> IF m \in r THEN Step(fold, g[r \ {m}], s[m], y) ELSE g[r]]
  <2>3. ASSUME NEW r \in SUBSET (1 .. m)
        PROVE  f[r] = IF r = {} THEN first ELSE Step(fold, f[r \ {Max(r)}], s[Max(r)], y)
    <3>1. CASE m \in r
      <4>1. Max(r) = m
        BY <1>1, <3>1, MaxOf
      <4>2. r \ {m} \in SUBSET (1 .. m) /\ m \notin r \ {m}
        OBVIOUS
      <4>3. f[r \ {m}] = g[r \ {m}]
        BY <4>2
      <4>4. f[r] = Step(fold, g[r \ {m}], s[m], y)
        BY <3>1
      <4>. QED  BY <3>1, <4>1, <4>3, <4>4
    <3>2. CASE m \notin r
      <4>1. r \in SUBSET (1 .. m - 1)
        BY <1>1, <3>2
      <4>2. f[r] = g[r] /\ f[r \ {Max(r)}] = g[r \ {Max(r)}]
        BY <3>2
      <4>. QED  BY <2>2, <4>1, <4>2 DEF IsFold
    <3>. QED  BY <3>1, <3>2
  <2>4. DOMAIN f = SUBSET (1 .. m)
    OBVIOUS
  <2>. HIDE DEF f
  <2>5. IsFold(f, fold, first, s, y, m)
    BY <2>3, <2>4 DEF IsFold
  <2>. QED  BY <1>1, <2>5
<1>. QED  BY <1>2, <1>3

\* A fold goes through its sequence one step at a time.
Runs(h, fold, first, s, y, n) ==
    h[0] = first /\ \A i \in 1 .. n : h[i] = Step(fold, h[i - 1], s[i], y)

\* A fold goes through its sequence one element at a time.
LEMMA FoldRuns ==
    ASSUME NEW fold, NEW first, NEW s, NEW y, NEW n \in Nat, NEW f, IsFold(f, fold, first, s, y, n)
    PROVE  Runs([i \in 0 .. n |-> f[1 .. i]], fold, first, s, y, n)
<1>. DEFINE h == [i \in 0 .. n |-> f[1 .. i]]
<1>1. h[0] = first
  <2>1. h[0] = f[1 .. 0] /\ 1 .. 0 = {}
    OBVIOUS
  <2>. QED  BY <2>1 DEF IsFold
<1>2. ASSUME NEW i \in 1 .. n
      PROVE  h[i] = Step(fold, h[i - 1], s[i], y)
  <2>1. i \in Nat \ {0} /\ i \in 0 .. n /\ i - 1 \in 0 .. n /\ 1 .. i \in SUBSET (1 .. n)
    OBVIOUS
  <2>2. Max(1 .. i) = i /\ 1 .. i # {} /\ (1 .. i) \ {i} = 1 .. i - 1
    BY <2>1, RangeIs
  <2>3. f[1 .. i] = Step(fold, f[1 .. i - 1], s[i], y)
    BY <2>1, <2>2 DEF IsFold
  <2>. QED  BY <2>1, <2>3
<1>. QED  BY <1>1, <1>2 DEF Runs

\* The function FoldLeft chooses.
Chosen(fold, first, s, y) ==
    CHOOSE f : f = [r \in SUBSET DOMAIN s |->
                     IF r = {} THEN first ELSE Step(fold, f[r \ {Max(r)}], s[Max(r)], y)]

\* It gives the whole what the last step does.
LEMMA ChosenRuns ==
    ASSUME NEW fold, NEW first, NEW s, NEW y, NEW n \in Nat, DOMAIN s = 1 .. n
    PROVE  \E h : Runs(h, fold, first, s, y, n) /\ Chosen(fold, first, s, y)[DOMAIN s] = h[n]
<1>. DEFINE F(f) == f = [r \in SUBSET DOMAIN s |->
                         IF r = {} THEN first ELSE Step(fold, f[r \ {Max(r)}], s[Max(r)], y)]
            c == CHOOSE f : F(f)
<1>1. Chosen(fold, first, s, y) = c
  BY DEF Chosen
<1>2. \E f : F(f)
  <2>1. PICK f : IsFold(f, fold, first, s, y, n)
    BY FoldExists
  <2>. DEFINE g == [r \in SUBSET (1 .. n) |-> f[r]]
  <2>2. \A r \in SUBSET (1 .. n) : g[r] = IF r = {} THEN first ELSE Step(fold, g[r \ {Max(r)}], s[Max(r)], y)
    BY <2>1 DEF IsFold
  <2>3. g = [r \in SUBSET (1 .. n) |-> IF r = {} THEN first ELSE Step(fold, g[r \ {Max(r)}], s[Max(r)], y)]
    BY <2>2
  <2>. HIDE DEF g
  <2>4. F(g)
    BY <2>3
  <2>. QED  BY <2>4
<1>3. F(c)
  <2>. HIDE DEF F
  <2>. QED  BY <1>2
<1>. HIDE DEF c
<1>4. IsFold(c, fold, first, s, y, n)
  BY <1>3 DEF IsFold
<1>5. Runs([i \in 0 .. n |-> c[1 .. i]], fold, first, s, y, n)
  BY <1>4, FoldRuns
<1>. DEFINE h == [i \in 0 .. n |-> c[1 .. i]]
<1>6. h[n] = c[1 .. n]
  OBVIOUS
<1>. HIDE DEF h
<1>7. Runs(h, fold, first, s, y, n)
  BY <1>5 DEF h
<1>. QED  BY <1>1, <1>6, <1>7

\* The children kept, the ids minted and the ops of a Batch are such folds, as is
\* the row without an id.
Kept(target, s) == FoldLeft(LAMBDA k, x : IF x[<< >>].id = target THEN k ELSE Append(k, x), << >>, s)

Unminted(t, n) == [new |-> << >>, taken |-> Ids(t) \union Ids(n)]

Batched(t, s) ==
    FoldLeft(LAMBDA acc, inner :
               IF acc.err = "None" THEN OrAborted(ApplyEdit(inner, acc.tree), t) ELSE acc,
             Ok(t), s)

\* The children kept are found one at a time.
LEMMA KeptRuns ==
    ASSUME NEW target, NEW s, NEW n \in Nat, DOMAIN s = 1 .. n
    PROVE  \E h : Runs(h, "kept", << >>, s, target, n) /\ Kept(target, s) = h[n]
<1>1. Kept(target, s) = Chosen("kept", << >>, s, target)[DOMAIN s]
  BY DEF Kept, FoldLeft, MapThenFoldSet, Step, Chosen
<1>. QED  BY <1>1, ChosenRuns

\* So are the ids.
LEMMA WithoutRuns ==
    ASSUME NEW id, NEW s, NEW n \in Nat, DOMAIN s = 1 .. n
    PROVE  \E h : Runs(h, "without", << >>, s, id, n) /\ Without(s, id) = h[n]
<1>1. Without(s, id) = Chosen("without", << >>, s, id)[DOMAIN s]
  BY DEF Without, FoldLeft, MapThenFoldSet, Step, Chosen
<1>. QED  BY <1>1, ChosenRuns

\* The fresh ids are minted one at a time.
LEMMA MintRuns ==
    ASSUME NEW t, NEW n, NEW m \in Nat, NEW s, s = InOrder(DOMAIN n), DOMAIN s = 1 .. m,
           NEW y, y.node = n, y.tree = t
    PROVE  \E h : Runs(h, "mint", Unminted(t, n), s, y, m) /\ Renaming(t, n) = h[m].new
<1>1. Renaming(t, n) = Chosen("mint", Unminted(t, n), s, y)[DOMAIN s].new
  BY DEF Renaming, FoldLeft, MapThenFoldSet, Step, Chosen, Unminted
<1>2. PICK h : Runs(h, "mint", Unminted(t, n), s, y, m) /\ Chosen("mint", Unminted(t, n), s, y)[DOMAIN s] = h[m]
  BY ChosenRuns
<1>. QED  BY <1>1, <1>2

\* The ops of a Batch are applied one at a time.
LEMMA BatchRuns ==
    ASSUME NEW t, NEW s, NEW n \in Nat, DOMAIN s = 1 .. n
    PROVE  \E h : Runs(h, "batch", Ok(t), s, t, n) /\ Batched(t, s) = h[n]
<1>1. Batched(t, s) = Chosen("batch", Ok(t), s, t)[DOMAIN s]
  BY DEF Batched, FoldLeft, MapThenFoldSet, Step, Chosen
<1>. QED  BY <1>1, ChosenRuns

\* r holds some of s, each once: the one at i was at j[i].
Picked(r, s, j, n) ==
    /\ r \in Seq({s[i] : i \in 1 .. n}) /\ Len(r) \in 0 .. n
    /\ \A i \in 1 .. Len(r) : j[i] \in 1 .. n /\ r[i] = s[j[i]]
    /\ \A i, k \in 1 .. Len(r) : j[i] = j[k] => i = k

\* The children kept are some of those there, each once.
LEMMA KeptPicks ==
    ASSUME NEW target, NEW s, NEW n \in Nat, DOMAIN s = 1 .. n
    PROVE  \E j : Picked(Kept(target, s), s, j, n)
<1>1. PICK h : Runs(h, "kept", << >>, s, target, n) /\ Kept(target, s) = h[n]
  BY KeptRuns
<1>. DEFINE T == {m \in Nat : m <= n /\ ~ \E j : Picked(h[m], s, j, m)}
<1>2. ASSUME T # {}
      PROVE  FALSE
  <2>1. PICK m \in T : \A k \in T : m <= k
    <3>1. T \subseteq Nat
      OBVIOUS
    <3>. HIDE DEF T
    <3>. QED  BY <1>2, <3>1, LeastIn
  <2>2. m # 0
    <3>1. h[0] = << >>
      BY <1>1 DEF Runs
    <3>2. Picked(<< >>, s, << >>, 0)
      BY DEF Picked
    <3>. QED  BY <2>1, <3>1, <3>2
  <2>3. m - 1 \in Nat /\ m - 1 <= n /\ m - 1 \notin T /\ m \in 1 .. n /\ m \in Nat
    BY <2>1, <2>2
  <2>4. PICK j : Picked(h[m - 1], s, j, m - 1)
    BY <2>3
  <2>. DEFINE r == h[m - 1]
              k == Len(r)
              S == {s[i] : i \in 1 .. m}
              i1 == [i \in 1 .. k + 1 |-> IF i = k + 1 THEN m ELSE j[i]]
  <2>5. h[m] = Step("kept", r, s[m], target)
    BY <1>1, <2>3 DEF Runs
  <2>6. r \in Seq({s[i] : i \in 1 .. m - 1}) /\ k \in 0 .. m - 1
        /\ (\A i \in 1 .. k : j[i] \in 1 .. m - 1 /\ r[i] = s[j[i]])
        /\ \A i, l \in 1 .. k : j[i] = j[l] => i = l
    BY <2>4 DEF Picked
  <2>7. \A i \in 1 .. m - 1 : i \in 1 .. m
    BY <2>3
  <2>8. {s[i] : i \in 1 .. m - 1} \subseteq S /\ s[m] \in S
    BY <2>3, <2>7
  <2>. HIDE DEF r, S
  <2>9. r \in Seq(S)
    BY <2>6, <2>8
  <2>10. k \in Nat /\ k <= m - 1
    BY <2>3, <2>6
  <2>11. CASE h[m] = r
    <3>1. Picked(r, s, j, m)
      BY <2>3, <2>6, <2>7, <2>9, <2>10 DEF Picked, S
    <3>. QED  BY <2>1, <2>11, <3>1
  <2>12. CASE h[m] = Append(r, s[m])
    <3>. DEFINE q == Append(r, s[m])
    <3>1. q \in Seq(S) /\ Len(q) = k + 1 /\ q[k + 1] = s[m] /\ \A i \in 1 .. k : q[i] = r[i]
      BY <2>8, <2>9
    <3>. HIDE DEF q
    <3>2. \A i \in 1 .. k + 1 : i # k + 1 => i \in 1 .. k
      BY <2>10
    <3>3. k + 1 \in 0 .. m
      BY <2>3, <2>10
    <3>4. \A i \in 1 .. k + 1 : i1[i] \in 1 .. m /\ q[i] = s[i1[i]]
      BY <2>3, <2>6, <2>7, <3>1, <3>2
    <3>7. i1[k + 1] = m /\ \A i \in 1 .. k : i1[i] = j[i] /\ i1[i] # m
      BY <2>3, <2>6, <2>10
    <3>. HIDE DEF i1
    <3>5. \A i, l \in 1 .. k + 1 : i1[i] = i1[l] => i = l
      BY <2>6, <3>2, <3>7
    <3>6. Picked(q, s, i1, m)
      BY <3>1, <3>3, <3>4, <3>5 DEF Picked, S
    <3>. QED  BY <2>1, <2>12, <3>6 DEF q
  <2>. QED  BY <2>5, <2>11, <2>12 DEF Step
<1>3. n \notin T
  BY <1>2
<1>. QED  BY <1>1, <1>3

-----------------------------------------------------------------------------
(***************************************************************************)
(* The ops that take children from where they are.                         *)
(***************************************************************************)
\* u is t with some of the children of p, each once, in the slots of a node of its id.
Removed(u, t, p) ==
    /\ p \in DOMAIN t
    /\ \E q \in DOMAIN t :
         /\ t[q].id = t[p].id
         /\ \/ u = t
            \/ /\ Good(u)
               /\ \E j, kids : /\ Moves(u, t, p, q, j, kids)
                               /\ \A i, k \in Seats(kids) : j[i] = j[k] => i = k

\* What a removal leaves.
LEMMA RemoveMoves ==
    ASSUME NEW t, Good(t), NEW target, NEW r, r = RemoveNode(target, t)
    PROVE  \/ r.tree = t /\ r.err # "None"
           \/ /\ t[<< >>].id # target
              /\ \E p \in LayoutParents(target, t) : Removed(r.tree, t, p)
<1>. DEFINE P == LayoutParents(target, t)
            p == InOrder(P)[1]
            q == Find(t[p].id, t)
            kids == Kept(target, Held(t, p))
            u == WithKids(t, q, kids)
            ok == t[<< >>].id # target /\ P # {}
<1>1. ok => RemoveNode(target, t) = Ok(u)
  <2>. HIDE DEF WithKids
  <2>. QED  BY DEF RemoveNode, Kept
<1>2. ~ok => RemoveNode(target, t).tree = t /\ RemoveNode(target, t).err # "None"
  <2>. HIDE DEF u, p, P
  <2>. QED  BY DEF RemoveNode, Fail, P
<1>3. ASSUME ok
      PROVE  p \in P /\ Removed(u, t, p)
  <2>1. P \subseteq Pos /\ IsFiniteSet(P) /\ P # {} /\ P \subseteq DOMAIN t
    BY <1>3, FS_Subset DEF LayoutParents, Good, Rooted
  <2>2. p \in P
    BY <2>1, FirstInOrder
  <2>3. p \in DOMAIN t /\ p \in Pos
    BY <2>1, <2>2
  <2>. HIDE DEF p, P
  <2>4. t[p].id \in Ids(t)
    BY <2>3 DEF Ids
  <2>5. q \in DOMAIN t /\ t[q].id = t[p].id /\ q \in Pos
    BY <2>4, FindIs
  <2>. HIDE DEF q
  <2>6. PICK n : HeldAre(t, p, n)
    BY <2>3, HeldIs
  <2>7. n \in Nat /\ DOMAIN Held(t, p) = 1 .. n /\ n <= MaxSlots
    BY <2>6, MaxSlotsAssumption DEF HeldAre
  <2>8. PICK j : Picked(kids, Held(t, p), j, n)
    BY <2>7, KeptPicks
  <2>. HIDE DEF kids
  <2>9. /\ DOMAIN kids = 1 .. Len(kids) /\ Len(kids) \in 0 .. n
        /\ \A i \in 1 .. Len(kids) : j[i] \in 1 .. n /\ kids[i] = Held(t, p)[j[i]]
        /\ \A i, k \in 1 .. Len(kids) : j[i] = j[k] => i = k
    BY <2>8 DEF Picked
  <2>10. Seats(kids) = 1 .. Len(kids)
    BY <2>7, <2>9, MaxSlotsAssumption DEF Seats
  <2>11. \A i \in 1 .. Len(kids) : /\ j[i] \in 1 .. MaxSlots /\ Child(p, j[i]) \in DOMAIN t
                                   /\ kids[i] = Sub(t, Child(p, j[i])) /\ Good(kids[i])
    <3>1. \A i \in 1 .. n : /\ i \in 1 .. MaxSlots /\ Child(p, i) \in DOMAIN t
                            /\ Held(t, p)[i] = Sub(t, Child(p, i)) /\ Good(Sub(t, Child(p, i)))
      BY <2>6, <2>7, MaxSlotsAssumption DEF HeldAre
    <3>. QED  BY <2>9, <3>1
  <2>12. GoodSubs(kids)
    <3>1. \A i \in 1 .. Len(kids) : i # 1 => i - 1 \in 1 .. Len(kids)
      BY <2>7, <2>9
    <3>. QED  BY <2>10, <2>11, <3>1 DEF GoodSubs
  <2>13. CASE IsLayout(t[q])
    <3>. DEFINE v == WithSlots(t, q, 0, kids)
    <3>1. Good(v) /\ Seated(v, t, q, 0, kids)
      BY <2>5, <2>12, <2>13, KidsSeat
    <3>2. u = v
      BY <2>13 DEF WithKids
    <3>. HIDE DEF v, u
    <3>3. Moves(v, t, p, q, j, kids)
      BY <2>3, <2>5, <2>10, <2>11, <3>1 DEF Moves
    <3>4. \A i, k \in Seats(kids) : j[i] = j[k] => i = k
      BY <2>9, <2>10
    <3>. QED  BY <2>2, <2>3, <2>5, <3>1, <3>2, <3>3, <3>4 DEF Removed
  <2>14. CASE ~IsLayout(t[q])
    <3>1. u = t
      BY <2>14 DEF WithKids
    <3>. HIDE DEF u
    <3>. QED  BY <2>2, <2>3, <2>5, <3>1 DEF Removed
  <2>. QED  BY <2>13, <2>14
<1>4. CASE ok
  <2>1. p \in P /\ Removed(u, t, p)
    BY <1>3, <1>4
  <2>. HIDE DEF u, p
  <2>2. r.tree = u
    BY <1>1, <1>4 DEF Ok
  <2>. QED  BY <1>4, <2>1, <2>2
<1>5. CASE ~ok
  <2>. HIDE DEF ok
  <2>. QED  BY <1>2, <1>5
<1>. QED  BY <1>4, <1>5

\* A removal leaves the id of the parent it found.
LEMMA RemoveKeeps ==
    ASSUME NEW t, NEW U, Fine(t, U), NEW target, NEW r, r = RemoveNode(target, t)
    PROVE  /\ Fine(r.tree, U)
           /\ r.err = "None" => /\ t[<< >>].id # target
                                /\ \E p \in LayoutParents(target, t) : t[p].id \in Ids(r.tree)
<1>0. Good(t) /\ Kin(t, U)
  BY DEF Fine
<1>1. ASSUME NEW p, Removed(r.tree, t, p)
      PROVE  Fine(r.tree, U) /\ t[p].id \in Ids(r.tree)
  <2>. DEFINE u == r.tree
  <2>. HIDE DEF u
  <2>1. PICK q \in DOMAIN t :
          /\ t[q].id = t[p].id
          /\ \/ u = t
             \/ /\ Good(u)
                /\ \E j, kids : /\ Moves(u, t, p, q, j, kids)
                                /\ \A i, k \in Seats(kids) : j[i] = j[k] => i = k
    BY <1>1 DEF Removed, u
  <2>2. CASE u = t
    BY <1>0, <2>1, <2>2 DEF Ids, Fine, u
  <2>3. ASSUME NEW j, NEW kids, Good(u), Moves(u, t, p, q, j, kids),
               \A i, k \in Seats(kids) : j[i] = j[k] => i = k
        PROVE  Fine(u, U) /\ t[p].id \in Ids(u)
    <3>1. Kin(u, U)
      BY <1>0, <2>3, MovesKin
    <3>2. q \in Pos /\ Seated(u, t, q, 0, kids)
      BY <1>0, <2>1, <2>3 DEF Moves, Good, Rooted
    <3>3. q \in DOMAIN u /\ u[q] = t[q]
      BY <2>1, <3>2, UnderSelf DEF Seated
    <3>. QED  BY <2>1, <2>3, <3>1, <3>3 DEF Fine, Ids
  <2>. QED  BY <2>1, <2>2, <2>3 DEF u
<1>2. r.tree = t /\ r.err # "None" => Fine(r.tree, U)
  BY DEF Fine
<1>. QED  BY <1>0, <1>1, <1>2, RemoveMoves

\* The node moved is one of a kind, or there is an id of it where it came from.
LEMMA MovedKin ==
    ASSUME NEW t, NEW U, Fine(t, U), NEW f \in DOMAIN t, f # << >>,
           NEW p \in LayoutParents(t[f].id, t), t[p].id \notin Ids(Sub(t, f))
    PROVE  Fine(Sub(t, f), U)
<1>0. Good(t) /\ Kin(t, U) /\ DOMAIN t \subseteq Pos /\ Good(Sub(t, f))
  BY SubOf DEF Fine, Good, Rooted
<1>1. PICK g \in Pos, s \in Nat : f = Child(g, s) /\ g = Front(f)
  BY <1>0, LastOf
<1>. DEFINE u == Sub(t, Child(g, s))
<1>2. DOMAIN u = {y \in Pos : At(g, s, y) \in DOMAIN t}
  BY <1>0, SubIs
<1>3. ASSUME NEW y \in Pos, At(g, s, y) \in DOMAIN t
      PROVE  u[y] = t[At(g, s, y)]
  BY <1>0, <1>3, SubAt
<1>. HIDE DEF u
<1>4. Good(u) /\ t[p].id \notin Ids(u) /\ f = At(g, s, << >>) /\ << >> \in Pos
  BY <1>0, <1>1, AtEmpty DEF u, Pos
<1>5. ASSUME t[f].id \notin U
      PROVE  t[p].id = t[g].id
  <2>1. PICK i \in Slots(t, p, 0) : t[Child(p, i)].id = t[f].id
    BY DEF LayoutParents, ToSet, KidIds, Child
  <2>2. i \in 1 .. MaxSlots /\ i \in Nat /\ 0 + i = i /\ p \in DOMAIN t
    BY MaxSlotsAssumption DEF Slots, LayoutParents
  <2>3. Child(p, i) \in DOMAIN t /\ p \in Pos
    BY <1>0, <2>2 DEF Slots, Child
  <2>4. Front(Child(p, i)) = p
    BY <2>2, <2>3, FrontLast
  <2>5. CASE Child(p, i) = f
    BY <1>1, <2>4, <2>5
  <2>6. CASE Child(p, i) # f
    <3>1. Cousins(t, Child(p, i), f)
      BY <1>0, <1>5, <2>1, <2>3, <2>6 DEF Kin
    <3>. QED  BY <1>1, <2>4, <3>1 DEF Cousins
  <2>. QED  BY <2>5, <2>6
<1>6. ASSUME NEW z \in DOMAIN u, z # << >>, u[z].id = t[f].id, t[f].id \notin U
      PROVE  FALSE
  <2>1. z \in Pos /\ At(g, s, z) \in DOMAIN t /\ At(g, s, z) # f /\ u[z] = t[At(g, s, z)]
    BY <1>2, <1>3, <1>4, <1>6, AtInjective
  <2>2. Cousins(t, At(g, s, z), f)
    BY <1>0, <1>6, <2>1 DEF Kin
  <2>3. Front(At(g, s, z)) = At(g, s, Front(z)) /\ Front(z) \in DOMAIN u
    BY <1>4, <1>6, <2>1, FrontOfAt DEF Good, Rooted
  <2>4. u[Front(z)] = t[At(g, s, Front(z))]
    BY <1>2, <1>3, <2>3
  <2>5. u[Front(z)].id = t[g].id
    BY <1>1, <2>2, <2>3, <2>4 DEF Cousins
  <2>. QED  BY <1>4, <1>5, <1>6, <2>3, <2>5 DEF Ids
<1>7. << >> \in DOMAIN u /\ u[<< >>] = t[f]
  BY <1>2, <1>3, <1>4
<1>8. Kin(u, U)
  <2>. SUFFICES ASSUME NEW y \in DOMAIN u, NEW z \in DOMAIN u, y # z, u[y].id = u[z].id, u[y].id \notin U
                PROVE  Cousins(u, y, z)
    BY DEF Kin
  <2>1. y # << >> /\ z # << >>
    BY <1>6, <1>7
  <2>2. /\ y \in Pos /\ At(g, s, y) \in DOMAIN t /\ u[y] = t[At(g, s, y)]
        /\ z \in Pos /\ At(g, s, z) \in DOMAIN t /\ u[z] = t[At(g, s, z)]
    BY <1>2, <1>3
  <2>3. At(g, s, y) # At(g, s, z)
    BY <2>2, AtInjective
  <2>4. Cousins(t, At(g, s, y), At(g, s, z))
    BY <1>0, <2>2, <2>3 DEF Kin
  <2>5. Front(At(g, s, y)) = At(g, s, Front(y)) /\ Last(At(g, s, y)) = Last(y)
    BY <2>1, <2>2, FrontOfAt
  <2>6. Front(At(g, s, z)) = At(g, s, Front(z)) /\ Last(At(g, s, z)) = Last(z)
    BY <2>1, <2>2, FrontOfAt
  <2>7. Front(y) \in DOMAIN u /\ Front(z) \in DOMAIN u
    BY <1>4, <2>1 DEF Good, Rooted
  <2>8. u[Front(y)] = t[At(g, s, Front(y))] /\ u[Front(z)] = t[At(g, s, Front(z))]
    BY <1>2, <1>3, <2>7
  <2>. QED  BY <2>1, <2>4, <2>5, <2>6, <2>8 DEF Cousins, IsKid
<1>. QED  BY <1>1, <1>4, <1>8 DEF Fine, u

\* MoveNode goes from a fine tree to a fine one.
LEMMA MoveKeeps ==
    ASSUME NEW t, NEW U, Fine(t, U), NEW target, NEW parent
    PROVE  Fine(MoveNode(target, parent, t).tree, U)
<1>. DEFINE f == Find(target, t)
            child == Sub(t, f)
            r == RemoveNode(target, t)
            m == ThenInsert(parent, child, r)
<1>1. MoveNode(target, parent, t).tree = t \/ (target \in Ids(t) /\ MoveNode(target, parent, t) = m)
  <2>. HIDE DEF m
  <2>1. m = ThenInsert(parent, Sub(t, Find(target, t)), RemoveNode(target, t))
    BY DEF m
  <2>. QED  BY <2>1 DEF MoveNode, Fail
<1>. HIDE DEF r
<1>2. /\ Fine(r.tree, U)
      /\ r.err = "None" => /\ t[<< >>].id # target
                           /\ \E p \in LayoutParents(target, t) : t[p].id \in Ids(r.tree)
  BY RemoveKeeps DEF r
<1>3. ASSUME target \in Ids(t)
      PROVE  Fine(m.tree, U)
  <2>1. f \in DOMAIN t /\ t[f].id = target
    BY <1>3, FindIs DEF Fine
  <2>. HIDE DEF f
  <2>2. CASE r.err # "None"
    <3>1. m = r
      BY <2>2 DEF ThenInsert
    <3>. QED  BY <1>2, <3>1
  <2>3. CASE r.err = "None"
    <3>1. m = InsertChild(parent, child, r.tree)
      BY <2>3 DEF ThenInsert
    <3>2. f # << >>
      BY <1>2, <2>1, <2>3
    <3>3. PICK p \in LayoutParents(target, t) : t[p].id \in Ids(r.tree)
      BY <1>2, <2>3
    <3>. HIDE DEF m, child
    <3>4. CASE t[p].id \in Ids(child)
      <4>1. Ids(child) \intersect Ids(r.tree) # {}
        BY <3>3, <3>4
      <4>2. InsertChild(parent, child, r.tree).tree = r.tree
        BY <4>1 DEF InsertChild, Fail
      <4>. QED  BY <1>2, <3>1, <4>2
    <3>5. CASE t[p].id \notin Ids(child)
      <4>1. Fine(child, U)
        BY <2>1, <3>2, <3>3, <3>5, MovedKin DEF child
      <4>. QED  BY <1>2, <3>1, <4>1, InsertKeeps
    <3>. QED  BY <3>4, <3>5
  <2>. QED  BY <2>2, <2>3
<1>4. CASE MoveNode(target, parent, t).tree = t
  BY <1>4
<1>5. CASE target \in Ids(t) /\ MoveNode(target, parent, t) = m
  <2>. HIDE DEF m
  <2>. QED  BY <1>3, <1>5
<1>. QED  BY <1>1, <1>4, <1>5

\* Where the last of the ids that is this one is, and that k is such a place.
LastPlaceOf(ids, id) == SelectLastInSeq(ids, LAMBDA v : v = id)

StandsAt(k, ids, n, id) == k \in 1 .. n /\ ids[k] = id

LEMMA LastIs ==
    ASSUME NEW ids, NEW n \in Nat, ids \in Seq(Range(ids)), DOMAIN ids = 1 .. n, NEW id,
           NEW k, StandsAt(k, ids, n, id)
    PROVE  StandsAt(LastPlaceOf(ids, id), ids, n, id)
<1>. DEFINE I == {i \in 1 .. Len(ids) : ids[i] = id}
            T == {n - i : i \in I}
<1>1. Len(ids) = n
  OBVIOUS
<1>2. k \in I /\ I \subseteq 1 .. n
  BY <1>1 DEF StandsAt
<1>3. LastPlaceOf(ids, id) = Max(I)
  <2>. HIDE DEF T
  <2>. QED  BY <1>2 DEF LastPlaceOf, SelectLastInSeq
<1>. HIDE DEF I
<1>4. T \subseteq Nat /\ T # {}
  BY <1>2
<1>5. PICK m \in T : \A l \in T : m <= l
  <2>. HIDE DEF T
  <2>. QED  BY <1>4, LeastIn
<1>6. PICK i \in I : m = n - i
  OBVIOUS
<1>7. \A l \in I : i >= l
  <2>. SUFFICES ASSUME NEW l \in I
                PROVE  i >= l
    OBVIOUS
  <2>1. n - i <= n - l
    BY <1>5, <1>6
  <2>. QED  BY <1>2, <2>1
<1>8. Max(I) \in I
  BY <1>7 DEF Max
<1>. QED  BY <1>2, <1>3, <1>8 DEF I, StandsAt

\* Two are two at least.
LEMMA TwoOf ==
    ASSUME NEW A, IsFiniteSet(A), NEW i \in A, NEW k \in A, i # k
    PROVE  Cardinality(A) \in Nat /\ 2 <= Cardinality(A)
<1>1. Cardinality({i, k}) = 2
  <2>1. IsFiniteSet({i}) /\ Cardinality({i}) = 1
    BY FS_Singleton
  <2>2. {i, k} = {i} \union {k} /\ k \notin {i}
    OBVIOUS
  <2>3. Cardinality({i} \union {k}) = Cardinality({i}) + 1
    BY <2>1, <2>2, FS_AddElement
  <2>. QED  BY <2>1, <2>2, <2>3
<1>2. {i, k} \in SUBSET A
  OBVIOUS
<1>. QED  BY <1>1, <1>2, FS_Subset, FS_CardinalityType

\* As many of them here as there: two here, two there.
LEMMA TwiceHere ==
    ASSUME NEW A, NEW B, IsFiniteSet(A), IsFiniteSet(B), Cardinality(A) = Cardinality(B),
           NEW i \in A, NEW k \in A, i # k
    PROVE  \E l, m \in B : l # m
<1>1. 2 <= Cardinality(A)
  BY TwoOf
<1>2. B # {}
  BY <1>1, FS_EmptySet
<1>3. PICK l \in B : TRUE
  BY <1>2
<1>4. B # {l}
  <2>1. Cardinality({l}) = 1
    BY FS_Singleton
  <2>. QED  BY <1>1, <2>1
<1>. QED  BY <1>3, <1>4

\* u is t with the children of p in another order, or one of them in the place of
\* another with its id, where the id is the op's own.
Reordered(u, t, U) ==
    \/ u = t
    \/ /\ Good(u)
       /\ \E p \in DOMAIN t : \E j, kids :
            /\ Moves(u, t, p, p, j, kids)
            /\ \A i, k \in Seats(kids) : i # k /\ j[i] = j[k] => t[Child(p, j[i])].id \in U

\* ReorderChildren may repeat one of two children with one id: the id was the op's
\* own, or no two children of one node had it.
LEMMA ReorderMoves ==
    ASSUME NEW t, NEW U, Fine(t, U), NEW parent, NEW order
    PROVE  Reordered(ReorderChildren(parent, order, t).tree, t, U)
<1>. DEFINE p == Find(parent, t)
            ids == KidIds(t, p)
            at(id) == SelectLastInSeq(ids, LAMBDA k : k = id)
            kids == [i \in DOMAIN order |-> Sub(t, Append(p, at(order[i])))]
            u == WithKids(t, p, kids)
            of(id, s) == {i \in DOMAIN s : s[i] = id}
            same == /\ DOMAIN order = DOMAIN ids
                    /\ \A id \in ToSet(order) \union ToSet(ids) :
                         Cardinality(of(id, order)) = Cardinality(of(id, ids))
            ok == parent \in Ids(t) /\ IsLayout(t[p]) /\ same
<1>0. Good(t) /\ Kin(t, U)
  BY DEF Fine
<1>1. ok => ReorderChildren(parent, order, t) = Ok(u)
  <2>. QED  BY DEF ReorderChildren
<1>2. ~ok => ReorderChildren(parent, order, t).tree = t
  BY DEF ReorderChildren, Fail
<1>3. ASSUME ok
      PROVE  Reordered(u, t, U)
  <2>1. p \in DOMAIN t /\ p \in Pos /\ IsLayout(t[p])
    BY <1>0, <1>3, FindIs
  <2>. HIDE DEF p
  <2>2. PICK n : HeldAre(t, p, n)
    BY <1>0, <2>1, HeldIs
  <2>3. n \in Nat /\ \A i \in 1 .. n : i \in 1 .. MaxSlots /\ i \in Nat
    BY <2>2, MaxSlotsAssumption DEF HeldAre
  <2>4. \A i \in 1 .. n : Child(p, i) \in DOMAIN t /\ Good(Sub(t, Child(p, i)))
    BY <2>2, <2>3 DEF HeldAre
  <2>5. ids = [i \in 1 .. n |-> t[Child(p, i)].id]
    <3>1. DOMAIN Held(t, p) = Slots(t, p, 0)
      BY DEF Held
    <3>. QED  BY <2>2, <3>1 DEF KidIds, Child, HeldAre
  <2>6. /\ DOMAIN order = 1 .. n
        /\ \A id \in ToSet(order) \union ToSet(ids) : Cardinality(of(id, order)) = Cardinality(of(id, ids))
    BY <1>3, <2>5
  <2>7. DOMAIN ids = 1 .. n /\ ids \in Seq(Range(ids)) /\ \A i \in 1 .. n : ids[i] = t[Child(p, i)].id
    BY <2>3, <2>5 DEF Range
  <2>. HIDE DEF ids
  <2>8. \A id : IsFiniteSet(of(id, order)) /\ IsFiniteSet(of(id, ids))
    <3>1. IsFiniteSet(1 .. n)
      BY <2>3, FS_Interval
    <3>2. \A id : of(id, order) \in SUBSET (1 .. n) /\ of(id, ids) \in SUBSET (1 .. n)
      BY <2>6, <2>7
    <3>. HIDE DEF of
    <3>. QED  BY <3>1, <3>2, FS_Subset
  <2>9. ASSUME NEW i \in 1 .. n
        PROVE  at(order[i]) \in 1 .. n /\ ids[at(order[i])] = order[i] /\ order[i] \in ToSet(order)
    <3>1. order[i] \in ToSet(order) /\ i \in of(order[i], order)
      BY <2>6 DEF ToSet
    <3>2. of(order[i], ids) # {}
      <4>1. Cardinality(of(order[i], order)) = Cardinality(of(order[i], ids))
        BY <2>6, <3>1
      <4>. HIDE DEF of
      <4>. QED  BY <2>8, <3>1, <4>1, FS_EmptySet
    <3>3. PICK k \in 1 .. n : ids[k] = order[i]
      BY <2>7, <3>2
    <3>4. at(order[i]) \in 1 .. n /\ ids[at(order[i])] = order[i]
      <4>1. StandsAt(k, ids, n, order[i])
        BY <3>3 DEF StandsAt
      <4>2. StandsAt(LastPlaceOf(ids, order[i]), ids, n, order[i])
        BY <2>3, <2>7, <4>1, LastIs
      <4>3. at(order[i]) = LastPlaceOf(ids, order[i])
        BY DEF LastPlaceOf
      <4>. HIDE DEF at
      <4>. QED  BY <4>2, <4>3 DEF StandsAt
    <3>. QED  BY <3>1, <3>4
  <2>. DEFINE j == [i \in 1 .. n |-> at(order[i])]
  <2>10. \A i \in 1 .. n : j[i] \in 1 .. n /\ ids[j[i]] = order[i] /\ kids[i] = Sub(t, Child(p, j[i]))
    BY <2>6, <2>9 DEF Child
  <2>11. DOMAIN kids = 1 .. n /\ Seats(kids) = 1 .. n
    BY <2>3, <2>6 DEF Seats
  <2>. HIDE DEF kids, at, j
  <2>12. GoodSubs(kids)
    <3>1. \A i \in 1 .. n : Good(kids[i])
      BY <2>4, <2>10
    <3>2. \A i \in 1 .. n : i # 1 => i - 1 \in 1 .. n
      BY <2>3
    <3>. QED  BY <2>11, <3>1, <3>2 DEF GoodSubs
  <2>. DEFINE v == WithSlots(t, p, 0, kids)
  <2>13. Good(v) /\ Seated(v, t, p, 0, kids)
    BY <1>0, <2>1, <2>12, KidsSeat
  <2>14. u = v
    BY <2>1 DEF WithKids
  <2>. HIDE DEF v, u
  <2>15. Moves(v, t, p, p, j, kids)
    <3>1. \A i \in 1 .. n : j[i] \in 1 .. MaxSlots /\ Child(p, j[i]) \in DOMAIN t
      BY <2>3, <2>4, <2>10
    <3>. QED  BY <1>0, <2>1, <2>10, <2>11, <2>13, <3>1 DEF Moves
  <2>16. ASSUME NEW i \in 1 .. n, NEW k \in 1 .. n, i # k, j[i] = j[k]
         PROVE  t[Child(p, j[i])].id \in U
    <3>. DEFINE id == order[i]
    <3>1. order[k] = id /\ id \in ToSet(order)
      BY <2>9, <2>10, <2>16
    <3>2. Cardinality(of(id, order)) = Cardinality(of(id, ids))
      BY <2>6, <3>1
    <3>3. i \in of(id, order) /\ k \in of(id, order)
      BY <2>6, <3>1
    <3>4. \E l, m \in of(id, ids) : l # m
      <4>. HIDE DEF of
      <4>. QED  BY <2>8, <2>16, <3>2, <3>3, TwiceHere
    <3>5. PICK l \in 1 .. n, m \in 1 .. n : l # m /\ ids[l] = id /\ ids[m] = id
      BY <2>7, <3>4
    <3>6. Front(Child(p, l)) = p /\ Last(Child(p, l)) = l /\ Front(Child(p, m)) = p /\ Last(Child(p, m)) = m
      BY <2>1, <2>3, FrontLast
    <3>7. Child(p, l) # Child(p, m) /\ ~Cousins(t, Child(p, l), Child(p, m))
      BY <3>5, <3>6 DEF Cousins
    <3>8. t[Child(p, l)].id = id /\ t[Child(p, m)].id = id /\ t[Child(p, j[i])].id = id
      BY <2>7, <2>10, <3>5
    <3>9. Child(p, l) \in DOMAIN t /\ Child(p, m) \in DOMAIN t
      BY <2>4
    <3>. QED  BY <1>0, <3>7, <3>8, <3>9 DEF Kin
  <2>17. \A i, k \in Seats(kids) : i # k /\ j[i] = j[k] => t[Child(p, j[i])].id \in U
    BY <2>11, <2>16
  <2>. QED  BY <2>1, <2>13, <2>14, <2>15, <2>17 DEF Reordered
<1>4. CASE ok
  <2>1. Reordered(u, t, U)
    BY <1>3, <1>4
  <2>2. ReorderChildren(parent, order, t) = Ok(u)
    BY <1>1, <1>4
  <2>. HIDE DEF u, ok
  <2>. QED  BY <2>1, <2>2 DEF Ok
<1>5. CASE ~ok
  <2>. HIDE DEF ok
  <2>. QED  BY <1>2, <1>5 DEF Reordered
<1>. QED  BY <1>4, <1>5

\* So does ReorderChildren.
LEMMA ReorderKeeps ==
    ASSUME NEW t, NEW U, Fine(t, U), NEW parent, NEW order
    PROVE  Fine(ReorderChildren(parent, order, t).tree, U)
<1>. DEFINE u == ReorderChildren(parent, order, t).tree
<1>. HIDE DEF u
<1>1. Reordered(u, t, U)
  BY ReorderMoves DEF u
<1>2. ASSUME NEW p \in DOMAIN t, NEW j, NEW kids, Moves(u, t, p, p, j, kids),
             \A i, k \in Seats(kids) : i # k /\ j[i] = j[k] => t[Child(p, j[i])].id \in U
      PROVE  Kin(u, U)
  BY <1>2, MovesKin DEF Fine
<1>. QED  BY <1>1, <1>2 DEF Reordered, Fine, u

-----------------------------------------------------------------------------
(***************************************************************************)
(* An op, and what apply reads of its result.                              *)
(***************************************************************************)
\* The nodes an op may carry are the good trees.
LEMMA NodeIsGood ==
    ASSUME NEW n
    PROVE  IsNode(n) <=> Good(n)
<1>1. Good(n) => IsFiniteSet(DOMAIN n) /\ DOMAIN n \subseteq Pos
  BY DEF Good, Rooted
<1>. QED  BY <1>1, GoodIs DEF IsNode, Pos

\* What a row is.
LEMMA RowIs ==
    ASSUME NEW s, InARow(s)
    PROVE  Len(s) \in Nat /\ DOMAIN s = 1 .. Len(s)
BY DEF InARow

\* Nodes in a row, of ids the op brings.
LEMMA RowFits ==
    ASSUME NEW s, AreNodes(s), NEW U, \A n \in ToSet(s) : Ids(n) \subseteq U
    PROVE  GoodSubs(s) /\ \A i \in Seats(s) : Ids(s[i]) \subseteq U
<1>1. PICK n \in Nat : DOMAIN s = 1 .. n
  BY RowIs DEF AreNodes
<1>2. \A i \in DOMAIN s : Good(s[i])
  BY NodeIsGood DEF AreNodes
<1>3. \A i \in Seats(s) : i \in DOMAIN s /\ (i # 1 => i - 1 \in Seats(s))
  BY <1>1, MaxSlotsAssumption DEF Seats
<1>. QED  BY <1>2, <1>3 DEF GoodSubs, ToSet

\* Every op that is not a Batch goes from a fine tree to a fine one.
LEMMA EditKeeps ==
    ASSUME NEW t, NEW U, Fine(t, U), NEW e, IsEdit(e), \A n \in Carried(e) : Ids(n) \subseteq U
    PROVE  Fine(ApplyEdit(e, t).tree, U)
<1>1. CASE e.tag = "InsertChild"
  <2>1. Good(e.child) /\ Ids(e.child) \subseteq U
    BY <1>1, NodeIsGood DEF IsEdit, Carried
  <2>2. Fine(e.child, U)
    BY <2>1, BroughtFine
  <2>3. ApplyEdit(e, t) = InsertChild(e.parent, e.child, t)
    BY <1>1 DEF ApplyEdit
  <2>. QED  BY <2>2, <2>3, InsertKeeps
<1>2. CASE e.tag = "RemoveNode"
  <2>1. ApplyEdit(e, t) = RemoveNode(e.target, t)
    BY <1>2 DEF ApplyEdit
  <2>. QED  BY <2>1, RemoveKeeps
<1>3. CASE e.tag = "MoveNode"
  <2>1. ApplyEdit(e, t) = MoveNode(e.target, e.parent, t)
    BY <1>3 DEF ApplyEdit
  <2>. QED  BY <2>1, MoveKeeps
<1>4. CASE e.tag = "ReorderChildren"
  <2>1. ApplyEdit(e, t) = ReorderChildren(e.parent, e.order, t)
    BY <1>4 DEF ApplyEdit
  <2>. QED  BY <2>1, ReorderKeeps
<1>5. CASE e.tag = "UpdateProp"
  <2>1. ApplyEdit(e, t) = UpdateProp(e.target, e.value, t)
    BY <1>5 DEF ApplyEdit
  <2>. QED  BY <2>1, PropKeeps
<1>6. CASE e.tag = "EditNode"
  <2>1. ApplyEdit(e, t) = EditNode(e.target, e.newKind, t)
    BY <1>6 DEF ApplyEdit
  <2>2. IsKind(e.newKind) /\ \A n \in ToSet(e.newKind.kids) : Ids(n) \subseteq U
    BY <1>6 DEF IsEdit, Carried
  <2>3. GoodSubs(e.newKind.kids) /\ \A i \in Seats(e.newKind.kids) : Ids(e.newKind.kids[i]) \subseteq U
    BY <2>2, RowFits DEF IsKind
  <2>4. e.newKind.kind \in {"Modal", "Leaf"} => Seats(e.newKind.kids) = {}
    BY <2>2 DEF IsKind, Seats
  <2>5. KindFits(e.newKind, U)
    BY <2>2, <2>3, <2>4 DEF KindFits, IsKind
  <2>. QED  BY <2>1, <2>5, KindKeeps
<1>7. CASE e.tag = "UpdateState"
  <2>1. ApplyEdit(e, t) = UpdateState(e.target, e.arms, t)
    BY <1>7 DEF ApplyEdit
  <2>2. AreNodes(e.arms) /\ \A n \in ToSet(e.arms) : Ids(n) \subseteq U
    BY <1>7 DEF IsEdit, Carried
  <2>3. GoodSubs(e.arms) /\ \A i \in Seats(e.arms) : Ids(e.arms[i]) \subseteq U
    BY <2>2, RowFits
  <2>. QED  BY <2>1, <2>3, StateKeeps
<1>8. CASE e.tag = "SetTrait"
  <2>1. ApplyEdit(e, t) = SetTrait(e.target, e.value, t)
    BY <1>8 DEF ApplyEdit
  <2>. QED  BY <2>1, TraitKeeps
<1>9. CASE e.tag = "ReplaceRoot"
  <2>1. Good(e.node) /\ Ids(e.node) \subseteq U
    BY <1>9, NodeIsGood DEF IsEdit, Carried
  <2>2. Fine(e.node, U)
    BY <2>1, BroughtFine
  <2>3. ApplyEdit(e, t) = Ok(e.node)
    BY <1>9 DEF ApplyEdit
  <2>. QED  BY <2>2, <2>3 DEF Ok
<1>. QED  BY <1>1, <1>2, <1>3, <1>4, <1>5, <1>6, <1>7, <1>8, <1>9 DEF IsEdit

\* A Batch goes from one fine tree to the next.
LEMMA OneKeeps ==
    ASSUME NEW t, NEW U, Fine(t, U), NEW op, IsOp(op), \A n \in Installed(op) : Ids(n) \subseteq U
    PROVE  Fine(ApplyOne(op, t).tree, U)
<1>1. CASE op.tag # "Batch"
  <2>1. Edits(op) = <<op>>
    BY <1>1 DEF Edits
  <2>2. Carried(op) \subseteq Installed(op)
    <3>1. 1 \in DOMAIN <<op>> /\ <<op>>[1] = op
      OBVIOUS
    <3>. QED  BY <2>1, <3>1 DEF Installed
  <2>3. ApplyOne(op, t) = ApplyEdit(op, t)
    BY <1>1 DEF ApplyOne
  <2>. QED  BY <1>1, <2>2, <2>3, EditKeeps DEF IsOp
<1>2. CASE op.tag = "Batch"
  <2>1. InARow(op.ops) /\ \A i \in DOMAIN op.ops : IsEdit(op.ops[i])
    BY <1>2 DEF IsOp
  <2>2. PICK n \in Nat : DOMAIN op.ops = 1 .. n
    BY <2>1, RowIs
  <2>3. ASSUME NEW i \in 1 .. n
        PROVE  IsEdit(op.ops[i]) /\ \A m \in Carried(op.ops[i]) : Ids(m) \subseteq U
    BY <1>2, <2>1, <2>2 DEF Installed, Edits
  <2>4. PICK h : Runs(h, "batch", Ok(t), op.ops, t, n) /\ Batched(t, op.ops) = h[n]
    BY <2>2, BatchRuns
  <2>5. ApplyOne(op, t) = Batched(t, op.ops)
    BY <1>2 DEF ApplyOne, Batched
  <2>. DEFINE T == {i \in Nat : i <= n /\ ~Fine(h[i].tree, U)}
  <2>6. ASSUME T # {}
        PROVE  FALSE
    <3>1. PICK i \in T : \A k \in T : i <= k
      <4>1. T \subseteq Nat
        OBVIOUS
      <4>. HIDE DEF T
      <4>. QED  BY <2>6, <4>1, LeastIn
    <3>2. i # 0
      BY <2>4, <3>1 DEF Runs, Ok
    <3>3. i - 1 \in Nat /\ i - 1 \notin T /\ i - 1 <= n /\ i \in 1 .. n
      BY <3>1, <3>2
    <3>. DEFINE acc == h[i - 1]
    <3>4. Fine(acc.tree, U)
      BY <3>3
    <3>5. h[i] = Step("batch", acc, op.ops[i], t)
      BY <2>4, <3>3 DEF Runs
    <3>. HIDE DEF acc
    <3>6. Fine(ApplyEdit(op.ops[i], acc.tree).tree, U)
      BY <2>3, <3>3, <3>4, EditKeeps
    <3>7. Fine(OrAborted(ApplyEdit(op.ops[i], acc.tree), t).tree, U)
      BY <3>6 DEF OrAborted, Fail
    <3>8. Fine(h[i].tree, U)
      BY <3>4, <3>5, <3>7 DEF Step
    <3>. QED  BY <3>1, <3>8
  <2>7. Fine(h[n].tree, U)
    BY <2>6
  <2>. QED  BY <2>4, <2>5, <2>7
<1>. QED  BY <1>1, <1>2

\* An op accepted leaves a tree, and each id once where each was held once.
LEMMA OpKeeps ==
    ASSUME NEW t, Good(t), NEW op, IsOp(op), ApplyOp(op, t).err = "None"
    PROVE  Good(ApplyOp(op, t).tree) /\ (Unique(t) => Unique(ApplyOp(op, t).tree))
<1>. DEFINE r == ApplyOne(op, t)
            U == UNION {Ids(n) : n \in Installed(op)}
            u == r.tree
<1>1. ApplyOp(op, t) = r /\ ~InstalledDuplicate(op, u)
  <2>. HIDE DEF r
  <2>. QED  BY DEF ApplyOp, Checked, Fail, r
<1>. HIDE DEF r
<1>2. \A n \in Installed(op) : Ids(n) \subseteq U
  OBVIOUS
<1>3. Good(u)
  <2>. DEFINE W == U \union Ids(t)
  <2>1. Fine(t, W)
    BY DEF Fine, Kin, Ids
  <2>2. \A n \in Installed(op) : Ids(n) \subseteq W
    BY <1>2
  <2>. HIDE DEF W
  <2>3. Fine(u, W)
    BY <2>1, <2>2, OneKeeps DEF r
  <2>. QED  BY <2>3 DEF Fine
<1>4. ASSUME Unique(t)
      PROVE  Unique(u)
  <2>1. Fine(t, U)
    BY <1>4, UniqueIsKin DEF Fine
  <2>2. Fine(u, U)
    <3>. HIDE DEF U
    <3>. QED  BY <1>2, <2>1, OneKeeps DEF r
  <2>3. ASSUME NEW x \in DOMAIN u, NEW y \in DOMAIN u, u[x].id \in U, u[x].id = u[y].id, x # y
        PROVE  FALSE
    <3>1. PICK n \in Installed(op) : u[x].id \in Ids(n)
      BY <2>3
    <3>. DEFINE A == {z \in DOMAIN u : u[z].id = u[x].id}
    <3>2. IsFiniteSet(A)
      <4>1. IsFiniteSet(DOMAIN u) /\ A \in SUBSET DOMAIN u
        BY <1>3 DEF Good, Rooted
      <4>. HIDE DEF A
      <4>. QED  BY <4>1, FS_Subset
    <3>3. x \in A /\ y \in A
      BY <2>3
    <3>4. ~(Cardinality(A) > 1)
      BY <1>1, <3>1 DEF InstalledDuplicate, Copies
    <3>. HIDE DEF A
    <3>5. Cardinality(A) \in Nat /\ 2 <= Cardinality(A)
      BY <2>3, <3>2, <3>3, TwoOf
    <3>. QED  BY <3>4, <3>5
  <2>. QED  BY <1>3, <2>2, <2>3, KinIsUnique DEF Fine
<1>. QED  BY <1>1, <1>3, <1>4

\* Whoever holds a document, each addressable id once, and lets the engine edit it
\* holds one after: the runtime counts on it to find each node by its id.
THEOREM EngineIsSound ==
    ASSUME NEW ops, \A op \in ops : IsOp(op)
    PROVE  EngineKeeps(ops)
<1>1. ASSUME NEW op \in ops, NEW t, IsDocument(t), ApplyOp(op, t).err = "None"
      PROVE  IsDocument(ApplyOp(op, t).tree)
  <2>. DEFINE u == ApplyOp(op, t).tree
  <2>1. Good(t) /\ Unique(t) /\ IsOp(op)
    BY <1>1, NodeIsGood DEF IsDocument
  <2>2. Good(u) /\ Unique(u)
    BY <1>1, <2>1, OpKeeps
  <2>. HIDE DEF u
  <2>3. IsDocument(u)
    BY <2>2, NodeIsGood DEF IsDocument
  <2>. QED  BY <2>3 DEF u
<1>. QED  BY <1>1 DEF EngineKeeps

-----------------------------------------------------------------------------
(***************************************************************************)
(* The limits.  An op that puts no node in and moves none leaves no node   *)
(* that was not there, and none deeper than it was: where each id is held  *)
(* once, the tree is no bigger than it was.                                *)
(***************************************************************************)
\* Every node of u is one of t, which was no less deep and held no less sealed.
Shrinks(u, t) ==
    \A x \in DOMAIN u : \E o \in DOMAIN t :
      t[o].id = u[x].id /\ Len(x) <= Len(o) /\ Down(u[x]) \subseteq Down(t[o])

\* Where nothing is the op's own, fine is good and unique.
LEMMA FineIsUnique ==
    ASSUME NEW t
    PROVE  Fine(t, {}) <=> Good(t) /\ Unique(t)
<1>1. Fine(t, {}) => Unique(t)
  BY KinIsUnique DEF Fine
<1>. QED  BY <1>1, UniqueIsKin DEF Fine

\* A tree as it was, or with other fields, is no bigger.
LEMMA SameShrinks ==
    ASSUME NEW t, Good(t), NEW u, DOMAIN u \subseteq DOMAIN t,
           \A x \in DOMAIN u : u[x].id = t[x].id /\ Down(u[x]) \subseteq Down(t[x])
    PROVE  Shrinks(u, t)
<1>1. \A x \in DOMAIN t : Len(x) \in Nat
  BY DEF Good, Rooted, Pos
<1>. QED  BY <1>1 DEF Shrinks

\* A tree no bigger than one no bigger than a third is no bigger than that.
LEMMA ShrinksOn ==
    ASSUME NEW t, NEW u, NEW v, Good(t), Good(u), Good(v), Shrinks(u, t), Shrinks(v, u)
    PROVE  Shrinks(v, t)
<1>1. \A x : x \in DOMAIN t \/ x \in DOMAIN u \/ x \in DOMAIN v => Len(x) \in Nat
  BY DEF Good, Rooted, Pos
<1>2. ASSUME NEW x \in DOMAIN v
      PROVE  \E o \in DOMAIN t : t[o].id = v[x].id /\ Len(x) <= Len(o) /\ Down(v[x]) \subseteq Down(t[o])
  <2>1. PICK w \in DOMAIN u : u[w].id = v[x].id /\ Len(x) <= Len(w) /\ Down(v[x]) \subseteq Down(u[w])
    BY DEF Shrinks
  <2>2. PICK o \in DOMAIN t : t[o].id = u[w].id /\ Len(w) <= Len(o) /\ Down(u[w]) \subseteq Down(t[o])
    BY DEF Shrinks
  <2>. QED  BY <1>1, <2>1, <2>2
<1>. QED  BY <1>2 DEF Shrinks

\* Children that change places stay as deep as they are.
LEMMA MovesShrink ==
    ASSUME NEW u, NEW t, NEW p, NEW j, NEW subs, Moves(u, t, p, p, j, subs)
    PROVE  Shrinks(u, t)
<1>1. \A x \in DOMAIN t : Len(x) \in Nat
  BY DEF Moves, Good, Rooted, Pos
<1>2. ASSUME NEW x \in DOMAIN u
      PROVE  \E o \in DOMAIN t : t[o].id = u[x].id /\ Len(x) <= Len(o) /\ Down(u[x]) \subseteq Down(t[o])
  <2>1. PICK o \in DOMAIN t : From(x, o, t, p, p, j, subs) /\ u[x] = t[o]
    BY FromIs
  <2>2. CASE o = x
    BY <1>1, <2>1, <2>2
  <2>3. ASSUME NEW i, NEW y, Came(x, p, i, y, subs), o = At(p, j[i], y)
        PROVE  Len(x) <= Len(o)
    <3>1. i \in Nat /\ j[i] \in Nat /\ y \in Pos /\ p \in Pos
      BY <2>3, CameIs
    <3>2. Len(At(p, i, y)) = Len(p) + 1 + Len(y)
      BY <3>1, AtSits DEF Sits
    <3>3. PICK k \in Nat : k = j[i]
      BY <3>1
    <3>4. Len(At(p, k, y)) = Len(p) + 1 + Len(y)
      BY <3>1, AtSits DEF Sits
    <3>5. Len(x) = Len(o)
      BY <2>3, <3>2, <3>3, <3>4 DEF Came
    <3>. QED  BY <1>1, <3>5
  <2>. QED  BY <2>1, <2>2, <2>3 DEF From
<1>. QED  BY <1>2 DEF Shrinks

\* Slots emptied leave what was not in them.
LEMMA EmptyShrinks ==
    ASSUME NEW t, Good(t), NEW v, DOMAIN v = DOMAIN t,
           \A x \in DOMAIN t : v[x].id = t[x].id /\ Down(v[x]) \subseteq Down(t[x]),
           NEW p \in DOMAIN t, NEW first \in Nat, NEW subs, Seats(subs) = {}
    PROVE  Shrinks(WithSlots(v, p, first, subs), t)
<1>. DEFINE u == WithSlots(v, p, first, subs)
<1>1. DOMAIN v \subseteq Pos /\ p \in Pos
  BY DEF Good, Rooted
<1>2. Seated(u, v, p, first, subs)
  BY <1>1, SlotsSeat
<1>. HIDE DEF u
<1>3. \A x \in DOMAIN u : x \in DOMAIN v /\ u[x] = v[x]
  BY <1>2 DEF Seated
<1>4. Shrinks(u, t)
  BY <1>3, SameShrinks
<1>. QED  BY <1>4 DEF u

\* A row that holds no node has no slot for one.
LEMMA EmptyRow ==
    ASSUME NEW s, ToSet(s) = {}
    PROVE  Seats(s) = {}
BY DEF ToSet, Seats

\* An edit that puts no node in, and is not a move, on a tree that holds each id once.
LEMMA EditShrinks ==
    ASSUME NEW t, Fine(t, {}), NEW e, IsEdit(e), Carried(e) = {}, e.tag # "MoveNode"
    PROVE  Shrinks(ApplyEdit(e, t).tree, t)
<1>0. Good(t) /\ Unique(t) /\ Shrinks(t, t)
  BY FineIsUnique, SameShrinks
<1>1. CASE e.tag = "RemoveNode"
  <2>. DEFINE r == RemoveNode(e.target, t)
              u == r.tree
  <2>1. u = t \/ \E p : Removed(u, t, p)
    BY <1>0, RemoveMoves
  <2>. HIDE DEF u, r
  <2>2. ASSUME NEW p, Removed(u, t, p)
        PROVE  Shrinks(u, t)
    <3>1. PICK q \in DOMAIN t :
            /\ t[q].id = t[p].id
            /\ u = t \/ \E j, kids : Moves(u, t, p, q, j, kids)
      BY <2>2 DEF Removed
    <3>2. q = p
      BY <1>0, <2>2, <3>1 DEF Unique, Removed
    <3>. QED  BY <1>0, <3>1, <3>2, MovesShrink
  <2>3. ApplyEdit(e, t) = RemoveNode(e.target, t)
    BY <1>1 DEF ApplyEdit
  <2>. QED  BY <1>0, <2>1, <2>2, <2>3 DEF u, r
<1>2. CASE e.tag = "ReorderChildren"
  <2>. DEFINE u == ReorderChildren(e.parent, e.order, t).tree
  <2>1. Reordered(u, t, {})
    BY ReorderMoves
  <2>. HIDE DEF u
  <2>2. Shrinks(u, t)
    BY <1>0, <2>1, MovesShrink DEF Reordered
  <2>3. ApplyEdit(e, t) = ReorderChildren(e.parent, e.order, t)
    BY <1>2 DEF ApplyEdit
  <2>. QED  BY <2>2, <2>3 DEF u
<1>3. CASE e.tag = "UpdateProp"
  <2>. DEFINE p == Find(e.target, t)
              u == [t EXCEPT ![p].prop = e.value]
              r == UpdateProp(e.target, e.value, t)
  <2>1. r.tree = t \/ (e.target \in Ids(t) /\ r.tree = u)
    <3>. HIDE DEF u, p
    <3>. QED  BY DEF UpdateProp, Fail, Ok, u, p
  <2>2. ASSUME e.target \in Ids(t)
        PROVE  Shrinks(u, t)
    <3>1. p \in DOMAIN t
      BY <1>0, <2>2, FindIs
    <3>. HIDE DEF p
    <3>2. DOMAIN t[p] = {"id", "kind", "prop", "sealed", "trait", "state"}
      BY <1>0, <3>1 DEF Good, GoodAt, LabelOk, Label
    <3>3. DOMAIN u = DOMAIN t /\ \A x \in DOMAIN t : u[x].id = t[x].id /\ u[x].sealed = t[x].sealed
      BY <3>1, <3>2
    <3>. HIDE DEF u
    <3>4. \A x \in DOMAIN t : Down(u[x]) \subseteq Down(t[x])
      BY <3>3 DEF Down
    <3>. QED  BY <1>0, <3>3, <3>4, SameShrinks
  <2>3. ApplyEdit(e, t) = r
    BY <1>3 DEF ApplyEdit
  <2>. HIDE DEF r, u
  <2>. QED  BY <1>0, <2>1, <2>2, <2>3
<1>4. CASE e.tag = "SetTrait"
  <2>. DEFINE p == Find(e.target, t)
              u == [t EXCEPT ![p].trait = e.value @@ @]
              r == SetTrait(e.target, e.value, t)
  <2>1. r.tree = t \/ (e.target \in Ids(t) /\ r.tree = u)
    <3>. HIDE DEF u, p
    <3>. QED  BY DEF SetTrait, Fail, Ok, u, p
  <2>2. ASSUME e.target \in Ids(t)
        PROVE  Shrinks(u, t)
    <3>1. p \in DOMAIN t
      BY <1>0, <2>2, FindIs
    <3>. HIDE DEF p
    <3>2. DOMAIN t[p] = {"id", "kind", "prop", "sealed", "trait", "state"}
      BY <1>0, <3>1 DEF Good, GoodAt, LabelOk, Label
    <3>3. DOMAIN u = DOMAIN t /\ \A x \in DOMAIN t : u[x].id = t[x].id /\ u[x].sealed = t[x].sealed
      BY <3>1, <3>2
    <3>. HIDE DEF u
    <3>4. \A x \in DOMAIN t : Down(u[x]) \subseteq Down(t[x])
      BY <3>3 DEF Down
    <3>. QED  BY <1>0, <3>3, <3>4, SameShrinks
  <2>3. ApplyEdit(e, t) = r
    BY <1>4 DEF ApplyEdit
  <2>. HIDE DEF r, u
  <2>. QED  BY <1>0, <2>1, <2>2, <2>3
<1>5. CASE e.tag = "EditNode"
  <2>. DEFINE p == Find(e.target, t)
              k == e.newKind
              v == [t EXCEPT ![p].kind = k.kind, ![p].prop = k.prop, ![p].sealed = k.sealed]
              u == WithSlots(v, p, 0, k.kids)
              r == EditNode(e.target, k, t)
  <2>1. r.tree = t \/ (e.target \in Ids(t) /\ r.tree = u)
    <3>. HIDE DEF v, p
    <3>. QED  BY DEF EditNode, Fail, Ok, v, p
  <2>2. ASSUME e.target \in Ids(t)
        PROVE  Shrinks(u, t)
    <3>1. p \in DOMAIN t
      BY <1>0, <2>2, FindIs
    <3>. HIDE DEF p
    <3>2. DOMAIN t[p] = {"id", "kind", "prop", "sealed", "trait", "state"}
      BY <1>0, <3>1 DEF Good, GoodAt, LabelOk, Label
    <3>3. /\ DOMAIN v = DOMAIN t /\ \A x \in DOMAIN t : v[x].id = t[x].id
          /\ v[p].sealed = k.sealed /\ \A x \in DOMAIN t : x # p => v[x].sealed = t[x].sealed
      BY <3>1, <3>2
    <3>4. Seats(k.kids) = {} /\ ToSet(k.sealed) = {}
      BY <1>5, EmptyRow DEF Carried
    <3>. HIDE DEF v, k
    <3>5. ASSUME NEW x \in DOMAIN t
          PROVE  Down(v[x]) \subseteq Down(t[x])
      <4>1. CASE x = p
        <5>1. DOMAIN v[p].sealed = {}
          BY <3>3, <3>4 DEF ToSet
        <5>. QED  BY <4>1, <5>1 DEF Down
      <4>2. CASE x # p
        <5>1. v[x].sealed = t[x].sealed
          BY <3>3, <4>2
        <5>. QED  BY <5>1 DEF Down
      <4>. QED  BY <4>1, <4>2
    <3>. QED  BY <1>0, <3>1, <3>3, <3>4, <3>5, EmptyShrinks
  <2>3. ApplyEdit(e, t) = r
    BY <1>5 DEF ApplyEdit
  <2>. HIDE DEF r, u
  <2>. QED  BY <1>0, <2>1, <2>2, <2>3
<1>6. CASE e.tag = "UpdateState"
  <2>. DEFINE p == Find(e.target, t)
              v == [t EXCEPT ![p].state = TRUE]
              u == WithSlots(v, p, StateSlot, e.arms)
              r == UpdateState(e.target, e.arms, t)
  <2>1. r.tree = t \/ (e.target \in Ids(t) /\ r.tree = u)
    <3>. HIDE DEF v, p
    <3>. QED  BY DEF UpdateState, Fail, Ok, v, p
  <2>2. ASSUME e.target \in Ids(t)
        PROVE  Shrinks(u, t)
    <3>1. p \in DOMAIN t
      BY <1>0, <2>2, FindIs
    <3>. HIDE DEF p
    <3>2. DOMAIN t[p] = {"id", "kind", "prop", "sealed", "trait", "state"}
      BY <1>0, <3>1 DEF Good, GoodAt, LabelOk, Label
    <3>3. DOMAIN v = DOMAIN t /\ \A x \in DOMAIN t : v[x].id = t[x].id /\ v[x].sealed = t[x].sealed
      BY <3>1, <3>2
    <3>4. Seats(e.arms) = {}
      BY <1>6, EmptyRow DEF Carried
    <3>5. StateSlot \in Nat
      BY MaxSlotsAssumption DEF StateSlot
    <3>. HIDE DEF v
    <3>6. \A x \in DOMAIN t : Down(v[x]) \subseteq Down(t[x])
      BY <3>3 DEF Down
    <3>. QED  BY <1>0, <3>1, <3>3, <3>4, <3>5, <3>6, EmptyShrinks
  <2>3. ApplyEdit(e, t) = r
    BY <1>6 DEF ApplyEdit
  <2>. HIDE DEF r, u
  <2>. QED  BY <1>0, <2>1, <2>2, <2>3
<1>7. e.tag # "InsertChild" /\ e.tag # "ReplaceRoot"
  BY DEF Carried
<1>. QED  BY <1>1, <1>2, <1>3, <1>4, <1>5, <1>6, <1>7 DEF IsEdit

\* And so a Batch of them.
LEMMA OneShrinks ==
    ASSUME NEW t, Fine(t, {}), NEW op, IsOp(op), ~CanGrow(op)
    PROVE  Shrinks(ApplyOne(op, t).tree, t)
<1>0. Shrinks(t, t)
  BY SameShrinks DEF Fine
<1>1. \A i \in DOMAIN Edits(op) : Edits(op)[i].tag # "MoveNode" /\ Carried(Edits(op)[i]) = {}
  <2>1. Installed(op) = {} /\ \A i \in DOMAIN Edits(op) : Edits(op)[i].tag # "MoveNode"
    BY DEF CanGrow
  <2>. QED  BY <2>1 DEF Installed
<1>2. CASE op.tag # "Batch"
  <2>1. 1 \in DOMAIN <<op>> /\ <<op>>[1] = op
    OBVIOUS
  <2>2. op.tag # "MoveNode" /\ Carried(op) = {}
    BY <1>1, <1>2, <2>1 DEF Edits
  <2>3. ApplyOne(op, t) = ApplyEdit(op, t)
    BY <1>2 DEF ApplyOne
  <2>. QED  BY <1>2, <2>2, <2>3, EditShrinks DEF IsOp
<1>3. CASE op.tag = "Batch"
  <2>1. InARow(op.ops) /\ \A i \in DOMAIN op.ops : IsEdit(op.ops[i])
    BY <1>3 DEF IsOp
  <2>2. PICK n \in Nat : DOMAIN op.ops = 1 .. n
    BY <2>1, RowIs
  <2>3. ASSUME NEW i \in 1 .. n
        PROVE  IsEdit(op.ops[i]) /\ op.ops[i].tag # "MoveNode" /\ Carried(op.ops[i]) = {}
    BY <1>1, <1>3, <2>1, <2>2 DEF Edits
  <2>4. PICK h : Runs(h, "batch", Ok(t), op.ops, t, n) /\ Batched(t, op.ops) = h[n]
    BY <2>2, BatchRuns
  <2>5. ApplyOne(op, t) = Batched(t, op.ops)
    BY <1>3 DEF ApplyOne, Batched
  <2>. DEFINE Within(u) == Fine(u, {}) /\ Shrinks(u, t)
              T == {i \in Nat : i <= n /\ ~Within(h[i].tree)}
  <2>6. ASSUME T # {}
        PROVE  FALSE
    <3>1. PICK i \in T : \A k \in T : i <= k
      <4>1. T \subseteq Nat
        OBVIOUS
      <4>. HIDE DEF T
      <4>. QED  BY <2>6, <4>1, LeastIn
    <3>2. i # 0
      BY <1>0, <2>4, <3>1 DEF Runs, Ok
    <3>3. i - 1 \in Nat /\ i - 1 \notin T /\ i - 1 <= n /\ i \in 1 .. n
      BY <3>1, <3>2
    <3>. DEFINE acc == h[i - 1]
    <3>4. Within(acc.tree)
      BY <3>3
    <3>5. h[i] = Step("batch", acc, op.ops[i], t)
      BY <2>4, <3>3 DEF Runs
    <3>6. ~Within(h[i].tree)
      BY <3>1
    <3>. HIDE DEF acc, T
    <3>. DEFINE u == ApplyEdit(op.ops[i], acc.tree).tree
    <3>7. Fine(u, {}) /\ Shrinks(u, acc.tree)
      BY <2>3, <3>3, <3>4, EditKeeps, EditShrinks
    <3>8. Within(u)
      BY <3>4, <3>7, ShrinksOn DEF Fine
    <3>. HIDE DEF Within
    <3>9. Within(t)
      BY <1>0 DEF Within
    <3>10. Within(OrAborted(ApplyEdit(op.ops[i], acc.tree), t).tree)
      BY <3>8, <3>9 DEF OrAborted, Fail
    <3>11. Within(h[i].tree)
      BY <3>4, <3>5, <3>10 DEF Step
    <3>. QED  BY <3>6, <3>11
  <2>7. Within(h[n].tree)
    BY <2>6
  <2>. QED  BY <2>4, <2>5, <2>7
<1>. QED  BY <1>2, <1>3

\* A function on a finite set takes finitely many values.
LEMMA ValuesFinite ==
    ASSUME NEW f, IsFiniteSet(DOMAIN f)
    PROVE  IsFiniteSet({f[x] : x \in DOMAIN f})
<1>. DEFINE g == [x \in DOMAIN f |-> f[x]]
<1>1. g \in Surjection(DOMAIN f, {f[x] : x \in DOMAIN f})
  BY DEF Surjection
<1>. QED  BY <1>1, FS_Surjection

\* What a node leads down to is finitely many nodes, each some steps away.
LEMMA DownIs ==
    ASSUME NEW l, LabelOk(l)
    PROVE  IsFiniteSet(Down(l)) /\ << >> \in Down(l) /\ \A y \in Down(l) : Len(y) \in Nat
<1>1. PICK s : s = l.sealed
  OBVIOUS
<1>. DEFINE parts == [i \in DOMAIN s |-> {<<i>> \o y : y \in DOMAIN s[i]}]
            all == {parts[i] : i \in DOMAIN parts}
            inner == UNION all
<1>2. s \in Seq(ToSet(s)) /\ \A i \in DOMAIN s : IsFiniteSet(DOMAIN s[i]) /\ DOMAIN s[i] \subseteq Seq(Nat)
  BY <1>1 DEF LabelOk, AreSealed
<1>3. \A z : z \in Down(l) <=> z = << >> \/ \E i \in DOMAIN l.sealed : \E y \in DOMAIN l.sealed[i] : z = <<i>> \o y
  <2>. DEFINE s0 == l.sealed
              row(i) == {<<i>> \o y : y \in DOMAIN s0[i]}
              below == UNION {row(i) : i \in DOMAIN s0}
  <2>1. Down(l) = {<< >>} \union below
    BY DEF Down
  <2>2. \A z : z \in below <=> \E i \in DOMAIN s0 : z \in row(i)
    <3>. HIDE DEF s0
    <3>. QED  OBVIOUS
  <2>3. \A i, z : z \in row(i) <=> \E y \in DOMAIN s0[i] : z = <<i>> \o y
    <3>. HIDE DEF s0
    <3>. QED  OBVIOUS
  <2>4. \A z : z \in Down(l) <=> z = << >> \/ z \in below
    <3>. HIDE DEF below
    <3>. QED  BY <2>1
  <2>5. \A z : z \in Down(l) <=> z = << >> \/ \E i \in DOMAIN s0 : z \in row(i)
    <3>. HIDE DEF below, row, s0
    <3>. QED  BY <2>2, <2>4
  <2>6. \A z : (\E i \in DOMAIN s0 : z \in row(i)) <=> \E i \in DOMAIN s0 : \E y \in DOMAIN s0[i] : z = <<i>> \o y
    <3>. HIDE DEF below, row, s0
    <3>. QED  BY <2>3
  <2>. HIDE DEF row
  <2>. QED  BY <2>5, <2>6
<1>4. \A z : z \in inner <=> \E i \in DOMAIN s : z \in parts[i]
  <2>. HIDE DEF parts
  <2>1. \A z : z \in inner <=> \E i \in DOMAIN parts : z \in parts[i]
    OBVIOUS
  <2>2. DOMAIN parts = DOMAIN s
    BY DEF parts
  <2>. QED  BY <2>1, <2>2
<1>5. ASSUME NEW i \in DOMAIN s
      PROVE  /\ \A z : z \in parts[i] <=> \E y \in DOMAIN s[i] : z = <<i>> \o y
             /\ IsFiniteSet(parts[i]) /\ \A z \in parts[i] : Len(z) \in Nat
  <2>. DEFINE f == [y \in DOMAIN s[i] |-> <<i>> \o y]
  <2>1. parts[i] = {f[y] : y \in DOMAIN f} /\ \A z : z \in parts[i] <=> \E y \in DOMAIN s[i] : z = <<i>> \o y
    OBVIOUS
  <2>2. IsFiniteSet(DOMAIN f)
    BY <1>2
  <2>3. i \in Nat
    BY <1>2
  <2>4. \A y \in Seq(Nat) : Len(<<i>> \o y) \in Nat
    BY <2>3
  <2>. HIDE DEF f, parts
  <2>5. IsFiniteSet(parts[i])
    BY <2>1, <2>2, ValuesFinite
  <2>. QED  BY <1>2, <2>1, <2>4, <2>5
<1>6. IsFiniteSet(DOMAIN parts) /\ DOMAIN parts = DOMAIN s
  <2>1. DOMAIN parts = 1 .. Len(s) /\ Len(s) \in Nat
    BY <1>2
  <2>. QED  BY <2>1, FS_Interval
<1>. HIDE DEF parts
<1>7. IsFiniteSet(all)
  BY <1>6, ValuesFinite
<1>8. \A T \in all : IsFiniteSet(T)
  BY <1>5, <1>6
<1>. HIDE DEF all
<1>9. IsFiniteSet(inner)
  BY <1>7, <1>8, FS_UNION
<1>. HIDE DEF inner
<1>10. ASSUME NEW z
       PROVE  z \in Down(l) <=> z = << >> \/ z \in inner
  <2>1. z \in Down(l) <=> z = << >> \/ \E i \in DOMAIN s : \E y \in DOMAIN s[i] : z = <<i>> \o y
    BY <1>1, <1>3
  <2>2. \A i \in DOMAIN s : z \in parts[i] <=> \E y \in DOMAIN s[i] : z = <<i>> \o y
    BY <1>5
  <2>. QED  BY <1>4, <2>1, <2>2
<1>11. Down(l) = inner \union {<< >>}
  BY <1>10
<1>12. IsFiniteSet(inner \union {<< >>})
  BY <1>9, FS_AddElement
<1>13. Len(<< >>) \in Nat
  OBVIOUS
<1>. QED  BY <1>4, <1>5, <1>11, <1>12, <1>13

\* A tree has finitely many nodes, each at a level.
LEMMA NodesAre ==
    ASSUME NEW t, Good(t)
    PROVE  /\ IsFiniteSet(Nodes(t)) /\ Nodes(t) # {}
           /\ \A n \in Nodes(t) : Level(n) \in Nat
           /\ Size(t) \in Nat
<1>. DEFINE at(x) == {<<x, y>> : y \in Down(t[x])}
            parts == [x \in DOMAIN t |-> at(x)]
            all == {parts[x] : x \in DOMAIN parts}
<1>1. IsFiniteSet(DOMAIN t) /\ << >> \in DOMAIN t /\ \A x \in DOMAIN t : Len(x) \in Nat
  BY DEF Good, Rooted, Pos
<1>2. \A x \in DOMAIN t : IsFiniteSet(Down(t[x])) /\ << >> \in Down(t[x]) /\ \A y \in Down(t[x]) : Len(y) \in Nat
  BY DownIs DEF Good, GoodAt
<1>3. Nodes(t) = UNION all
  BY DEF Nodes
<1>4. ASSUME NEW x \in DOMAIN t
      PROVE  IsFiniteSet(at(x))
  <2>. DEFINE f == [y \in Down(t[x]) |-> <<x, y>>]
  <2>1. at(x) = {f[y] : y \in DOMAIN f} /\ DOMAIN f = Down(t[x])
    OBVIOUS
  <2>. HIDE DEF f, at
  <2>. QED  BY <1>2, <2>1, ValuesFinite
<1>5. \A n \in Nodes(t) : \E x \in DOMAIN t : \E y \in Down(t[x]) : n = <<x, y>>
  BY DEF Nodes
<1>6. \A T \in all : \E x \in DOMAIN t : T = at(x)
  OBVIOUS
<1>7. DOMAIN parts = DOMAIN t
  OBVIOUS
<1>8. << << >>, << >> >> \in Nodes(t)
  BY <1>1, <1>2 DEF Nodes
<1>. HIDE DEF at, parts
<1>9. IsFiniteSet(all)
  BY <1>1, <1>7, ValuesFinite
<1>. HIDE DEF all
<1>10. IsFiniteSet(Nodes(t))
  BY <1>3, <1>4, <1>6, <1>9, FS_UNION
<1>11. \A n \in Nodes(t) : Level(n) \in Nat
  <2>1. \A x, y : Level(<<x, y>>) = Len(x) + Len(y)
    BY DEF Level
  <2>. QED  BY <1>1, <1>2, <1>5, <2>1
<1>. QED  BY <1>8, <1>10, <1>11, FS_CardinalityType DEF Size

\* A tree has a deepest node, and is one deeper.
LEMMA DepthIs ==
    ASSUME NEW t, Good(t)
    PROVE  \E n \in Nodes(t) : Depth(t) = 1 + Level(n) /\ \A m \in Nodes(t) : Level(m) <= Level(n)
<1>. DEFINE S == Nodes(t)
            deeper(x) == {y \in S : Level(y) > Level(x)}
            T == {Cardinality(deeper(x)) : x \in S}
<1>1. IsFiniteSet(S) /\ S # {} /\ \A x \in S : Level(x) \in Nat
  BY NodesAre
<1>. HIDE DEF S
<1>2. \A x \in S : IsFiniteSet(deeper(x)) /\ Cardinality(deeper(x)) \in Nat
  <2>1. \A x \in S : deeper(x) \in SUBSET S
    OBVIOUS
  <2>. HIDE DEF deeper
  <2>. QED  BY <1>1, <2>1, FS_Subset, FS_CardinalityType
<1>3. T \subseteq Nat /\ T # {}
  <2>. HIDE DEF deeper
  <2>. QED  BY <1>1, <1>2
<1>4. PICK m \in T : \A n \in T : m <= n
  <2>. HIDE DEF T
  <2>. QED  BY <1>3, LeastIn
<1>5. PICK x \in S : m = Cardinality(deeper(x))
  OBVIOUS
<1>6. ASSUME NEW y \in S, Level(y) > Level(x)
      PROVE  FALSE
  <2>1. deeper(y) \subseteq deeper(x) /\ y \in deeper(x) /\ y \notin deeper(y)
    BY <1>1, <1>6
  <2>2. Cardinality(deeper(x)) <= Cardinality(deeper(y))
    BY <1>4, <1>5
  <2>3. IsFiniteSet(deeper(x)) /\ Cardinality(deeper(x)) \in Nat /\ Cardinality(deeper(y)) \in Nat
    BY <1>2
  <2>. HIDE DEF deeper
  <2>4. Cardinality(deeper(y)) <= Cardinality(deeper(x))
        /\ (Cardinality(deeper(y)) = Cardinality(deeper(x)) => deeper(y) = deeper(x))
    BY <2>1, <2>3, FS_Subset
  <2>. QED  BY <2>1, <2>2, <2>3, <2>4
<1>7. \A y \in S : Level(y) <= Level(x)
  BY <1>1, <1>6
<1>. DEFINE d == CHOOSE d \in {Level(y) : y \in S} : \A y \in S : Level(y) <= d
<1>8. d = Level(x)
  <2>1. d \in {Level(y) : y \in S} /\ \A y \in S : Level(y) <= d
    BY <1>7
  <2>. QED  BY <1>1, <1>7, <2>1
<1>9. Depth(t) = 1 + d
  BY DEF Depth, S
<1>. HIDE DEF d
<1>. QED  BY <1>7, <1>8, <1>9 DEF S

\* A tree no bigger has no more nodes, and no more levels.
LEMMA ShrinkIs ==
    ASSUME NEW u, NEW t, Good(u), Good(t), Unique(u), Shrinks(u, t)
    PROVE  Size(u) <= Size(t) /\ Depth(u) <= Depth(t)
<1>. DEFINE was == [x \in DOMAIN u |->
              CHOOSE o \in DOMAIN t : t[o].id = u[x].id /\ Len(x) <= Len(o) /\ Down(u[x]) \subseteq Down(t[o])]
            f == [n \in Nodes(u) |-> <<was[n[1]], n[2]>>]
<1>1. \A x \in DOMAIN u : /\ was[x] \in DOMAIN t /\ t[was[x]].id = u[x].id
                          /\ Len(x) <= Len(was[x]) /\ Down(u[x]) \subseteq Down(t[was[x]])
  BY DEF Shrinks
<1>. HIDE DEF was
<1>2. \A n \in Nodes(u) : n[1] \in DOMAIN u /\ n[2] \in Down(u[n[1]]) /\ n = <<n[1], n[2]>>
  BY DEF Nodes
<1>3. \A n \in Nodes(u) : <<was[n[1]], n[2]>> \in Nodes(t)
  BY <1>1, <1>2 DEF Nodes
<1>4. Size(u) <= Size(t)
  <2>1. f \in [Nodes(u) -> Nodes(t)]
    BY <1>3
  <2>2. \A n, m \in Nodes(u) : f[n] = f[m] => n = m
    <3>1. \A x, y \in DOMAIN u : was[x] = was[y] => x = y
      BY <1>1 DEF Unique
    <3>2. \A n, m \in Nodes(u) : f[n] = f[m] => n[1] = m[1] /\ n[2] = m[2]
      BY <1>2, <3>1
    <3>. HIDE DEF f
    <3>. QED  BY <1>2, <3>2
  <2>. HIDE DEF f
  <2>3. f \in Injection(Nodes(u), Nodes(t))
    BY <2>1, <2>2 DEF Injection, IsInjective
  <2>. QED  BY <2>3, NodesAre, FS_Injection DEF Size
<1>5. Depth(u) <= Depth(t)
  <2>1. PICK n \in Nodes(u) : Depth(u) = 1 + Level(n)
    BY DepthIs
  <2>2. PICK m \in Nodes(t) : m = <<was[n[1]], n[2]>>
    BY <1>3
  <2>3. PICK d \in Nodes(t) : Depth(t) = 1 + Level(d) /\ \A k \in Nodes(t) : Level(k) <= Level(d)
    BY DepthIs
  <2>4. Level(n) \in Nat /\ Level(m) \in Nat /\ Level(d) \in Nat
    BY NodesAre
  <2>5. Level(n) <= Level(m)
    <3>1. Len(n[1]) <= Len(was[n[1]]) /\ Len(n[1]) \in Nat /\ Len(was[n[1]]) \in Nat
      BY <1>1, <1>2 DEF Good, Rooted, Pos
    <3>2. Len(n[2]) \in Nat
      BY <1>2, DownIs DEF Good, GoodAt
    <3>3. m[1] = was[n[1]] /\ m[2] = n[2]
      BY <2>2
    <3>. QED  BY <3>1, <3>2, <3>3 DEF Level
  <2>. QED  BY <2>1, <2>3, <2>4, <2>5
<1>. QED  BY <1>4, <1>5

\* An op accepted leaves a tree within the limits, or one no bigger than it was.
LEMMA OpWithinLimits ==
    ASSUME NEW t, Good(t), Unique(t), NEW op, IsOp(op), NEW r, r = ApplyOp(op, t), r.err = "None"
    PROVE  /\ Depth(r.tree) > MaxDepth => Depth(r.tree) <= Depth(t)
           /\ Size(r.tree) > MaxNodes => Size(r.tree) <= Size(t)
<1>1. r = ApplyOne(op, t) /\ (CanGrow(op) => ~ExceedsLimits(r.tree))
  <2>. DEFINE s == ApplyOne(op, t)
  <2>. HIDE DEF s
  <2>. QED  BY DEF ApplyOp, Checked, Fail, s
<1>2. CASE CanGrow(op)
  BY <1>1, <1>2 DEF ExceedsLimits
<1>3. CASE ~CanGrow(op)
  <2>1. Fine(t, {}) /\ Shrinks(r.tree, t)
    BY <1>1, <1>3, FineIsUnique, OneShrinks
  <2>2. Good(r.tree) /\ Unique(r.tree)
    BY OpKeeps
  <2>. QED  BY <2>1, <2>2, ShrinkIs
<1>. QED  BY <1>2, <1>3

-----------------------------------------------------------------------------
(***************************************************************************)
(* The session: every action submits an op of the vocabulary.              *)
(***************************************************************************)
\* Renaming ids leaves the tree as it is.
LEMMA RemapGood ==
    ASSUME NEW t, NEW n, Good(n)
    PROVE  Good(RemapForInsert(t, n))
<1>. DEFINE new == Renaming(t, n)
            m == RemapIds(n, new)
<1>0. RemapForInsert(t, n) = m
  BY DEF RemapForInsert
<1>. HIDE DEF new
<1>1. DOMAIN m = DOMAIN n
  BY DEF RemapIds
<1>2. ASSUME NEW x \in DOMAIN n
      PROVE  /\ DOMAIN m[x] = DOMAIN n[x] /\ m[x].kind = n[x].kind /\ m[x].state = n[x].state
             /\ m[x].sealed = n[x].sealed
  <2>1. LabelOk(n[x])
    BY DEF Good, GoodAt
  <2>2. {"kind", "state", "sealed"} \subseteq DOMAIN n[x]
    BY <2>1 DEF LabelOk, Label
  <2>3. m[x] = n[x] \/ m[x] = [n[x] EXCEPT !.id = new[@]]
    BY DEF RemapIds
  <2>. QED  BY <2>2, <2>3
<1>. HIDE DEF m
<1>3. ASSUME NEW x \in DOMAIN n
      PROVE  GoodAt(m, x)
  <2>1. GoodAt(n, x)
    BY DEF Good
  <2>2. LabelOk(m[x])
    BY <1>2, <2>1 DEF LabelOk, GoodAt
  <2>. QED  BY <1>1, <1>2, <2>1, <2>2 DEF GoodAt
<1>4. Rooted(m)
  BY <1>1 DEF Good, Rooted
<1>. QED  BY <1>0, <1>1, <1>3, <1>4 DEF Good

\* What a helper emits for an edit is that edit, or it and a reorder in a Batch.
LEMMA PlacedIsOp ==
    ASSUME NEW e, IsEdit(e), NEW parent, NEW appended, NEW wanted
    PROVE  IsOp(Placed(e, parent, appended, wanted))
<1>1. CASE wanted = appended
  <2>1. Placed(e, parent, appended, wanted) = e
    BY <1>1 DEF Placed
  <2>2. e.tag # "Batch"
    BY DEF IsEdit
  <2>. QED  BY <2>1, <2>2 DEF IsOp
<1>2. CASE wanted # appended
  <2>. DEFINE r == ReorderOp(parent, wanted)
              ops == <<e, r>>
              op == Placed(e, parent, appended, wanted)
  <2>1. op = BatchOp(ops)
    BY <1>2 DEF Placed
  <2>2. IsEdit(r)
    BY DEF IsEdit, ReorderOp
  <2>3. Len(ops) = 2 /\ DOMAIN ops = 1 .. 2 /\ ops[1] = e /\ ops[2] = r
    OBVIOUS
  <2>4. op.tag = "Batch" /\ op.ops = ops
    <3>. HIDE DEF ops
    <3>. QED  BY <2>1 DEF BatchOp
  <2>6. \A S : e \in S /\ r \in S => ops \in Seq(S)
    OBVIOUS
  <2>. HIDE DEF ops, op, r
  <2>7. e \in ToSet(ops) /\ r \in ToSet(ops)
    BY <2>3 DEF ToSet
  <2>5. InARow(ops) /\ \A i \in DOMAIN ops : IsEdit(ops[i])
    BY <2>2, <2>3, <2>6, <2>7 DEF InARow
  <2>. QED  BY <2>4, <2>5 DEF IsOp, op
<1>. QED  BY <1>1, <1>2

\* An edit is an op on its own.
LEMMA EditIsOp ==
    ASSUME NEW e, IsEdit(e)
    PROVE  IsOp(e)
BY DEF IsEdit, IsOp

\* What a helper that places a child emits.
LEMMA ChildIsOp ==
    ASSUME NEW t, NEW n, Good(n), NEW target, PlaceChild(t, n, target).err = "None"
    PROVE  IsOp(PlaceChild(t, n, target).op)
<1>. DEFINE id == n[<< >>].id
            appended == Append(Siblings(t, target.parent), id)
            wanted == Reposition(appended, id, target.placement)
            e == InsertOp(target.parent, n)
            op == Placed(e, target.parent, appended, wanted)
            r == PlaceChild(t, n, target)
<1>1. \/ r = Refused(ContainerError(t, target.parent)) /\ ContainerError(t, target.parent) # "None"
      \/ r = Refused("DuplicateId") \/ r = Refused("UnknownAnchor")
      \/ r = Emit(op)
  <2>. HIDE DEF e, wanted
  <2>. QED  BY DEF PlaceChild, e, wanted
<1>2. IsEdit(e)
  BY NodeIsGood DEF IsEdit, InsertOp
<1>3. IsOp(op)
  <2>. HIDE DEF e, wanted, appended
  <2>. QED  BY <1>2, PlacedIsOp
<1>. HIDE DEF op, r
<1>4. r = Emit(op)
  BY <1>1 DEF Refused, r
<1>. QED  BY <1>3, <1>4 DEF Emit, r

\* What a drop emits.
LEMMA MoveIsOp ==
    ASSUME NEW t, NEW id, NEW target, MovePlaced(t, id, target).err = "None"
    PROVE  IsOp(MovePlaced(t, id, target).op)
<1>. DEFINE appended == Append(Without(Siblings(t, target.parent), id), id)
            wanted == Reposition(appended, id, target.placement)
            e == MoveOp(id, target.parent)
            op == Placed(e, target.parent, appended, wanted)
            r == MovePlaced(t, id, target)
<1>1. \/ r = Refused(CanPlace(t, id, target)) /\ CanPlace(t, id, target) # "None"
      \/ r = Emit(op)
  <2>. HIDE DEF e, wanted
  <2>. QED  BY DEF MovePlaced, e, wanted
<1>2. IsEdit(e)
  BY DEF IsEdit, MoveOp
<1>3. IsOp(op)
  <2>. HIDE DEF e, wanted, appended
  <2>. QED  BY <1>2, PlacedIsOp
<1>. HIDE DEF op, r
<1>4. r = Emit(op)
  BY <1>1 DEF Refused, r
<1>. QED  BY <1>3, <1>4 DEF Emit, r

\* What a nudge emits.
LEMMA NudgeIsOp ==
    ASSUME NEW t, NEW id, NEW delta, Nudge(t, id, delta).err = "None"
    PROVE  IsOp(Nudge(t, id, delta).op)
<1>. DEFINE r == Nudge(t, id, delta)
<1>1. \/ r = Refused("CannotNudgeRoot") \/ r = Refused("NodeNotFound") \/ r = Refused("NudgeOutOfRange")
      \/ \E p, order : r = Emit(ReorderOp(p, order))
  BY DEF Nudge
<1>. HIDE DEF r
<1>2. PICK p, order : r = Emit(ReorderOp(p, order))
  BY <1>1 DEF Refused, r
<1>3. IsEdit(ReorderOp(p, order))
  BY DEF IsEdit, ReorderOp
<1>4. r.op = ReorderOp(p, order)
  <2>. DEFINE e == ReorderOp(p, order)
  <2>. HIDE DEF e
  <2>1. r = Emit(e)
    BY <1>2 DEF e
  <2>2. r.op = e
    BY <2>1 DEF Emit
  <2>. QED  BY <2>2 DEF e
<1>. QED  BY <1>3, <1>4, EditIsOp DEF r

\* Every action submits an op of the vocabulary.
LEMMA NextSubmits ==
    ASSUME Good(tree), Next
    PROVE  \E op : IsOp(op) /\ Submit(op)
<1>1. CASE Insert
  <2>1. PICK p \in Targets, c \in Fresh : Submit(InsertOp(p, c))
    BY <1>1 DEF Insert
  <2>2. IsEdit(InsertOp(p, c))
    BY AlphabetAssumption DEF IsEdit, InsertOp
  <2>. QED  BY <2>1, <2>2, EditIsOp
<1>2. CASE DoRemove
  <2>1. PICK t \in Targets : Submit([tag |-> "RemoveNode", target |-> t])
    BY <1>2 DEF DoRemove
  <2>2. IsEdit([tag |-> "RemoveNode", target |-> t])
    BY DEF IsEdit
  <2>. QED  BY <2>1, <2>2, EditIsOp
<1>3. CASE Move
  <2>1. PICK t \in Targets, p \in Targets : Submit(MoveOp(t, p))
    BY <1>3 DEF Move
  <2>2. IsEdit(MoveOp(t, p))
    BY DEF IsEdit, MoveOp
  <2>. QED  BY <2>1, <2>2, EditIsOp
<1>4. CASE Reorder
  <2>1. PICK p \in Layouts : Submit(ReorderOp(p, Reverse(KidsOf(p))))
    BY <1>4 DEF Reorder
  <2>2. IsEdit(ReorderOp(p, Reverse(KidsOf(p))))
    BY DEF IsEdit, ReorderOp
  <2>. QED  BY <2>1, <2>2, EditIsOp
<1>5. CASE SetProp
  <2>1. PICK t \in Targets : Submit([tag |-> "UpdateProp", target |-> t, value |-> 1])
    BY <1>5 DEF SetProp
  <2>2. IsEdit([tag |-> "UpdateProp", target |-> t, value |-> 1])
    BY DEF IsEdit
  <2>. QED  BY <2>1, <2>2, EditIsOp
<1>6. CASE Edit
  <2>1. PICK t \in Targets, k \in NewKinds : Submit([tag |-> "EditNode", target |-> t, newKind |-> k])
    BY <1>6 DEF Edit
  <2>2. IsEdit([tag |-> "EditNode", target |-> t, newKind |-> k])
    BY AlphabetAssumption DEF IsEdit
  <2>. QED  BY <2>1, <2>2, EditIsOp
<1>7. CASE SetState
  <2>1. PICK t \in Targets, arms \in NewStates : Submit([tag |-> "UpdateState", target |-> t, arms |-> arms])
    BY <1>7 DEF SetState
  <2>2. IsEdit([tag |-> "UpdateState", target |-> t, arms |-> arms])
    BY AlphabetAssumption DEF IsEdit
  <2>. QED  BY <2>1, <2>2, EditIsOp
<1>8. CASE Style
  <2>1. PICK t \in Targets : Submit([tag |-> "SetTrait", target |-> t, value |-> "tone" :> 1])
    BY <1>8 DEF Style
  <2>2. IsEdit([tag |-> "SetTrait", target |-> t, value |-> "tone" :> 1])
    BY DEF IsEdit
  <2>. QED  BY <2>1, <2>2, EditIsOp
<1>9. CASE SwapRoot
  <2>1. PICK n \in NewRoots : Submit([tag |-> "ReplaceRoot", node |-> n])
    BY <1>9 DEF SwapRoot
  <2>2. IsEdit([tag |-> "ReplaceRoot", node |-> n])
    BY AlphabetAssumption DEF IsEdit
  <2>. QED  BY <2>1, <2>2, EditIsOp
<1>10. CASE Batch
  <2>1. PICK ops \in Batches : Submit(BatchOp(ops))
    BY <1>10 DEF Batch
  <2>2. InARow(ops) /\ \A i \in DOMAIN ops : IsEdit(ops[i])
    BY AlphabetAssumption
  <2>3. BatchOp(ops).tag = "Batch" /\ BatchOp(ops).ops = ops
    BY DEF BatchOp
  <2>. QED  BY <2>1, <2>2, <2>3 DEF IsOp
<1>11. CASE Drop
  <2>1. PICK t \in Targets, spot \in Spots : SubmitEmitted(MovePlaced(tree, t, spot))
    BY <1>11 DEF Drop
  <2>. QED  BY <2>1, MoveIsOp DEF SubmitEmitted
<1>12. CASE NudgeBy
  <2>1. PICK t \in Targets, d \in {-1, 1} : SubmitEmitted(Nudge(tree, t, d))
    BY <1>12 DEF NudgeBy
  <2>. QED  BY <2>1, NudgeIsOp DEF SubmitEmitted
<1>13. CASE Clone
  <2>1. PICK id, target : SubmitEmitted(Duplicate(tree, id, target))
    BY <1>13 DEF Clone
  <2>. DEFINE n == RemapForInsert(tree, Sub(tree, Find(id, tree)))
  <2>2. id \in Ids(tree) /\ Duplicate(tree, id, target) = PlaceChild(tree, n, target)
    <3>1. Duplicate(tree, id, target).err = "None"
      BY <2>1 DEF SubmitEmitted
    <3>2. Refused("NodeNotFound").err # "None"
      BY DEF Refused
    <3>3. id \in Ids(tree)
      BY <3>1, <3>2 DEF Duplicate
    <3>. QED  BY <3>3 DEF Duplicate
  <2>3. Good(n)
    <3>1. Find(id, tree) \in DOMAIN tree
      BY <2>2, FindIs
    <3>. QED  BY <3>1, SubOf, RemapGood
  <2>. HIDE DEF n
  <2>. QED  BY <2>1, <2>2, <2>3, ChildIsOp DEF SubmitEmitted
<1>14. CASE PasteIn
  <2>1. PICK n, target : n \in Fresh /\ SubmitEmitted(Paste(tree, n, target))
    BY <1>14 DEF PasteIn
  <2>2. Good(RemapForInsert(tree, n))
    BY <2>1, AlphabetAssumption, NodeIsGood, RemapGood
  <2>3. Paste(tree, n, target) = PlaceChild(tree, RemapForInsert(tree, n), target)
    BY DEF Paste
  <2>. QED  BY <2>1, <2>2, <2>3, ChildIsOp DEF SubmitEmitted
<1>. QED  BY <1>1, <1>2, <1>3, <1>4, <1>5, <1>6, <1>7, <1>8, <1>9, <1>10, <1>11,
         <1>12, <1>13, <1>14 DEF Next

-----------------------------------------------------------------------------
\* What every step keeps: both trees are trees, the one held has no id twice
\* unless the one loaded had, and the script is a sequence within its bound.
IInv == /\ Good(base) /\ Good(tree)
        /\ UniqueKept
        /\ Len(script) <= MaxEdits
        /\ \E S : script \in Seq(S)

\* A tree loaded is a tree, and is the one held.
LEMMA InitHolds ==
    ASSUME Init
    PROVE  IInv
<1>1. Good(base) /\ Good(tree) /\ UniqueKept
  BY AlphabetAssumption, NodeIsGood DEF Init, UniqueKept
<1>2. script \in Seq({}) /\ Len(script) <= MaxEdits
  BY AlphabetAssumption DEF Init
<1>. QED  BY <1>1, <1>2 DEF IInv

\* Every step keeps it.
LEMMA NextKeeps ==
    ASSUME IInv, [Next]_vars
    PROVE  IInv'
<1>1. CASE Next
  <2>1. PICK op : IsOp(op) /\ Submit(op)
    BY <1>1, NextSubmits DEF IInv
  <2>. DEFINE r == ApplyOp(op, tree)
  <2>2. /\ Len(script) < MaxEdits /\ r.err = "None"
        /\ tree' = r.tree /\ script' = Append(script, op) /\ base' = base
    <3>. HIDE DEF r
    <3>1. Len(script) < MaxEdits /\ Accept(op, r)
      BY <2>1 DEF Submit, r
    <3>. QED  BY <3>1 DEF Accept
  <2>3. Good(r.tree) /\ (Unique(tree) => Unique(r.tree))
    BY <2>1, <2>2, OpKeeps DEF IInv
  <2>. HIDE DEF r
  <2>4. Good(base)' /\ Good(tree)' /\ UniqueKept'
    <3>1. Good(base') /\ Good(tree')
      BY <2>2, <2>3 DEF IInv
    <3>2. Unique(base') => Unique(tree')
      BY <2>2, <2>3 DEF IInv, UniqueKept
    <3>3. Good(base)' /\ Good(tree)'
      BY <3>1 DEF Good, Rooted, GoodAt
    <3>. QED  BY <3>2, <3>3 DEF UniqueKept, Unique
  <2>5. Len(script') <= MaxEdits /\ \E S : script' \in Seq(S)
    <3>1. PICK S : script \in Seq(S)
      BY DEF IInv
    <3>. DEFINE T == S \union {op}
    <3>2. script \in Seq(T) /\ op \in T
      BY <3>1
    <3>. HIDE DEF T
    <3>3. Append(script, op) \in Seq(T) /\ Len(Append(script, op)) = Len(script) + 1 /\ Len(script) \in Nat
      BY <3>2
    <3>. QED  BY <2>2, <3>3, AlphabetAssumption
  <2>. QED  BY <2>4, <2>5 DEF IInv
<1>2. CASE UNCHANGED vars
  BY <1>2 DEF IInv, vars, UniqueKept, Good, Rooted, GoodAt, Unique
<1>. QED  BY <1>1, <1>2

\* It holds throughout.
LEMMA SessionKeeps == Spec => []IInv
<1>. QED  BY InitHolds, NextKeeps, PTL DEF Spec

\* Whatever is accepted, both trees stay trees of the four kinds: no op leaves a
\* node hanging from none, a gap in a row of slots, a sub-node its kind or its
\* envelope has no place for, or a sealed tree outside a Modal.
THEOREM TreesStayTrees == Spec => []TypeOK
<1>1. IInv => TypeOK
  <2>. SUFFICES ASSUME IInv
                PROVE  TypeOK
    OBVIOUS
  <2>1. WellFormed(base) /\ WellFormed(tree)
    BY NodeIsGood DEF IInv, IsNode
  <2>. QED  BY <2>1 DEF IInv, TypeOK
<1>. QED  BY <1>1, SessionKeeps, PTL

\* No sequence of accepted ops gives two nodes that an op can address one id (those
\* the id walk reaches, which stops at what a Modal holds): reading the result for
\* the ids the op installed is enough, also for a Batch whose inner ops each worked
\* at the first node of an id the Batch held twice on its way.
THEOREM IdsStayUnique == Spec => []UniqueKept
<1>1. IInv => UniqueKept
  BY DEF IInv
<1>. QED  BY <1>1, SessionKeeps, PTL

\* No accepted op takes a tree that holds each id once past a limit, or further past
\* one: of an op not measured, because it puts no node in and moves none, every node
\* left was there, no less deep.
THEOREM LimitsAreKept == Spec => LimitsHold
<1>1. ASSUME IInv, Next, Unique(tree)
      PROVE  /\ Depth(tree') > MaxDepth => Depth(tree') <= Depth(tree)
             /\ Size(tree') > MaxNodes => Size(tree') <= Size(tree)
  <2>1. PICK op : IsOp(op) /\ Submit(op)
    BY <1>1, NextSubmits DEF IInv
  <2>. DEFINE r == ApplyOp(op, tree)
  <2>2. r.err = "None" /\ tree' = r.tree
    <3>. HIDE DEF r
    <3>1. Accept(op, r)
      BY <2>1 DEF Submit, r
    <3>. QED  BY <3>1 DEF Accept
  <2>. HIDE DEF r
  <2>. DEFINE u == r.tree
  <2>3. /\ Depth(u) > MaxDepth => Depth(u) <= Depth(tree)
        /\ Size(u) > MaxNodes => Size(u) <= Size(tree)
    BY <1>1, <2>1, <2>2, OpWithinLimits DEF r, IInv
  <2>4. tree' = u
    BY <2>2
  <2>. HIDE DEF u
  <2>5. Depth(tree') = Depth(u) /\ Size(tree') = Size(u)
    BY <2>4
  <2>. QED  BY <2>3, <2>5
<1>2. IInv /\ [Next]_vars =>
        [Unique(tree) => /\ Depth(tree') > MaxDepth => Depth(tree') <= Depth(tree)
                         /\ Size(tree') > MaxNodes => Size(tree') <= Size(tree)]_vars
  BY <1>1
<1>. QED  BY <1>2, SessionKeeps, PTL DEF Spec, LimitsHold

-----------------------------------------------------------------------------
(* A script is its Batch: the edits one at a time, and the one op that     *)
(* holds them all.                                                         *)
\* The ops s, one at a time, take t to u.
Ran(t, s, u) ==
    \E h : /\ h[0] = t /\ h[Len(s)] = u
           /\ \A i \in 1 .. Len(s) :
                ApplyEdit(s[i], h[i - 1]).err = "None" /\ h[i] = ApplyEdit(s[i], h[i - 1]).tree

AllEdits(s) == InARow(s) /\ \A i \in DOMAIN s : IsEdit(s[i])

\* An edit that succeeds answers a tree and no more.
LEMMA EditIsOk ==
    ASSUME NEW t, NEW e, IsEdit(e), NEW r, r = ApplyEdit(e, t), r.err = "None"
    PROVE  r = Ok(r.tree)
<1>0. \A code, u : code # "None" => Fail(code, u).err # "None"
  BY DEF Fail
<1>1. \A x : Ok(x).tree = x
  BY DEF Ok
<1>2. ASSUME NEW p, NEW c, NEW v, InsertChild(p, c, v).err = "None"
      PROVE  \E x : InsertChild(p, c, v) = Ok(x)
  <2>. HIDE DEF Ok, Fail
  <2>. QED  BY <1>0, <1>2 DEF InsertChild
<1>3. SUFFICES \E x : r = Ok(x)
  BY <1>1
<1>4. CASE e.tag = "InsertChild"
  <2>1. r = InsertChild(e.parent, e.child, t)
    BY <1>4 DEF ApplyEdit
  <2>. QED  BY <1>2, <2>1
<1>5. CASE e.tag = "RemoveNode"
  <2>1. r = RemoveNode(e.target, t)
    BY <1>5 DEF ApplyEdit
  <2>. QED  BY <1>0, <2>1 DEF RemoveNode
<1>6. CASE e.tag = "MoveNode"
  <2>1. r = MoveNode(e.target, e.parent, t)
    BY <1>6 DEF ApplyEdit
  <2>2. r = ThenInsert(e.parent, Sub(t, Find(e.target, t)), RemoveNode(e.target, t))
    BY <1>0, <2>1 DEF MoveNode
  <2>3. r = InsertChild(e.parent, Sub(t, Find(e.target, t)), RemoveNode(e.target, t).tree)
    BY <2>2 DEF ThenInsert
  <2>. QED  BY <1>2, <2>3
<1>7. CASE e.tag = "ReorderChildren"
  <2>1. r = ReorderChildren(e.parent, e.order, t)
    BY <1>7 DEF ApplyEdit
  <2>. QED  BY <1>0, <2>1 DEF ReorderChildren
<1>8. CASE e.tag = "UpdateProp"
  <2>1. r = UpdateProp(e.target, e.value, t)
    BY <1>8 DEF ApplyEdit
  <2>. QED  BY <1>0, <2>1 DEF UpdateProp
<1>9. CASE e.tag = "EditNode"
  <2>1. r = EditNode(e.target, e.newKind, t)
    BY <1>9 DEF ApplyEdit
  <2>. QED  BY <1>0, <2>1 DEF EditNode
<1>10. CASE e.tag = "UpdateState"
  <2>1. r = UpdateState(e.target, e.arms, t)
    BY <1>10 DEF ApplyEdit
  <2>. QED  BY <1>0, <2>1 DEF UpdateState
<1>11. CASE e.tag = "SetTrait"
  <2>1. r = SetTrait(e.target, e.value, t)
    BY <1>11 DEF ApplyEdit
  <2>. QED  BY <1>0, <2>1 DEF SetTrait
<1>12. CASE e.tag = "ReplaceRoot"
  BY <1>12 DEF ApplyEdit
<1>. QED  BY <1>4, <1>5, <1>6, <1>7, <1>8, <1>9, <1>10, <1>11, <1>12 DEF IsEdit

\* Ops that take t to u one at a time do so as one Batch.
LEMMA RanBatched ==
    ASSUME NEW t, NEW s, AllEdits(s), NEW u, Ran(t, s, u)
    PROVE  Batched(t, s) = Ok(u)
<1>. DEFINE n == Len(s)
<1>0. n \in Nat /\ DOMAIN s = 1 .. n
  BY RowIs DEF AllEdits
<1>1. PICK h : /\ h[0] = t /\ h[n] = u
               /\ \A i \in 1 .. n :
                    ApplyEdit(s[i], h[i - 1]).err = "None" /\ h[i] = ApplyEdit(s[i], h[i - 1]).tree
  BY DEF Ran
<1>. HIDE DEF n
<1>2. PICK k : Runs(k, "batch", Ok(t), s, t, n) /\ Batched(t, s) = k[n]
  BY <1>0, BatchRuns
<1>. DEFINE T == {i \in Nat : i <= n /\ k[i] # Ok(h[i])}
<1>3. ASSUME T # {}
      PROVE  FALSE
  <2>1. PICK i \in T : \A l \in T : i <= l
    <3>1. T \subseteq Nat
      OBVIOUS
    <3>. HIDE DEF T
    <3>. QED  BY <1>3, <3>1, LeastIn
  <2>2. i # 0
    BY <1>1, <1>2, <2>1 DEF Runs
  <2>3. i - 1 \in Nat /\ i - 1 \notin T /\ i - 1 <= n /\ i \in 1 .. n
    BY <1>0, <2>1, <2>2
  <2>4. k[i - 1] = Ok(h[i - 1])
    BY <2>3
  <2>5. k[i] = Step("batch", k[i - 1], s[i], t)
    BY <1>2, <2>3 DEF Runs
  <2>6. k[i] # Ok(h[i])
    BY <2>1
  <2>. HIDE DEF T
  <2>. DEFINE acc == Ok(h[i - 1])
              r == ApplyEdit(s[i], h[i - 1])
  <2>7. acc.err = "None" /\ acc.tree = h[i - 1]
    BY DEF Ok
  <2>8. r.err = "None" /\ h[i] = r.tree /\ IsEdit(s[i])
    BY <1>0, <1>1, <2>3 DEF AllEdits
  <2>9. r = Ok(h[i])
    BY <2>8, EditIsOk
  <2>10. k[i] = OrAborted(ApplyEdit(s[i], acc.tree), t)
    <3>. HIDE DEF acc, r
    <3>. QED  BY <2>4, <2>5, <2>7 DEF Step, acc
  <2>. HIDE DEF acc
  <2>11. k[i] = OrAborted(r, t)
    BY <2>7, <2>10
  <2>. HIDE DEF r
  <2>12. k[i] = r
    BY <2>8, <2>11 DEF OrAborted
  <2>. QED  BY <2>6, <2>9, <2>12
<1>4. k[n] = Ok(h[n])
  BY <1>0, <1>3
<1>. QED  BY <1>1, <1>2, <1>4

\* A Batch that succeeds is its ops, one at a time.
LEMMA BatchedRan ==
    ASSUME NEW t, NEW s, AllEdits(s), Batched(t, s).err = "None"
    PROVE  Ran(t, s, Batched(t, s).tree)
<1>. DEFINE n == Len(s)
<1>0. n \in Nat /\ DOMAIN s = 1 .. n
  BY RowIs DEF AllEdits
<1>1. PICK k : Runs(k, "batch", Ok(t), s, t, n) /\ Batched(t, s) = k[n]
  BY <1>0, BatchRuns
<1>. HIDE DEF n
<1>2. ASSUME NEW i \in 1 .. n, k[i].err = "None"
      PROVE  /\ k[i - 1].err = "None"
             /\ ApplyEdit(s[i], k[i - 1].tree).err = "None"
             /\ k[i].tree = ApplyEdit(s[i], k[i - 1].tree).tree
  <2>1. k[i] = Step("batch", k[i - 1], s[i], t)
    BY <1>1 DEF Runs
  <2>2. k[i - 1].err = "None"
    BY <1>2, <2>1 DEF Step
  <2>3. k[i] = OrAborted(ApplyEdit(s[i], k[i - 1].tree), t)
    BY <2>1, <2>2 DEF Step
  <2>4. Fail("BatchAborted", t).err # "None"
    BY DEF Fail
  <2>. QED  BY <1>2, <2>2, <2>3, <2>4 DEF OrAborted
<1>. DEFINE T == {m \in Nat : m <= n /\ k[n - m].err # "None"}
<1>3. ASSUME T # {}
      PROVE  FALSE
  <2>1. PICK m \in T : \A l \in T : m <= l
    <3>1. T \subseteq Nat
      OBVIOUS
    <3>. HIDE DEF T
    <3>. QED  BY <1>3, <3>1, LeastIn
  <2>2. m # 0
    <3>1. n - 0 = n /\ k[n].err = "None"
      BY <1>0, <1>1
    <3>. QED  BY <2>1, <3>1
  <2>3. m - 1 \in Nat /\ m - 1 <= n /\ m - 1 \notin T
    BY <1>0, <2>1, <2>2
  <2>4. k[n - (m - 1)].err = "None" /\ n - (m - 1) \in 1 .. n /\ (n - (m - 1)) - 1 = n - m
    BY <1>0, <2>1, <2>2, <2>3
  <2>5. k[n - m].err = "None"
    BY <1>2, <2>4
  <2>. QED  BY <2>1, <2>5
<1>4. ASSUME NEW i \in 1 .. n
      PROVE  k[i].err = "None"
  <2>1. n - i \in Nat /\ n - i <= n /\ n - (n - i) = i
    BY <1>0
  <2>. QED  BY <1>3, <2>1
<1>. DEFINE h == [i \in 0 .. n |-> k[i].tree]
<1>5. h[0] = t /\ h[n] = Batched(t, s).tree
  <2>1. k[0].tree = t
    BY <1>1 DEF Runs, Ok
  <2>2. h[0] = k[0].tree /\ h[n] = k[n].tree
    BY <1>0
  <2>. HIDE DEF h
  <2>. QED  BY <1>1, <2>1, <2>2
<1>6. ASSUME NEW i \in 1 .. n
      PROVE  ApplyEdit(s[i], h[i - 1]).err = "None" /\ h[i] = ApplyEdit(s[i], h[i - 1]).tree
  <2>1. h[i] = k[i].tree /\ h[i - 1] = k[i - 1].tree
    BY <1>0
  <2>. HIDE DEF h
  <2>. QED  BY <1>2, <1>4, <2>1
<1>. HIDE DEF h
<1>. QED  BY <1>5, <1>6 DEF Ran, n

\* What is run after what.
LEMMA RanOn ==
    ASSUME NEW t, NEW a, AllEdits(a), NEW u, Ran(t, a, u), NEW b, AllEdits(b), NEW v, Ran(u, b, v)
    PROVE  AllEdits(a \o b) /\ Ran(t, a \o b, v)
<1>. DEFINE n == Len(a)
            m == Len(b)
            s == a \o b
            S == ToSet(a) \union ToSet(b)
<1>0. n \in Nat /\ DOMAIN a = 1 .. n /\ m \in Nat /\ DOMAIN b = 1 .. m
  BY RowIs DEF AllEdits
<1>1. a \in Seq(S) /\ b \in Seq(S)
  BY DEF AllEdits, InARow
<1>2. /\ s \in Seq(S) /\ Len(s) = n + m
      /\ \A i \in 1 .. n : s[i] = a[i]
      /\ \A i \in 1 .. m : s[n + i] = b[i]
  BY <1>1
<1>3. PICK f : /\ f[0] = t /\ f[n] = u
               /\ \A i \in 1 .. n : ApplyEdit(a[i], f[i - 1]).err = "None" /\ f[i] = ApplyEdit(a[i], f[i - 1]).tree
  BY DEF Ran
<1>4. PICK g : /\ g[0] = u /\ g[m] = v
               /\ \A i \in 1 .. m : ApplyEdit(b[i], g[i - 1]).err = "None" /\ g[i] = ApplyEdit(b[i], g[i - 1]).tree
  BY DEF Ran
<1>. HIDE DEF n, m, S, s
<1>5. ASSUME NEW i \in 1 .. n + m, i > n
      PROVE  i - n \in 1 .. m /\ n + (i - n) = i /\ s[i] = b[i - n]
  <2>1. i - n \in 1 .. m /\ n + (i - n) = i
    BY <1>0, <1>5
  <2>. QED  BY <1>2, <2>1
<1>6. DOMAIN s = 1 .. n + m
  BY <1>0, <1>2
<1>7. AllEdits(s)
  <2>1. \A i \in DOMAIN s : IsEdit(s[i])
    <3>1. ASSUME NEW i \in 1 .. n + m, ~(i > n)
          PROVE  i \in 1 .. n /\ s[i] = a[i]
      BY <1>0, <1>2, <3>1
    <3>. QED  BY <1>0, <1>5, <1>6, <3>1 DEF AllEdits
  <2>2. s \in Seq(ToSet(s))
    BY <1>2 DEF ToSet
  <2>. QED  BY <2>1, <2>2 DEF AllEdits, InARow
<1>. DEFINE h == [i \in 0 .. n + m |-> IF i <= n THEN f[i] ELSE g[i - n]]
<1>8. h[0] = t
  BY <1>0, <1>3
<1>9. h[n + m] = v
  <2>1. CASE m = 0
    BY <1>0, <1>3, <1>4, <2>1
  <2>2. CASE m # 0
    <3>1. ~(n + m <= n) /\ n + m \in 0 .. n + m /\ (n + m) - n = m
      BY <1>0, <2>2
    <3>. QED  BY <1>4, <3>1
  <2>. QED  BY <2>1, <2>2
<1>10. ASSUME NEW i \in 1 .. n + m
       PROVE  ApplyEdit(s[i], h[i - 1]).err = "None" /\ h[i] = ApplyEdit(s[i], h[i - 1]).tree
  <2>1. CASE i <= n
    <3>1. i \in 1 .. n /\ h[i] = f[i] /\ h[i - 1] = f[i - 1]
      BY <1>0, <2>1
    <3>. HIDE DEF h
    <3>2. s[i] = a[i]
      BY <1>2, <3>1
    <3>. QED  BY <1>3, <3>1, <3>2
  <2>2. CASE i > n
    <3>1. i - n \in 1 .. m /\ s[i] = b[i - n]
      BY <1>5, <2>2
    <3>2. h[i] = g[i - n]
      BY <1>0, <2>2
    <3>3. h[i - 1] = g[i - n - 1]
      <4>1. CASE i = n + 1
        <5>1. i - 1 = n /\ i - n - 1 = 0 /\ n \in 0 .. n + m
          BY <1>0, <4>1
        <5>2. h[n] = f[n]
          BY <5>1, <1>0
        <5>. HIDE DEF h
        <5>. QED  BY <1>3, <1>4, <5>1, <5>2
      <4>2. CASE i # n + 1
        <5>1. i - 1 \in 0 .. n + m /\ ~(i - 1 <= n) /\ (i - 1) - n = i - n - 1
          BY <1>0, <2>2, <4>2
        <5>. QED  BY <5>1
      <4>. QED  BY <4>1, <4>2
    <3>. HIDE DEF h
    <3>. QED  BY <1>4, <3>1, <3>2, <3>3
  <2>. QED  BY <1>0, <2>1, <2>2
<1>. HIDE DEF h
<1>11. Ran(t, s, v)
  BY <1>2, <1>8, <1>9, <1>10 DEF Ran
<1>. QED  BY <1>7, <1>11 DEF s

\* What FlattenSeq chooses.
Flat(f, s, n) ==
    DOMAIN f = 1 .. n /\ \A i \in 1 .. n : f[i] = IF i = 1 THEN s[i] ELSE f[i - 1] \o s[i]

\* There is a flattening of every length.
LEMMA FlatExists ==
    ASSUME NEW s, NEW n \in Nat
    PROVE  \E f : Flat(f, s, n)
<1>. DEFINE T == {m \in Nat : ~ \E f : Flat(f, s, m)}
<1>. SUFFICES ASSUME T # {}
              PROVE  FALSE
  OBVIOUS
<1>1. PICK m \in T : \A k \in T : m <= k
  BY LeastIn
<1>2. CASE m = 0
  <2>. DEFINE f == [i \in 1 .. 0 |-> s[i]]
  <2>1. Flat(f, s, 0)
    BY DEF Flat
  <2>. QED  BY <1>1, <1>2, <2>1
<1>3. CASE m # 0
  <2>1. m - 1 \in Nat /\ m - 1 \notin T
    BY <1>1, <1>3
  <2>2. PICK g : Flat(g, s, m - 1)
    BY <2>1
  <2>. DEFINE f == [i \in 1 .. m |-> IF i # m THEN g[i] ELSE IF m = 1 THEN s[m] ELSE g[m - 1] \o s[m]]
  <2>3. ASSUME NEW i \in 1 .. m
        PROVE  f[i] = IF i = 1 THEN s[i] ELSE f[i - 1] \o s[i]
    <3>1. CASE i = m
      <4>1. m # 1 => f[m - 1] = g[m - 1]
        BY <1>1, <1>3
      <4>2. f[m] = IF m = 1 THEN s[m] ELSE g[m - 1] \o s[m]
        BY <1>1, <1>3
      <4>. HIDE DEF f
      <4>. QED  BY <3>1, <4>1, <4>2
    <3>2. CASE i # m
      <4>1. i \in 1 .. m - 1 /\ f[i] = g[i] /\ (i # 1 => f[i - 1] = g[i - 1])
        BY <1>1, <3>2
      <4>. HIDE DEF f
      <4>. QED  BY <2>2, <4>1 DEF Flat
    <3>. QED  BY <3>1, <3>2
  <2>4. DOMAIN f = 1 .. m
    OBVIOUS
  <2>. HIDE DEF f
  <2>5. Flat(f, s, m)
    BY <2>3, <2>4 DEF Flat
  <2>. QED  BY <1>1, <2>5
<1>. QED  BY <1>2, <1>3

\* FlattenSeq chooses one.
LEMMA FlattenIs ==
    ASSUME NEW s, NEW n \in Nat \ {0}, Len(s) = n
    PROVE  \E f : Flat(f, s, n) /\ FlattenSeq(s) = f[n]
<1>. DEFINE F(f) == f = [i \in 1 .. Len(s) |-> IF i = 1 THEN s[i] ELSE f[i - 1] \o s[i]]
            c == CHOOSE f : F(f)
<1>1. FlattenSeq(s) = c[n]
  BY DEF FlattenSeq
<1>2. \E f : F(f)
  <2>1. PICK f : Flat(f, s, n)
    BY FlatExists
  <2>. DEFINE g == [i \in 1 .. n |-> f[i]]
  <2>2. \A i \in 1 .. n : g[i] = IF i = 1 THEN s[i] ELSE g[i - 1] \o s[i]
    <3>. SUFFICES ASSUME NEW i \in 1 .. n
                  PROVE  g[i] = IF i = 1 THEN s[i] ELSE g[i - 1] \o s[i]
      OBVIOUS
    <3>1. g[i] = f[i] /\ (i # 1 => g[i - 1] = f[i - 1])
      OBVIOUS
    <3>. HIDE DEF g
    <3>. QED  BY <2>1, <3>1 DEF Flat
  <2>3. g = [i \in 1 .. n |-> IF i = 1 THEN s[i] ELSE g[i - 1] \o s[i]]
    BY <2>2
  <2>. HIDE DEF g
  <2>4. F(g)
    BY <2>3
  <2>. QED  BY <2>4
<1>3. F(c)
  <2>. HIDE DEF F
  <2>. QED  BY <1>2
<1>. HIDE DEF c
<1>4. Flat(c, s, n)
  BY <1>3 DEF Flat
<1>. QED  BY <1>1, <1>4

\* Two flattenings agree as far as what they flatten does.
LEMMA FlatSame ==
    ASSUME NEW s, NEW n \in Nat, NEW f, Flat(f, s, n), NEW r, NEW m \in Nat, n <= m, NEW g, Flat(g, r, m),
           \A i \in 1 .. n : s[i] = r[i]
    PROVE  \A i \in 1 .. n : f[i] = g[i]
<1>. DEFINE T == {i \in Nat : i \in 1 .. n /\ f[i] # g[i]}
<1>1. ASSUME T # {}
      PROVE  FALSE
  <2>1. PICK i \in T : \A k \in T : i <= k
    <3>1. T \subseteq Nat
      OBVIOUS
    <3>. HIDE DEF T
    <3>. QED  BY <1>1, <3>1, LeastIn
  <2>2. i \in 1 .. n /\ i \in 1 .. m /\ f[i] # g[i] /\ s[i] = r[i]
    BY <2>1
  <2>3. i # 1 => f[i - 1] = g[i - 1]
    <3>1. ASSUME i # 1
          PROVE  i - 1 \in Nat /\ i - 1 \in 1 .. n /\ i - 1 \notin T
      BY <2>1, <2>2, <3>1
    <3>. QED  BY <3>1
  <2>. HIDE DEF T
  <2>4. f[i] = IF i = 1 THEN s[i] ELSE f[i - 1] \o s[i]
    BY <2>2 DEF Flat
  <2>5. g[i] = IF i = 1 THEN r[i] ELSE g[i - 1] \o r[i]
    BY <2>2 DEF Flat
  <2>. QED  BY <2>2, <2>3, <2>4, <2>5
<1>. QED  BY <1>1

\* The ops of a script, as one row.
Told(sc) == FlattenSeq([i \in DOMAIN sc |-> Edits(sc[i])])

\* One op more.
LEMMA ToldMore ==
    ASSUME NEW S, NEW sc \in Seq(S), NEW op \in S
    PROVE  Told(Append(sc, op)) = IF sc = << >> THEN Edits(op) ELSE Told(sc) \o Edits(op)
<1>. DEFINE n == Len(sc)
            more == Append(sc, op)
            s == [i \in DOMAIN sc |-> Edits(sc[i])]
            r == [i \in DOMAIN more |-> Edits(more[i])]
<1>1. n \in Nat /\ DOMAIN sc = 1 .. n /\ DOMAIN more = 1 .. n + 1 /\ more[n + 1] = op
      /\ \A i \in 1 .. n : more[i] = sc[i]
  OBVIOUS
<1>2. (n = 0) <=> (sc = << >>)
  OBVIOUS
<1>. HIDE DEF more, n
<1>3. Len(s) = n /\ Len(r) = n + 1 /\ r[n + 1] = Edits(op) /\ \A i \in 1 .. n : s[i] = r[i]
  BY <1>1
<1>4. Told(sc) = FlattenSeq(s) /\ Told(more) = FlattenSeq(r)
  BY DEF Told
<1>. HIDE DEF s, r
<1>5. PICK g : Flat(g, r, n + 1) /\ FlattenSeq(r) = g[n + 1]
  <2>1. n + 1 \in Nat \ {0}
    BY <1>1
  <2>. QED  BY <1>3, <2>1, FlattenIs
<1>6. g[n + 1] = IF n + 1 = 1 THEN r[n + 1] ELSE g[n] \o r[n + 1]
  <2>. DEFINE k == n + 1
  <2>1. k \in 1 .. k /\ k - 1 = n
    BY <1>1
  <2>. HIDE DEF k
  <2>2. Flat(g, r, k)
    BY <1>5 DEF k
  <2>3. g[k] = IF k = 1 THEN r[k] ELSE g[k - 1] \o r[k]
    BY <2>1, <2>2 DEF Flat
  <2>. QED  BY <2>1, <2>3 DEF k
<1>7. CASE n = 0
  <2>1. n + 1 = 1 /\ sc = << >>
    BY <1>2, <1>7
  <2>2. g[1] = r[1] /\ r[1] = Edits(op) /\ FlattenSeq(r) = g[1]
    BY <1>3, <1>5, <1>6, <2>1
  <2>. QED  BY <1>4, <2>1, <2>2 DEF more
<1>8. CASE n # 0
  <2>1. PICK f : Flat(f, s, n) /\ FlattenSeq(s) = f[n]
    BY <1>1, <1>3, <1>8, FlattenIs
  <2>2. n <= n + 1 /\ n + 1 \in Nat /\ n \in 1 .. n /\ n + 1 # 1
    BY <1>1, <1>8
  <2>3. f[n] = g[n]
    <3>1. \A i \in 1 .. n : s[i] = r[i]
      BY <1>3
    <3>2. Flat(f, s, n) /\ Flat(g, r, n + 1)
      BY <1>5, <2>1
    <3>. QED  BY <3>1, <3>2, <2>2, FlatSame
  <2>. QED  BY <1>2, <1>3, <1>4, <1>5, <1>6, <1>8, <2>1, <2>2, <2>3 DEF more
<1>. QED  BY <1>7, <1>8

-----------------------------------------------------------------------------
\* One of the ops s puts a node in or moves one.
Grows(s) == \E i \in DOMAIN s : Carried(s[i]) # {} \/ s[i].tag = "MoveNode"

\* The ops of an op grow a tree when it can.
LEMMA GrowsIs ==
    ASSUME NEW op
    PROVE  CanGrow(op) <=> Grows(Edits(op))
BY DEF CanGrow, Grows, Installed

\* Of two rows, one does.
LEMMA GrowsOn ==
    ASSUME NEW a, AllEdits(a), NEW b, AllEdits(b), Grows(a \o b)
    PROVE  Grows(a) \/ Grows(b)
<1>. DEFINE n == Len(a)
            m == Len(b)
            s == a \o b
            S == ToSet(a) \union ToSet(b)
<1>0. n \in Nat /\ DOMAIN a = 1 .. n /\ m \in Nat /\ DOMAIN b = 1 .. m
  BY RowIs DEF AllEdits
<1>1. a \in Seq(S) /\ b \in Seq(S)
  BY DEF AllEdits, InARow
<1>2. /\ DOMAIN s = 1 .. n + m
      /\ \A i \in 1 .. n : s[i] = a[i]
      /\ \A i \in 1 .. m : s[n + i] = b[i]
  BY <1>1
<1>3. PICK i \in DOMAIN s : Carried(s[i]) # {} \/ s[i].tag = "MoveNode"
  BY DEF Grows
<1>. HIDE DEF n, m, S, s
<1>4. CASE i <= n
  <2>1. i \in 1 .. n /\ s[i] = a[i]
    BY <1>0, <1>2, <1>4
  <2>. QED  BY <1>0, <1>3, <2>1 DEF Grows
<1>5. CASE i > n
  <2>1. i - n \in 1 .. m /\ n + (i - n) = i
    BY <1>0, <1>2, <1>5
  <2>2. s[i] = b[i - n]
    BY <1>2, <2>1
  <2>. QED  BY <1>0, <1>3, <2>1, <2>2 DEF Grows
<1>. QED  BY <1>0, <1>2, <1>4, <1>5

\* An op accepted takes the tree on by its ops.
LEMMA OpRuns ==
    ASSUME NEW t, NEW op, IsOp(op), NEW r, r = ApplyOp(op, t), r.err = "None"
    PROVE  AllEdits(Edits(op)) /\ Ran(t, Edits(op), r.tree)
<1>1. r = ApplyOne(op, t)
  <2>. DEFINE s == ApplyOne(op, t)
  <2>. HIDE DEF s
  <2>. QED  BY DEF ApplyOp, Checked, Fail, s
<1>2. CASE op.tag = "Batch"
  <2>1. Edits(op) = op.ops /\ AllEdits(op.ops)
    BY <1>2 DEF Edits, AllEdits, IsOp
  <2>2. r = Batched(t, op.ops)
    BY <1>1, <1>2 DEF ApplyOne, Batched
  <2>. QED  BY <2>1, <2>2, BatchedRan
<1>3. CASE op.tag # "Batch"
  <2>. DEFINE s == <<op>>
  <2>1. Edits(op) = s /\ IsEdit(op)
    BY <1>3 DEF Edits, IsOp
  <2>2. s \in Seq({op}) /\ Len(s) = 1 /\ s[1] = op /\ DOMAIN s = 1 .. 1
    OBVIOUS
  <2>. HIDE DEF s
  <2>3. ToSet(s) = {op}
    BY <2>2 DEF ToSet
  <2>4. AllEdits(s)
    BY <2>1, <2>2, <2>3 DEF AllEdits, InARow
  <2>5. r = ApplyEdit(op, t)
    BY <1>1, <1>3 DEF ApplyOne
  <2>. DEFINE h == [i \in 0 .. 1 |-> IF i = 0 THEN t ELSE r.tree]
  <2>6. h[0] = t /\ h[1] = r.tree
    OBVIOUS
  <2>. HIDE DEF h
  <2>7. \A i \in 1 .. 1 : ApplyEdit(s[i], h[i - 1]).err = "None" /\ h[i] = ApplyEdit(s[i], h[i - 1]).tree
    <3>1. ApplyEdit(s[1], h[0]).err = "None" /\ h[1] = ApplyEdit(s[1], h[0]).tree
      BY <2>2, <2>5, <2>6
    <3>. QED  BY <3>1
  <2>8. Ran(t, s, r.tree)
    BY <2>2, <2>6, <2>7 DEF Ran
  <2>. QED  BY <2>1, <2>4, <2>8
<1>. QED  BY <1>2, <1>3

\* Ops that take t to u within the limits, where u holds each id once, are
\* accepted as one Batch.
LEMMA RanAccepted ==
    ASSUME NEW t, NEW s, AllEdits(s), NEW u, Ran(t, s, u), Unique(u), Grows(s) => ~ExceedsLimits(u)
    PROVE  ApplyOp(BatchOp(s), t) = Ok(u)
<1>. DEFINE op == BatchOp(s)
<1>1. op.tag = "Batch" /\ op.ops = s
  BY DEF BatchOp
<1>. HIDE DEF op
<1>2. Edits(op) = s /\ ApplyOne(op, t) = Batched(t, s)
  BY <1>1 DEF Edits, ApplyOne, Batched
<1>3. ApplyOne(op, t) = Ok(u)
  BY <1>2, RanBatched
<1>4. ~InstalledDuplicate(op, u)
  <2>. SUFFICES ASSUME NEW id
                PROVE  ~(Copies(id, u) > 1)
    BY DEF InstalledDuplicate
  <2>. DEFINE A == {x \in DOMAIN u : u[x].id = id}
  <2>1. A = {} \/ \E x : A = {x}
    BY DEF Unique
  <2>. HIDE DEF A
  <2>2. Cardinality(A) \in {0, 1}
    BY <2>1, FS_EmptySet, FS_Singleton
  <2>. QED  BY <2>2 DEF Copies, A
<1>5. ~(CanGrow(op) /\ ExceedsLimits(u))
  BY <1>2, GrowsIs
<1>6. Ok(u).err = "None" /\ Ok(u).tree = u
  BY DEF Ok
<1>7. Checked(op, t, Ok(u)) = Ok(u)
  <2>. DEFINE r == Ok(u)
  <2>. HIDE DEF r
  <2>. QED  BY <1>4, <1>5, <1>6 DEF Checked, r
<1>. QED  BY <1>3, <1>7 DEF ApplyOp, op

\* The script takes the tree loaded to the tree held, one op at a time, and what
\* could grow it left it within the limits.
ScriptRan(b, t, sc) ==
    /\ AllEdits(Told(sc)) /\ Ran(b, Told(sc), t)
    /\ Grows(Told(sc)) => ~ExceedsLimits(t)

BatchInv == /\ script = << >> => tree = base
            /\ Unique(base) /\ script # << >> => ScriptRan(base, tree, script)

\* The same, of what is held next.
LEMMA BatchInvNext ==
    BatchInv' <=> /\ script' = << >> => tree' = base'
                  /\ Unique(base') /\ script' # << >> => ScriptRan(base', tree', script')
<1>1. Unique(base)' <=> Unique(base')
  BY DEF Unique
<1>2. ScriptRan(base, tree, script)' <=> ScriptRan(base', tree', script')
  BY DEF ScriptRan, AllEdits, Ran, Told, Grows, ExceedsLimits, Size, Depth, InARow
<1>. QED  BY <1>1, <1>2 DEF BatchInv

\* An op accepted adds its ops to the script's.
LEMMA ScriptRunsOn ==
    ASSUME IInv, BatchInv, Next
    PROVE  BatchInv'
<1>1. PICK op : IsOp(op) /\ Submit(op)
  BY NextSubmits DEF IInv
<1>. DEFINE r == ApplyOp(op, tree)
            u == r.tree
            sc == Append(script, op)
<1>2. r.err = "None" /\ tree' = u /\ script' = sc /\ base' = base
  <2>. HIDE DEF r
  <2>1. Accept(op, r)
    BY <1>1 DEF Submit, r
  <2>. QED  BY <2>1 DEF Accept
<1>3. PICK S : script \in Seq(S)
  BY DEF IInv
<1>. DEFINE E == Edits(op)
<1>4. AllEdits(E) /\ Ran(tree, E, u)
  BY <1>1, <1>2, OpRuns
<1>5. sc # << >>
  BY <1>3
<1>6. Told(sc) = IF script = << >> THEN E ELSE Told(script) \o E
  <2>. DEFINE T == S \union {op}
  <2>1. script \in Seq(T) /\ op \in T
    BY <1>3
  <2>. HIDE DEF T, E
  <2>. QED  BY <2>1, ToldMore DEF E
<1>7. ASSUME Unique(base)
      PROVE  /\ AllEdits(Told(sc)) /\ Ran(base, Told(sc), u)
             /\ Grows(Told(sc)) => ~ExceedsLimits(u)
  <2>1. Good(tree) /\ Unique(tree)
    BY <1>7 DEF IInv, UniqueKept
  <2>2. Good(u)
    BY <1>1, <1>2, <2>1, OpKeeps
  <2>3. Grows(E) => ~ExceedsLimits(u)
    <3>1. r = ApplyOne(op, tree) /\ (CanGrow(op) => ~ExceedsLimits(u))
      <4>. DEFINE s == ApplyOne(op, tree)
      <4>. HIDE DEF s
      <4>. QED  BY <1>2 DEF ApplyOp, Checked, Fail, s
    <3>. HIDE DEF r
    <3>. QED  BY <3>1, GrowsIs
  <2>4. ~ExceedsLimits(tree) => ~ExceedsLimits(u)
    <3>1. /\ Depth(u) > MaxDepth => Depth(u) <= Depth(tree)
          /\ Size(u) > MaxNodes => Size(u) <= Size(tree)
      BY <1>1, <1>2, <2>1, OpWithinLimits
    <3>2. \A t : Good(t) => Depth(t) \in Nat /\ Size(t) \in Nat
      <4>. SUFFICES ASSUME NEW t, Good(t)
                    PROVE  Depth(t) \in Nat /\ Size(t) \in Nat
        OBVIOUS
      <4>1. PICK n \in Nodes(t) : Depth(t) = 1 + Level(n)
        BY DepthIs
      <4>2. Level(n) \in Nat /\ Size(t) \in Nat
        BY NodesAre
      <4>. QED  BY <4>1, <4>2
    <3>3. Depth(u) \in Nat /\ Size(u) \in Nat /\ Depth(tree) \in Nat /\ Size(tree) \in Nat
      BY <2>1, <2>2, <3>2
    <3>. HIDE DEF u
    <3>. QED  BY <3>1, <3>3, NodeLimitsAssumption DEF ExceedsLimits
  <2>. HIDE DEF u, r, sc, E
  <2>5. CASE script = << >>
    <3>1. tree = base /\ Told(sc) = E
      BY <1>6, <2>5 DEF BatchInv
    <3>. QED  BY <1>4, <2>3, <3>1
  <2>6. CASE script # << >>
    <3>. DEFINE A == Told(script)
    <3>1. AllEdits(A) /\ Ran(base, A, tree) /\ (Grows(A) => ~ExceedsLimits(tree))
      BY <1>7, <2>6 DEF BatchInv, ScriptRan
    <3>2. Told(sc) = A \o E
      BY <1>6, <2>6
    <3>. HIDE DEF A
    <3>3. AllEdits(A \o E) /\ Ran(base, A \o E, u)
      BY <1>4, <3>1, RanOn
    <3>4. Grows(A \o E) => Grows(A) \/ Grows(E)
      BY <1>4, <3>1, GrowsOn
    <3>. QED  BY <2>3, <2>4, <3>1, <3>2, <3>3, <3>4
  <2>. QED  BY <2>5, <2>6
<1>. HIDE DEF u, r, sc, E
<1>8. Unique(base) => ScriptRan(base, u, sc)
  BY <1>7 DEF ScriptRan
<1>. QED  BY <1>2, <1>5, <1>8, BatchInvNext

\* Ops accepted one at a time, from a tree that holds each id once, are accepted as
\* one Batch, with the same tree: the limits and the ids that a Batch reads once, at
\* its end, are as they were read after each op.
THEOREM BatchesAgree == Spec => []BatchAgrees
<1>1. Init => BatchInv
  <2>1. Init => tree = base /\ script = << >>
    BY DEF Init
  <2>. QED  BY <2>1 DEF BatchInv
<1>2. IInv /\ BatchInv /\ [Next]_vars => BatchInv'
  <2>1. CASE UNCHANGED vars
    <3>1. base' = base /\ tree' = tree /\ script' = script
      BY <2>1 DEF vars
    <3>. QED  BY <3>1, BatchInvNext DEF BatchInv
  <2>2. ASSUME IInv, BatchInv, Next
        PROVE  BatchInv'
    BY <2>2, ScriptRunsOn
  <2>. QED  BY <2>1, <2>2
<1>3. IInv /\ BatchInv => BatchAgrees
  <2>. SUFFICES ASSUME IInv, BatchInv, Unique(base), script # << >>
                PROVE  ApplyOp(Together, base) = Ok(tree)
    BY DEF BatchAgrees
  <2>1. ScriptRan(base, tree, script) /\ Unique(tree)
    BY DEF BatchInv, IInv, UniqueKept
  <2>2. Together = BatchOp(Told(script))
    BY DEF Together, Told
  <2>. QED  BY <2>1, <2>2, RanAccepted DEF ScriptRan
<1>. QED  BY <1>1, <1>2, <1>3, SessionKeeps, PTL DEF Spec

-----------------------------------------------------------------------------
(***************************************************************************)
(* A node taken from its place, and put in another.                        *)
(***************************************************************************)
\* The row is the other without what stands at its k-th place.
Past(i, k) == IF i < k THEN i ELSE i + 1
Gap(r, s, k, n) == /\ DOMAIN r = 1 .. n - 1
                   /\ \A i \in 1 .. n - 1 : r[i] = s[Past(i, k)]

\* r is the row s of n without the k-th, if there is one.
Skipped(r, s, n, k) ==
    /\ r \in Seq({s[i] : i \in 1 .. n}) /\ Len(r) = IF n < k THEN n ELSE n - 1
    /\ \A i \in 1 .. Len(r) : r[i] = s[Past(i, k)]

\* h takes the row s in one by one, all but the k-th.
TakesIn(h, s, n, k) ==
    h[0] = << >> /\ \A i \in 1 .. n : h[i] = IF i = k THEN h[i - 1] ELSE Append(h[i - 1], s[i])

\* Then it ends with the row without the k-th.
LEMMA TakesGap ==
    ASSUME NEW h, NEW s, NEW n \in Nat, NEW k \in Nat \ {0}, TakesIn(h, s, n, k)
    PROVE  Skipped(h[n], s, n, k)
<1>. DEFINE S == {s[i] : i \in 1 .. n}
            Upto(m) == /\ h[m] \in Seq(S)
                       /\ Len(h[m]) = IF m < k THEN m ELSE m - 1
                       /\ \A i \in 1 .. Len(h[m]) : h[m][i] = s[Past(i, k)]
            T == {m \in Nat : m <= n /\ ~Upto(m)}
<1>2. ASSUME T # {}
      PROVE  FALSE
  <2>1. PICK m \in T : \A l \in T : m <= l
    <3>1. T \subseteq Nat
      OBVIOUS
    <3>. HIDE DEF T
    <3>. QED  BY <1>2, <3>1, LeastIn
  <2>2. m # 0
    <3>1. h[0] = << >>
      BY DEF TakesIn
    <3>2. Upto(0)
      BY <3>1
    <3>. QED  BY <2>1, <3>2
  <2>3. m - 1 \in Nat /\ m - 1 <= n /\ m - 1 \notin T /\ m \in 1 .. n /\ m \in Nat
    <3>. HIDE DEF Upto
    <3>. QED  BY <2>1, <2>2
  <2>4. Upto(m - 1)
    <3>. HIDE DEF Upto
    <3>. QED  BY <2>3
  <2>5. h[m] = IF m = k THEN h[m - 1] ELSE Append(h[m - 1], s[m])
    BY <2>3 DEF TakesIn
  <2>. DEFINE r == h[m - 1]
  <2>6. r \in Seq(S) /\ Len(r) = (IF m - 1 < k THEN m - 1 ELSE m - 1 - 1)
        /\ \A i \in 1 .. Len(r) : r[i] = s[Past(i, k)]
    BY <2>4
  <2>7. s[m] \in S
    BY <2>3
  <2>8. CASE m = k
    <3>1. h[m] = r
      BY <2>3, <2>5, <2>8
    <3>2. Len(r) = m - 1
      BY <2>6, <2>8, <2>3
    <3>. HIDE DEF r, S
    <3>3. Upto(m)
      BY <2>6, <2>8, <3>1, <3>2
    <3>. QED  BY <2>1, <3>3
  <2>9. CASE m # k
    <3>1. h[m] = Append(r, s[m])
      BY <2>3, <2>5, <2>9
    <3>. HIDE DEF r, S
    <3>2. /\ h[m] \in Seq(S) /\ Len(h[m]) = Len(r) + 1 /\ h[m][Len(r) + 1] = s[m]
          /\ \A i \in 1 .. Len(r) : h[m][i] = r[i]
      BY <2>6, <2>7, <3>1
    <3>3. Len(h[m]) = (IF m < k THEN m ELSE m - 1) /\ Past(Len(r) + 1, k) = m
      BY <2>3, <2>6, <2>9, <3>2 DEF Past
    <3>4. \A i \in 1 .. Len(h[m]) : i = Len(r) + 1 \/ i \in 1 .. Len(r)
      BY <2>6, <3>2
    <3>5. \A i \in 1 .. Len(h[m]) : h[m][i] = s[Past(i, k)]
      BY <2>6, <3>2, <3>3, <3>4
    <3>6. Upto(m)
      BY <3>2, <3>3, <3>5
    <3>. QED  BY <2>1, <3>6
  <2>. QED  BY <2>8, <2>9
<1>3. Upto(n)
  <2>1. n \notin T
    BY <1>2
  <2>. HIDE DEF Upto
  <2>. QED  BY <2>1
<1>. QED  BY <1>3 DEF Skipped

\* What is kept of a row in which one node has the id is the row without it.
LEMMA KeptGap ==
    ASSUME NEW target, NEW s, NEW n \in Nat, DOMAIN s = 1 .. n, NEW k \in 1 .. n,
           \A i \in 1 .. n : s[i][<< >>].id = target <=> i = k
    PROVE  Gap(Kept(target, s), s, k, n)
<1>1. PICK h : Runs(h, "kept", << >>, s, target, n) /\ Kept(target, s) = h[n]
  BY KeptRuns
<1>2. TakesIn(h, s, n, k)
  BY <1>1 DEF Runs, Step, TakesIn
<1>3. /\ h[n] \in Seq({s[i] : i \in 1 .. n}) /\ Len(h[n]) = n - 1
      /\ \A i \in 1 .. Len(h[n]) : h[n][i] = s[Past(i, k)]
  <2>1. Skipped(h[n], s, n, k)
    BY <1>2, TakesGap
  <2>. QED  BY <2>1 DEF Skipped
<1>4. DOMAIN h[n] = 1 .. n - 1
  BY <1>3
<1>. QED  BY <1>1, <1>3, <1>4 DEF Gap

\* Of the n in the row, id is the k-th at most.
Once(s, n, k, id) ==
    /\ n \in Nat /\ DOMAIN s = 1 .. n /\ k \in Nat \ {0}
    /\ \A i \in 1 .. n : s[i] = id <=> i = k

\* So is a row of ids without the one.
LEMMA WithoutGap ==
    ASSUME NEW s, NEW n, NEW k, NEW id, Once(s, n, k, id)
    PROVE  Skipped(Without(s, id), s, n, k)
<1>0. n \in Nat /\ DOMAIN s = 1 .. n /\ k \in Nat \ {0}
  BY DEF Once
<1>1. PICK h : Runs(h, "without", << >>, s, id, n) /\ Without(s, id) = h[n]
  BY <1>0, WithoutRuns
<1>2. TakesIn(h, s, n, k)
  BY <1>1 DEF Runs, Step, TakesIn, Once
<1>. QED  BY <1>0, <1>1, <1>2, TakesGap

\* In the row, x is there and no later than y.
Abreast(x, y, row) == \E i, j \in DOMAIN row : i <= j /\ row[i] = x /\ row[j] = y

\* Row a lies in row b in b's order, and what else is in b is the id's.
Within(a, b, id) ==
    \E k : /\ \A i \in DOMAIN a : k[i] \in DOMAIN b /\ a[i] = b[k[i]]
           /\ \A i, j \in DOMAIN a : i <= j <=> k[i] <= k[j]
           /\ \A l \in DOMAIN b : b[l] = id \/ \E i \in DOMAIN a : l = k[i]

\* Then the others stand in both as in either.
LEMMA WithinAbreast ==
    ASSUME NEW a, NEW b, NEW id, Within(a, b, id), NEW x, NEW y, x # id, y # id
    PROVE  Abreast(x, y, a) <=> Abreast(x, y, b)
<1>1. PICK k : /\ \A i \in DOMAIN a : k[i] \in DOMAIN b /\ a[i] = b[k[i]]
               /\ \A i, j \in DOMAIN a : i <= j <=> k[i] <= k[j]
               /\ \A l \in DOMAIN b : b[l] = id \/ \E i \in DOMAIN a : l = k[i]
  BY DEF Within
<1>2. ASSUME Abreast(x, y, a)
      PROVE  Abreast(x, y, b)
  <2>1. PICK i, j \in DOMAIN a : i <= j /\ a[i] = x /\ a[j] = y
    BY <1>2 DEF Abreast
  <2>2. k[i] \in DOMAIN b /\ k[j] \in DOMAIN b /\ k[i] <= k[j] /\ b[k[i]] = x /\ b[k[j]] = y
    BY <1>1, <2>1
  <2>. QED  BY <2>2 DEF Abreast
<1>3. ASSUME Abreast(x, y, b)
      PROVE  Abreast(x, y, a)
  <2>1. PICK l, m \in DOMAIN b : l <= m /\ b[l] = x /\ b[m] = y
    BY <1>3 DEF Abreast
  <2>2. PICK i \in DOMAIN a : l = k[i]
    BY <1>1, <2>1
  <2>3. PICK j \in DOMAIN a : m = k[j]
    BY <1>1, <2>1
  <2>4. i <= j /\ a[i] = x /\ a[j] = y
    BY <1>1, <2>1, <2>2, <2>3
  <2>. QED  BY <2>4 DEF Abreast
<1>. QED  BY <1>2, <1>3

-----------------------------------------------------------------------------
\* Of a tree that holds each id once, an id is found where it is.
LEMMA UniqueFind ==
    ASSUME NEW t, Fine(t, {}), NEW x \in DOMAIN t
    PROVE  Find(t[x].id, t) = x
<1>1. t[x].id \in Ids(t)
  BY DEF Ids
<1>2. Find(t[x].id, t) \in DOMAIN t /\ t[Find(t[x].id, t)].id = t[x].id
  BY <1>1, FindIs DEF Fine
<1>. QED  BY <1>2, FineIsUnique DEF Unique

\* u is t without what hangs from slot k of g, whose n children have closed up.
Gapped(u, t, g, k, n) ==
    /\ Fine(t, {}) /\ Fine(u, {})
    /\ g \in DOMAIN t /\ g \in Pos /\ IsLayout(t[g]) /\ HeldAre(t, g, n)
    /\ n \in Nat /\ n <= MaxSlots /\ k \in 1 .. n
    /\ \E j, kids : /\ Seats(kids) = 1 .. n - 1
                    /\ \A i \in 1 .. n - 1 : j[i] = Past(i, k)
                    /\ Moves(u, t, g, g, j, kids)

\* A removal takes what hangs from one slot, or is refused for a node in no layout.
LEMMA RemoveIs ==
    ASSUME NEW t, Fine(t, {}), NEW target, NEW r, r = RemoveNode(target, t)
    PROVE  \/ /\ LayoutParents(target, t) = {}
              /\ r.err \in {"KindMismatch", "NodeNotFound"} /\ r.tree = t
           \/ /\ r = Ok(r.tree) /\ target \in Ids(t)
              /\ \E g, k, n : Find(target, t) = Child(g, k) /\ Gapped(r.tree, t, g, k, n)
<1>. DEFINE P == LayoutParents(target, t)
            p == InOrder(P)[1]
            q == Find(t[p].id, t)
            kids == Kept(target, Held(t, p))
            u == WithKids(t, q, kids)
<1>0. Good(t) /\ Unique(t) /\ DOMAIN t \subseteq Pos /\ << >> \in DOMAIN t
  BY FineIsUnique DEF Good, Rooted
<1>1. CASE P = {}
  <2>. HIDE DEF p
  <2>. QED  BY <1>1 DEF RemoveNode, Fail, P
<1>2. CASE P # {}
  <2>1. P \subseteq Pos /\ IsFiniteSet(P) /\ P \subseteq DOMAIN t
    BY <1>0, FS_Subset DEF LayoutParents, Good, Rooted
  <2>2. p \in P
    BY <1>2, <2>1, FirstInOrder
  <2>3. t[<< >>].id # target => RemoveNode(target, t) = Ok(u)
    <3>. HIDE DEF WithKids
    <3>. QED  BY <1>2 DEF RemoveNode, Kept
  <2>4. p \in DOMAIN t /\ p \in Pos /\ IsLayout(t[p])
    BY <2>1, <2>2 DEF LayoutParents
  <2>5. PICK k \in Slots(t, p, 0) : t[Child(p, k)].id = target
    BY <2>2 DEF LayoutParents, ToSet, KidIds, Child
  <2>. HIDE DEF p, P
  <2>6. q = p
    BY <2>4, UniqueFind
  <2>. HIDE DEF q
  <2>7. PICK n : HeldAre(t, p, n)
    BY <1>0, <2>4, HeldIs
  <2>8. /\ n \in Nat /\ n <= MaxSlots /\ DOMAIN Held(t, p) = 1 .. n
        /\ \A i \in 1 .. MaxSlots : Child(p, i) \in DOMAIN t <=> i \in 1 .. n
        /\ \A i \in 1 .. n : Held(t, p)[i] = Sub(t, Child(p, i)) /\ Good(Sub(t, Child(p, i)))
        /\ \A i \in 1 .. n : i \in 1 .. MaxSlots /\ i \in Nat
    BY <2>7, MaxSlotsAssumption DEF HeldAre
  <2>9. k \in 1 .. n
    <3>1. k \in 1 .. MaxSlots /\ Append(p, 0 + k) \in DOMAIN t
      BY <2>5 DEF Slots
    <3>2. 0 + k = k
      BY <3>1, MaxSlotsAssumption
    <3>. QED  BY <2>8, <3>1, <3>2 DEF Child
  <2>10. Child(p, k) \in DOMAIN t /\ Child(p, k) # << >>
    BY <2>4, <2>8, <2>9, AppendParts
  <2>11. t[<< >>].id # target
    BY <1>0, <2>5, <2>10 DEF Unique
  <2>12. \A i \in 1 .. n : Held(t, p)[i][<< >>].id = target <=> i = k
    <3>. SUFFICES ASSUME NEW i \in 1 .. n
                  PROVE  Held(t, p)[i][<< >>].id = target <=> i = k
      OBVIOUS
    <3>1. Child(p, i) \in DOMAIN t /\ i \in Nat /\ At(p, i, << >>) = Child(p, i) /\ << >> \in Pos
      BY <2>4, <2>8, AtEmpty DEF Pos
    <3>2. Held(t, p)[i][<< >>] = t[Child(p, i)]
      BY <1>0, <2>4, <2>8, <3>1, SubAt
    <3>3. Child(p, i) = Child(p, k) => i = k
      BY <2>4, <2>8, <2>9, FrontLast
    <3>. QED  BY <1>0, <2>5, <2>10, <3>1, <3>2, <3>3 DEF Unique
  <2>13. Gap(kids, Held(t, p), k, n)
    BY <2>8, <2>9, <2>12, KeptGap
  <2>. HIDE DEF kids
  <2>14. Seats(kids) = 1 .. n - 1
    BY <2>8, <2>9, <2>13, MaxSlotsAssumption DEF Gap, Seats
  <2>. DEFINE j == [i \in 1 .. n - 1 |-> Past(i, k)]
  <2>15. \A i \in 1 .. n - 1 : j[i] = Past(i, k) /\ Past(i, k) \in 1 .. n
    BY <2>8, <2>9 DEF Past
  <2>. HIDE DEF j
  <2>16. \A i \in 1 .. n - 1 : /\ j[i] \in 1 .. MaxSlots /\ Child(p, j[i]) \in DOMAIN t
                               /\ kids[i] = Sub(t, Child(p, j[i])) /\ Good(kids[i])
    BY <2>8, <2>13, <2>15 DEF Gap
  <2>17. GoodSubs(kids)
    <3>1. \A i \in 1 .. n - 1 : i # 1 => i - 1 \in 1 .. n - 1
      BY <2>8
    <3>. QED  BY <2>14, <2>16, <3>1 DEF GoodSubs
  <2>. DEFINE v == WithSlots(t, p, 0, kids)
  <2>18. Good(v) /\ Seated(v, t, p, 0, kids)
    BY <1>0, <2>4, <2>17, KidsSeat
  <2>19. u = v
    BY <2>4, <2>6 DEF WithKids
  <2>. HIDE DEF v, u
  <2>20. r = Ok(v) /\ r.tree = v
    BY <2>3, <2>11, <2>19 DEF Ok
  <2>21. Moves(v, t, p, p, j, kids)
    BY <1>0, <2>4, <2>14, <2>16, <2>18 DEF Moves
  <2>22. Fine(v, {})
    BY <2>20, RemoveKeeps
  <2>23. Gapped(v, t, p, k, n)
    BY <2>4, <2>7, <2>8, <2>9, <2>14, <2>15, <2>21, <2>22 DEF Gapped
  <2>24. Find(target, t) = Child(p, k) /\ target \in Ids(t)
    BY <2>5, <2>10, UniqueFind DEF Ids
  <2>. QED  BY <2>20, <2>23, <2>24
<1>. QED  BY <1>1, <1>2

-----------------------------------------------------------------------------
\* The nodes of a subtree, one by one.
LEMMA SubHas ==
    ASSUME NEW t, NEW g \in Pos, NEW k \in Nat, DOMAIN t \subseteq Pos, NEW c, c = Sub(t, Child(g, k))
    PROVE  /\ \A y \in DOMAIN c : y \in Pos /\ At(g, k, y) \in DOMAIN t /\ c[y] = t[At(g, k, y)]
           /\ \A y \in Pos : At(g, k, y) \in DOMAIN t => y \in DOMAIN c
<1>1. DOMAIN c = {y \in Pos : At(g, k, y) \in DOMAIN t}
  BY SubIs
<1>2. \A y \in Pos : At(g, k, y) \in DOMAIN t => c[y] = t[At(g, k, y)]
  BY SubIs
<1>. QED  BY <1>1, <1>2

\* x hangs from slot k of g, or below what does.
BelowSlot(x, g, k) == \E y \in Pos : x = At(g, k, y)

\* The node at x was at o before slot k of g was closed.
Shift(x, o, g, k) ==
    \/ x = o /\ ~Under(g, 0, x)
    \/ \E i \in 1 .. MaxSlots : \E y \in Pos : x = At(g, i, y) /\ o = At(g, Past(i, k), y)

\* What a closed slot leaves is where it was or one slot further, and nothing else is gone.
LEMMA GapMap ==
    ASSUME NEW u, NEW t, NEW g, NEW k, NEW n, Gapped(u, t, g, k, n)
    PROVE  /\ \A x \in DOMAIN u : \E o \in DOMAIN t : Shift(x, o, g, k) /\ u[x] = t[o] /\ ~BelowSlot(o, g, k)
           /\ \A o \in DOMAIN t : \/ BelowSlot(o, g, k)
                                 \/ \E x \in DOMAIN u : Shift(x, o, g, k) /\ u[x] = t[o]
<1>1. PICK j, kids : /\ Seats(kids) = 1 .. n - 1
                     /\ \A i \in 1 .. n - 1 : j[i] = Past(i, k)
                     /\ Moves(u, t, g, g, j, kids)
  BY DEF Gapped
<1>2. /\ g \in Pos /\ n \in Nat /\ n <= MaxSlots /\ k \in 1 .. n /\ DOMAIN t \subseteq Pos /\ MaxSlots \in Nat
      /\ Good(t) /\ Rooted(t)
  BY MaxSlotsAssumption DEF Gapped, Fine, Good, Rooted
<1>3. \A i \in 1 .. MaxSlots : Child(g, i) \in DOMAIN t <=> i \in 1 .. n
  BY DEF Gapped, HeldAre
<1>4. Seated(u, t, g, 0, kids) /\ \A i \in 1 .. n - 1 : kids[i] = Sub(t, Child(g, Past(i, k)))
  BY <1>1 DEF Moves
<1>5. \A i \in 1 .. n - 1 : /\ i \in 1 .. MaxSlots /\ i \in Nat /\ 0 + i = i /\ Past(i, k) \in 1 .. n
                            /\ Past(i, k) \in Nat /\ Past(i, k) # k
  BY <1>2 DEF Past
<1>6. ASSUME NEW x \in DOMAIN u
      PROVE  \E o \in DOMAIN t : Shift(x, o, g, k) /\ u[x] = t[o] /\ ~BelowSlot(o, g, k)
  <2>1. CASE x \in DOMAIN t /\ ~Under(g, 0, x)
    <3>1. ~BelowSlot(x, g, k)
      <4>1. k \in 1 .. MaxSlots /\ 0 + k = k
        BY <1>2
      <4>. QED  BY <2>1, <4>1 DEF BelowSlot, Under
    <3>2. u[x] = t[x]
      BY <1>4, <2>1 DEF Seated
    <3>. QED  BY <2>1, <3>1, <3>2 DEF Shift
  <2>2. CASE \E i \in Seats(kids) : \E y \in DOMAIN kids[i] : x = At(g, 0 + i, y)
    <3>1. PICK i \in 1 .. n - 1 : \E y \in DOMAIN kids[i] : x = At(g, 0 + i, y)
      BY <1>1, <2>2
    <3>2. PICK y \in DOMAIN kids[i] : x = At(g, 0 + i, y)
      BY <3>1
    <3>. DEFINE o == At(g, Past(i, k), y)
    <3>3. y \in Pos /\ o \in DOMAIN t /\ kids[i][y] = t[o]
      <4>1. kids[i] = Sub(t, Child(g, Past(i, k))) /\ Past(i, k) \in Nat
        BY <1>4, <1>5
      <4>. QED  BY <1>2, <4>1, SubHas
    <3>4. x = At(g, i, y) /\ u[x] = kids[i][y]
      <4>1. u[At(g, 0 + i, y)] = kids[i][y]
        BY <1>1, <1>4 DEF Seated
      <4>. QED  BY <1>5, <3>2, <4>1
    <3>5. ~BelowSlot(o, g, k)
      BY <1>2, <1>5, <3>3, AtInjective DEF BelowSlot
    <3>6. Shift(x, o, g, k)
      BY <1>5, <3>3, <3>4 DEF Shift
    <3>. QED  BY <3>3, <3>4, <3>5, <3>6
  <2>. QED  BY <1>4, <2>1, <2>2 DEF Seated
<1>7. ASSUME NEW o \in DOMAIN t, ~BelowSlot(o, g, k)
      PROVE  \E x \in DOMAIN u : Shift(x, o, g, k) /\ u[x] = t[o]
  <2>1. CASE ~Under(g, 0, o)
    <3>1. o \in DOMAIN u /\ u[o] = t[o]
      BY <1>4, <2>1 DEF Seated
    <3>. QED  BY <2>1, <3>1 DEF Shift
  <2>2. CASE Under(g, 0, o)
    <3>1. PICK l \in 1 .. MaxSlots, y \in Pos : o = At(g, 0 + l, y)
      BY <2>2 DEF Under
    <3>2. l \in Nat /\ 0 + l = l /\ o = At(g, l, y)
      BY <1>2, <3>1
    <3>3. l # k
      BY <1>7, <3>2 DEF BelowSlot
    <3>4. l \in 1 .. n
      BY <1>2, <1>3, <3>2, Above
    <3>. DEFINE i == IF l < k THEN l ELSE l - 1
    <3>5. i \in 1 .. n - 1 /\ Past(i, k) = l
      BY <1>2, <3>3, <3>4 DEF Past
    <3>. HIDE DEF i
    <3>6. y \in DOMAIN kids[i] /\ kids[i][y] = t[o]
      <4>1. kids[i] = Sub(t, Child(g, l))
        BY <1>4, <3>5
      <4>. QED  BY <1>2, <3>2, <4>1, SubHas
    <3>7. At(g, 0 + i, y) \in DOMAIN u /\ u[At(g, 0 + i, y)] = kids[i][y]
      BY <1>1, <1>4, <3>5, <3>6 DEF Seated
    <3>8. 0 + i = i /\ i \in 1 .. MaxSlots
      BY <1>5, <3>5
    <3>9. Shift(At(g, i, y), o, g, k)
      BY <3>2, <3>5, <3>8 DEF Shift
    <3>. QED  BY <3>6, <3>7, <3>8, <3>9
  <2>. QED  BY <2>1, <2>2
<1>. QED  BY <1>6, <1>7

\* What hangs from a slot is what its subtree says.
LEMMA SubLabels ==
    ASSUME NEW t, DOMAIN t \subseteq Pos, NEW g \in Pos, NEW k \in Nat
    PROVE  /\ Labels(Sub(t, Child(g, k))) = {t[o] : o \in {x \in DOMAIN t : BelowSlot(x, g, k)}}
           /\ Ids(Sub(t, Child(g, k))) = {t[o].id : o \in {x \in DOMAIN t : BelowSlot(x, g, k)}}
<1>. DEFINE c == Sub(t, Child(g, k))
<1>1. /\ \A y \in DOMAIN c : y \in Pos /\ At(g, k, y) \in DOMAIN t /\ c[y] = t[At(g, k, y)]
      /\ \A y \in Pos : At(g, k, y) \in DOMAIN t => y \in DOMAIN c
  BY SubHas
<1>. HIDE DEF c
<1>2. ASSUME NEW o \in DOMAIN t, BelowSlot(o, g, k)
      PROVE  \E y \in DOMAIN c : c[y] = t[o]
  BY <1>1, <1>2 DEF BelowSlot
<1>3. ASSUME NEW y \in DOMAIN c
      PROVE  \E o \in DOMAIN t : BelowSlot(o, g, k) /\ c[y] = t[o]
  BY <1>1 DEF BelowSlot
<1>4. Labels(c) = {t[o] : o \in {x \in DOMAIN t : BelowSlot(x, g, k)}}
  BY <1>2, <1>3 DEF Labels
<1>5. Ids(c) = {t[o].id : o \in {x \in DOMAIN t : BelowSlot(x, g, k)}}
  BY <1>2, <1>3 DEF Ids
<1>. QED  BY <1>4, <1>5 DEF c

\* A closed slot leaves all that did not hang from it, as it was.
LEMMA GapLabels ==
    ASSUME NEW u, NEW t, NEW g, NEW k, NEW n, Gapped(u, t, g, k, n)
    PROVE  /\ Labels(u) = Labels(t) \ Labels(Sub(t, Child(g, k)))
           /\ Ids(u) \intersect Ids(Sub(t, Child(g, k))) = {}
<1>. DEFINE L == {t[o] : o \in {x \in DOMAIN t : BelowSlot(x, g, k)}}
            J == {t[o].id : o \in {x \in DOMAIN t : BelowSlot(x, g, k)}}
<1>1. DOMAIN t \subseteq Pos /\ g \in Pos /\ k \in Nat /\ Unique(t)
  BY FineIsUnique DEF Gapped, Fine, Good, Rooted
<1>2. Labels(Sub(t, Child(g, k))) = L /\ Ids(Sub(t, Child(g, k))) = J
  BY <1>1, SubLabels
<1>3. \A x \in DOMAIN u : \E o \in DOMAIN t : u[x] = t[o] /\ ~BelowSlot(o, g, k)
  BY GapMap
<1>4. \A o \in DOMAIN t : ~BelowSlot(o, g, k) => \E x \in DOMAIN u : u[x] = t[o]
  BY GapMap
<1>5. ASSUME NEW x \in DOMAIN u
      PROVE  u[x] \in Labels(t) /\ u[x] \notin L /\ u[x].id \notin J
  <2>1. PICK o \in DOMAIN t : u[x] = t[o] /\ ~BelowSlot(o, g, k)
    BY <1>3
  <2>2. \A y \in DOMAIN t : t[y].id = t[o].id => y = o
    BY <1>1 DEF Unique
  <2>. QED  BY <2>1, <2>2 DEF Labels
<1>6. ASSUME NEW l \in Labels(t), l \notin L
      PROVE  l \in Labels(u)
  <2>1. PICK o \in DOMAIN t : l = t[o]
    BY DEF Labels
  <2>2. ~BelowSlot(o, g, k)
    BY <1>6, <2>1
  <2>. QED  BY <1>4, <2>1, <2>2 DEF Labels
<1>. HIDE DEF L, J
<1>7. Labels(u) = Labels(t) \ L
  <2>1. Labels(u) \subseteq Labels(t) \ L
    BY <1>5 DEF Labels
  <2>. QED  BY <1>6, <2>1
<1>8. Ids(u) \intersect J = {}
  BY <1>5 DEF Ids
<1>. QED  BY <1>2, <1>7, <1>8

\* A row of ids, by its slots.
LEMMA KidIdsAre ==
    ASSUME NEW t, NEW p
    PROVE  /\ DOMAIN KidIds(t, p) = {i \in 1 .. MaxSlots : Child(p, i) \in DOMAIN t}
           /\ \A i \in DOMAIN KidIds(t, p) : i \in Nat /\ KidIds(t, p)[i] = t[Child(p, i)].id
<1>1. \A i \in 1 .. MaxSlots : i \in Nat /\ 0 + i = i
  BY MaxSlotsAssumption
<1>2. Slots(t, p, 0) = {i \in 1 .. MaxSlots : Child(p, i) \in DOMAIN t}
  BY <1>1 DEF Slots, Child
<1>. QED  BY <1>1, <1>2 DEF KidIds, Child

\* A row that is the other but for what is the id's lies in it.
LEMMA SameWithin ==
    ASSUME NEW a, NEW b, NEW id, DOMAIN a \subseteq Nat, \A i \in DOMAIN a : i \in DOMAIN b /\ a[i] = b[i],
           \A i \in DOMAIN b : b[i] = id \/ i \in DOMAIN a
    PROVE  Within(a, b, id)
<1>. DEFINE k == [i \in DOMAIN a |-> i]
<1>1. \A i \in DOMAIN a : k[i] = i
  OBVIOUS
<1>. HIDE DEF k
<1>. QED  BY <1>1 DEF Within

\* A node has the children it had before a slot was closed, but for what hung there.
LEMMA GapKids ==
    ASSUME NEW u, NEW t, NEW g, NEW k, NEW n, Gapped(u, t, g, k, n),
           NEW x \in DOMAIN u, NEW o \in DOMAIN t, Shift(x, o, g, k)
    PROVE  /\ Within(KidIds(u, x), KidIds(t, o), t[Child(g, k)].id)
           /\ DOMAIN KidIds(u, x) \subseteq DOMAIN KidIds(t, o)
<1>1. PICK j, kids : /\ Seats(kids) = 1 .. n - 1
                     /\ \A i \in 1 .. n - 1 : j[i] = Past(i, k)
                     /\ Moves(u, t, g, g, j, kids)
  BY DEF Gapped
<1>2. /\ g \in Pos /\ g \in DOMAIN t /\ n \in Nat /\ n <= MaxSlots /\ k \in 1 .. n /\ DOMAIN t \subseteq Pos
      /\ MaxSlots \in Nat /\ DOMAIN u \subseteq Pos
  BY MaxSlotsAssumption DEF Gapped, Fine, Good, Rooted
<1>3. \A i \in 1 .. MaxSlots : Child(g, i) \in DOMAIN t <=> i \in 1 .. n
  BY DEF Gapped, HeldAre
<1>4. Seated(u, t, g, 0, kids) /\ \A i \in 1 .. n - 1 : kids[i] = Sub(t, Child(g, Past(i, k)))
  BY <1>1 DEF Moves
<1>5. \A i \in 1 .. n - 1 : /\ i \in Nat /\ 0 + i = i /\ Past(i, k) \in 1 .. n /\ i \in 1 .. MaxSlots
                            /\ Past(i, k) \in Nat /\ Past(i, k) # k
  BY <1>2 DEF Past
<1>6. \A i \in Seats(kids) : /\ \A y \in DOMAIN kids[i] : y \in Pos /\ At(g, Past(i, k), y) \in DOMAIN t
                                                       /\ kids[i][y] = t[At(g, Past(i, k), y)]
                             /\ \A y \in Pos : At(g, Past(i, k), y) \in DOMAIN t => y \in DOMAIN kids[i]
  BY <1>1, <1>2, <1>4, <1>5, SubHas
<1>7. Parts(t, g, 0, kids)
  BY <1>2, <1>6 DEF Parts
<1>8. /\ \A i \in Seats(kids) : \A y \in DOMAIN kids[i] :
           At(g, 0 + i, y) \in DOMAIN u /\ u[At(g, 0 + i, y)] = kids[i][y]
      /\ \A w \in DOMAIN t : ~Under(g, 0, w) => w \in DOMAIN u /\ u[w] = t[w]
  BY <1>4 DEF Seated
<1>. DEFINE id == t[Child(g, k)].id
            a == KidIds(u, x)
            b == KidIds(t, o)
<1>9. /\ DOMAIN a = {i \in 1 .. MaxSlots : Child(x, i) \in DOMAIN u}
      /\ \A i \in DOMAIN a : i \in Nat /\ a[i] = u[Child(x, i)].id
  BY KidIdsAre
<1>10. /\ DOMAIN b = {i \in 1 .. MaxSlots : Child(o, i) \in DOMAIN t}
       /\ \A i \in DOMAIN b : i \in Nat /\ b[i] = t[Child(o, i)].id
  BY KidIdsAre
<1>. HIDE DEF id, a, b
<1>11. ASSUME \A i \in 1 .. MaxSlots : /\ Child(x, i) \in DOMAIN u <=> Child(o, i) \in DOMAIN t
                                       /\ Child(o, i) \in DOMAIN t => u[Child(x, i)] = t[Child(o, i)]
       PROVE  Within(a, b, id) /\ DOMAIN a \subseteq DOMAIN b
  <2>0. {i \in 1 .. MaxSlots : Child(x, i) \in DOMAIN u} = {i \in 1 .. MaxSlots : Child(o, i) \in DOMAIN t}
    BY <1>11
  <2>1. DOMAIN a = DOMAIN b
    BY <1>9, <1>10, <2>0
  <2>2. \A i \in DOMAIN a : i \in Nat /\ a[i] = b[i]
    BY <1>9, <1>10, <1>11, <2>1
  <2>3. DOMAIN a \subseteq Nat
    BY <2>2
  <2>. QED  BY <2>1, <2>2, <2>3, SameWithin
<1>12. ASSUME x = o, ~Under(g, 0, x), x # g
       PROVE  Within(a, b, id) /\ DOMAIN a \subseteq DOMAIN b
  <2>1. ASSUME NEW i \in 1 .. MaxSlots
        PROVE  /\ Child(x, i) \in DOMAIN u <=> Child(o, i) \in DOMAIN t
               /\ Child(o, i) \in DOMAIN t => u[Child(x, i)] = t[Child(o, i)]
    <3>1. i \in Nat /\ x \in Pos /\ ~Under(g, 0, Child(x, i))
      BY <1>2, <1>12, UnderStep
    <3>2. Child(x, i) \in DOMAIN u <=> Child(o, i) \in DOMAIN t
      BY <1>4, <1>7, <1>12, <3>1, ChildOld
    <3>. QED  BY <1>8, <1>12, <3>1, <3>2
  <2>. QED  BY <1>11, <2>1
<1>13. ASSUME NEW i \in 1 .. MaxSlots, NEW y \in Pos, x = At(g, i, y), o = At(g, Past(i, k), y)
       PROVE  Within(a, b, id) /\ DOMAIN a \subseteq DOMAIN b
  <2>0. i \in Nat /\ 0 + i = i
    BY <1>2
  <2>1. i \in 1 .. n - 1 /\ y \in DOMAIN kids[i]
    <3>1. Under(g, 0, x)
      <4>1. x = At(g, 0 + i, y)
        BY <1>13, <2>0
      <4>. QED  BY <4>1 DEF Under
    <3>2. PICK z \in Seats(kids) : \E w \in DOMAIN kids[z] : x = At(g, 0 + z, w)
      BY <1>4, <3>1 DEF Seated
    <3>3. PICK w \in DOMAIN kids[z] : x = At(g, 0 + z, w)
      BY <3>2
    <3>4. z \in 1 .. n - 1 /\ w \in Pos /\ z \in Nat /\ x = At(g, z, w)
      BY <1>1, <1>5, <1>6, <3>3
    <3>5. z = i /\ w = y
      <4>1. At(g, i, y) = At(g, z, w)
        BY <1>13, <3>4
      <4>. QED  BY <1>2, <2>0, <3>4, <4>1, AtInjective
    <3>. QED  BY <3>3, <3>4, <3>5
  <2>. DEFINE l == Past(i, k)
              c == kids[i]
  <2>2. l \in Nat /\ i \in Seats(kids)
    BY <1>1, <1>5, <2>1
  <2>3. /\ \A z \in DOMAIN c : z \in Pos /\ At(g, l, z) \in DOMAIN t /\ c[z] = t[At(g, l, z)]
        /\ \A z \in Pos : At(g, l, z) \in DOMAIN t => z \in DOMAIN c
    BY <1>6, <2>2
  <2>4. \A z \in DOMAIN c : u[At(g, i, z)] = c[z]
    BY <1>8, <2>0, <2>2
  <2>5. ASSUME NEW s \in 1 .. MaxSlots
        PROVE  /\ Child(x, s) \in DOMAIN u <=> Child(o, s) \in DOMAIN t
               /\ Child(o, s) \in DOMAIN t => u[Child(x, s)] = t[Child(o, s)]
    <3>0. s \in Nat /\ y \in DOMAIN kids[i]
      BY <1>2, <2>1
    <3>1. /\ Child(At(g, 0 + i, y), s) \in DOMAIN u <=> Child(y, s) \in DOMAIN kids[i]
          /\ Child(At(g, 0 + i, y), s) = At(g, 0 + i, Child(y, s))
      BY <1>4, <1>7, <2>2, <3>0, ChildNew
    <3>2. /\ Child(x, s) \in DOMAIN u <=> Child(y, s) \in DOMAIN c
          /\ Child(x, s) = At(g, i, Child(y, s))
      BY <1>13, <2>0, <3>1
    <3>3. Child(o, s) = At(g, l, Child(y, s)) /\ Child(y, s) \in Pos
      <4>1. o = At(g, l, y)
        BY <1>13
      <4>. HIDE DEF l
      <4>2. g \in Pos /\ y \in Pos /\ l \in Nat /\ s \in Nat
        BY <1>2, <2>2, <3>0
      <4>3. Child(At(g, l, y), s) = At(g, l, Child(y, s)) /\ Child(y, s) \in Pos
        BY <4>2, AtAppend
      <4>. QED  BY <4>1, <4>3
    <3>. HIDE DEF c, l
    <3>4. Child(y, s) \in DOMAIN c <=> Child(o, s) \in DOMAIN t
      BY <2>3, <3>3
    <3>5. Child(y, s) \in DOMAIN c => u[Child(x, s)] = t[Child(o, s)]
      BY <2>3, <2>4, <3>2, <3>3
    <3>. QED  BY <3>2, <3>4, <3>5
  <2>. QED  BY <1>11, <2>5
<1>14. ASSUME x = o, x = g
       PROVE  Within(a, b, id) /\ DOMAIN a \subseteq DOMAIN b
  <2>. DEFINE f == [i \in 1 .. n - 1 |-> Past(i, k)]
  <2>1. \A i \in 1 .. n - 1 : f[i] = Past(i, k)
    OBVIOUS
  <2>. HIDE DEF f
  <2>2. ASSUME NEW i \in 1 .. n
        PROVE  i \in Nat /\ At(g, i, << >>) = Child(g, i) /\ << >> \in Pos /\ Child(g, i) \in DOMAIN t
               /\ i \in 1 .. MaxSlots
    <3>1. i \in Nat /\ i \in 1 .. MaxSlots
      BY <1>2
    <3>. QED  BY <1>2, <1>3, <3>1, AtEmpty DEF Pos
  <2>3. \A i \in Seats(kids) : << >> \in DOMAIN kids[i] /\ kids[i][<< >>] = t[Child(g, Past(i, k))]
    BY <1>1, <1>5, <1>6, <2>2
  <2>4. ASSUME NEW i \in 1 .. MaxSlots
        PROVE  Child(g, i) \in DOMAIN u <=> i \in 1 .. n - 1
    <3>1. 0 + i = i
      BY <1>2
    <3>2. Child(g, 0 + i) \in DOMAIN u <=> i \in Seats(kids)
      BY <1>4, <1>7, <2>3, ChildSeat
    <3>. QED  BY <1>1, <3>1, <3>2
  <2>5. DOMAIN a = 1 .. n - 1 /\ DOMAIN b = 1 .. n
    <3>1. \A i \in 1 .. n - 1 : i \in 1 .. MaxSlots
      BY <1>5
    <3>2. DOMAIN a = 1 .. n - 1
      BY <1>9, <1>14, <2>4, <3>1
    <3>3. DOMAIN b = 1 .. n
      BY <1>3, <1>10, <1>14, <2>2
    <3>. QED  BY <3>2, <3>3
  <2>6. ASSUME NEW i \in 1 .. n - 1
        PROVE  f[i] \in 1 .. n /\ a[i] = b[f[i]]
    <3>1. u[At(g, 0 + i, << >>)] = kids[i][<< >>] /\ kids[i][<< >>] = t[Child(g, Past(i, k))]
      BY <1>1, <1>8, <2>3
    <3>2. At(g, 0 + i, << >>) = Child(g, i)
      BY <1>2, <1>5, AtEmpty
    <3>3. u[Child(g, i)] = t[Child(g, f[i])] /\ f[i] \in 1 .. n
      BY <1>5, <2>1, <3>1, <3>2
    <3>4. a[i] = u[Child(g, i)].id /\ b[f[i]] = t[Child(g, f[i])].id
      BY <1>9, <1>10, <1>14, <2>5, <3>3
    <3>. QED  BY <3>3, <3>4
  <2>7. \A i, l \in 1 .. n - 1 : i <= l <=> f[i] <= f[l]
    BY <1>2, <2>1 DEF Past
  <2>8. ASSUME NEW l \in 1 .. n, l # k
        PROVE  \E i \in 1 .. n - 1 : l = f[i]
    <3>. DEFINE i == IF l < k THEN l ELSE l - 1
    <3>1. i \in 1 .. n - 1 /\ Past(i, k) = l
      BY <1>2, <2>8 DEF Past
    <3>. QED  BY <2>1, <3>1
  <2>9. b[k] = id
    BY <1>2, <1>10, <1>14, <2>5 DEF id
  <2>10. Within(a, b, id)
    <3>1. \A i \in DOMAIN a : f[i] \in DOMAIN b /\ a[i] = b[f[i]]
      BY <2>5, <2>6
    <3>2. \A i, l \in DOMAIN a : i <= l <=> f[i] <= f[l]
      BY <2>5, <2>7
    <3>3. \A l \in DOMAIN b : b[l] = id \/ \E i \in DOMAIN a : l = f[i]
      BY <2>5, <2>8, <2>9
    <3>. QED  BY <3>1, <3>2, <3>3 DEF Within
  <2>11. DOMAIN a \subseteq DOMAIN b
    BY <1>2, <2>5
  <2>. QED  BY <2>10, <2>11
<1>15. Within(a, b, id) /\ DOMAIN a \subseteq DOMAIN b
  BY <1>12, <1>13, <1>14 DEF Shift
<1>. QED  BY <1>15 DEF a, b, id

\* A closed slot leaves the order of all that did not hang from it.
LEMMA GapOthers ==
    ASSUME NEW u, NEW t, NEW g, NEW k, NEW n, Gapped(u, t, g, k, n),
           NEW q \in Ids(t), q \notin Ids(Sub(t, Child(g, k))),
           NEW x, NEW y, x # t[Child(g, k)].id, y # t[Child(g, k)].id
    PROVE  q \in Ids(u) /\ (NoLater(x, y, q, u) <=> NoLater(x, y, q, t))
<1>1. Fine(t, {}) /\ Fine(u, {}) /\ DOMAIN t \subseteq Pos /\ g \in Pos /\ k \in Nat
  BY DEF Gapped, Fine, Good, Rooted
<1>2. PICK o \in DOMAIN t : t[o].id = q
  BY DEF Ids
<1>3. ~BelowSlot(o, g, k)
  BY <1>1, <1>2, SubLabels
<1>4. PICK z \in DOMAIN u : Shift(z, o, g, k) /\ u[z] = t[o]
  BY <1>3, GapMap
<1>5. Find(q, t) = o /\ Find(q, u) = z
  BY <1>1, <1>2, <1>4, UniqueFind
<1>6. Within(KidIds(u, z), KidIds(t, o), t[Child(g, k)].id)
  BY <1>4, GapKids
<1>7. Abreast(x, y, KidIds(u, z)) <=> Abreast(x, y, KidIds(t, o))
  BY <1>6, WithinAbreast
<1>8. NoLater(x, y, q, u) <=> NoLater(x, y, q, t)
  BY <1>5, <1>7 DEF NoLater, Abreast
<1>. QED  BY <1>2, <1>4, <1>8 DEF Ids

-----------------------------------------------------------------------------
\* w is u with child after the n children of p.
Grown(w, u, p, n, child) ==
    /\ Fine(u, {}) /\ Fine(w, {}) /\ Good(child) /\ p \in DOMAIN u /\ p \in Pos
    /\ n \in Nat /\ n + 1 \in 1 .. MaxSlots
    /\ \A i \in 1 .. MaxSlots : Child(p, i) \in DOMAIN u <=> i \in 1 .. n
    /\ \A x \in DOMAIN u : x \in DOMAIN w /\ w[x] = u[x]
    /\ \A y \in DOMAIN child : At(p, n + 1, y) \in DOMAIN w /\ w[At(p, n + 1, y)] = child[y]
    /\ \A x \in DOMAIN w : x \in DOMAIN u \/ \E y \in DOMAIN child : x = At(p, n + 1, y)

\* An insert where there is a slot.
LEMMA InsertGrows ==
    ASSUME NEW u, Fine(u, {}), NEW parent, NEW child, Good(child), Roomy(u), MaxSlots # 0,
           NEW r, r = InsertChild(parent, child, u), r.err = "None", Fine(r.tree, {})
    PROVE  /\ parent \in Ids(u) /\ r = Ok(r.tree)
           /\ \E n : Grown(r.tree, u, Find(parent, u), n, child)
<1>. DEFINE p == Find(parent, u)
            kids == Append(Held(u, p), child)
            w == WithKids(u, p, kids)
            v == WithSlots(u, p, 0, kids)
<1>0. Good(u) /\ Unique(u) /\ DOMAIN u \subseteq Pos /\ MaxSlots \in Nat
  BY FineIsUnique, MaxSlotsAssumption DEF Good, Rooted
<1>1. parent \in Ids(u) /\ IsLayout(u[p]) /\ r = Ok(w)
  <2>. HIDE DEF w, p
  <2>1. InsertChild(parent, child, u) =
          IF parent \notin Ids(u) THEN Fail("ParentNotFound", u)
          ELSE IF ~IsLayout(u[p]) THEN Fail("ChildlessKind", u)
          ELSE IF Ids(child) \intersect Ids(u) # {} THEN Fail("DuplicateNodeId", u)
          ELSE Ok(w)
    BY DEF InsertChild, p, w
  <2>. QED  BY <2>1 DEF Fail
<1>2. p \in DOMAIN u /\ p \in Pos
  BY <1>0, <1>1, FindIs
<1>. HIDE DEF p
<1>3. PICK n : HeldAre(u, p, n)
  BY <1>0, <1>2, HeldIs
<1>4. n \in 0 .. MaxSlots /\ \A i \in 1 .. MaxSlots : Child(p, i) \in DOMAIN u <=> i \in 1 .. n
  BY <1>3 DEF HeldAre
<1>5. n \in Nat /\ n + 1 \in 1 .. MaxSlots /\ 0 + (n + 1) = n + 1
  <2>1. n # MaxSlots
    <3>1. MaxSlots \in 1 .. MaxSlots /\ 0 + MaxSlots = MaxSlots
      BY <1>0
    <3>2. Child(p, MaxSlots) \notin DOMAIN u
      BY <1>2, <3>1 DEF Roomy, Slots, Child
    <3>. QED  BY <1>4, <3>1, <3>2
  <2>. QED  BY <1>0, <1>4, <2>1
<1>6. /\ DOMAIN kids = 1 .. n + 1 /\ kids[n + 1] = child /\ n \in Nat
      /\ \A i \in 1 .. n : kids[i] = Sub(u, Child(p, i))
      /\ GoodSubs(kids)
  <2>1. kids = Append(Held(u, p), child) /\ Good(child) /\ Good(u) /\ p \in DOMAIN u /\ HeldAre(u, p, n)
    BY <1>0, <1>2, <1>3
  <2>. HIDE DEF kids, w, v
  <2>2. GoodSubs(kids)
    BY <2>1, AppendSubs
  <2>3. n \in Nat
    BY <2>1, AppendSubs
  <2>4. DOMAIN kids = 1 .. n + 1
    BY <2>1, AppendSubs
  <2>5. kids[n + 1] = child
    BY <2>1, AppendSubs
  <2>6. \A i \in 1 .. n : kids[i] = Sub(u, Child(p, i))
    BY <2>1, AppendSubs
  <2>. QED  BY <2>2, <2>3, <2>4, <2>5, <2>6
<1>. HIDE DEF kids
<1>7. Good(v) /\ Seated(v, u, p, 0, kids)
  BY <1>0, <1>1, <1>2, <1>6, KidsSeat
<1>8. w = v
  BY <1>1 DEF WithKids
<1>. HIDE DEF v, w
<1>9. r.tree = v /\ r = Ok(r.tree)
  BY <1>1, <1>8 DEF Ok
<1>10. Seats(kids) = 1 .. n + 1
  BY <1>0, <1>5, <1>6 DEF Seats
<1>11. \A i \in 1 .. n : i \in 1 .. n + 1 /\ i \in Nat /\ 0 + i = i
  BY <1>5
<1>12. ASSUME NEW x \in DOMAIN u
       PROVE  x \in DOMAIN v /\ v[x] = u[x]
  <2>1. CASE ~Under(p, 0, x)
    BY <1>7, <2>1 DEF Seated
  <2>2. CASE Under(p, 0, x)
    <3>1. PICK i \in 1 .. MaxSlots, y \in Pos : x = At(p, 0 + i, y)
      BY <2>2 DEF Under
    <3>2. i \in Nat /\ 0 + i = i /\ x = At(p, i, y)
      BY <1>0, <3>1
    <3>3. i \in 1 .. n
      BY <1>0, <1>2, <1>4, <3>2, Above DEF Good
    <3>4. kids[i] = Sub(u, Child(p, i)) /\ i \in Seats(kids)
      BY <1>6, <1>10, <1>11, <3>3
    <3>5. y \in DOMAIN kids[i] /\ kids[i][y] = u[x]
      BY <1>0, <1>2, <3>2, <3>4, SubHas
    <3>6. At(p, 0 + i, y) \in DOMAIN v /\ v[At(p, 0 + i, y)] = kids[i][y]
      BY <1>7, <3>4, <3>5 DEF Seated
    <3>. QED  BY <3>1, <3>5, <3>6
  <2>. QED  BY <2>1, <2>2
<1>13. n + 1 \in Seats(kids)
  BY <1>5, <1>10
<1>14. ASSUME NEW y \in DOMAIN child
       PROVE  At(p, n + 1, y) \in DOMAIN v /\ v[At(p, n + 1, y)] = child[y]
  <2>. DEFINE s == n + 1
  <2>1. s \in Seats(kids) /\ kids[s] = child /\ 0 + s = s
    BY <1>5, <1>6, <1>13
  <2>. HIDE DEF s
  <2>2. At(p, 0 + s, y) \in DOMAIN v /\ v[At(p, 0 + s, y)] = kids[s][y]
    BY <1>7, <2>1 DEF Seated
  <2>3. At(p, s, y) \in DOMAIN v /\ v[At(p, s, y)] = child[y]
    BY <2>1, <2>2
  <2>. QED  BY <2>3 DEF s
<1>15. ASSUME NEW x \in DOMAIN v
       PROVE  x \in DOMAIN u \/ \E y \in DOMAIN child : x = At(p, n + 1, y)
  <2>1. CASE x \in DOMAIN u
    BY <2>1
  <2>2. CASE \E i \in Seats(kids) : \E y \in DOMAIN kids[i] : x = At(p, 0 + i, y)
    <3>1. PICK i \in 1 .. n + 1 : \E y \in DOMAIN kids[i] : x = At(p, 0 + i, y)
      BY <1>10, <2>2
    <3>2. PICK y \in DOMAIN kids[i] : x = At(p, 0 + i, y)
      BY <3>1
    <3>3. CASE i = n + 1
      BY <1>5, <1>6, <3>2, <3>3
    <3>4. CASE i # n + 1
      <4>1. i \in 1 .. n /\ i \in Nat /\ 0 + i = i
        BY <1>5, <3>4
      <4>2. kids[i] = Sub(u, Child(p, i))
        BY <1>6, <4>1
      <4>3. At(p, i, y) \in DOMAIN u
        BY <1>0, <1>2, <4>1, <4>2, SubHas
      <4>. QED  BY <3>2, <4>1, <4>3
    <3>. QED  BY <3>3, <3>4
  <2>. QED  BY <1>7, <2>1, <2>2 DEF Seated
<1>16. Grown(v, u, p, n, child)
  BY <1>2, <1>4, <1>5, <1>9, <1>12, <1>14, <1>15 DEF Grown
<1>17. \E m : Grown(r.tree, u, p, m, child)
  BY <1>9, <1>16
<1>. QED  BY <1>1, <1>9, <1>17 DEF p

\* What was grown says what it said, and what the child says.
LEMMA GrownLabels ==
    ASSUME NEW w, NEW u, NEW p, NEW n, NEW child, Grown(w, u, p, n, child)
    PROVE  Labels(w) = Labels(u) \union Labels(child)
<1>1. /\ \A x \in DOMAIN u : x \in DOMAIN w /\ w[x] = u[x]
      /\ \A y \in DOMAIN child : At(p, n + 1, y) \in DOMAIN w /\ w[At(p, n + 1, y)] = child[y]
      /\ \A x \in DOMAIN w : x \in DOMAIN u \/ \E y \in DOMAIN child : x = At(p, n + 1, y)
  BY DEF Grown
<1>2. \A x \in DOMAIN u : \E z \in DOMAIN w : w[z] = u[x]
  BY <1>1
<1>3. \A y \in DOMAIN child : \E z \in DOMAIN w : w[z] = child[y]
  BY <1>1
<1>4. \A z \in DOMAIN w : (\E x \in DOMAIN u : w[z] = u[x]) \/ \E y \in DOMAIN child : w[z] = child[y]
  BY <1>1
<1>. QED  BY <1>2, <1>3, <1>4 DEF Labels

\* Where the child was put the child is.
LEMMA GrownLast ==
    ASSUME NEW w, NEW u, NEW p, NEW n, NEW child, Grown(w, u, p, n, child),
           child = [y \in DOMAIN child |-> child[y]]
    PROVE  Last(Held(w, p)) = child /\ HeldAre(w, p, n + 1)
<1>. DEFINE s == n + 1
            c == Sub(w, Child(p, s))
<1>1. /\ Good(u) /\ Good(w) /\ Good(child) /\ p \in DOMAIN u /\ p \in Pos /\ n \in Nat /\ s \in 1 .. MaxSlots
      /\ \A i \in 1 .. MaxSlots : Child(p, i) \in DOMAIN u <=> i \in 1 .. n
      /\ \A x \in DOMAIN u : x \in DOMAIN w /\ w[x] = u[x]
      /\ \A y \in DOMAIN child : At(p, s, y) \in DOMAIN w /\ w[At(p, s, y)] = child[y]
      /\ \A x \in DOMAIN w : x \in DOMAIN u \/ \E y \in DOMAIN child : x = At(p, s, y)
  BY DEF Grown, Fine
<1>2. s \in Nat /\ s = n + 1 /\ s \notin 1 .. n
  BY <1>1
<1>. HIDE DEF s
<1>3. DOMAIN u \subseteq Pos /\ DOMAIN w \subseteq Pos /\ DOMAIN child \subseteq Pos /\ << >> \in DOMAIN child
  BY <1>1 DEF Good, Rooted
<1>4. ASSUME NEW y \in Pos
      PROVE  At(p, s, y) \notin DOMAIN u
  <2>1. Child(p, s) \notin DOMAIN u
    BY <1>1, <1>2
  <2>. QED  BY <1>1, <1>2, <2>1, Above DEF Good
<1>5. /\ \A y \in DOMAIN c : y \in Pos /\ At(p, s, y) \in DOMAIN w /\ c[y] = w[At(p, s, y)]
      /\ \A y \in Pos : At(p, s, y) \in DOMAIN w => y \in DOMAIN c
  BY <1>1, <1>2, <1>3, SubHas
<1>6. c = [y \in DOMAIN c |-> c[y]]
  BY DEF Sub
<1>. HIDE DEF c
<1>7. \A y \in DOMAIN child : y \in DOMAIN c /\ c[y] = child[y]
  BY <1>1, <1>3, <1>5
<1>8. ASSUME NEW y \in DOMAIN c
      PROVE  y \in DOMAIN child
  <2>1. y \in Pos /\ At(p, s, y) \in DOMAIN w
    BY <1>5
  <2>2. PICK z \in DOMAIN child : At(p, s, y) = At(p, s, z)
    BY <1>1, <1>4, <2>1
  <2>3. y = z
    BY <1>1, <1>2, <1>3, <2>1, <2>2, AtInjective
  <2>. QED  BY <2>3
<1>9. c = child
  <2>1. DOMAIN c = DOMAIN child
    BY <1>7, <1>8
  <2>. QED  BY <1>6, <1>7, <2>1
<1>10. p \in DOMAIN w
  BY <1>1
<1>11. PICK m : HeldAre(w, p, m)
  BY <1>1, <1>10, HeldIs
<1>12. /\ m \in Nat /\ DOMAIN Held(w, p) = 1 .. m /\ m <= MaxSlots
       /\ \A i \in 1 .. MaxSlots : Child(p, i) \in DOMAIN w <=> i \in 1 .. m
       /\ \A i \in 1 .. m : Held(w, p)[i] = Sub(w, Child(p, i))
       /\ Held(w, p) \in Seq({Sub(w, Child(p, i)) : i \in 1 .. m})
  BY <1>11, MaxSlotsAssumption DEF HeldAre
<1>13. At(p, s, << >>) = Child(p, s)
  BY <1>1, <1>2, AtEmpty
<1>14. Child(p, s) \in DOMAIN w
  BY <1>1, <1>3, <1>13
<1>15. s \in 1 .. m
  BY <1>1, <1>12, <1>14
<1>16. m = s
  <2>. SUFFICES ASSUME m # s
                PROVE  FALSE
    OBVIOUS
  <2>. DEFINE l == s + 1
  <2>1. l \in 1 .. m /\ l \in 1 .. MaxSlots /\ l \in Nat /\ l # s /\ l \notin 1 .. n
    BY <1>1, <1>2, <1>12, <1>15, MaxSlotsAssumption
  <2>. HIDE DEF l
  <2>2. Child(p, l) \in DOMAIN w /\ Child(p, l) \notin DOMAIN u
    BY <1>1, <1>12, <2>1
  <2>3. PICK y \in DOMAIN child : Child(p, l) = At(p, s, y)
    BY <1>1, <2>2
  <2>4. At(p, l, << >>) = At(p, s, y) /\ << >> \in Pos /\ y \in Pos
    BY <1>1, <1>3, <2>1, <2>3, AtEmpty DEF Pos
  <2>. QED  BY <1>1, <1>2, <2>1, <2>4, AtInjective
<1>17. Last(Held(w, p)) = Held(w, p)[m]
  <2>1. Len(Held(w, p)) = m
    BY <1>12
  <2>. QED  BY <2>1 DEF Last
<1>18. HeldAre(w, p, n + 1)
  BY <1>2, <1>11, <1>16
<1>. QED  BY <1>9, <1>12, <1>15, <1>16, <1>17, <1>18 DEF c

\* What was grown has the children it had, and the child.
LEMMA GrownKids ==
    ASSUME NEW w, NEW u, NEW p, NEW n, NEW child, Grown(w, u, p, n, child), NEW x \in DOMAIN u
    PROVE  Within(KidIds(u, x), KidIds(w, x), child[<< >>].id)
<1>. DEFINE s == n + 1
            a == KidIds(u, x)
            b == KidIds(w, x)
            id == child[<< >>].id
<1>1. /\ Good(u) /\ Good(w) /\ Good(child) /\ p \in DOMAIN u /\ p \in Pos /\ n \in Nat /\ s \in 1 .. MaxSlots
      /\ \A i \in 1 .. MaxSlots : Child(p, i) \in DOMAIN u <=> i \in 1 .. n
      /\ \A z \in DOMAIN u : z \in DOMAIN w /\ w[z] = u[z]
      /\ \A y \in DOMAIN child : At(p, s, y) \in DOMAIN w /\ w[At(p, s, y)] = child[y]
      /\ \A z \in DOMAIN w : z \in DOMAIN u \/ \E y \in DOMAIN child : z = At(p, s, y)
  BY DEF Grown, Fine
<1>2. s \in Nat /\ s = n + 1 /\ s \notin 1 .. n
  BY <1>1
<1>. HIDE DEF s
<1>3. DOMAIN u \subseteq Pos /\ DOMAIN w \subseteq Pos /\ Rooted(child) /\ DOMAIN child \subseteq Pos
      /\ \A y \in DOMAIN child : y # << >> => Front(y) \in DOMAIN child
  BY <1>1 DEF Good, Rooted
<1>4. \A y \in Pos : At(p, s, y) \notin DOMAIN u
  <2>1. Child(p, s) \notin DOMAIN u
    BY <1>1, <1>2
  <2>. QED  BY <1>1, <1>2, <2>1, Above DEF Good
<1>5. /\ DOMAIN a = {i \in 1 .. MaxSlots : Child(x, i) \in DOMAIN u}
      /\ \A i \in DOMAIN a : i \in Nat /\ a[i] = u[Child(x, i)].id
  BY KidIdsAre
<1>6. /\ DOMAIN b = {i \in 1 .. MaxSlots : Child(x, i) \in DOMAIN w}
      /\ \A i \in DOMAIN b : i \in Nat /\ b[i] = w[Child(x, i)].id
  BY KidIdsAre
<1>. HIDE DEF a, b, id
<1>7. \A i \in DOMAIN a : i \in DOMAIN b /\ a[i] = b[i]
  BY <1>1, <1>5, <1>6
<1>8. ASSUME NEW i \in DOMAIN b
      PROVE  b[i] = id \/ i \in DOMAIN a
  <2>1. i \in 1 .. MaxSlots /\ i \in Nat /\ x \in Pos
    BY <1>3, <1>6
  <2>2. CASE Child(x, i) \in DOMAIN u
    BY <1>5, <2>1, <2>2
  <2>3. CASE Child(x, i) \notin DOMAIN u
    <3>1. PICK y \in DOMAIN child : Child(x, i) = At(p, s, y)
      BY <1>1, <1>6, <2>3
    <3>2. y = << >>
      <4>. SUFFICES ASSUME y # << >>
                    PROVE  FALSE
        OBVIOUS
      <4>1. y \in Pos /\ Front(y) \in Pos
        BY <1>3
      <4>2. Front(At(p, s, y)) = At(p, s, Front(y))
        BY <1>1, <1>2, <4>1, FrontOfAt
      <4>3. Front(Child(x, i)) = x
        BY <2>1, FrontLast
      <4>. QED  BY <1>4, <3>1, <4>1, <4>2, <4>3
    <3>3. w[Child(x, i)] = child[<< >>]
      BY <1>1, <3>1, <3>2
    <3>. QED  BY <1>6, <3>3 DEF id
  <2>. QED  BY <2>2, <2>3
<1>9. DOMAIN a \subseteq Nat
  BY <1>5
<1>10. Within(a, b, id)
  BY <1>7, <1>8, <1>9, SameWithin
<1>. QED  BY <1>10 DEF a, b, id

\* The child is put where it changes no one's order.
LEMMA GrownOthers ==
    ASSUME NEW w, NEW u, NEW p, NEW n, NEW child, Grown(w, u, p, n, child), NEW q \in Ids(u),
           NEW x, NEW y, x # child[<< >>].id, y # child[<< >>].id
    PROVE  NoLater(x, y, q, w) <=> NoLater(x, y, q, u)
<1>1. PICK o \in DOMAIN u : u[o].id = q
  BY DEF Ids
<1>2. Fine(u, {}) /\ Fine(w, {}) /\ o \in DOMAIN w /\ w[o] = u[o]
  BY DEF Grown
<1>3. Find(q, u) = o /\ Find(q, w) = o
  BY <1>1, <1>2, UniqueFind
<1>4. Within(KidIds(u, o), KidIds(w, o), child[<< >>].id)
  BY GrownKids
<1>5. Abreast(x, y, KidIds(u, o)) <=> Abreast(x, y, KidIds(w, o))
  BY <1>4, WithinAbreast
<1>. QED  BY <1>3, <1>5 DEF NoLater, Abreast

\* A closed slot leaves room where there was room.
LEMMA GapRoomy ==
    ASSUME NEW u, NEW t, NEW g, NEW k, NEW n, Gapped(u, t, g, k, n), Roomy(t)
    PROVE  Roomy(u)
<1>. SUFFICES ASSUME NEW x \in DOMAIN u
              PROVE  MaxSlots \notin Slots(u, x, 0)
  BY DEF Roomy
<1>1. PICK o \in DOMAIN t : Shift(x, o, g, k)
  BY GapMap
<1>2. DOMAIN KidIds(u, x) \subseteq DOMAIN KidIds(t, o)
  BY <1>1, GapKids
<1>3. DOMAIN KidIds(u, x) = Slots(u, x, 0) /\ DOMAIN KidIds(t, o) = Slots(t, o, 0)
  BY DEF KidIds
<1>. QED  BY <1>2, <1>3 DEF Roomy

\* Where the ids are different, each node has a mark of its own: the id it is under,
\* and the way down from there.
MarksOf(l) == {<<l.id, y>> : y \in Down(l)}
Marks(labels) == UNION {MarksOf(l) : l \in labels}

\* So the size of such a tree is how many marks its labels make.
LEMMA SizeIs ==
    ASSUME NEW t, Fine(t, {})
    PROVE  /\ IsFiniteSet(Marks(Labels(t))) /\ Size(t) = Cardinality(Marks(Labels(t))) /\ Size(t) \in Nat
           /\ \A m \in Marks(Labels(t)) : m[1] \in Ids(t)
<1>. DEFINE M == Marks(Labels(t))
            f == [n \in Nodes(t) |-> <<t[n[1]].id, n[2]>>]
<1>1. Good(t) /\ Unique(t)
  BY FineIsUnique
<1>2. IsFiniteSet(Nodes(t)) /\ Size(t) \in Nat
  BY <1>1, NodesAre
<1>3. \A n : n \in Nodes(t) <=> \E x \in DOMAIN t : \E y \in Down(t[x]) : n = <<x, y>>
  BY DEF Nodes
<1>4. \A m : m \in M <=> \E x \in DOMAIN t : \E y \in Down(t[x]) : m = <<t[x].id, y>>
  BY DEF Marks, MarksOf, Labels
<1>5. f \in Bijection(Nodes(t), M)
  <2>1. \A n \in Nodes(t) : f[n] \in M
    BY <1>3, <1>4
  <2>2. \A m \in M : \E n \in Nodes(t) : f[n] = m
    <3>. SUFFICES ASSUME NEW m \in M
                  PROVE  \E n \in Nodes(t) : f[n] = m
      OBVIOUS
    <3>1. PICK x \in DOMAIN t : \E y \in Down(t[x]) : m = <<t[x].id, y>>
      BY <1>4
    <3>2. PICK y \in Down(t[x]) : m = <<t[x].id, y>>
      BY <3>1
    <3>3. <<x, y>> \in Nodes(t)
      BY <1>3
    <3>. QED  BY <3>2, <3>3
  <2>3. ASSUME NEW n \in Nodes(t), NEW o \in Nodes(t), f[n] = f[o]
        PROVE  n = o
    <3>1. PICK x \in DOMAIN t : \E y \in Down(t[x]) : n = <<x, y>>
      BY <1>3
    <3>2. PICK y \in Down(t[x]) : n = <<x, y>>
      BY <3>1
    <3>3. PICK z \in DOMAIN t : \E w \in Down(t[z]) : o = <<z, w>>
      BY <1>3
    <3>4. PICK w \in Down(t[z]) : o = <<z, w>>
      BY <3>3
    <3>5. t[x].id = t[z].id /\ y = w
      BY <2>3, <3>2, <3>4
    <3>. QED  BY <1>1, <3>2, <3>4, <3>5 DEF Unique
  <2>. HIDE DEF M
  <2>. QED  BY <2>1, <2>2, <2>3 DEF Bijection, Injection, Surjection, IsInjective
<1>6. ExistsBijection(Nodes(t), M)
  <2>. HIDE DEF f, M
  <2>. QED  BY <1>5 DEF ExistsBijection
<1>7. \A m \in M : m[1] \in Ids(t)
  BY <1>4 DEF Ids
<1>. HIDE DEF M
<1>8. IsFiniteSet(M) /\ Cardinality(Nodes(t)) = Cardinality(M)
  BY <1>2, <1>6, FS_Bijection
<1>. QED  BY <1>2, <1>7, <1>8 DEF Size, M

\* Trees of the same labels, with each id once, are of one size.
LEMMA SameSize ==
    ASSUME NEW t, Fine(t, {}), NEW u, Fine(u, {}), Labels(u) = Labels(t)
    PROVE  Size(u) = Size(t)
BY SizeIs

\* The labels tell the ids.
LEMMA LabelsTell ==
    ASSUME NEW t, NEW u, Labels(u) = Labels(t)
    PROVE  Ids(u) = Ids(t)
<1>1. \A v : Ids(v) = {l.id : l \in Labels(v)}
  BY DEF Ids, Labels
<1>. QED  BY <1>1

\* What a removal takes, and what it leaves.
LEMMA RemovedExactly ==
    ASSUME NEW t, Fine(t, {}), NEW target, NEW r, r = RemoveNode(target, t), NEW c, c = Sub(t, Find(target, t))
    PROVE  /\ r.err # "None" => LayoutParents(target, t) = {}
           /\ r.err = "None" =>
                /\ Labels(r.tree) = Labels(t) \ Labels(c)
                /\ \A q \in Ids(t) \ Ids(c) : \A x, y \in Ids(t) \ {target} :
                     NoLater(x, y, q, r.tree) <=> NoLater(x, y, q, t)
<1>1. CASE LayoutParents(target, t) = {} /\ r.err \in {"KindMismatch", "NodeNotFound"}
  BY <1>1
<1>2. ASSUME r = Ok(r.tree), target \in Ids(t),
             NEW g, NEW k, NEW n, Find(target, t) = Child(g, k), Gapped(r.tree, t, g, k, n)
      PROVE  /\ r.err = "None"
             /\ Labels(r.tree) = Labels(t) \ Labels(c)
             /\ \A q \in Ids(t) \ Ids(c) : \A x, y \in Ids(t) \ {target} :
                  NoLater(x, y, q, r.tree) <=> NoLater(x, y, q, t)
  <2>1. r.err = "None"
    BY <1>2 DEF Ok
  <2>2. t[Child(g, k)].id = target
    BY <1>2, FindIs DEF Fine
  <2>3. c = Sub(t, Child(g, k))
    BY <1>2
  <2>4. Labels(r.tree) = Labels(t) \ Labels(c)
    BY <1>2, <2>3, GapLabels
  <2>5. ASSUME NEW q \in Ids(t) \ Ids(c), NEW x \in Ids(t) \ {target}, NEW y \in Ids(t) \ {target}
        PROVE  NoLater(x, y, q, r.tree) <=> NoLater(x, y, q, t)
    BY <1>2, <2>2, <2>3, GapOthers
  <2>. QED  BY <2>1, <2>4, <2>5
<1>3. CASE r.err = "None"
  <2>1. PICK g, k, n : /\ Find(target, t) = Child(g, k) /\ target \in Ids(t)
                       /\ Gapped(r.tree, t, g, k, n) /\ r = Ok(r.tree)
    BY <1>3, RemoveIs
  <2>. QED  BY <1>2, <1>3, <2>1
<1>4. CASE r.err # "None"
  <2>1. r = Ok(r.tree) => r.err = "None"
    BY DEF Ok
  <2>. QED  BY <1>4, <2>1, RemoveIs
<1>. QED  BY <1>3, <1>4

\* What a move takes, where it puts it, and what it leaves.
LEMMA MovedExactly ==
    ASSUME NEW t, Fine(t, {}), Roomy(t), NEW target, NEW parent, NEW r, r = MoveNode(target, parent, t),
           NEW c, c = Sub(t, Find(target, t))
    PROVE  /\ r.err # "None" => r.err \in {"KindMismatch", "NodeNotFound", "ParentNotFound", "ChildlessKind"}
           /\ r.err = "None" =>
                /\ Labels(r.tree) = Labels(t) /\ Size(r.tree) = Size(t)
                /\ Last(Held(r.tree, Find(parent, r.tree))) = c
                /\ \A q \in Ids(t) \ Ids(c) : \A x, y \in Ids(t) \ {target} :
                     NoLater(x, y, q, r.tree) <=> NoLater(x, y, q, t)
<1>. DEFINE v == RemoveNode(target, t)
            u == v.tree
            m == ThenInsert(parent, c, v)
<1>0. Good(t) /\ Unique(t) /\ DOMAIN t \subseteq Pos /\ MaxSlots \in Nat
  BY FineIsUnique, MaxSlotsAssumption DEF Good, Rooted
<1>1. r.err \in {"KindMismatch", "NodeNotFound", "ParentNotFound", "ChildlessKind"} \/ (target \in Ids(t) /\ r = m)
  <2>. HIDE DEF m
  <2>1. m = ThenInsert(parent, Sub(t, Find(target, t)), RemoveNode(target, t))
    BY DEF m
  <2>. QED  BY <2>1 DEF MoveNode, Fail
<1>2. CASE r.err \in {"KindMismatch", "NodeNotFound", "ParentNotFound", "ChildlessKind"}
  BY <1>2
<1>3. CASE target \in Ids(t) /\ r = m /\ v.err # "None"
  <2>1. v.err \in {"KindMismatch", "NodeNotFound"}
    <3>1. v = Ok(v.tree) => v.err = "None"
      BY DEF Ok
    <3>. HIDE DEF v
    <3>2. v = RemoveNode(target, t)
      BY DEF v
    <3>. QED  BY <1>3, <3>1, <3>2, RemoveIs
  <2>. HIDE DEF v
  <2>2. r = v
    BY <1>3 DEF ThenInsert
  <2>. QED  BY <2>1, <2>2
<1>4. ASSUME target \in Ids(t), r = m, v.err = "None", r.err = "None"
      PROVE  /\ Labels(r.tree) = Labels(t) /\ Size(r.tree) = Size(t)
             /\ Last(Held(r.tree, Find(parent, r.tree))) = c
             /\ \A q \in Ids(t) \ Ids(c) : \A x, y \in Ids(t) \ {target} :
                  NoLater(x, y, q, r.tree) <=> NoLater(x, y, q, t)
  <2>. DEFINE w == r.tree
  <2>1. PICK g, k, n : Find(target, t) = Child(g, k) /\ Gapped(u, t, g, k, n)
    <3>1. v = RemoveNode(target, t)
      OBVIOUS
    <3>. HIDE DEF v
    <3>. QED  BY <1>4, <3>1, RemoveIs
  <2>2. r = InsertChild(parent, c, u)
    <3>. HIDE DEF v, u
    <3>1. m = InsertChild(parent, c, u)
      BY <1>4 DEF ThenInsert, u
    <3>. QED  BY <1>4, <3>1
  <2>3. Fine(w, {})
    BY MoveKeeps
  <2>. HIDE DEF u, v, m, w
  <2>4. /\ c = Sub(t, Child(g, k)) /\ t[Child(g, k)].id = target /\ Child(g, k) \in DOMAIN t
        /\ g \in Pos /\ k \in Nat /\ MaxSlots # 0 /\ Fine(u, {})
    <3>1. Child(g, k) \in DOMAIN t /\ t[Child(g, k)].id = target
      BY <1>0, <1>4, <2>1, FindIs
    <3>2. g \in Pos /\ n \in Nat /\ k \in 1 .. n /\ n <= MaxSlots /\ Fine(u, {})
      BY <2>1 DEF Gapped
    <3>. QED  BY <1>0, <2>1, <3>1, <3>2
  <2>5. Good(c) /\ c[<< >>].id = target /\ c = [y \in DOMAIN c |-> c[y]]
    <3>1. Good(c)
      BY <1>0, <2>4, SubGood
    <3>2. At(g, k, << >>) = Child(g, k) /\ << >> \in Pos
      BY <2>4, AtEmpty DEF Pos
    <3>3. c[<< >>] = t[Child(g, k)]
      BY <1>0, <2>4, <3>2, SubAt
    <3>4. c = [y \in DOMAIN c |-> c[y]]
      BY <2>4 DEF Sub
    <3>. QED  BY <2>4, <3>1, <3>3, <3>4
  <2>6. Roomy(u)
    BY <2>1, GapRoomy
  <2>7. r.err = "None" /\ r.tree = w /\ Fine(r.tree, {})
    BY <1>4, <2>3 DEF w
  <2>8. parent \in Ids(u) /\ \E l : Grown(r.tree, u, Find(parent, u), l, c)
    BY <2>2, <2>4, <2>5, <2>6, <2>7, InsertGrows
  <2>. DEFINE p == Find(parent, u)
  <2>9. PICK l : Grown(w, u, p, l, c)
    BY <2>7, <2>8
  <2>10. p \in DOMAIN u /\ u[p].id = parent /\ p \in DOMAIN w /\ w[p] = u[p]
    <3>1. p \in DOMAIN u /\ u[p].id = parent
      BY <2>4, <2>8, FindIs DEF Fine
    <3>. HIDE DEF p
    <3>. QED  BY <2>9, <3>1 DEF Grown
  <2>. HIDE DEF p
  <2>11. Find(parent, w) = p
    BY <2>3, <2>10, UniqueFind
  <2>12. Last(Held(w, p)) = c
    BY <2>5, <2>9, GrownLast
  <2>13. Labels(w) = Labels(t)
    <3>1. Labels(w) = Labels(u) \union Labels(c)
      BY <2>9, GrownLabels
    <3>2. Labels(u) = Labels(t) \ Labels(c)
      BY <2>1, <2>4, GapLabels
    <3>3. Labels(c) \subseteq Labels(t)
      BY <1>0, <2>4, SubLabels DEF Labels
    <3>. QED  BY <3>1, <3>2, <3>3
  <2>14. Size(w) = Size(t)
    BY <2>3, <2>13, SameSize
  <2>15. ASSUME NEW q \in Ids(t) \ Ids(c), NEW x \in Ids(t) \ {target}, NEW y \in Ids(t) \ {target}
         PROVE  NoLater(x, y, q, w) <=> NoLater(x, y, q, t)
    <3>1. q \in Ids(u) /\ (NoLater(x, y, q, u) <=> NoLater(x, y, q, t))
      BY <2>1, <2>4, GapOthers
    <3>2. NoLater(x, y, q, w) <=> NoLater(x, y, q, u)
      BY <2>5, <2>9, <3>1, GrownOthers
    <3>. QED  BY <3>1, <3>2
  <2>. QED  BY <2>7, <2>11, <2>12, <2>13, <2>14, <2>15
<1>5. ASSUME target \in Ids(t), r = m, v.err = "None"
      PROVE  r.err \in {"None", "ParentNotFound", "ChildlessKind"}
  <2>1. PICK g, k, n : Find(target, t) = Child(g, k) /\ Gapped(u, t, g, k, n)
    <3>1. v = RemoveNode(target, t)
      OBVIOUS
    <3>. HIDE DEF v
    <3>. QED  BY <1>5, <3>1, RemoveIs
  <2>2. Ids(c) \intersect Ids(u) = {}
    <3>. HIDE DEF u
    <3>. QED  BY <2>1, GapLabels
  <2>3. r = InsertChild(parent, c, u)
    <3>. HIDE DEF v, u
    <3>1. m = InsertChild(parent, c, u)
      BY <1>5 DEF ThenInsert, u
    <3>. QED  BY <1>5, <3>1
  <2>. HIDE DEF u, v, m
  <2>4. r = Fail("ParentNotFound", u) \/ r = Fail("ChildlessKind", u) \/ \E z : r = Ok(z)
    BY <2>2, <2>3 DEF InsertChild
  <2>. QED  BY <2>4 DEF Ok, Fail
<1>. HIDE DEF u, v, m
<1>6. CASE target \in Ids(t) /\ r = m /\ v.err = "None"
  BY <1>4, <1>5, <1>6
<1>. QED  BY <1>1, <1>2, <1>3, <1>6

\* The engine's two readings of its result leave a removal as it is, and refuse a
\* move for a limit only.
LEMMA CheckedTaking ==
    ASSUME NEW t, NEW target, NEW parent
    PROVE  /\ ApplyOp([tag |-> "RemoveNode", target |-> target], t) = RemoveNode(target, t)
           /\ \/ ApplyOp(MoveOp(target, parent), t) = MoveNode(target, parent, t)
              \/ ApplyOp(MoveOp(target, parent), t).err = "LimitExceeded"
<1>. DEFINE rem == [tag |-> "RemoveNode", target |-> target]
            mov == MoveOp(target, parent)
<1>1. rem.tag = "RemoveNode" /\ rem.target = target
  OBVIOUS
<1>2. mov.tag = "MoveNode" /\ mov.target = target /\ mov.parent = parent
  BY DEF MoveOp
<1>. HIDE DEF rem, mov
<1>3. ApplyOne(rem, t) = RemoveNode(target, t)
  BY <1>1 DEF ApplyOne, ApplyEdit
<1>4. ApplyOne(mov, t) = MoveNode(target, parent, t)
  BY <1>2 DEF ApplyOne, ApplyEdit
<1>5. Installed(rem) = {} /\ Installed(mov) = {} /\ ~CanGrow(rem)
  <2>1. Edits(rem) = <<rem>> /\ Edits(mov) = <<mov>>
    BY <1>1, <1>2 DEF Edits
  <2>2. Carried(rem) = {} /\ Carried(mov) = {}
    BY <1>1, <1>2 DEF Carried
  <2>. QED  BY <1>1, <2>1, <2>2 DEF Installed, CanGrow
<1>6. \A u : ~InstalledDuplicate(rem, u) /\ ~InstalledDuplicate(mov, u)
  BY <1>5 DEF InstalledDuplicate
<1>7. \A r : Checked(rem, t, r) = r
  BY <1>5, <1>6 DEF Checked
<1>8. \A r : Checked(mov, t, r) = r \/ Checked(mov, t, r) = Fail("LimitExceeded", t)
  BY <1>6 DEF Checked
<1>9. ApplyOp(rem, t) = RemoveNode(target, t)
  BY <1>3, <1>7 DEF ApplyOp
<1>10. ApplyOp(mov, t) = MoveNode(target, parent, t) \/ ApplyOp(mov, t) = Fail("LimitExceeded", t)
  BY <1>4, <1>8 DEF ApplyOp
<1>11. Fail("LimitExceeded", t).err = "LimitExceeded"
  BY DEF Fail
<1>. QED  BY <1>9, <1>10, <1>11 DEF rem, mov

\* A move takes the subtree of its target, whole, to the end of its new parent's
\* children; a removal takes it away; neither touches what any other node says or
\* the order of its children, and neither is refused for what the subtree carries.
THEOREM EditsStayExact == Spec => []EditsAreExact
<1>1. IInv => EditsAreExact
  <2>. SUFFICES ASSUME IInv
                PROVE  EditsAreExact
    OBVIOUS
  <2>1. TypeOK
    <3>1. WellFormed(base) /\ WellFormed(tree)
      BY NodeIsGood DEF IInv, IsNode
    <3>. QED  BY <3>1 DEF IInv, TypeOK
  <2>2. ASSUME Unique(tree), NEW id
        PROVE  ExactlyRemoved(id, ApplyOp([tag |-> "RemoveNode", target |-> id], tree))
    <3>. DEFINE r == ApplyOp([tag |-> "RemoveNode", target |-> id], tree)
                c == Sub(tree, Find(id, tree))
    <3>1. Fine(tree, {})
      BY <2>2, FineIsUnique DEF IInv
    <3>2. r = RemoveNode(id, tree)
      BY CheckedTaking
    <3>. HIDE DEF r
    <3>3. /\ r.err # "None" => LayoutParents(id, tree) = {}
          /\ r.err = "None" =>
               /\ Labels(r.tree) = Labels(tree) \ Labels(c)
               /\ \A q \in Ids(tree) \ Ids(c) : \A x, y \in Ids(tree) \ {id} :
                    NoLater(x, y, q, r.tree) <=> NoLater(x, y, q, tree)
      BY <3>1, <3>2, RemovedExactly
    <3>4. ExactlyRemoved(id, r)
      BY <3>3 DEF ExactlyRemoved, OthersStand
    <3>. QED  BY <3>4 DEF r
  <2>3. ASSUME Unique(tree), Roomy(tree), NEW id, NEW parent
        PROVE  SafelyMoved(id, parent, ApplyOp(MoveOp(id, parent), tree))
    <3>. DEFINE r == ApplyOp(MoveOp(id, parent), tree)
                c == Sub(tree, Find(id, tree))
    <3>1. Fine(tree, {})
      BY <2>3, FineIsUnique DEF IInv
    <3>2. r = MoveNode(id, parent, tree) \/ r.err = "LimitExceeded"
      BY CheckedTaking
    <3>. HIDE DEF r
    <3>3. CASE r.err = "LimitExceeded"
      BY <3>3 DEF SafelyMoved, r
    <3>4. CASE r = MoveNode(id, parent, tree)
      <4>1. /\ r.err # "None" => r.err \in {"KindMismatch", "NodeNotFound", "ParentNotFound", "ChildlessKind"}
            /\ r.err = "None" =>
                 /\ Labels(r.tree) = Labels(tree) /\ Size(r.tree) = Size(tree)
                 /\ Last(Held(r.tree, Find(parent, r.tree))) = c
                 /\ \A q \in Ids(tree) \ Ids(c) : \A x, y \in Ids(tree) \ {id} :
                      NoLater(x, y, q, r.tree) <=> NoLater(x, y, q, tree)
        BY <2>3, <3>1, <3>4, MovedExactly
      <4>2. SafelyMoved(id, parent, r)
        BY <4>1 DEF SafelyMoved, OthersStand
      <4>. QED  BY <4>2 DEF r
    <3>. QED  BY <3>2, <3>3, <3>4
  <2>. QED  BY <2>1, <2>2, <2>3 DEF EditsAreExact, MoveIsSafe, RemoveIsExact
<1>. QED  BY <1>1, SessionKeeps, PTL

-----------------------------------------------------------------------------
(***************************************************************************)
(* What a person does by hand.                                             *)
(***************************************************************************)
\* What the helper refuses for another reason than its anchor, the engine refuses.
LEMMA RefusedMoves ==
    ASSUME NEW t, NEW moved, NEW spot, CanPlace(t, moved, spot) \notin {"None", "UnknownAnchor"}
    PROVE  ApplyOp(MoveOp(moved, spot.parent), t).err # "None"
<1>. DEFINE parent == spot.parent
            r == MoveNode(moved, parent, t)
            v == RemoveNode(moved, t)
            m == ThenInsert(parent, Sub(t, Find(moved, t)), v)
<1>. HIDE DEF parent
<1>1. \/ ~StructurallyPresent(moved, t) \/ parent = moved \/ IsAncestor(moved, parent, t)
      \/ parent \notin Ids(t) \/ ~IsLayout(t[Find(parent, t)])
  BY DEF CanPlace, ContainerError, parent
<1>2. r.err # "None" \/ r = m
  <2>. HIDE DEF m
  <2>1. m = ThenInsert(parent, Sub(t, Find(moved, t)), RemoveNode(moved, t))
    BY DEF m
  <2>. QED  BY <2>1 DEF MoveNode, Fail
<1>3. ~StructurallyPresent(moved, t) => v = Fail("NodeNotFound", t)
  BY DEF StructurallyPresent, RemoveNode
<1>4. r.err # "None"
  <2>1. CASE ~StructurallyPresent(moved, t)
    <3>1. v.err = "NodeNotFound"
      BY <1>3, <2>1 DEF Fail
    <3>. HIDE DEF v
    <3>2. m = v
      BY <3>1 DEF ThenInsert
    <3>. QED  BY <1>2, <3>1, <3>2
  <2>2. CASE \/ parent = moved \/ IsAncestor(moved, parent, t)
             \/ parent \notin Ids(t) \/ ~IsLayout(t[Find(parent, t)])
    BY <2>2 DEF MoveNode, Fail
  <2>. QED  BY <1>1, <2>1, <2>2
<1>5. ApplyOp(MoveOp(moved, parent), t) = r \/ ApplyOp(MoveOp(moved, parent), t).err = "LimitExceeded"
  BY CheckedTaking
<1>. HIDE DEF r
<1>6. ApplyOp(MoveOp(moved, parent), t).err # "None"
  BY <1>4, <1>5
<1>. QED  BY <1>6 DEF parent

-----------------------------------------------------------------------------
\* Of the n in the row, id is the k-th and no other.
OnlyAt(ids, n, k, id) ==
    /\ n \in Nat /\ DOMAIN ids = 1 .. n /\ Len(ids) = n /\ k \in 1 .. n
    /\ \A i \in 1 .. n : ids[i] = id <=> i = k

\* Where the first that is this is.
PlaceOf(ids, id) == SelectInSeq(ids, LAMBDA v : v = id)

\* Where the one that is this is.
LEMMA SelectIs ==
    ASSUME NEW ids, NEW n, NEW k, NEW id, OnlyAt(ids, n, k, id)
    PROVE  PlaceOf(ids, id) = k
<1>. DEFINE I == {i \in 1 .. Len(ids) : ids[i] = id}
<1>1. I = {k}
  BY DEF OnlyAt
<1>2. PlaceOf(ids, id) = IF I # {} THEN Min(I) ELSE 0
  BY DEF PlaceOf, SelectInSeq
<1>. HIDE DEF I
<1>3. Min({k}) = k
  BY DEF Min, OnlyAt
<1>. QED  BY <1>1, <1>2, <1>3

\* A layout node that holds a child is the only one that does, and not the child.
LEMMA ParentIs ==
    ASSUME NEW t, Fine(t, {}), NEW p \in DOMAIN t, IsLayout(t[p]), NEW k \in 1 .. MaxSlots,
           Child(p, k) \in DOMAIN t, NEW id, t[Child(p, k)].id = id
    PROVE  /\ LayoutParents(id, t) = {p} /\ InOrder(LayoutParents(id, t))[1] = p
           /\ t[<< >>].id # id
<1>1. Good(t) /\ Unique(t) /\ DOMAIN t \subseteq Pos /\ << >> \in DOMAIN t /\ p \in Pos /\ k \in Nat
  BY FineIsUnique, MaxSlotsAssumption DEF Good, Rooted
<1>2. p \in LayoutParents(id, t)
  <2>1. k \in DOMAIN KidIds(t, p) /\ KidIds(t, p)[k] = id
    BY KidIdsAre
  <2>. QED  BY <2>1 DEF LayoutParents, ToSet
<1>3. ASSUME NEW q \in LayoutParents(id, t)
      PROVE  q = p
  <2>1. PICK i \in DOMAIN KidIds(t, q) : KidIds(t, q)[i] = id
    BY DEF LayoutParents, ToSet
  <2>2. i \in Nat /\ Child(q, i) \in DOMAIN t /\ t[Child(q, i)].id = id
    BY <2>1, KidIdsAre
  <2>3. q \in Pos
    BY <1>1 DEF LayoutParents
  <2>4. Child(q, i) = Child(p, k)
    BY <1>1, <2>2 DEF Unique
  <2>. QED  BY <1>1, <2>2, <2>3, <2>4, FrontLast
<1>4. LayoutParents(id, t) = {p}
  BY <1>2, <1>3
<1>5. InOrder(LayoutParents(id, t))[1] = p
  <2>1. IsFiniteSet({p}) /\ {p} \subseteq Pos /\ {p} # {}
    BY <1>1, FS_Singleton
  <2>2. InOrder({p})[1] \in {p}
    BY <2>1, FirstInOrder
  <2>. QED  BY <1>4, <2>2
<1>6. t[<< >>].id # id
  <2>1. Child(p, k) # << >>
    BY <1>1, AppendParts
  <2>. QED  BY <1>1, <2>1 DEF Unique
<1>. QED  BY <1>4, <1>5, <1>6

-----------------------------------------------------------------------------
\* ids are those of the n children of p in t.
KidRow(ids, t, p, n) ==
    /\ n \in Nat /\ n <= MaxSlots /\ DOMAIN ids = 1 .. n /\ Len(ids) = n
    /\ \A i \in 1 .. n : /\ i \in 1 .. MaxSlots /\ i \in Nat /\ Child(p, i) \in DOMAIN t
                         /\ ids[i] = t[Child(p, i)].id
    /\ ids \in Seq(Ids(t))
    /\ \A i, k \in 1 .. n : ids[i] = ids[k] => i = k

\* The children of a node, by their ids.
LEMMA RowIsOf ==
    ASSUME NEW t, Fine(t, {}), NEW p \in DOMAIN t, NEW n, HeldAre(t, p, n)
    PROVE  KidRow(KidIds(t, p), t, p, n)
<1>. DEFINE ids == KidIds(t, p)
<1>0. Unique(t) /\ p \in Pos
  BY FineIsUnique DEF Fine, Good, Rooted
<1>1. n \in Nat /\ n <= MaxSlots /\ \A i \in 1 .. n : i \in 1 .. MaxSlots /\ i \in Nat /\ Child(p, i) \in DOMAIN t
  BY MaxSlotsAssumption DEF HeldAre
<1>2. ids = [i \in 1 .. n |-> t[Child(p, i)].id]
  <2>1. DOMAIN Held(t, p) = Slots(t, p, 0)
    BY DEF Held
  <2>. QED  BY <2>1 DEF KidIds, Child, HeldAre
<1>. HIDE DEF ids
<1>3. ids \in Seq(Ids(t))
  BY <1>1, <1>2 DEF Ids
<1>4. ASSUME NEW i \in 1 .. n, NEW k \in 1 .. n, ids[i] = ids[k]
      PROVE  i = k
  <2>1. Child(p, i) = Child(p, k)
    BY <1>0, <1>1, <1>2, <1>4 DEF Unique
  <2>. QED  BY <1>0, <1>1, <2>1, FrontLast
<1>5. DOMAIN ids = 1 .. n /\ Len(ids) = n
  BY <1>1, <1>2
<1>6. KidRow(ids, t, p, n)
  BY <1>1, <1>2, <1>3, <1>4, <1>5 DEF KidRow
<1>. QED  BY <1>6 DEF ids

\* j puts 1 .. n in another order.
Shuffles(j, n) ==
    /\ \A i \in 1 .. n : j[i] \in 1 .. n
    /\ \A i, k \in 1 .. n : j[i] = j[k] => i = k
    /\ \A l \in 1 .. n : \E i \in 1 .. n : j[i] = l

\* u is t with the n children of p in the order j.
Permuted(u, t, p, j, n) ==
    /\ Fine(u, {}) /\ p \in DOMAIN u /\ u[p] = t[p]
    /\ \A x \in DOMAIN t : ~Under(p, 0, x) => x \in DOMAIN u /\ u[x] = t[x]
    /\ \A i \in 1 .. n : \A y \in Pos :
         At(p, j[i], y) \in DOMAIN t => At(p, i, y) \in DOMAIN u /\ u[At(p, i, y)] = t[At(p, j[i], y)]
    /\ \A x \in DOMAIN u : \/ x \in DOMAIN t /\ ~Under(p, 0, x)
                           \/ \E i \in 1 .. n : \E y \in Pos : x = At(p, i, y) /\ At(p, j[i], y) \in DOMAIN t

\* The children of a node, each once, in another order: ReorderChildren does that.
LEMMA ReorderIs ==
    ASSUME NEW t, Fine(t, {}), NEW p \in DOMAIN t, IsLayout(t[p]), NEW n, HeldAre(t, p, n),
           NEW j, Shuffles(j, n), NEW order, DOMAIN order = 1 .. n,
           \A i \in 1 .. n : order[i] = t[Child(p, j[i])].id
    PROVE  \E u : ReorderChildren(t[p].id, order, t) = Ok(u) /\ Permuted(u, t, p, j, n)
<1>. DEFINE parent == t[p].id
            ids == KidIds(t, p)
            at(id) == SelectLastInSeq(ids, LAMBDA k : k = id)
            kids == [i \in DOMAIN order |-> Sub(t, Append(p, at(order[i])))]
            u == WithKids(t, p, kids)
            of(id, s) == {i \in DOMAIN s : s[i] = id}
            same == /\ DOMAIN order = DOMAIN ids
                    /\ \A id \in ToSet(order) \union ToSet(ids) :
                         Cardinality(of(id, order)) = Cardinality(of(id, ids))
<1>0. Good(t) /\ Unique(t) /\ DOMAIN t \subseteq Pos /\ p \in Pos
  BY FineIsUnique DEF Fine, Good, Rooted
<1>1. Find(parent, t) = p /\ parent \in Ids(t)
  BY UniqueFind DEF Ids
<1>2. same => ReorderChildren(parent, order, t) = Ok(u)
  <2>1. DEFINE q == Find(parent, t)
  <2>2. parent \in Ids(t) /\ IsLayout(t[q]) /\ q = p
    BY <1>1
  <2>. HIDE DEF q, parent
  <2>3. ReorderChildren(parent, order, t) =
          IF parent \notin Ids(t) THEN Fail("ParentNotFound", t)
          ELSE IF ~IsLayout(t[q]) THEN Fail("ChildlessKind", t)
          ELSE IF \/ DOMAIN order # DOMAIN KidIds(t, q)
                  \/ \E id \in ToSet(order) \union ToSet(KidIds(t, q)) :
                       Cardinality({i \in DOMAIN order : order[i] = id})
                         # Cardinality({i \in DOMAIN KidIds(t, q) : KidIds(t, q)[i] = id})
               THEN Fail("OrderingMismatch", t)
          ELSE Ok(WithKids(t, q, [i \in DOMAIN order |->
                     Sub(t, Append(q, SelectLastInSeq(KidIds(t, q), LAMBDA k : k = order[i])))]))
    BY DEF ReorderChildren, q
  <2>. QED  BY <2>2, <2>3
<1>3. n \in Nat /\ \A i \in 1 .. n : i \in 1 .. MaxSlots /\ i \in Nat
  BY MaxSlotsAssumption DEF HeldAre
<1>4. \A i \in 1 .. n : Child(p, i) \in DOMAIN t /\ Good(Sub(t, Child(p, i)))
  BY <1>3 DEF HeldAre
<1>5. DOMAIN ids = 1 .. n /\ ids \in Seq(Range(ids)) /\ \A i \in 1 .. n : ids[i] = t[Child(p, i)].id
  <2>1. DOMAIN Held(t, p) = Slots(t, p, 0)
    BY DEF Held
  <2>2. ids = [i \in 1 .. n |-> t[Child(p, i)].id]
    BY <2>1 DEF KidIds, Child, HeldAre
  <2>. QED  BY <1>3, <2>2 DEF Range
<1>6. \A i, k \in 1 .. n : ids[i] = ids[k] => i = k
  <2>. SUFFICES ASSUME NEW i \in 1 .. n, NEW k \in 1 .. n, ids[i] = ids[k]
                PROVE  i = k
    OBVIOUS
  <2>1. Child(p, i) = Child(p, k)
    BY <1>0, <1>4, <1>5 DEF Unique
  <2>. QED  BY <1>0, <1>3, <2>1, FrontLast
<1>. HIDE DEF ids
<1>7. \A i \in 1 .. n : j[i] \in 1 .. n /\ order[i] = ids[j[i]]
  BY <1>5 DEF Shuffles
<1>8. same
  <2>1. ASSUME NEW id \in ToSet(order) \union ToSet(ids)
        PROVE  Cardinality(of(id, order)) = Cardinality(of(id, ids))
    <3>1. PICK l \in 1 .. n : id = ids[l]
      BY <1>5, <1>7 DEF ToSet
    <3>2. PICK i \in 1 .. n : j[i] = l
      BY DEF Shuffles
    <3>3. of(id, ids) = {l}
      BY <1>5, <1>6, <3>1
    <3>4. of(id, order) = {i}
      <4>1. ASSUME NEW k \in 1 .. n
            PROVE  order[k] = id <=> k = i
        <5>1. j[k] \in 1 .. n /\ order[k] = ids[j[k]] /\ order[i] = ids[l]
          BY <1>7, <3>2
        <5>2. order[k] = id <=> j[k] = l
          BY <1>6, <3>1, <5>1
        <5>3. j[k] = l <=> k = i
          BY <3>2 DEF Shuffles
        <5>. QED  BY <5>2, <5>3
      <4>. QED  BY <4>1
    <3>5. Cardinality({l}) = 1 /\ Cardinality({i}) = 1
      BY FS_Singleton
    <3>. HIDE DEF of
    <3>. QED  BY <3>3, <3>4, <3>5
  <2>. QED  BY <1>5, <2>1
<1>. HIDE DEF same
<1>9. \A i \in 1 .. n : at(order[i]) = j[i]
  <2>. SUFFICES ASSUME NEW i \in 1 .. n
                PROVE  at(order[i]) = j[i]
    OBVIOUS
  <2>1. j[i] \in 1 .. n /\ ids[j[i]] = order[i]
    BY <1>7
  <2>2. at(order[i]) \in 1 .. n /\ ids[at(order[i])] = order[i]
    <3>1. StandsAt(j[i], ids, n, order[i])
      BY <2>1 DEF StandsAt
    <3>2. StandsAt(LastPlaceOf(ids, order[i]), ids, n, order[i])
      BY <1>3, <1>5, <3>1, LastIs
    <3>3. at(order[i]) = LastPlaceOf(ids, order[i])
      BY DEF LastPlaceOf
    <3>. HIDE DEF at
    <3>. QED  BY <3>2, <3>3 DEF StandsAt
  <2>. HIDE DEF at
  <2>. QED  BY <1>6, <2>1, <2>2
<1>10. \A i \in 1 .. n : kids[i] = Sub(t, Child(p, j[i]))
  BY <1>9 DEF Child
<1>11. DOMAIN kids = 1 .. n /\ Seats(kids) = 1 .. n
  BY <1>3 DEF Seats
<1>. HIDE DEF kids, at
<1>12. GoodSubs(kids)
  <2>1. \A i \in 1 .. n : Good(kids[i])
    BY <1>4, <1>7, <1>10
  <2>2. \A i \in 1 .. n : i # 1 => i - 1 \in 1 .. n
    BY <1>3
  <2>. QED  BY <1>11, <2>1, <2>2 DEF GoodSubs
<1>. DEFINE v == WithSlots(t, p, 0, kids)
<1>13. Seated(v, t, p, 0, kids)
  BY <1>0, <1>12, KidsSeat
<1>14. u = v
  BY DEF WithKids
<1>15. ReorderChildren(parent, order, t) = Ok(v)
  BY <1>2, <1>8, <1>14
<1>16. Fine(v, {})
  <2>1. Fine(ReorderChildren(parent, order, t).tree, {})
    BY ReorderKeeps
  <2>. HIDE DEF v, parent
  <2>. QED  BY <1>15, <2>1 DEF Ok
<1>. HIDE DEF v, u
<1>17. \A i \in 1 .. n : \A y \in Pos : At(p, j[i], y) \in DOMAIN t =>
         At(p, i, y) \in DOMAIN v /\ v[At(p, i, y)] = t[At(p, j[i], y)]
  <2>. SUFFICES ASSUME NEW i \in 1 .. n, NEW y \in Pos, At(p, j[i], y) \in DOMAIN t
                PROVE  At(p, i, y) \in DOMAIN v /\ v[At(p, i, y)] = t[At(p, j[i], y)]
    OBVIOUS
  <2>1. j[i] \in Nat /\ 0 + i = i /\ i \in Seats(kids) /\ kids[i] = Sub(t, Child(p, j[i]))
    BY <1>3, <1>7, <1>10, <1>11
  <2>2. y \in DOMAIN kids[i] /\ kids[i][y] = t[At(p, j[i], y)]
    BY <1>0, <2>1, SubHas
  <2>3. At(p, 0 + i, y) \in DOMAIN v /\ v[At(p, 0 + i, y)] = kids[i][y]
    BY <1>13, <2>1, <2>2 DEF Seated
  <2>. QED  BY <2>1, <2>2, <2>3
<1>18. ASSUME NEW x \in DOMAIN v
       PROVE  \/ x \in DOMAIN t /\ ~Under(p, 0, x)
              \/ \E i \in 1 .. n : \E y \in Pos : x = At(p, i, y) /\ At(p, j[i], y) \in DOMAIN t
  <2>1. CASE \E i \in Seats(kids) : \E y \in DOMAIN kids[i] : x = At(p, 0 + i, y)
    <3>1. PICK i \in 1 .. n : \E y \in DOMAIN kids[i] : x = At(p, 0 + i, y)
      BY <1>11, <2>1
    <3>2. PICK y \in DOMAIN kids[i] : x = At(p, 0 + i, y)
      BY <3>1
    <3>3. 0 + i = i /\ j[i] \in Nat /\ kids[i] = Sub(t, Child(p, j[i]))
      BY <1>3, <1>7, <1>10
    <3>4. y \in Pos /\ At(p, j[i], y) \in DOMAIN t
      BY <1>0, <3>3, SubHas
    <3>. QED  BY <3>2, <3>3, <3>4
  <2>. QED  BY <1>13, <2>1 DEF Seated
<1>19. p \in DOMAIN v /\ v[p] = t[p]
  <2>1. ~Under(p, 0, p)
    BY <1>0, UnderSelf
  <2>. QED  BY <1>13, <2>1 DEF Seated
<1>20. \A x \in DOMAIN t : ~Under(p, 0, x) => x \in DOMAIN v /\ v[x] = t[x]
  BY <1>13 DEF Seated
<1>21. Permuted(v, t, p, j, n)
  BY <1>16, <1>17, <1>18, <1>19, <1>20 DEF Permuted
<1>. QED  BY <1>15, <1>21

\* So the children of p have the ids in that order, and no id is lost.
LEMMA PermutedKids ==
    ASSUME NEW t, Fine(t, {}), NEW p \in DOMAIN t, NEW n, HeldAre(t, p, n),
           NEW j, Shuffles(j, n), NEW u, Permuted(u, t, p, j, n)
    PROVE  /\ HeldAre(u, p, n)
           /\ \A i \in 1 .. n : u[Child(p, i)] = t[Child(p, j[i])]
           /\ Ids(u) = Ids(t)
<1>0. /\ Good(t) /\ Good(u) /\ DOMAIN t \subseteq Pos /\ p \in Pos /\ p \in DOMAIN u
      /\ DOMAIN u \subseteq Pos /\ Rooted(t) /\ << >> \in Pos
  BY DEF Fine, Good, Rooted, Permuted, Pos
<1>1. n \in Nat /\ n <= MaxSlots /\ MaxSlots \in Nat /\ \A i \in 1 .. n : i \in 1 .. MaxSlots /\ i \in Nat
  BY MaxSlotsAssumption DEF HeldAre
<1>2. \A i \in 1 .. MaxSlots : Child(p, i) \in DOMAIN t <=> i \in 1 .. n
  BY DEF HeldAre
<1>3. \A i \in 1 .. n : j[i] \in 1 .. n /\ j[i] \in Nat
  BY <1>1 DEF Shuffles
<1>4. ASSUME NEW i \in 1 .. n
      PROVE  Child(p, i) \in DOMAIN u /\ u[Child(p, i)] = t[Child(p, j[i])]
  <2>1. At(p, i, << >>) = Child(p, i) /\ At(p, j[i], << >>) = Child(p, j[i])
    BY <1>0, <1>1, <1>3, AtEmpty
  <2>2. Child(p, j[i]) \in DOMAIN t
    BY <1>1, <1>2, <1>3
  <2>3. At(p, i, << >>) \in DOMAIN u /\ u[At(p, i, << >>)] = t[At(p, j[i], << >>)]
    BY <1>0, <2>1, <2>2 DEF Permuted
  <2>. QED  BY <2>1, <2>3
<1>5. PICK m : HeldAre(u, p, m)
  BY <1>0, HeldIs
<1>6. m \in Nat /\ m <= MaxSlots /\ \A i \in 1 .. MaxSlots : Child(p, i) \in DOMAIN u <=> i \in 1 .. m
  BY <1>5, MaxSlotsAssumption DEF HeldAre
<1>7. ASSUME NEW i \in 1 .. m
      PROVE  i \in 1 .. n
  <2>1. i \in 1 .. MaxSlots /\ i \in Nat /\ 0 + i = i /\ Child(p, i) \in DOMAIN u
    BY <1>1, <1>6
  <2>2. At(p, i, << >>) = Child(p, i)
    BY <1>0, <2>1, AtEmpty
  <2>3. Under(p, 0, Child(p, i))
    BY <1>0, <2>1, <2>2 DEF Under
  <2>4. PICK k \in 1 .. n, y \in Pos : Child(p, i) = At(p, k, y)
    BY <2>1, <2>3 DEF Permuted
  <2>5. i = k
    BY <1>0, <1>1, <2>1, <2>2, <2>4, AtInjective
  <2>. QED  BY <2>5
<1>8. m = n
  <2>1. n = 0 \/ n \in 1 .. m
    BY <1>1, <1>4, <1>6
  <2>2. m = 0 \/ m \in 1 .. n
    BY <1>6, <1>7
  <2>. QED  BY <1>1, <1>6, <2>1, <2>2
<1>9. HeldAre(u, p, n)
  BY <1>5, <1>8
<1>10. ASSUME NEW x \in DOMAIN u
       PROVE  \E o \in DOMAIN t : u[x] = t[o]
  <2>1. CASE x \in DOMAIN t /\ ~Under(p, 0, x)
    BY <2>1 DEF Permuted
  <2>2. CASE \E i \in 1 .. n : \E y \in Pos : x = At(p, i, y) /\ At(p, j[i], y) \in DOMAIN t
    BY <2>2 DEF Permuted
  <2>. QED  BY <2>1, <2>2 DEF Permuted
<1>11. ASSUME NEW o \in DOMAIN t
       PROVE  \E x \in DOMAIN u : u[x] = t[o]
  <2>1. CASE ~Under(p, 0, o)
    BY <2>1 DEF Permuted
  <2>2. CASE Under(p, 0, o)
    <3>1. PICK l \in 1 .. MaxSlots, y \in Pos : o = At(p, 0 + l, y)
      BY <2>2 DEF Under
    <3>2. l \in Nat /\ 0 + l = l
      BY <1>1
    <3>3. l \in 1 .. n
      BY <1>0, <1>2, <3>1, <3>2, Above
    <3>4. PICK i \in 1 .. n : j[i] = l
      BY <3>3 DEF Shuffles
    <3>5. At(p, i, y) \in DOMAIN u /\ u[At(p, i, y)] = t[At(p, j[i], y)]
      BY <3>1, <3>2, <3>4 DEF Permuted
    <3>. QED  BY <3>1, <3>2, <3>4, <3>5
  <2>. QED  BY <2>1, <2>2
<1>12. Ids(u) = Ids(t)
  <2>1. \A id \in Ids(u) : id \in Ids(t)
    BY <1>10 DEF Ids
  <2>2. \A id \in Ids(t) : id \in Ids(u)
    BY <1>11 DEF Ids
  <2>. QED  BY <2>1, <2>2
<1>. QED  BY <1>4, <1>9, <1>12

\* A reorder brings nothing and is not measured: the engine's answer is the op's.
LEMMA CheckedReorder ==
    ASSUME NEW t, NEW parent, NEW order
    PROVE  ApplyOp(ReorderOp(parent, order), t) = ReorderChildren(parent, order, t)
<1>. DEFINE op == ReorderOp(parent, order)
<1>1. op.tag = "ReorderChildren" /\ op.parent = parent /\ op.order = order
  BY DEF ReorderOp
<1>. HIDE DEF op
<1>2. ApplyOne(op, t) = ReorderChildren(parent, order, t)
  BY <1>1 DEF ApplyOne, ApplyEdit
<1>3. Installed(op) = {} /\ ~CanGrow(op)
  <2>1. Edits(op) = <<op>>
    BY <1>1 DEF Edits
  <2>2. Carried(op) = {}
    BY <1>1 DEF Carried
  <2>. QED  BY <1>1, <2>1, <2>2 DEF Installed, CanGrow
<1>4. \A r : Checked(op, t, r) = r
  BY <1>3 DEF Checked, InstalledDuplicate
<1>5. ApplyOp(op, t) = ReorderChildren(parent, order, t)
  BY <1>2, <1>4 DEF ApplyOp
<1>. QED  BY <1>5 DEF op

-----------------------------------------------------------------------------
\* a and b have changed places.
Turn(i, a, b) == IF i = a THEN b ELSE IF i = b THEN a ELSE i

\* r is the row s of n with the a-th and the b-th in each other's place.
Swaps(r, s, n, a, b) == DOMAIN r = 1 .. n /\ \A i \in 1 .. n : r[i] = s[Turn(i, a, b)]

\* That is what Swapped gives.
LEMMA SwappedIs ==
    ASSUME NEW s, NEW n \in Nat, DOMAIN s = 1 .. n, NEW a \in 1 .. n, NEW b \in 1 .. n, a # b
    PROVE  Swaps(Swapped(s, a, b), s, n, a, b)
<1>. DEFINE r == [s EXCEPT ![a] = s[b]]
            w == [r EXCEPT ![b] = s[a]]
<1>1. DOMAIN r = 1 .. n /\ r[a] = s[b] /\ \A i \in 1 .. n : i # a => r[i] = s[i]
  OBVIOUS
<1>2. Swapped(s, a, b) = w
  BY DEF Swapped
<1>. HIDE DEF r
<1>3. DOMAIN w = 1 .. n /\ w[b] = s[a] /\ \A i \in 1 .. n : i # b => w[i] = r[i]
  BY <1>1
<1>. HIDE DEF w
<1>4. \A i \in 1 .. n : w[i] = s[Turn(i, a, b)]
  BY <1>1, <1>3 DEF Turn
<1>. QED  BY <1>2, <1>3, <1>4 DEF Swaps

\* A turn is another order.
LEMMA TurnShuffles ==
    ASSUME NEW n \in Nat, NEW a \in 1 .. n, NEW b \in 1 .. n
    PROVE  Shuffles([i \in 1 .. n |-> Turn(i, a, b)], n)
<1>. DEFINE j == [i \in 1 .. n |-> Turn(i, a, b)]
<1>1. \A i \in 1 .. n : j[i] = Turn(i, a, b) /\ Turn(i, a, b) \in 1 .. n /\ Turn(Turn(i, a, b), a, b) = i
  BY DEF Turn
<1>. HIDE DEF j
<1>2. Shuffles(j, n)
  BY <1>1 DEF Shuffles
<1>. QED  BY <1>2 DEF j

\* u is t with the child in slot k of p, of which there are n, in the place of its
\* neighbour in slot b, and the neighbour in its.
Nudged(u, t, p, n, k, b) == Permuted(u, t, p, [i \in 1 .. n |-> Turn(i, k, b)], n)

\* What a nudge permitted is, and does.
LEMMA NudgeIs ==
    ASSUME NEW t, Fine(t, {}), NEW p \in DOMAIN t, IsLayout(t[p]), NEW n, HeldAre(t, p, n),
           NEW k \in 1 .. n, NEW id, t[Child(p, k)].id = id, NEW d \in {-1, 1}, k + d \in 1 .. n,
           NEW m, m = Nudge(t, id, d)
    PROVE  /\ m.err = "None"
           /\ \E u : ApplyOp(m.op, t) = Ok(u) /\ Nudged(u, t, p, n, k, k + d)
<1>. DEFINE ids == KidIds(t, p)
            b == k + d
            order == Swapped(ids, k, b)
            j == [i \in 1 .. n |-> Turn(i, k, b)]
            parent == t[p].id
            op == ReorderOp(parent, order)
<1>0. Good(t) /\ Unique(t) /\ DOMAIN t \subseteq Pos /\ p \in Pos
  BY FineIsUnique DEF Fine, Good, Rooted
<1>1. n \in Nat /\ \A i \in 1 .. n : i \in 1 .. MaxSlots /\ i \in Nat /\ Child(p, i) \in DOMAIN t
  BY MaxSlotsAssumption DEF HeldAre
<1>2. DOMAIN ids = 1 .. n /\ Len(ids) = n /\ \A i \in 1 .. n : ids[i] = t[Child(p, i)].id
  <2>1. DOMAIN Held(t, p) = Slots(t, p, 0)
    BY DEF Held
  <2>2. ids = [i \in 1 .. n |-> t[Child(p, i)].id]
    BY <2>1 DEF KidIds, Child, HeldAre
  <2>. QED  BY <1>1, <2>2
<1>3. k \in 1 .. MaxSlots /\ Child(p, k) \in DOMAIN t
  BY <1>1
<1>4. LayoutParents(id, t) = {p} /\ InOrder(LayoutParents(id, t))[1] = p /\ t[<< >>].id # id
  BY <1>3, ParentIs
<1>. HIDE DEF ids, b
<1>5. \A i \in 1 .. n : ids[i] = id <=> i = k
  <2>. SUFFICES ASSUME NEW i \in 1 .. n, ids[i] = id
                PROVE  i = k
    BY <1>2
  <2>1. Child(p, i) = Child(p, k)
    BY <1>0, <1>1, <1>2 DEF Unique
  <2>. QED  BY <1>0, <1>1, <2>1, FrontLast
<1>6. PlaceOf(ids, id) = k
  <2>1. OnlyAt(ids, n, k, id)
    BY <1>1, <1>2, <1>5 DEF OnlyAt
  <2>. QED  BY <2>1, SelectIs
<1>7. b \in 1 .. n /\ b # k
  BY <1>1 DEF b
<1>8. m = Emit(op)
  <2>. DEFINE q == InOrder(LayoutParents(id, t))[1]
              at == PlaceOf(KidIds(t, q), id)
  <2>1. m = IF t[<< >>].id = id THEN Refused("CannotNudgeRoot")
            ELSE IF LayoutParents(id, t) = {} THEN Refused("NodeNotFound")
            ELSE IF at + d \notin DOMAIN KidIds(t, q) THEN Refused("NudgeOutOfRange")
            ELSE Emit(ReorderOp(t[q].id, Swapped(KidIds(t, q), at, at + d)))
    BY DEF Nudge, PlaceOf
  <2>2. q = p /\ KidIds(t, q) = ids
    BY <1>4 DEF ids
  <2>. HIDE DEF q
  <2>3. at = k /\ at + d = b
    BY <1>6, <2>2 DEF b
  <2>. HIDE DEF at
  <2>. QED  BY <1>2, <1>4, <1>7, <2>1, <2>2, <2>3
<1>9. DOMAIN order = 1 .. n /\ \A i \in 1 .. n : order[i] = ids[Turn(i, k, b)]
  <2>1. n \in Nat /\ DOMAIN ids = 1 .. n /\ b \in 1 .. n /\ k # b
    BY <1>1, <1>2, <1>7
  <2>2. Swaps(Swapped(ids, k, b), ids, n, k, b)
    BY <2>1, SwappedIs
  <2>. QED  BY <2>2 DEF Swaps
<1>10. Shuffles(j, n) /\ \A i \in 1 .. n : j[i] = Turn(i, k, b)
  BY <1>1, <1>7, TurnShuffles
<1>. HIDE DEF order, j
<1>11. ASSUME NEW i \in 1 .. n
       PROVE  order[i] = t[Child(p, j[i])].id
  <2>1. j[i] = Turn(i, k, b) /\ j[i] \in 1 .. n
    BY <1>10 DEF Shuffles
  <2>. QED  BY <1>2, <1>9, <2>1
<1>12. PICK u : ReorderChildren(parent, order, t) = Ok(u) /\ Permuted(u, t, p, j, n)
  BY <1>9, <1>10, <1>11, ReorderIs
<1>13. ApplyOp(op, t) = Ok(u)
  BY <1>12, CheckedReorder
<1>. HIDE DEF op
<1>14. m.err = "None" /\ m.op = op
  BY <1>8 DEF Emit
<1>. QED  BY <1>12, <1>13, <1>14 DEF Nudged, j, b

\* A nudge permitted is of a child of a layout node, that has a neighbour.
LEMMA NudgeOf ==
    ASSUME NEW t, Fine(t, {}), NEW id, NEW d \in {-1, 1}, Nudge(t, id, d).err = "None"
    PROVE  \E p \in DOMAIN t : \E n : \E k \in 1 .. n :
             IsLayout(t[p]) /\ HeldAre(t, p, n) /\ t[Child(p, k)].id = id /\ k + d \in 1 .. n
<1>. DEFINE p == InOrder(LayoutParents(id, t))[1]
            ids == KidIds(t, p)
            at == PlaceOf(ids, id)
<1>1. LayoutParents(id, t) # {} /\ at + d \in DOMAIN ids
  <2>. HIDE DEF at, p
  <2>1. Nudge(t, id, d) = IF t[<< >>].id = id THEN Refused("CannotNudgeRoot")
                          ELSE IF LayoutParents(id, t) = {} THEN Refused("NodeNotFound")
                          ELSE IF at + d \notin DOMAIN ids THEN Refused("NudgeOutOfRange")
                          ELSE Emit(ReorderOp(t[p].id, Swapped(ids, at, at + d)))
    BY DEF Nudge, at, p, PlaceOf
  <2>. QED  BY <2>1 DEF Refused
<1>2. p \in LayoutParents(id, t)
  <2>1. LayoutParents(id, t) \subseteq Pos /\ IsFiniteSet(LayoutParents(id, t))
    BY FS_Subset DEF LayoutParents, Fine, Good, Rooted
  <2>. QED  BY <1>1, <2>1, FirstInOrder
<1>. HIDE DEF p
<1>3. p \in DOMAIN t /\ IsLayout(t[p]) /\ id \in ToSet(ids)
  BY <1>2 DEF LayoutParents
<1>4. PICK n : HeldAre(t, p, n)
  BY <1>3, HeldIs DEF Fine
<1>5. n \in Nat /\ \A i \in 1 .. n : i \in 1 .. MaxSlots /\ i \in Nat /\ Child(p, i) \in DOMAIN t
  BY <1>4, MaxSlotsAssumption DEF HeldAre
<1>6. DOMAIN ids = 1 .. n /\ Len(ids) = n /\ \A i \in 1 .. n : ids[i] = t[Child(p, i)].id
  <2>1. DOMAIN Held(t, p) = Slots(t, p, 0)
    BY DEF Held
  <2>2. ids = [i \in 1 .. n |-> t[Child(p, i)].id]
    BY <1>4, <2>1 DEF KidIds, Child, HeldAre
  <2>. QED  BY <1>5, <2>2
<1>7. PICK k \in 1 .. n : ids[k] = id
  BY <1>3, <1>6 DEF ToSet
<1>8. \A i \in 1 .. n : ids[i] = id <=> i = k
  <2>. SUFFICES ASSUME NEW i \in 1 .. n, ids[i] = id
                PROVE  i = k
    BY <1>7
  <2>1. Child(p, i) = Child(p, k)
    BY <1>5, <1>6, <1>7, FineIsUnique DEF Unique
  <2>2. p \in Pos
    BY <1>3 DEF Fine, Good, Rooted
  <2>. QED  BY <1>5, <2>1, <2>2, FrontLast
<1>. HIDE DEF ids
<1>9. at = k
  <2>1. OnlyAt(ids, n, k, id)
    BY <1>5, <1>6, <1>8 DEF OnlyAt
  <2>. QED  BY <2>1, SelectIs
<1>10. k + d \in 1 .. n /\ t[Child(p, k)].id = id
  BY <1>1, <1>6, <1>7, <1>9
<1>. QED  BY <1>3, <1>4, <1>10

\* A turn taken twice is none.
LEMMA TwiceTurned ==
    ASSUME NEW t, Fine(t, {}), NEW p \in DOMAIN t, NEW n, HeldAre(t, p, n), NEW a \in 1 .. n, NEW b \in 1 .. n,
           NEW u, Nudged(u, t, p, n, a, b), NEW w, Nudged(w, u, p, n, b, a)
    PROVE  DOMAIN w = DOMAIN t /\ \A x \in DOMAIN w : w[x] = t[x]
<1>. DEFINE j == [i \in 1 .. n |-> Turn(i, a, b)]
            l == [i \in 1 .. n |-> Turn(i, b, a)]
<1>0. n \in Nat /\ p \in Pos /\ Rooted(t) /\ DOMAIN t \subseteq Pos /\ MaxSlots \in Nat /\ n <= MaxSlots
      /\ \A i \in 1 .. n : i \in 1 .. MaxSlots /\ i \in Nat
  BY MaxSlotsAssumption DEF HeldAre, Fine, Good, Rooted
<1>1. \A i \in 1 .. n : j[i] \in 1 .. n /\ l[i] \in 1 .. n /\ j[l[i]] = i /\ l[j[i]] = i /\ l[i] \in Nat
                        /\ j[i] \in Nat
  BY <1>0 DEF Turn
<1>2. Permuted(u, t, p, j, n) /\ Permuted(w, u, p, l, n)
  BY DEF Nudged
<1>. HIDE DEF j, l
<1>3. ASSUME NEW x \in DOMAIN t
      PROVE  x \in DOMAIN w /\ w[x] = t[x]
  <2>1. CASE ~Under(p, 0, x)
    BY <1>2, <2>1 DEF Permuted
  <2>2. CASE Under(p, 0, x)
    <3>1. PICK i \in 1 .. MaxSlots, y \in Pos : x = At(p, 0 + i, y)
      BY <2>2 DEF Under
    <3>2. i \in Nat /\ 0 + i = i /\ x = At(p, i, y)
      BY <1>0, <3>1
    <3>3. i \in 1 .. n
      <4>1. Child(p, i) \in DOMAIN t
        BY <1>0, <3>2, Above
      <4>. QED  BY <4>1 DEF HeldAre
    <3>4. l[i] \in 1 .. n /\ j[l[i]] = i
      BY <1>1, <3>3
    <3>5. At(p, l[i], y) \in DOMAIN u /\ u[At(p, l[i], y)] = t[x]
      BY <1>2, <3>2, <3>4 DEF Permuted
    <3>6. At(p, i, y) \in DOMAIN w /\ w[At(p, i, y)] = u[At(p, l[i], y)]
      BY <1>2, <3>3, <3>5 DEF Permuted
    <3>. QED  BY <3>2, <3>5, <3>6
  <2>. QED  BY <2>1, <2>2
<1>4. ASSUME NEW x \in DOMAIN w
      PROVE  x \in DOMAIN t
  <2>1. CASE x \in DOMAIN u /\ ~Under(p, 0, x)
    <3>1. ASSUME NEW i \in 1 .. n, NEW y \in Pos
          PROVE  x # At(p, i, y)
      <4>1. 0 + i = i /\ i \in 1 .. MaxSlots
        BY <1>0
      <4>. QED  BY <2>1, <4>1 DEF Under
    <3>. QED  BY <1>2, <2>1, <3>1 DEF Permuted
  <2>2. ASSUME NEW i \in 1 .. n, NEW y \in Pos, x = At(p, i, y), At(p, l[i], y) \in DOMAIN u
        PROVE  x \in DOMAIN t
    <3>1. l[i] \in 1 .. n /\ l[i] \in Nat /\ 0 + l[i] = l[i] /\ l[i] \in 1 .. MaxSlots
      BY <1>0, <1>1
    <3>2. Under(p, 0, At(p, l[i], y))
      BY <3>1 DEF Under
    <3>3. PICK k \in 1 .. n, z \in Pos : At(p, l[i], y) = At(p, k, z) /\ At(p, j[k], z) \in DOMAIN t
      BY <1>2, <2>2, <3>2 DEF Permuted
    <3>4. l[i] = k /\ y = z
      BY <1>0, <3>1, <3>3, AtInjective
    <3>5. j[k] = i
      BY <1>1, <3>4
    <3>. QED  BY <2>2, <3>3, <3>4, <3>5
  <2>. QED  BY <1>2, <2>1, <2>2 DEF Permuted
<1>. QED  BY <1>3, <1>4

\* A nudge one way and back gives the tree it started from.
LEMMA NudgesUndo ==
    ASSUME Fine(tree, {}), NEW id, Nudge(tree, id, 1).err = "None",
           NEW after, after = ApplyOp(Nudge(tree, id, 1).op, tree).tree,
           NEW back, back = Nudge(after, id, -1)
    PROVE  NudgedBack(back, ApplyOp(back.op, after))
<1>1. PICK p, n : p \in DOMAIN tree /\ \E k \in 1 .. n :
        IsLayout(tree[p]) /\ HeldAre(tree, p, n) /\ tree[Child(p, k)].id = id /\ k + 1 \in 1 .. n
  BY NudgeOf
<1>2. PICK k \in 1 .. n :
        p \in DOMAIN tree /\ IsLayout(tree[p]) /\ HeldAre(tree, p, n) /\ tree[Child(p, k)].id = id /\ k + 1 \in 1 .. n
  BY <1>1
<1>. DEFINE b == k + 1
            j == [i \in 1 .. n |-> Turn(i, k, b)]
<1>3. PICK u : ApplyOp(Nudge(tree, id, 1).op, tree) = Ok(u) /\ Nudged(u, tree, p, n, k, b)
  BY <1>2, NudgeIs
<1>4. n \in Nat /\ b \in 1 .. n /\ k = b + (-1) /\ b # k
  BY <1>2 DEF HeldAre
<1>. HIDE DEF b
<1>5. after = u
  BY <1>3 DEF Ok
<1>6. Shuffles(j, n) /\ j[b] = k
  BY <1>4, TurnShuffles DEF Turn
<1>7. Permuted(u, tree, p, j, n)
  BY <1>3 DEF Nudged
<1>. HIDE DEF j
<1>8. /\ HeldAre(u, p, n) /\ u[Child(p, b)] = tree[Child(p, k)]
      /\ Fine(u, {}) /\ p \in DOMAIN u /\ IsLayout(u[p])
  <2>1. HeldAre(u, p, n) /\ u[Child(p, b)] = tree[Child(p, j[b])]
    BY <1>2, <1>4, <1>6, <1>7, PermutedKids
  <2>2. Fine(u, {}) /\ p \in DOMAIN u /\ u[p] = tree[p]
    BY <1>7 DEF Permuted
  <2>. QED  BY <1>2, <1>6, <2>1, <2>2
<1>9. back.err = "None" /\ \E w : ApplyOp(back.op, u) = Ok(w) /\ Nudged(w, u, p, n, b, b + (-1))
  <2>1. u[Child(p, b)].id = id
    BY <1>2, <1>8
  <2>. QED  BY <1>2, <1>4, <1>5, <1>8, <2>1, NudgeIs
<1>10. PICK w : ApplyOp(back.op, u) = Ok(w) /\ Nudged(w, u, p, n, b, k)
  BY <1>4, <1>9
<1>11. DOMAIN w = DOMAIN tree /\ \A x \in DOMAIN w : w[x] = tree[x]
  BY <1>2, <1>3, <1>4, <1>10, TwiceTurned
<1>12. ApplyOp(back.op, after) = Ok(w)
  BY <1>5, <1>10
<1>. QED  BY <1>9, <1>11, <1>12 DEF NudgedBack, Again, Ok

-----------------------------------------------------------------------------
\* The row a of m begins the row r of l.
Begins(a, r, m, l) == m <= l /\ \A i \in 1 .. m : a[i] = r[i]

\* A row without the id that lies in b, in b's order, is no longer than another.
LEMMA WithinFits ==
    ASSUME NEW a, NEW r, NEW b, NEW id, NEW m \in Nat, NEW l \in Nat, DOMAIN a = 1 .. m, DOMAIN r = 1 .. l,
           Within(a, b, id), Within(r, b, id), DOMAIN b \subseteq Nat,
           \A i \in 1 .. m : a[i] # id, \A i \in 1 .. l : r[i] # id
    PROVE  Begins(a, r, m, l)
<1>1. PICK k : /\ \A i \in DOMAIN a : k[i] \in DOMAIN b /\ a[i] = b[k[i]]
               /\ \A i, j \in DOMAIN a : i <= j <=> k[i] <= k[j]
               /\ \A z \in DOMAIN b : b[z] = id \/ \E i \in DOMAIN a : z = k[i]
  BY DEF Within
<1>2. PICK h : /\ \A i \in DOMAIN r : h[i] \in DOMAIN b /\ r[i] = b[h[i]]
               /\ \A i, j \in DOMAIN r : i <= j <=> h[i] <= h[j]
               /\ \A z \in DOMAIN b : b[z] = id \/ \E i \in DOMAIN r : z = h[i]
  BY DEF Within
<1>3. \A i \in 1 .. m : k[i] \in Nat /\ \E q \in 1 .. l : k[i] = h[q]
  BY <1>1, <1>2
<1>4. \A i \in 1 .. l : h[i] \in Nat /\ \E q \in 1 .. m : h[i] = k[q]
  BY <1>1, <1>2
<1>5. /\ \A i, j \in 1 .. m : i <= j <=> k[i] <= k[j]
      /\ \A i, j \in 1 .. l : i <= j <=> h[i] <= h[j]
  BY <1>1, <1>2
<1>. DEFINE T == {i \in 1 .. m : i > l \/ k[i] # h[i]}
<1>6. ASSUME T # {}
      PROVE  FALSE
  <2>1. PICK i \in T : \A j \in T : i <= j
    <3>1. T \subseteq Nat
      OBVIOUS
    <3>. HIDE DEF T
    <3>. QED  BY <1>6, <3>1, LeastIn
  <2>2. i \in 1 .. m /\ (i > l \/ k[i] # h[i])
    OBVIOUS
  <2>3. \A j \in 1 .. m : j < i => j <= l /\ k[j] = h[j]
    BY <2>1
  <2>. HIDE DEF T
  <2>4. PICK q \in 1 .. l : k[i] = h[q]
    BY <1>3, <2>2
  <2>5. q >= i
    <3>. SUFFICES ASSUME q < i
                  PROVE  FALSE
      BY <2>2, <2>4
    <3>1. q \in 1 .. m /\ k[q] = k[i]
      BY <2>2, <2>3, <2>4
    <3>2. i <= q
      BY <1>3, <1>5, <2>2, <3>1
    <3>. QED  BY <2>2, <3>2
  <2>6. i \in 1 .. l
    BY <2>2, <2>4, <2>5
  <2>7. h[i] <= k[i]
    BY <1>5, <2>4, <2>5, <2>6
  <2>8. PICK z \in 1 .. m : h[i] = k[z]
    BY <1>4, <2>6
  <2>9. z >= i
    <3>. SUFFICES ASSUME z < i
                  PROVE  FALSE
      BY <2>2, <2>8
    <3>0. z < i
      OBVIOUS
    <3>1. z \in 1 .. l /\ h[z] = h[i]
      <4>1. z <= l /\ k[z] = h[z]
        BY <2>3, <3>0
      <4>. QED  BY <2>8, <4>1
    <3>2. i <= z
      BY <1>4, <1>5, <2>6, <3>1
    <3>. QED  BY <2>2, <3>2
  <2>10. k[i] <= h[i]
    BY <1>5, <2>2, <2>8, <2>9
  <2>11. k[i] = h[i]
    <3>1. k[i] \in Nat /\ h[i] \in Nat
      BY <1>3, <1>4, <2>2, <2>6
    <3>. QED  BY <2>7, <2>10, <3>1
  <2>. QED  BY <2>2, <2>6, <2>11
<1>7. \A i \in 1 .. m : i <= l /\ k[i] = h[i]
  <2>. SUFFICES ASSUME NEW i \in 1 .. m
                PROVE  i <= l /\ k[i] = h[i]
    OBVIOUS
  <2>1. i \notin T
    <3>. HIDE DEF T
    <3>. QED  BY <1>6
  <2>. QED  BY <2>1
<1>. HIDE DEF T
<1>8. m <= l
  <2>1. m = 0 \/ m \in 1 .. m
    OBVIOUS
  <2>. QED  BY <1>7, <2>1
<1>9. \A i \in 1 .. m : a[i] = r[i]
  <2>. SUFFICES ASSUME NEW i \in 1 .. m
                PROVE  a[i] = r[i]
    OBVIOUS
  <2>1. i \in 1 .. l /\ k[i] = h[i]
    BY <1>7, <1>8
  <2>2. a[i] = b[k[i]] /\ r[i] = b[h[i]]
    BY <1>1, <1>2, <2>1
  <2>. QED  BY <2>1, <2>2
<1>. QED  BY <1>8, <1>9 DEF Begins

\* Two such rows are one.
LEMMA RowsAre ==
    ASSUME NEW S, NEW a \in Seq(S), NEW r \in Seq(S), NEW b, NEW id,
           Within(a, b, id), Within(r, b, id), DOMAIN b \subseteq Nat,
           \A i \in DOMAIN a : a[i] # id, \A i \in DOMAIN r : r[i] # id
    PROVE  a = r
<1>1. DOMAIN a = 1 .. Len(a) /\ DOMAIN r = 1 .. Len(r) /\ Len(a) \in Nat /\ Len(r) \in Nat
  OBVIOUS
<1>2. Len(a) <= Len(r) /\ \A i \in 1 .. Len(a) : a[i] = r[i]
  <2>1. Begins(a, r, Len(a), Len(r))
    BY <1>1, WithinFits
  <2>. QED  BY <2>1 DEF Begins
<1>3. Len(r) <= Len(a)
  <2>1. Begins(r, a, Len(r), Len(a))
    BY <1>1, WithinFits
  <2>. QED  BY <2>1 DEF Begins
<1>4. Len(a) = Len(r)
  <2>1. \A i, j \in Nat : i <= j /\ j <= i => i = j
    OBVIOUS
  <2>. QED  BY <1>1, <1>2, <1>3, <2>1
<1>. QED  BY <1>2, <1>4

\* The children a node has when a slot was closed are those it had, without the one.
LEMMA GapRow ==
    ASSUME NEW u, NEW t, NEW g, NEW k, NEW n, Gapped(u, t, g, k, n),
           NEW x \in DOMAIN u, NEW o \in DOMAIN t, Shift(x, o, g, k), NEW id, id = t[Child(g, k)].id
    PROVE  KidIds(u, x) = Without(KidIds(t, o), id) /\ id \notin Ids(u)
<1>. DEFINE a == KidIds(u, x)
            b == KidIds(t, o)
            r == Without(b, id)
<1>0. /\ Fine(u, {}) /\ Fine(t, {}) /\ g \in Pos /\ k \in Nat /\ DOMAIN t \subseteq Pos /\ Good(u) /\ Good(t)
  BY DEF Gapped, Fine, Good, Rooted
<1>1. Within(a, b, id)
  BY GapKids
<1>2. id \notin Ids(u)
  <2>1. << >> \in Pos /\ At(g, k, << >>) = Child(g, k)
    <3>1. << >> \in Pos
      BY DEF Pos
    <3>. QED  BY <1>0, <3>1, AtEmpty
  <2>3. BelowSlot(Child(g, k), g, k)
    BY <2>1 DEF BelowSlot
  <2>4. Child(g, k) \in DOMAIN t
    <3>1. n \in Nat /\ n <= MaxSlots /\ k \in 1 .. n /\ HeldAre(t, g, n) /\ k \in 1 .. MaxSlots
      BY MaxSlotsAssumption DEF Gapped
    <3>. QED  BY <3>1 DEF HeldAre
  <2>2. id \in Ids(Sub(t, Child(g, k)))
    BY <1>0, <2>3, <2>4, SubLabels
  <2>. QED  BY <2>2, GapLabels
<1>3. PICK m : HeldAre(u, x, m)
  BY <1>0, HeldIs
<1>4. PICK l : HeldAre(t, o, l)
  BY <1>0, HeldIs
<1>5. a \in Seq(Ids(u)) /\ \A i \in DOMAIN a : a[i] # id
  <2>1. KidRow(a, u, x, m)
    BY <1>0, <1>3, RowIsOf
  <2>. HIDE DEF a
  <2>. QED  BY <1>2, <2>1 DEF KidRow
<1>6. l \in Nat /\ DOMAIN b = 1 .. l /\ b \in Seq(Ids(t)) /\ \A i, j \in 1 .. l : b[i] = b[j] => i = j
  <2>1. KidRow(b, t, o, l)
    BY <1>0, <1>4, RowIsOf
  <2>. HIDE DEF b
  <2>. QED  BY <2>1 DEF KidRow
<1>. HIDE DEF a, b
<1>7. \E c \in Nat \ {0} : \A i \in 1 .. l : b[i] = id <=> i = c
  <2>1. CASE \E c \in 1 .. l : b[c] = id
    <3>1. PICK c \in 1 .. l : b[c] = id
      BY <2>1
    <3>2. c \in Nat \ {0} /\ \A i \in 1 .. l : b[i] = id <=> i = c
      BY <1>6, <3>1
    <3>. QED  BY <3>2
  <2>2. CASE ~ \E c \in 1 .. l : b[c] = id
    <3>1. l + 1 \in Nat \ {0} /\ \A i \in 1 .. l : i # l + 1
      BY <1>6
    <3>. QED  BY <2>2, <3>1
  <2>. QED  BY <2>1, <2>2
<1>8. PICK c \in Nat \ {0} : \A i \in 1 .. l : b[i] = id <=> i = c
  BY <1>7
<1>9. /\ r \in Seq({b[i] : i \in 1 .. l}) /\ Len(r) = IF l < c THEN l ELSE l - 1
      /\ \A i \in 1 .. Len(r) : r[i] = b[Past(i, c)]
  <2>1. Once(b, l, c, id)
    BY <1>6, <1>8 DEF Once
  <2>2. Skipped(r, b, l, c)
    BY <2>1, WithoutGap
  <2>. HIDE DEF r
  <2>. QED  BY <2>2 DEF Skipped
<1>. HIDE DEF r
<1>10. DOMAIN r = 1 .. Len(r) /\ Len(r) \in Nat
  BY <1>9
<1>11. \A i \in 1 .. Len(r) : Past(i, c) \in 1 .. l /\ Past(i, c) # c
  BY <1>6, <1>9, <1>10 DEF Past
<1>12. \A i \in DOMAIN r : r[i] # id
  BY <1>8, <1>9, <1>10, <1>11
<1>13. Within(r, b, id)
  <2>. DEFINE h == [i \in 1 .. Len(r) |-> Past(i, c)]
  <2>1. \A i \in DOMAIN r : h[i] \in DOMAIN b /\ r[i] = b[h[i]]
    BY <1>6, <1>9, <1>10, <1>11
  <2>2. \A i, j \in DOMAIN r : i <= j <=> h[i] <= h[j]
    BY <1>10 DEF Past
  <2>3. ASSUME NEW z \in DOMAIN b, b[z] # id
        PROVE  \E i \in DOMAIN r : z = h[i]
    <3>. DEFINE i == IF z < c THEN z ELSE z - 1
    <3>1. z \in 1 .. l /\ z # c
      BY <1>6, <1>8, <2>3
    <3>2. i \in 1 .. Len(r) /\ Past(i, c) = z
      BY <1>6, <1>9, <3>1 DEF Past
    <3>. QED  BY <1>10, <3>2
  <2>. HIDE DEF h
  <2>. QED  BY <2>1, <2>2, <2>3 DEF Within
<1>14. a = r
  <2>. DEFINE S == Ids(u) \union {b[i] : i \in 1 .. l}
  <2>1. a \in Seq(S) /\ r \in Seq(S)
    BY <1>5, <1>9
  <2>2. DOMAIN b \subseteq Nat
    BY <1>6
  <2>. HIDE DEF S
  <2>. QED  BY <1>1, <1>5, <1>12, <1>13, <2>1, <2>2, RowsAre
<1>. QED  BY <1>2, <1>14 DEF a, b, r

\* The children of the node that grew are those it had, then the child.
LEMMA GrownRow ==
    ASSUME NEW w, NEW u, NEW p, NEW n, NEW child, Grown(w, u, p, n, child),
           child = [y \in DOMAIN child |-> child[y]], NEW id, id = child[<< >>].id
    PROVE  KidIds(w, p) = Append(KidIds(u, p), id) /\ HeldAre(w, p, n + 1) /\ HeldAre(u, p, n)
<1>. DEFINE a == KidIds(u, p)
            b == KidIds(w, p)
            s == n + 1
<1>1. /\ Fine(u, {}) /\ Fine(w, {}) /\ Good(u) /\ Good(child) /\ p \in DOMAIN u /\ p \in Pos /\ n \in Nat
      /\ s \in 1 .. MaxSlots
      /\ \A i \in 1 .. MaxSlots : Child(p, i) \in DOMAIN u <=> i \in 1 .. n
      /\ \A z \in DOMAIN u : z \in DOMAIN w /\ w[z] = u[z]
      /\ \A y \in DOMAIN child : At(p, s, y) \in DOMAIN w /\ w[At(p, s, y)] = child[y]
  BY DEF Grown, Fine
<1>2. HeldAre(w, p, s)
  BY GrownLast
<1>3. PICK m : HeldAre(u, p, m)
  BY <1>1, HeldIs
<1>4. m = n
  <2>1. m \in Nat /\ m <= MaxSlots /\ n <= MaxSlots /\ MaxSlots \in Nat
        /\ \A i \in 1 .. MaxSlots : Child(p, i) \in DOMAIN u <=> i \in 1 .. m
    BY <1>1, <1>3, MaxSlotsAssumption DEF HeldAre
  <2>2. \A i \in 1 .. MaxSlots : i \in 1 .. m <=> i \in 1 .. n
    BY <1>1, <2>1
  <2>3. m = 0 \/ m \in 1 .. n
    BY <2>1, <2>2
  <2>4. n = 0 \/ n \in 1 .. m
    BY <1>1, <2>1, <2>2
  <2>. QED  BY <1>1, <2>1, <2>3, <2>4
<1>5. a \in Seq(Ids(u)) /\ Len(a) = n /\ \A i \in 1 .. n : a[i] = u[Child(p, i)].id /\ Child(p, i) \in DOMAIN u
  <2>1. KidRow(a, u, p, n)
    BY <1>1, <1>3, <1>4, RowIsOf
  <2>. HIDE DEF a
  <2>. QED  BY <2>1 DEF KidRow
<1>6. p \in DOMAIN w
  BY <1>1
<1>7. /\ b \in Seq(Ids(w)) /\ Len(b) = s /\ DOMAIN b = 1 .. s
      /\ \A i \in 1 .. s : b[i] = w[Child(p, i)].id
  <2>1. KidRow(b, w, p, s)
    BY <1>1, <1>2, <1>6, RowIsOf
  <2>. HIDE DEF b, s
  <2>. QED  BY <2>1 DEF KidRow
<1>. HIDE DEF a, b
<1>8. b[s] = id
  <2>1. At(p, s, << >>) = Child(p, s) /\ << >> \in DOMAIN child
    BY <1>1, AtEmpty DEF Good, Rooted
  <2>2. w[Child(p, s)] = child[<< >>] /\ s \in 1 .. s
    BY <1>1, <2>1
  <2>. QED  BY <1>7, <2>2
<1>9. \A i \in 1 .. n : b[i] = a[i]
  <2>1. \A i \in 1 .. n : i \in 1 .. s
    BY <1>1
  <2>. QED  BY <1>1, <1>5, <1>7, <2>1
<1>10. b = Append(a, id)
  <2>. DEFINE S == Ids(u) \union Ids(w) \union {id}
              c == Append(a, id)
  <2>1. a \in Seq(S) /\ b \in Seq(S) /\ id \in S
    BY <1>5, <1>7
  <2>. HIDE DEF S
  <2>2. c \in Seq(S) /\ Len(c) = s /\ c[s] = id /\ \A i \in 1 .. n : c[i] = a[i]
    BY <1>5, <2>1
  <2>3. \A i \in 1 .. s : i = s \/ i \in 1 .. n
    BY <1>1
  <2>. HIDE DEF c, s
  <2>4. \A i \in 1 .. s : b[i] = c[i]
    BY <1>8, <1>9, <2>2, <2>3
  <2>5. b = c
    BY <1>7, <2>1, <2>2, <2>4
  <2>. QED  BY <2>5 DEF c
<1>. QED  BY <1>2, <1>3, <1>4, <1>10 DEF a, b

-----------------------------------------------------------------------------
\* A drop the helper permits is of a node that hangs from a layout node, to a layout
\* node that is neither it nor below it.
LEMMA PermittedIs ==
    ASSUME NEW t, Fine(t, {}), NEW moved, NEW spot, CanPlace(t, moved, spot) = "None"
    PROVE  /\ LayoutParents(moved, t) # {} /\ spot.parent # moved /\ ~IsAncestor(moved, spot.parent, t)
           /\ spot.parent \in Ids(t) /\ IsLayout(t[Find(spot.parent, t)])
           /\ ~AnchorMissing(Siblings(t, spot.parent), moved, spot.placement)
<1>. DEFINE parent == spot.parent
<1>. HIDE DEF parent
<1>0. Good(t) /\ Unique(t) /\ DOMAIN t \subseteq Pos /\ << >> \in DOMAIN t
  BY FineIsUnique DEF Fine, Good, Rooted
<1>1. /\ StructurallyPresent(moved, t) /\ parent # moved /\ ~IsAncestor(moved, parent, t)
      /\ parent \in Ids(t) /\ IsLayout(t[Find(parent, t)])
      /\ ~AnchorMissing(Siblings(t, parent), moved, spot.placement)
  BY DEF CanPlace, ContainerError, parent
<1>2. t[<< >>].id # moved
  <2>. SUFFICES ASSUME t[<< >>].id = moved
                PROVE  FALSE
    OBVIOUS
  <2>1. Find(moved, t) = << >> /\ moved \in Ids(t)
    BY <1>0, UniqueFind DEF Ids
  <2>2. PICK x \in DOMAIN t : t[x].id = parent
    BY <1>1 DEF Ids
  <2>3. x # << >> /\ x \in Pos
    BY <1>0, <1>1, <2>2
  <2>4. IsPrefix(<< >>, x)
    <3>1. SubSeq(<< >>, 1, 0) = << >> /\ SubSeq(x, 1, 0) = << >> /\ Len(<< >>) = 0
      BY <2>3 DEF Pos
    <3>2. Len(x) \in Nat
      BY <2>3 DEF Pos
    <3>. QED  BY <3>1, <3>2 DEF IsPrefix
  <2>5. IsStrictPrefix(Find(moved, t), x)
    BY <2>1, <2>3, <2>4 DEF IsStrictPrefix
  <2>. QED  BY <1>1, <2>1, <2>2, <2>5 DEF IsAncestor
<1>3. LayoutParents(moved, t) # {}
  BY <1>1, <1>2 DEF StructurallyPresent
<1>. QED  BY <1>1, <1>3 DEF parent

\* What hangs below a node has the node above it.
LEMMA BelowIsAncestor ==
    ASSUME NEW t, NEW moved, moved \in Ids(t), NEW g \in Pos, NEW k \in Nat, Find(moved, t) = Child(g, k),
           NEW o \in DOMAIN t, o \in Pos, BelowSlot(o, g, k), o # Child(g, k)
    PROVE  IsAncestor(moved, t[o].id, t)
<1>1. IsPrefix(Child(g, k), o)
  BY PrefixIsAt DEF BelowSlot
<1>2. IsStrictPrefix(Find(moved, t), o)
  BY <1>1 DEF IsStrictPrefix
<1>. QED  BY <1>2 DEF IsAncestor

\* w holds what t held, with the node moved at the end of the children of p, the
\* node of the parent's id.
Settled(w, t, moved, parent, p, n) ==
    /\ Fine(w, {}) /\ p \in DOMAIN w /\ w[p].id = parent /\ IsLayout(w[p]) /\ HeldAre(w, p, n)
    /\ KidIds(w, p) = Append(Without(Siblings(t, parent), moved), moved)
    /\ Without(Siblings(t, parent), moved) \in Seq(Ids(w))
    /\ Ids(w) = Ids(t)

\* The engine makes the move the helper permits.
LEMMA MoveLands ==
    ASSUME NEW t, Fine(t, {}), Roomy(t), NEW moved, NEW spot, CanPlace(t, moved, spot) = "None",
           NEW parent, parent = spot.parent, NEW r, r = MoveNode(moved, parent, t)
    PROVE  \E w, p, n : r = Ok(w) /\ Settled(w, t, moved, parent, p, n)
<1>. DEFINE v == RemoveNode(moved, t)
            o == Find(parent, t)
            c == Sub(t, Find(moved, t))
<1>0. Good(t) /\ Unique(t) /\ DOMAIN t \subseteq Pos /\ MaxSlots \in Nat
  BY FineIsUnique, MaxSlotsAssumption DEF Fine, Good, Rooted
<1>1. /\ LayoutParents(moved, t) # {} /\ parent # moved /\ ~IsAncestor(moved, parent, t)
      /\ parent \in Ids(t) /\ IsLayout(t[o])
  BY PermittedIs
<1>2. o \in DOMAIN t /\ o \in Pos /\ t[o].id = parent
  BY <1>0, <1>1, FindIs
<1>3. v = Ok(v.tree) /\ moved \in Ids(t) /\ \E g, k, n : Find(moved, t) = Child(g, k) /\ Gapped(v.tree, t, g, k, n)
  <2>1. v = RemoveNode(moved, t)
    OBVIOUS
  <2>. HIDE DEF v
  <2>. QED  BY <1>1, <2>1, RemoveIs
<1>4. r = ThenInsert(parent, c, v)
  <2>. DEFINE m == ThenInsert(parent, c, v)
  <2>1. m = ThenInsert(parent, Sub(t, Find(moved, t)), RemoveNode(moved, t))
    OBVIOUS
  <2>. HIDE DEF m
  <2>2. r = m
    BY <1>1, <1>3, <2>1 DEF MoveNode
  <2>. QED  BY <2>2 DEF m
<1>. DEFINE u == v.tree
<1>5. r = InsertChild(parent, c, u)
  <2>1. v.err = "None"
    <3>. DEFINE z == v.tree
    <3>1. v = Ok(z)
      BY <1>3
    <3>. HIDE DEF z, v
    <3>. QED  BY <3>1 DEF Ok
  <2>. HIDE DEF v, c
  <2>. QED  BY <1>4, <2>1 DEF ThenInsert
<1>6. PICK g, k, n : Find(moved, t) = Child(g, k) /\ Gapped(u, t, g, k, n)
  BY <1>3
<1>. HIDE DEF u, v
<1>7. /\ c = Sub(t, Child(g, k)) /\ t[Child(g, k)].id = moved /\ Child(g, k) \in DOMAIN t
      /\ g \in Pos /\ k \in Nat /\ MaxSlots # 0 /\ Fine(u, {})
  <2>1. Child(g, k) \in DOMAIN t /\ t[Child(g, k)].id = moved
    BY <1>0, <1>3, <1>6, FindIs
  <2>2. g \in Pos /\ n \in Nat /\ k \in 1 .. n /\ n <= MaxSlots /\ Fine(u, {})
    BY <1>6 DEF Gapped
  <2>. QED  BY <1>0, <1>6, <2>1, <2>2
<1>. HIDE DEF o, c
<1>8. ~BelowSlot(o, g, k)
  <2>1. o # Child(g, k)
    BY <1>1, <1>2, <1>7
  <2>. QED  BY <1>1, <1>2, <1>3, <1>6, <1>7, <2>1, BelowIsAncestor
<1>9. PICK x \in DOMAIN u : Shift(x, o, g, k) /\ u[x] = t[o]
  BY <1>2, <1>6, <1>8, GapMap
<1>10. Find(parent, u) = x /\ parent \in Ids(u)
  BY <1>2, <1>7, <1>9, UniqueFind DEF Ids
<1>11. Ids(c) \intersect Ids(u) = {}
  BY <1>6, <1>7, GapLabels
<1>12. Good(c) /\ c[<< >>].id = moved /\ c = [y \in DOMAIN c |-> c[y]]
  <2>1. Good(c)
    BY <1>0, <1>7, SubGood
  <2>2. At(g, k, << >>) = Child(g, k) /\ << >> \in Pos
    <3>1. << >> \in Pos
      BY DEF Pos
    <3>. QED  BY <1>7, <3>1, AtEmpty
  <2>3. c[<< >>] = t[Child(g, k)]
    BY <1>0, <1>7, <2>2, SubAt
  <2>4. c = [y \in DOMAIN c |-> c[y]]
    BY <1>7 DEF Sub
  <2>. QED  BY <1>7, <2>1, <2>3, <2>4
<1>13. r = Ok(WithKids(u, x, Append(Held(u, x), c)))
  <2>. DEFINE p == Find(parent, u)
  <2>1. InsertChild(parent, c, u) =
          IF parent \notin Ids(u) THEN Fail("ParentNotFound", u)
          ELSE IF ~IsLayout(u[p]) THEN Fail("ChildlessKind", u)
          ELSE IF Ids(c) \intersect Ids(u) # {} THEN Fail("DuplicateNodeId", u)
          ELSE Ok(WithKids(u, p, Append(Held(u, p), c)))
    BY DEF InsertChild
  <2>2. p = x
    BY <1>10
  <2>. HIDE DEF p
  <2>. QED  BY <1>1, <1>5, <1>9, <1>10, <1>11, <2>1, <2>2
<1>14. r.err = "None"
  <2>. DEFINE z == WithKids(u, x, Append(Held(u, x), c))
  <2>. HIDE DEF z
  <2>1. r = Ok(z)
    BY <1>13 DEF z
  <2>. QED  BY <2>1 DEF Ok
<1>. DEFINE w == r.tree
<1>15. Fine(w, {})
  BY MoveKeeps
<1>16. Roomy(u)
  BY <1>6, GapRoomy
<1>17. r = Ok(w) /\ \E l : Grown(w, u, x, l, c)
  BY <1>5, <1>7, <1>10, <1>12, <1>14, <1>15, <1>16, InsertGrows
<1>. HIDE DEF w
<1>18. PICK l : Grown(w, u, x, l, c)
  BY <1>17
<1>19. KidIds(w, x) = Append(KidIds(u, x), moved) /\ HeldAre(w, x, l + 1)
  BY <1>12, <1>18, GrownRow
<1>20. KidIds(u, x) = Without(KidIds(t, o), moved)
  BY <1>2, <1>6, <1>7, <1>9, GapRow
<1>21. Siblings(t, parent) = KidIds(t, o)
  BY DEF Siblings, o
<1>22. Ids(w) = Ids(t)
  <2>1. Labels(r.tree) = Labels(t)
    BY <1>14, MovedExactly
  <2>2. Labels(w) = Labels(t)
    BY <2>1 DEF w
  <2>. QED  BY <2>2, LabelsTell
<1>23. x \in DOMAIN w /\ w[x] = t[o]
  BY <1>9, <1>18 DEF Grown
<1>24. KidIds(u, x) \in Seq(Ids(w))
  <2>1. HeldAre(u, x, l)
    BY <1>12, <1>18, GrownRow
  <2>2. KidIds(u, x) \in Seq(Ids(u))
    <3>1. KidRow(KidIds(u, x), u, x, l)
      BY <1>7, <1>9, <2>1, RowIsOf
    <3>. QED  BY <3>1 DEF KidRow
  <2>3. Ids(u) \subseteq Ids(w)
    BY <1>18 DEF Grown, Ids
  <2>. QED  BY <2>2, <2>3
<1>25. Settled(w, t, moved, parent, x, l + 1)
  BY <1>1, <1>2, <1>15, <1>19, <1>20, <1>21, <1>22, <1>23, <1>24 DEF Settled
<1>. QED  BY <1>17, <1>25

-----------------------------------------------------------------------------
\* Of n and one more, the one is at a + 1 and the others keep their order.
Slid(i, a, n) == IF i <= a THEN i ELSE IF i = a + 1 THEN n + 1 ELSE i - 1

\* That is another order.
LEMMA SlidShuffles ==
    ASSUME NEW n \in Nat, NEW a \in 0 .. n
    PROVE  Shuffles([i \in 1 .. n + 1 |-> Slid(i, a, n)], n + 1)
<1>. DEFINE j == [i \in 1 .. n + 1 |-> Slid(i, a, n)]
<1>1. \A i \in 1 .. n + 1 : j[i] = Slid(i, a, n)
  OBVIOUS
<1>. HIDE DEF j
<1>2. \A i \in 1 .. n + 1 : j[i] \in 1 .. n + 1
  BY <1>1 DEF Slid
<1>3. \A i, k \in 1 .. n + 1 : j[i] = j[k] => i = k
  BY <1>1 DEF Slid
<1>4. ASSUME NEW l \in 1 .. n + 1
      PROVE  \E i \in 1 .. n + 1 : j[i] = l
  <2>. DEFINE i == IF l = n + 1 THEN a + 1 ELSE IF l <= a THEN l ELSE l + 1
  <2>1. i \in 1 .. n + 1 /\ Slid(i, a, n) = l
    BY DEF Slid
  <2>. HIDE DEF i
  <2>. QED  BY <1>1, <2>1
<1>5. Shuffles(j, n + 1)
  BY <1>2, <1>3, <1>4 DEF Shuffles
<1>. QED  BY <1>5 DEF j

\* r is the row s of n with x put in after the first a.
PutAfter(r, s, n, a, x) ==
    /\ DOMAIN r = 1 .. n + 1 /\ Len(r) = n + 1 /\ r[a + 1] = x
    /\ \A i \in 1 .. a : r[i] = s[i]
    /\ \A i \in a + 2 .. n + 1 : r[i] = s[i - 1]

\* What InsertAt gives.
LEMMA InsertAtIs ==
    ASSUME NEW S, NEW s \in Seq(S), NEW x \in S, NEW n, n = Len(s), NEW a \in 0 .. n
    PROVE  PutAfter(InsertAt(s, a + 1, x), s, n, a, x) /\ InsertAt(s, a + 1, x) \in Seq(S)
<1>. DEFINE b == SubSeq(s, 1, a)
            c == SubSeq(s, a + 1, n)
            r == (b \o <<x>>) \o c
<1>0. n \in Nat /\ a \in Nat /\ a <= n /\ DOMAIN s = 1 .. n
  OBVIOUS
<1>1. b \in Seq(S) /\ Len(b) = a /\ \A i \in 1 .. a : b[i] = s[i]
  BY <1>0
<1>2. c \in Seq(S) /\ Len(c) = n - a /\ \A i \in 1 .. n - a : c[i] = s[a + i]
  BY <1>0
<1>3. InsertAt(s, a + 1, x) = r
  <2>1. (a + 1) - 1 = a
    BY <1>0
  <2>. QED  BY <2>1 DEF InsertAt
<1>. HIDE DEF b, c
<1>. DEFINE d == b \o <<x>>
<1>4. d \in Seq(S) /\ Len(d) = a + 1 /\ d[a + 1] = x /\ \A i \in 1 .. a : d[i] = b[i]
  BY <1>0, <1>1
<1>. HIDE DEF d
<1>5. r = d \o c
  BY DEF d
<1>. HIDE DEF r
<1>6. r \in Seq(S) /\ Len(r) = n + 1
  <2>0. d \in Seq(S) /\ c \in Seq(S)
    BY <1>2, <1>4
  <2>1. d \o c \in Seq(S)
    BY <2>0
  <2>2. Len(d \o c) = Len(d) + Len(c)
    BY <2>0
  <2>3. (a + 1) + (n - a) = n + 1
    BY <1>0
  <2>4. Len(d) + Len(c) = (a + 1) + (n - a)
    BY <1>2, <1>4
  <2>. QED  BY <1>5, <2>1, <2>2, <2>3, <2>4
<1>7. \A i \in 1 .. a + 1 : r[i] = d[i]
  BY <1>0, <1>2, <1>4, <1>5
<1>8. \A i \in a + 2 .. n + 1 : r[i] = c[i - (a + 1)]
  BY <1>0, <1>2, <1>4, <1>5
<1>9. \A i \in a + 2 .. n + 1 : r[i] = s[i - 1]
  <2>. SUFFICES ASSUME NEW i \in a + 2 .. n + 1
                PROVE  r[i] = s[i - 1]
    OBVIOUS
  <2>1. i - (a + 1) \in 1 .. n - a /\ a + (i - (a + 1)) = i - 1
    BY <1>0
  <2>2. c[i - (a + 1)] = s[a + (i - (a + 1))]
    BY <1>2, <2>1
  <2>. QED  BY <1>8, <2>1, <2>2
<1>10. DOMAIN r = 1 .. n + 1
  BY <1>6
<1>11. \A i \in 1 .. a : r[i] = s[i]
  BY <1>0, <1>1, <1>4, <1>7
<1>12. r[a + 1] = x
  BY <1>0, <1>4, <1>7
<1>13. PutAfter(r, s, n, a, x)
  BY <1>6, <1>9, <1>10, <1>11, <1>12 DEF PutAfter
<1>. QED  BY <1>3, <1>6, <1>13

-----------------------------------------------------------------------------
\* The placement points at an end of the row, or at an id there.
Points(placement, rest) ==
    /\ placement.at \in {"Last", "First", "Before", "After"}
    /\ placement.at \in {"Before", "After"} => placement.anchor \in ToSet(rest)

\* A row of n ids, each once, and one more that is not there.
RowAnd(rest, n, moved, S) ==
    /\ rest \in Seq(S) /\ moved \in S /\ n = Len(rest)
    /\ \A i, k \in 1 .. n : rest[i] = rest[k] => i = k
    /\ \A i \in 1 .. n : rest[i] # moved

\* Without the one more it is the row.
LEMMA WithoutLast ==
    ASSUME NEW S, NEW rest, NEW n, NEW moved, RowAnd(rest, n, moved, S),
           NEW appended, appended = Append(rest, moved)
    PROVE  Without(appended, moved) = rest
<1>. DEFINE s == n + 1
            r == Without(appended, moved)
<1>0. /\ rest \in Seq(S) /\ moved \in S /\ n = Len(rest) /\ n \in Nat /\ DOMAIN rest = 1 .. n
      /\ \A i \in 1 .. n : rest[i] # moved
  BY DEF RowAnd
<1>1. /\ appended \in Seq(S) /\ Len(appended) = s /\ appended[s] = moved
      /\ DOMAIN appended = 1 .. s
      /\ \A i \in 1 .. n : appended[i] = rest[i]
  BY <1>0
<1>2. Once(appended, s, s, moved)
  <2>1. \A i \in 1 .. s : i = s \/ i \in 1 .. n
    BY <1>0
  <2>. QED  BY <1>0, <1>1, <2>1 DEF Once
<1>3. Skipped(r, appended, s, s)
  BY <1>2, WithoutGap
<1>. HIDE DEF r
<1>4. /\ r \in Seq({appended[i] : i \in 1 .. s}) /\ Len(r) = n
      /\ \A i \in 1 .. n : r[i] = appended[Past(i, s)]
  <2>1. s - 1 = n /\ ~(s < s)
    BY <1>0
  <2>. HIDE DEF s
  <2>2. Len(r) = n
    BY <1>3, <2>1 DEF Skipped
  <2>. QED  BY <1>3, <2>2 DEF Skipped
<1>5. \A i \in 1 .. n : Past(i, s) = i
  BY <1>0 DEF Past
<1>6. \A i \in 1 .. n : r[i] = rest[i]
  BY <1>1, <1>4, <1>5
<1>7. r = rest
  BY <1>0, <1>4, <1>6
<1>. QED  BY <1>7 DEF r

\* The row wanted is the row appended with its last moved up, to where the
\* placement says.
Wanted(wanted, appended, n, moved, placement, S) ==
    /\ wanted \in Seq(S) /\ DOMAIN wanted = 1 .. n + 1 /\ Stands(moved, placement, wanted)
    /\ \E a \in 0 .. n : \A i \in 1 .. n + 1 : wanted[i] = appended[Slid(i, a, n)]

\* That is what Reposition gives.
LEMMA RepositionIs ==
    ASSUME NEW S, NEW rest, NEW n, NEW moved, RowAnd(rest, n, moved, S),
           NEW placement, Points(placement, rest), NEW appended, appended = Append(rest, moved),
           NEW wanted, wanted = Reposition(appended, moved, placement)
    PROVE  Wanted(wanted, appended, n, moved, placement, S)
<1>. DEFINE c == PlaceOf(rest, placement.anchor)
            at == CASE placement.at = "Last"   -> n
                    [] placement.at = "First"  -> 0
                    [] placement.at = "Before" -> c - 1
                    [] OTHER                   -> c
<1>0. /\ rest \in Seq(S) /\ moved \in S /\ n = Len(rest) /\ n \in Nat /\ DOMAIN rest = 1 .. n
      /\ \A i, k \in 1 .. n : rest[i] = rest[k] => i = k
      /\ \A i \in 1 .. n : rest[i] # moved
  BY DEF RowAnd
<1>1. /\ appended \in Seq(S) /\ Len(appended) = n + 1 /\ appended[n + 1] = moved
      /\ DOMAIN appended = 1 .. n + 1
      /\ \A i \in 1 .. n : appended[i] = rest[i]
  BY <1>0
<1>2. Without(appended, moved) = rest
  BY WithoutLast
<1>3. wanted = InsertAt(rest, at + 1, moved)
  <2>. DEFINE q == Without(appended, moved)
  <2>1. wanted = InsertAt(q, (CASE placement.at = "Last"   -> Len(q)
                                [] placement.at = "First"  -> 0
                                [] placement.at = "Before" -> PlaceOf(q, placement.anchor) - 1
                                [] OTHER                   -> PlaceOf(q, placement.anchor)) + 1, moved)
    BY DEF Reposition, PlaceOf
  <2>2. q = rest
    BY <1>2
  <2>. HIDE DEF q
  <2>. QED  BY <1>0, <2>1, <2>2
<1>4. placement.at \in {"Before", "After"} => c \in 1 .. n /\ OnlyAt(rest, n, c, placement.anchor)
  <2>. SUFFICES ASSUME placement.at \in {"Before", "After"}
                PROVE  c \in 1 .. n /\ OnlyAt(rest, n, c, placement.anchor)
    OBVIOUS
  <2>1. PICK k \in 1 .. n : rest[k] = placement.anchor
    BY <1>0 DEF Points, ToSet
  <2>2. OnlyAt(rest, n, k, placement.anchor)
    BY <1>0, <2>1 DEF OnlyAt
  <2>3. c = k
    BY <2>2, SelectIs
  <2>. HIDE DEF c
  <2>. QED  BY <2>2, <2>3
<1>. HIDE DEF c
<1>5. at \in 0 .. n
  BY <1>0, <1>4 DEF Points
<1>6. /\ placement.at = "Last" => at = n
      /\ placement.at = "First" => at = 0
      /\ placement.at = "Before" => at = c - 1
      /\ placement.at = "After" => at = c
  OBVIOUS
<1>. HIDE DEF at
<1>7. PutAfter(wanted, rest, n, at, moved) /\ wanted \in Seq(S)
  BY <1>0, <1>3, <1>5, InsertAtIs
<1>8. /\ DOMAIN wanted = 1 .. n + 1 /\ Len(wanted) = n + 1 /\ wanted[at + 1] = moved
      /\ \A i \in 1 .. at : wanted[i] = rest[i]
      /\ \A i \in at + 2 .. n + 1 : wanted[i] = rest[i - 1]
  BY <1>7 DEF PutAfter
<1>9. \A i \in 1 .. n + 1 : i = at + 1 \/ i \in 1 .. at \/ i \in at + 2 .. n + 1
  BY <1>0, <1>5
<1>10. \A i \in 1 .. n + 1 : wanted[i] = appended[Slid(i, at, n)]
  <2>. SUFFICES ASSUME NEW i \in 1 .. n + 1
                PROVE  wanted[i] = appended[Slid(i, at, n)]
    OBVIOUS
  <2>1. CASE i = at + 1
    <3>1. Slid(i, at, n) = n + 1
      BY <1>5, <2>1 DEF Slid
    <3>. QED  BY <1>1, <1>8, <2>1, <3>1
  <2>2. CASE i \in 1 .. at
    <3>1. Slid(i, at, n) = i /\ i \in 1 .. n
      BY <1>0, <1>5, <2>2 DEF Slid
    <3>. QED  BY <1>1, <1>8, <2>2, <3>1
  <2>3. CASE i \in at + 2 .. n + 1
    <3>1. Slid(i, at, n) = i - 1 /\ i - 1 \in 1 .. n
      BY <1>0, <1>5, <2>3 DEF Slid
    <3>. QED  BY <1>1, <1>8, <2>3, <3>1
  <2>. QED  BY <1>9, <2>1, <2>2, <2>3
<1>11. PlaceOf(wanted, moved) = at + 1
  <2>. DEFINE s == n + 1
              b == at + 1
  <2>1. s \in Nat /\ b \in 1 .. s
    BY <1>0, <1>5
  <2>2. ASSUME NEW i \in 1 .. s
        PROVE  wanted[i] = moved <=> i = b
    <3>1. CASE i = at + 1
      BY <1>8, <3>1
    <3>2. CASE i \in 1 .. at
      <4>1. i \in 1 .. n /\ i # b
        BY <1>0, <1>5, <3>2
      <4>. QED  BY <1>0, <1>8, <3>2, <4>1
    <3>3. CASE i \in at + 2 .. n + 1
      <4>1. i - 1 \in 1 .. n /\ i # b
        BY <1>0, <1>5, <3>3
      <4>. QED  BY <1>0, <1>8, <3>3, <4>1
    <3>. QED  BY <1>9, <3>1, <3>2, <3>3
  <2>3. OnlyAt(wanted, s, b, moved)
    BY <1>8, <2>1, <2>2 DEF OnlyAt
  <2>. HIDE DEF s, b
  <2>4. PlaceOf(wanted, moved) = b
    BY <2>3, SelectIs
  <2>. QED  BY <2>4 DEF b
<1>12. placement.at \in {"Before", "After"} =>
         PlaceOf(wanted, placement.anchor) = IF placement.at = "Before" THEN at + 2 ELSE at
  <2>. SUFFICES ASSUME placement.at \in {"Before", "After"}
                PROVE  PlaceOf(wanted, placement.anchor) = IF placement.at = "Before" THEN at + 2 ELSE at
    OBVIOUS
  <2>. DEFINE s == n + 1
              b == IF placement.at = "Before" THEN at + 2 ELSE at
              anchor == placement.anchor
  <2>1. s \in Nat /\ b \in 1 .. s /\ c \in 1 .. n
    BY <1>0, <1>4, <1>6
  <2>2. \A i \in 1 .. n : rest[i] = anchor <=> i = c
    BY <1>4 DEF OnlyAt
  <2>3. moved # anchor
    BY <1>0, <2>1, <2>2
  <2>. HIDE DEF anchor
  <2>4. ASSUME NEW i \in 1 .. s
        PROVE  wanted[i] = anchor <=> i = b
    <3>1. CASE i = at + 1
      <4>1. i # b
        BY <1>5, <3>1
      <4>. QED  BY <1>8, <2>3, <3>1, <4>1
    <3>2. CASE i \in 1 .. at
      <4>1. i \in 1 .. n /\ (i = c <=> i = b)
        BY <1>0, <1>5, <1>6, <2>1, <3>2
      <4>. QED  BY <1>8, <2>2, <3>2, <4>1
    <3>3. CASE i \in at + 2 .. n + 1
      <4>1. i - 1 \in 1 .. n /\ (i - 1 = c <=> i = b)
        BY <1>0, <1>5, <1>6, <2>1, <3>3
      <4>. QED  BY <1>8, <2>2, <3>3, <4>1
    <3>. QED  BY <1>9, <3>1, <3>2, <3>3
  <2>5. OnlyAt(wanted, s, b, anchor)
    BY <1>8, <2>1, <2>4 DEF OnlyAt
  <2>. HIDE DEF s, b
  <2>6. PlaceOf(wanted, anchor) = b
    BY <2>5, SelectIs
  <2>. QED  BY <2>6 DEF b, anchor
<1>13. Stands(moved, placement, wanted)
  <2>1. Stands(moved, placement, wanted) =
          CASE placement.at = "Last"   -> PlaceOf(wanted, moved) = Len(wanted)
            [] placement.at = "First"  -> PlaceOf(wanted, moved) = 1
            [] placement.at = "Before" -> PlaceOf(wanted, moved) + 1 = PlaceOf(wanted, placement.anchor)
            [] placement.at = "After"  -> PlaceOf(wanted, moved) = PlaceOf(wanted, placement.anchor) + 1
    BY DEF Stands, PlaceOf
  <2>2. CASE placement.at = "Last"
    <3>1. PlaceOf(wanted, moved) = Len(wanted)
      BY <1>6, <1>8, <1>11, <2>2
    <3>. QED  BY <2>1, <2>2, <3>1
  <2>3. CASE placement.at = "First"
    <3>1. PlaceOf(wanted, moved) = 1
      BY <1>6, <1>11, <2>3
    <3>. QED  BY <2>1, <2>3, <3>1
  <2>4. CASE placement.at = "Before"
    <3>1. (at + 1) + 1 = at + 2
      BY <1>5
    <3>2. PlaceOf(wanted, moved) + 1 = PlaceOf(wanted, placement.anchor)
      BY <1>11, <1>12, <2>4, <3>1
    <3>. QED  BY <2>1, <2>4, <3>2
  <2>5. CASE placement.at = "After"
    <3>1. PlaceOf(wanted, moved) = PlaceOf(wanted, placement.anchor) + 1
      BY <1>11, <1>12, <2>5
    <3>. QED  BY <2>1, <2>5, <3>1
  <2>. QED  BY <2>2, <2>3, <2>4, <2>5 DEF Points
<1>. QED  BY <1>5, <1>7, <1>8, <1>10, <1>13 DEF Wanted

-----------------------------------------------------------------------------
\* Of a tree that holds each id once only the limits can refuse what an op gives.
LEMMA OnlyLimits ==
    ASSUME NEW t, NEW op, NEW u, ApplyOne(op, t) = Ok(u), Unique(u), NEW r, r = ApplyOp(op, t)
    PROVE  r = Ok(u) \/ r = Fail("LimitExceeded", t)
<1>1. ~InstalledDuplicate(op, u)
  <2>. SUFFICES ASSUME NEW id
                PROVE  ~(Copies(id, u) > 1)
    BY DEF InstalledDuplicate
  <2>. DEFINE A == {x \in DOMAIN u : u[x].id = id}
  <2>1. A = {} \/ \E x : A = {x}
    BY DEF Unique
  <2>. HIDE DEF A
  <2>2. Cardinality(A) \in {0, 1}
    BY <2>1, FS_EmptySet, FS_Singleton
  <2>. QED  BY <2>2 DEF Copies, A
<1>2. Ok(u).err = "None" /\ Ok(u).tree = u
  BY DEF Ok
<1>3. r = Checked(op, t, Ok(u))
  BY DEF ApplyOp
<1>4. Checked(op, t, Ok(u)) \in {Ok(u), Fail("LimitExceeded", t)}
  <2>. DEFINE v == Ok(u)
  <2>. HIDE DEF v
  <2>. QED  BY <1>1, <1>2 DEF Checked, v
<1>. QED  BY <1>3, <1>4

\* A Batch of two is the one and then the other.
LEMMA PairRuns ==
    ASSUME NEW t, NEW a, IsEdit(a), NEW w, ApplyEdit(a, t) = Ok(w),
           NEW b, IsEdit(b), NEW u, ApplyEdit(b, w) = Ok(u)
    PROVE  ApplyOne(BatchOp(<<a, b>>), t) = Ok(u)
<1>. DEFINE s == <<a, b>>
            op == BatchOp(s)
            h == [i \in 0 .. 2 |-> IF i = 0 THEN t ELSE IF i = 1 THEN w ELSE u]
<1>1. Len(s) = 2 /\ DOMAIN s = 1 .. 2 /\ s[1] = a /\ s[2] = b
  OBVIOUS
<1>2. AllEdits(s)
  <2>1. s \in Seq({a, b}) /\ ToSet(s) = {a, b}
    BY <1>1 DEF ToSet
  <2>2. \A i \in 1 .. 2 : i = 1 \/ i = 2
    OBVIOUS
  <2>3. \A i \in DOMAIN s : IsEdit(s[i])
    BY <1>1, <2>2
  <2>. HIDE DEF s
  <2>. QED  BY <2>1, <2>3 DEF AllEdits, InARow
<1>. HIDE DEF s
<1>3. h[0] = t /\ h[1] = w /\ h[2] = u
  OBVIOUS
<1>. HIDE DEF h
<1>4. Ok(w).err = "None" /\ Ok(w).tree = w /\ Ok(u).err = "None" /\ Ok(u).tree = u
  BY DEF Ok
<1>5. \A i \in 1 .. 2 : ApplyEdit(s[i], h[i - 1]).err = "None" /\ h[i] = ApplyEdit(s[i], h[i - 1]).tree
  <2>1. \A i \in 1 .. 2 : (i = 1 /\ i - 1 = 0) \/ (i = 2 /\ i - 1 = 1)
    OBVIOUS
  <2>. QED  BY <1>1, <1>3, <1>4, <2>1
<1>6. Ran(t, s, u)
  BY <1>1, <1>3, <1>5 DEF Ran
<1>7. Batched(t, s) = Ok(u)
  BY <1>2, <1>6, RanBatched
<1>8. op.tag = "Batch" /\ op.ops = s
  BY DEF BatchOp
<1>. HIDE DEF op
<1>9. ApplyOne(op, t) = Batched(t, s)
  BY <1>8 DEF ApplyOne, Batched
<1>. QED  BY <1>7, <1>9 DEF op, s

\* A move emitted, and a reorder, are edits the engine makes as such.
LEMMA MoveReorder ==
    ASSUME NEW t, NEW moved, NEW parent, NEW order
    PROVE  /\ IsEdit(MoveOp(moved, parent)) /\ ApplyEdit(MoveOp(moved, parent), t) = MoveNode(moved, parent, t)
           /\ ApplyOne(MoveOp(moved, parent), t) = MoveNode(moved, parent, t)
           /\ IsEdit(ReorderOp(parent, order))
           /\ ApplyEdit(ReorderOp(parent, order), t) = ReorderChildren(parent, order, t)
<1>. DEFINE a == MoveOp(moved, parent)
            b == ReorderOp(parent, order)
<1>1. a.tag = "MoveNode" /\ a.target = moved /\ a.parent = parent
  BY DEF MoveOp
<1>2. b.tag = "ReorderChildren" /\ b.parent = parent /\ b.order = order
  BY DEF ReorderOp
<1>. HIDE DEF a, b
<1>3. IsEdit(a) /\ IsEdit(b)
  BY <1>1, <1>2 DEF IsEdit
<1>4. ApplyEdit(a, t) = MoveNode(moved, parent, t)
  BY <1>1 DEF ApplyEdit
<1>5. ApplyEdit(b, t) = ReorderChildren(parent, order, t)
  BY <1>2 DEF ApplyEdit
<1>6. ApplyOne(a, t) = ApplyEdit(a, t)
  BY <1>1 DEF ApplyOne
<1>. QED  BY <1>3, <1>4, <1>5, <1>6 DEF a, b

\* A drop the helper permits lands where the placement says.
LEMMA DropLands ==
    ASSUME Fine(tree, {}), Roomy(tree), NEW moved, NEW spot,
           spot.placement.at \in {"Last", "First", "Before", "After"},
           NEW m, m = MovePlaced(tree, moved, spot), m.err = "None"
    PROVE  Landed(moved, spot, ApplyOp(m.op, tree))
<1>. DEFINE parent == spot.parent
            placement == spot.placement
            rest == Without(Siblings(tree, parent), moved)
            appended == Append(rest, moved)
            wanted == Reposition(appended, moved, placement)
            op == Placed(MoveOp(moved, parent), parent, appended, wanted)
            r == MoveNode(moved, parent, tree)
<1>1. CanPlace(tree, moved, spot) = "None" /\ m.op = op
  <2>1. m = IF CanPlace(tree, moved, spot) # "None" THEN Refused(CanPlace(tree, moved, spot)) ELSE Emit(op)
    BY DEF MovePlaced
  <2>2. Refused(CanPlace(tree, moved, spot)).err = CanPlace(tree, moved, spot) /\ Emit(op).op = op
    BY DEF Refused, Emit
  <2>. HIDE DEF op
  <2>. QED  BY <2>1, <2>2
<1>2. ~AnchorMissing(Siblings(tree, parent), moved, placement)
  BY <1>1, PermittedIs
<1>3. Points(placement, rest)
  BY <1>2 DEF Points, AnchorMissing
<1>. HIDE DEF parent
<1>4. \E w, p, l : r = Ok(w) /\ Settled(w, tree, moved, parent, p, l)
  BY <1>1, MoveLands DEF parent
<1>5. PICK w, p, l : r = Ok(w) /\ Settled(w, tree, moved, parent, p, l)
  BY <1>4
<1>. HIDE DEF r, rest
<1>6. /\ Fine(w, {}) /\ p \in DOMAIN w /\ w[p].id = parent /\ IsLayout(w[p]) /\ HeldAre(w, p, l)
      /\ KidIds(w, p) = appended /\ rest \in Seq(Ids(w)) /\ Ids(w) = Ids(tree)
  BY <1>5 DEF Settled, rest
<1>. DEFINE n == Len(rest)
<1>7. /\ DOMAIN appended = 1 .. l /\ Len(appended) = l /\ l \in Nat
      /\ \A i \in 1 .. l : appended[i] = w[Child(p, i)].id
      /\ appended \in Seq(Ids(w))
      /\ \A i, k \in 1 .. l : appended[i] = appended[k] => i = k
  <2>1. KidRow(KidIds(w, p), w, p, l)
    BY <1>6, RowIsOf
  <2>. HIDE DEF appended
  <2>2. KidRow(appended, w, p, l)
    BY <1>6, <2>1
  <2>. QED  BY <2>2 DEF KidRow
<1>8. n \in Nat /\ l = n + 1 /\ appended[n + 1] = moved /\ \A i \in 1 .. n : appended[i] = rest[i]
  <2>. DEFINE S == Ids(w) \union {moved}
  <2>1. rest \in Seq(S) /\ moved \in S
    BY <1>6
  <2>. HIDE DEF S
  <2>2. n \in Nat /\ Len(appended) = n + 1
    BY <2>1
  <2>3. appended[n + 1] = moved
    BY <2>1
  <2>4. \A i \in 1 .. n : appended[i] = rest[i]
    BY <2>1
  <2>5. l = n + 1
    BY <1>7, <2>2
  <2>. QED  BY <2>2, <2>3, <2>4, <2>5
<1>9. moved \in Ids(w)
  <2>1. n + 1 \in 1 .. l
    BY <1>8
  <2>. QED  BY <1>7, <1>8, <2>1
<1>10. /\ \A i, k \in 1 .. n : rest[i] = rest[k] => i = k
       /\ \A i \in 1 .. n : rest[i] # moved
  <2>1. \A i \in 1 .. n : i \in 1 .. l /\ i # n + 1 /\ n + 1 \in 1 .. l
    BY <1>8
  <2>. QED  BY <1>7, <1>8, <2>1
<1>11. /\ wanted \in Seq(Ids(w)) /\ DOMAIN wanted = 1 .. n + 1 /\ Stands(moved, placement, wanted)
       /\ \E a \in 0 .. n : \A i \in 1 .. n + 1 : wanted[i] = appended[Slid(i, a, n)]
  <2>. DEFINE s == appended
              v == wanted
              S == Ids(w)
  <2>1. s = Append(rest, moved) /\ v = Reposition(s, moved, placement)
    OBVIOUS
  <2>2. RowAnd(rest, n, moved, S)
    BY <1>6, <1>9, <1>10 DEF RowAnd
  <2>. HIDE DEF s, v, placement, S, n
  <2>3. Wanted(v, s, n, moved, placement, S)
    BY <1>3, <2>1, <2>2, RepositionIs
  <2>. QED  BY <2>3 DEF Wanted, v, s, S
<1>12. PICK a \in 0 .. n : \A i \in 1 .. l : wanted[i] = appended[Slid(i, a, n)]
  BY <1>8, <1>11
<1>. DEFINE j == [i \in 1 .. l |-> Slid(i, a, n)]
<1>13. Shuffles(j, l)
  BY <1>8, SlidShuffles
<1>14. \A i \in 1 .. l : j[i] = Slid(i, a, n) /\ j[i] \in 1 .. l
  BY <1>13 DEF Shuffles
<1>. HIDE DEF j, n, appended, wanted, placement
<1>15. \A i \in 1 .. l : wanted[i] = w[Child(p, j[i])].id
  BY <1>7, <1>12, <1>14
<1>16. \A u, q, v : ApplyOne(op, tree) = Ok(u) /\ Fine(u, {}) /\ q \in DOMAIN u /\ u[q].id = parent
                    /\ KidIds(u, q) = wanted /\ Ids(u) = Ids(tree) /\ v = ApplyOp(op, tree) => Landed(moved, spot, v)
  <2>. SUFFICES ASSUME NEW u, NEW q, NEW v, ApplyOne(op, tree) = Ok(u), Fine(u, {}), q \in DOMAIN u, u[q].id = parent,
                       KidIds(u, q) = wanted, Ids(u) = Ids(tree), v = ApplyOp(op, tree)
                PROVE  Landed(moved, spot, v)
    OBVIOUS
  <2>. HIDE DEF op
  <2>1. v = Ok(u) \/ v = Fail("LimitExceeded", tree)
    BY FineIsUnique, OnlyLimits
  <2>2. Find(parent, u) = q
    BY UniqueFind
  <2>3. CASE v = Fail("LimitExceeded", tree)
    BY <2>3 DEF Landed, Fail
  <2>4. CASE v = Ok(u)
    <3>1. v.err = "None" /\ v.tree = u
      BY <2>4 DEF Ok
    <3>2. Stands(moved, spot.placement, KidIds(v.tree, Find(spot.parent, v.tree)))
      BY <1>11, <2>2, <3>1 DEF parent, placement
    <3>. QED  BY <3>1, <3>2 DEF Landed
  <2>. QED  BY <2>1, <2>3, <2>4
<1>17. CASE wanted = appended
  <2>1. op = MoveOp(moved, parent)
    BY <1>17 DEF Placed
  <2>2. ApplyOne(op, tree) = Ok(w)
    BY <1>5, <2>1, MoveReorder DEF r
  <2>. HIDE DEF op
  <2>3. Landed(moved, spot, ApplyOp(op, tree))
    BY <1>6, <1>16, <1>17, <2>2
  <2>. QED  BY <1>1, <2>3
<1>18. CASE wanted # appended
  <2>1. op = BatchOp(<<MoveOp(moved, parent), ReorderOp(parent, wanted)>>)
    BY <1>18 DEF Placed
  <2>2. DOMAIN wanted = 1 .. l
    BY <1>8, <1>11
  <2>3. PICK u : ReorderChildren(parent, wanted, w) = Ok(u) /\ Permuted(u, w, p, j, l)
    <3>1. \E u : ReorderChildren(w[p].id, wanted, w) = Ok(u) /\ Permuted(u, w, p, j, l)
      BY <1>6, <1>13, <1>15, <2>2, ReorderIs
    <3>. QED  BY <1>6, <3>1
  <2>4. ApplyOne(op, tree) = Ok(u)
    <3>. DEFINE e == MoveOp(moved, parent)
                f == ReorderOp(parent, wanted)
    <3>1. IsEdit(e) /\ ApplyEdit(e, tree) = Ok(w)
      BY <1>5, MoveReorder DEF r
    <3>2. IsEdit(f) /\ ApplyEdit(f, w) = Ok(u)
      BY <2>3, MoveReorder
    <3>3. op = BatchOp(<<e, f>>)
      BY <2>1
    <3>. HIDE DEF e, f, op
    <3>. QED  BY <3>1, <3>2, <3>3, PairRuns
  <2>5. HeldAre(u, p, l) /\ Ids(u) = Ids(w) /\ \A i \in 1 .. l : u[Child(p, i)] = w[Child(p, j[i])]
    BY <1>6, <1>13, <2>3, PermutedKids
  <2>6. Fine(u, {}) /\ p \in DOMAIN u /\ u[p].id = parent
    BY <1>6, <2>3 DEF Permuted
  <2>7. KidIds(u, p) = wanted
    <3>. DEFINE b == KidIds(u, p)
    <3>1. DOMAIN b = 1 .. l /\ Len(b) = l /\ b \in Seq(Ids(u)) /\ \A i \in 1 .. l : b[i] = u[Child(p, i)].id
      <4>1. KidRow(b, u, p, l)
        BY <2>5, <2>6, RowIsOf
      <4>. HIDE DEF b
      <4>. QED  BY <4>1 DEF KidRow
    <3>. HIDE DEF b
    <3>2. \A i \in 1 .. l : b[i] = wanted[i]
      BY <1>15, <2>5, <3>1
    <3>3. Len(wanted) = l
      <4>1. wanted \in Seq(Ids(w))
        BY <1>11
      <4>. QED  BY <1>7, <2>2, <4>1
    <3>4. b = wanted
      <4>. DEFINE S == Ids(u) \union Ids(w)
      <4>1. b \in Seq(S) /\ wanted \in Seq(S)
        BY <1>11, <3>1
      <4>. HIDE DEF S
      <4>. QED  BY <3>1, <3>2, <3>3, <4>1
    <3>. QED  BY <3>4 DEF b
  <2>. HIDE DEF op
  <2>8. Landed(moved, spot, ApplyOp(op, tree))
    BY <1>6, <1>16, <2>4, <2>5, <2>6, <2>7
  <2>. QED  BY <1>1, <2>8
<1>. QED  BY <1>17, <1>18

-----------------------------------------------------------------------------

\* The order leaves nothing out.
LEMMA OrderReaches ==
    ASSUME NEW S, S \subseteq Pos, IsFiniteSet(S), NEW x \in S
    PROVE  \E i \in 1 .. Cardinality(S) : InOrder(S)[i] = x
<1>. DEFINE rank(z) == Cardinality({y \in S : Before(y, z)})
            i == rank(x) + 1
<1>1. \A z \in S : z # x => rank(z) # rank(x)
  <2>. SUFFICES ASSUME NEW z \in S, z # x
                PROVE  rank(z) # rank(x)
    OBVIOUS
  <2>1. rank(z) \in Nat /\ rank(x) \in Nat
    <3>1. \A a : {y \in S : Before(y, a)} \in SUBSET S
      OBVIOUS
    <3>. QED  BY <3>1, FS_Subset, FS_CardinalityType
  <2>2. Before(z, x) \/ Before(x, z)
    BY BeforeTotal
  <2>3. rank(z) < rank(x) \/ rank(x) < rank(z)
    BY <2>2, RankGrows
  <2>. HIDE DEF rank
  <2>. QED  BY <2>1, <2>3
<1>2. i \in 1 .. Cardinality(S)
  <2>. DEFINE B == {y \in S : Before(y, x)}
  <2>1. B \in SUBSET S /\ B # S
    BY BeforeStrict
  <2>. HIDE DEF B
  <2>2. /\ Cardinality(B) \in Nat /\ Cardinality(S) \in Nat /\ Cardinality(B) <= Cardinality(S)
        /\ Cardinality(B) # Cardinality(S)
    BY <2>1, FS_Subset, FS_CardinalityType
  <2>3. Cardinality(B) + 1 \in 1 .. Cardinality(S)
    BY <2>2
  <2>. QED  BY <2>3 DEF B
<1>3. InOrder(S)[i] = CHOOSE z \in S : rank(z) = i - 1
  <2>. DEFINE k == i
  <2>1. k \in 1 .. Cardinality(S)
    BY <1>2
  <2>. HIDE DEF k
  <2>2. InOrder(S)[k] = CHOOSE z \in S : rank(z) = k - 1
    BY <2>1 DEF InOrder
  <2>. QED  BY <2>2 DEF k
<1>4. rank(x) = i - 1
  <2>1. rank(x) \in Nat
    <3>1. {y \in S : Before(y, x)} \in SUBSET S
      OBVIOUS
    <3>. QED  BY <3>1, FS_Subset, FS_CardinalityType
  <2>. HIDE DEF rank
  <2>. QED  BY <2>1
<1>5. \A z \in S : rank(z) = i - 1 => z = x
  <2>. SUFFICES ASSUME NEW z \in S, rank(z) = i - 1
                PROVE  z = x
    OBVIOUS
  <2>1. rank(z) = rank(x)
    BY <1>4
  <2>. HIDE DEF rank
  <2>. QED  BY <1>1, <2>1
<1>. HIDE DEF rank
<1>6. (CHOOSE z \in S : rank(z) = i - 1) = x
  BY <1>4, <1>5
<1>. QED  BY <1>2, <1>3, <1>6

-----------------------------------------------------------------------------
\* A finite set leaves a number free.
LEMMA DerivedIsFresh ==
    ASSUME NEW taken, IsFiniteSet(taken), NEW old
    PROVE  DerivedId(old, taken) \notin taken
<1>. DEFINE n == Cardinality(taken) + 1
            free(k) == <<old, k>> \notin taken
            T == {k \in 1 .. n : free(k)}
            c == CHOOSE k \in 1 .. n : free(k) /\ \A j \in 1 .. k - 1 : ~free(j)
<1>1. Cardinality(taken) \in Nat /\ n \in Nat
  BY FS_CardinalityType
<1>2. T # {}
  <2>. SUFFICES ASSUME \A k \in 1 .. n : <<old, k>> \in taken
                PROVE  FALSE
    OBVIOUS
  <2>. DEFINE f == [k \in 1 .. n |-> <<old, k>>]
  <2>1. f \in [1 .. n -> taken] /\ \A i, k \in 1 .. n : f[i] = f[k] => i = k
    OBVIOUS
  <2>. HIDE DEF f
  <2>2. f \in Injection(1 .. n, taken)
    BY <2>1 DEF Injection, IsInjective
  <2>3. Cardinality(1 .. n) <= Cardinality(taken)
    BY <2>2, FS_Injection
  <2>4. Cardinality(1 .. n) = n
    BY <1>1, FS_Interval
  <2>. QED  BY <1>1, <2>3, <2>4
<1>3. PICK m \in T : \A j \in T : m <= j
  <2>1. T \subseteq Nat
    OBVIOUS
  <2>. HIDE DEF T
  <2>. QED  BY <1>2, <2>1, LeastIn
<1>. HIDE DEF n
<1>4. \E k \in 1 .. n : free(k) /\ \A j \in 1 .. k - 1 : ~free(j)
  <2>1. m \in 1 .. n /\ free(m)
    OBVIOUS
  <2>2. \A j \in 1 .. m - 1 : j \in 1 .. n /\ j \notin T
    BY <1>1, <1>3, <2>1
  <2>3. \A j \in 1 .. m - 1 : ~free(j)
    BY <2>2
  <2>. HIDE DEF free
  <2>. QED  BY <2>1, <2>3
<1>5. free(c)
  <2>. HIDE DEF free
  <2>. QED  BY <1>4
<1>6. DerivedId(old, taken) = <<old, c>>
  BY DEF DerivedId, n
<1>. HIDE DEF c
<1>. QED  BY <1>5, <1>6

\* What Renaming has of the first i nodes: an id for each id taken, of its own.
Minting(acc, t, n, s, i) ==
    /\ IsFiniteSet(acc.taken) /\ Ids(t) \union Ids(n) \subseteq acc.taken
    /\ DOMAIN acc.new \subseteq Ids(t)
    /\ \A id \in DOMAIN acc.new : acc.new[id] \in acc.taken \ (Ids(t) \union Ids(n))
    /\ \A a, b \in DOMAIN acc.new : acc.new[a] = acc.new[b] => a = b
    /\ \A k \in 1 .. i : n[s[k]].id \in Ids(t) => n[s[k]].id \in DOMAIN acc.new

\* One more has it too.
LEMMA MintIs ==
    ASSUME NEW t, NEW n, NEW s, NEW i \in Nat \ {0}, NEW acc, Minting(acc, t, n, s, i - 1),
           NEW r, r = Mint(acc, n[s[i]].id, t)
    PROVE  Minting(r, t, n, s, i)
<1>. DEFINE old == n[s[i]].id
            fresh == DerivedId(old, acc.taken)
            new == [id \in DOMAIN acc.new \union {old} |-> IF id = old THEN fresh ELSE acc.new[id]]
<1>0. \A k \in 1 .. i : k = i \/ k \in 1 .. i - 1
  OBVIOUS
<1>1. CASE old \notin Ids(t) \/ old \in DOMAIN acc.new
  <2>1. r = acc
    BY <1>1 DEF Mint
  <2>2. \A k \in 1 .. i : n[s[k]].id \in Ids(t) => n[s[k]].id \in DOMAIN acc.new
    BY <1>0, <1>1 DEF Minting
  <2>. QED  BY <2>1, <2>2 DEF Minting
<1>2. CASE old \in Ids(t) /\ old \notin DOMAIN acc.new
  <2>1. r = [new |-> new, taken |-> acc.taken \union {fresh}]
    BY <1>2 DEF Mint
  <2>2. fresh \notin acc.taken
    BY DerivedIsFresh DEF Minting
  <2>. HIDE DEF fresh
  <2>3. DOMAIN new = DOMAIN acc.new \union {old}
    OBVIOUS
  <2>4. new[old] = fresh
    OBVIOUS
  <2>5. \A a \in DOMAIN acc.new : new[a] = acc.new[a]
    BY <1>2
  <2>. HIDE DEF new
  <2>6. r.new = new /\ r.taken = acc.taken \union {fresh}
    BY <2>1
  <2>7. IsFiniteSet(r.taken)
    BY <2>6, FS_AddElement DEF Minting
  <2>8. Ids(t) \union Ids(n) \subseteq r.taken /\ fresh \in r.taken \ (Ids(t) \union Ids(n))
    BY <2>2, <2>6 DEF Minting
  <2>9. DOMAIN r.new \subseteq Ids(t)
    BY <1>2, <2>3, <2>6 DEF Minting
  <2>10. \A id \in DOMAIN r.new : r.new[id] \in r.taken \ (Ids(t) \union Ids(n))
    BY <2>3, <2>4, <2>5, <2>6, <2>8 DEF Minting
  <2>11. \A a, b \in DOMAIN r.new : r.new[a] = r.new[b] => a = b
    <3>1. \A a \in DOMAIN acc.new : new[a] # fresh
      BY <2>2, <2>5 DEF Minting
    <3>2. \A a, b \in DOMAIN acc.new : new[a] = new[b] => a = b
      BY <2>5 DEF Minting
    <3>. QED  BY <2>3, <2>4, <2>6, <3>1, <3>2
  <2>12. \A k \in 1 .. i : n[s[k]].id \in Ids(t) => n[s[k]].id \in DOMAIN r.new
    <3>1. \A k \in 1 .. i - 1 : n[s[k]].id \in Ids(t) => n[s[k]].id \in DOMAIN acc.new
      BY DEF Minting
    <3>. QED  BY <1>0, <2>3, <2>6, <3>1
  <2>. QED  BY <2>7, <2>8, <2>9, <2>10, <2>11, <2>12 DEF Minting
<1>. QED  BY <1>1, <1>2

\* Every id of n that t holds is renamed, to one that neither holds, and no two alike.
Renames(new, t, n) ==
    /\ DOMAIN new \subseteq Ids(t)
    /\ \A x \in DOMAIN n : n[x].id \in Ids(t) => n[x].id \in DOMAIN new
    /\ \A id \in DOMAIN new : new[id] \notin Ids(t) \union Ids(n)
    /\ \A a, b \in DOMAIN new : new[a] = new[b] => a = b

\* So the renaming of a node is.
LEMMA RenamingIs ==
    ASSUME NEW t, Good(t), NEW n, Good(n)
    PROVE  Renames(Renaming(t, n), t, n)
<1>. DEFINE m == Cardinality(DOMAIN n)
            s == InOrder(DOMAIN n)
            y == [node |-> n, tree |-> t]
<1>0. IsFiniteSet(DOMAIN n) /\ DOMAIN n \subseteq Pos /\ IsFiniteSet(DOMAIN t) /\ m \in Nat
  BY FS_CardinalityType DEF Good, Rooted
<1>1. DOMAIN s = 1 .. m
  BY DEF InOrder
<1>2. \A x \in DOMAIN n : \E i \in 1 .. m : s[i] = x
  BY <1>0, OrderReaches
<1>3. y.node = n /\ y.tree = t
  OBVIOUS
<1>. HIDE DEF m, y
<1>4. PICK h : Runs(h, "mint", Unminted(t, n), s, y, m) /\ Renaming(t, n) = h[m].new
  BY <1>0, <1>1, <1>3, MintRuns
<1>. HIDE DEF s
<1>5. h[0] = Unminted(t, n) /\ \A i \in 1 .. m : h[i] = Mint(h[i - 1], n[s[i]].id, t)
  BY <1>3, <1>4 DEF Runs, Step
<1>6. Minting(h[0], t, n, s, 0)
  <2>1. h[0].new = << >> /\ h[0].taken = Ids(t) \union Ids(n) /\ DOMAIN << >> = {}
    BY <1>5 DEF Unminted
  <2>2. \A v : IsFiniteSet(DOMAIN v) => IsFiniteSet(Ids(v))
    <3>. SUFFICES ASSUME NEW v, IsFiniteSet(DOMAIN v)
                  PROVE  IsFiniteSet(Ids(v))
      OBVIOUS
    <3>. DEFINE f == [x \in DOMAIN v |-> v[x].id]
    <3>1. f \in Surjection(DOMAIN v, Ids(v))
      BY DEF Surjection, Ids
    <3>. HIDE DEF f
    <3>. QED  BY <3>1, FS_Surjection
  <2>3. IsFiniteSet(Ids(t) \union Ids(n))
    BY <1>0, <2>2, FS_Union
  <2>. QED  BY <2>1, <2>3 DEF Minting
<1>. DEFINE T == {i \in Nat : i <= m /\ ~Minting(h[i], t, n, s, i)}
<1>7. ASSUME T # {}
      PROVE  FALSE
  <2>1. PICK i \in T : \A k \in T : i <= k
    <3>1. T \subseteq Nat
      OBVIOUS
    <3>. HIDE DEF T
    <3>. QED  BY <1>7, <3>1, LeastIn
  <2>2. i # 0
    BY <1>6, <2>1
  <2>3. i \in Nat \ {0} /\ i \in 1 .. m /\ i - 1 \in Nat /\ i - 1 <= m /\ i - 1 \notin T
    BY <1>0, <2>1, <2>2
  <2>4. Minting(h[i - 1], t, n, s, i - 1) /\ ~Minting(h[i], t, n, s, i)
    BY <2>1, <2>3
  <2>. HIDE DEF T
  <2>5. h[i] = Mint(h[i - 1], n[s[i]].id, t)
    BY <1>5, <2>3
  <2>. QED  BY <2>3, <2>4, <2>5, MintIs
<1>8. Minting(h[m], t, n, s, m)
  BY <1>0, <1>7
<1>. HIDE DEF T
<1>9. \A x \in DOMAIN n : n[x].id \in Ids(t) => n[x].id \in DOMAIN h[m].new
  BY <1>2, <1>8 DEF Minting
<1>10. Renames(h[m].new, t, n)
  BY <1>8, <1>9 DEF Minting, Renames
<1>. QED  BY <1>4, <1>10

-----------------------------------------------------------------------------
\* What is renamed is a tree of its own, none of whose ids t holds, and keeps the
\* ids t does not hold.
LEMMA RemapIs ==
    ASSUME NEW t, Good(t), NEW n, Fine(n, {}), NEW c, c = RemapForInsert(t, n)
    PROVE  /\ Fine(c, {}) /\ DOMAIN c = DOMAIN n /\ Ids(c) \intersect Ids(t) = {}
           /\ Ids(n) \ Ids(t) \subseteq Ids(c) /\ Size(c) = Size(n)
<1>. DEFINE new == Renaming(t, n)
<1>1. Renames(new, t, n)
  BY RenamingIs DEF Fine
<1>2. c = RemapIds(n, new) /\ Good(c)
  BY RemapGood DEF RemapForInsert, Fine
<1>. HIDE DEF new
<1>3. DOMAIN c = DOMAIN n
  BY <1>2 DEF RemapIds
<1>4. ASSUME NEW x \in DOMAIN n
      PROVE  c[x].id = IF n[x].id \in DOMAIN new THEN new[n[x].id] ELSE n[x].id
  <2>1. "id" \in DOMAIN n[x]
    BY DEF Fine, Good, GoodAt, LabelOk, Label
  <2>2. c[x] = IF n[x].id \in DOMAIN new THEN [n[x] EXCEPT !.id = new[@]] ELSE n[x]
    BY <1>2 DEF RemapIds
  <2>. QED  BY <2>1, <2>2
<1>5. Unique(n)
  BY FineIsUnique
<1>6. \A x \in DOMAIN n : n[x].id \in Ids(n)
  BY DEF Ids
<1>7. \A x \in DOMAIN n : c[x].id \notin Ids(t)
  BY <1>1, <1>4 DEF Renames
<1>8. Unique(c)
  <2>. SUFFICES ASSUME NEW x \in DOMAIN n, NEW y \in DOMAIN n, c[x].id = c[y].id
                PROVE  n[x].id = n[y].id
    BY <1>3, <1>5 DEF Unique
  <2>1. CASE n[x].id \in DOMAIN new /\ n[y].id \in DOMAIN new
    BY <1>1, <1>4, <2>1 DEF Renames
  <2>2. CASE n[x].id \in DOMAIN new /\ n[y].id \notin DOMAIN new
    BY <1>1, <1>4, <1>6, <2>2 DEF Renames
  <2>3. CASE n[x].id \notin DOMAIN new /\ n[y].id \in DOMAIN new
    BY <1>1, <1>4, <1>6, <2>3 DEF Renames
  <2>4. CASE n[x].id \notin DOMAIN new /\ n[y].id \notin DOMAIN new
    BY <1>4, <2>4
  <2>. QED  BY <2>1, <2>2, <2>3, <2>4
<1>9. Fine(c, {})
  BY <1>2, <1>8, FineIsUnique
<1>10. Ids(c) \intersect Ids(t) = {}
  BY <1>3, <1>7 DEF Ids
<1>11. Ids(n) \ Ids(t) \subseteq Ids(c)
  <2>. SUFFICES ASSUME NEW x \in DOMAIN n, n[x].id \notin Ids(t)
                PROVE  n[x].id \in Ids(c)
    BY DEF Ids
  <2>1. c[x].id = n[x].id
    BY <1>1, <1>4 DEF Renames
  <2>. QED  BY <1>3, <2>1 DEF Ids
<1>12. Size(c) = Size(n)
  <2>1. ASSUME NEW x \in DOMAIN n
        PROVE  Down(c[x]) = Down(n[x])
    <3>1. "sealed" \in DOMAIN n[x]
      BY DEF Fine, Good, GoodAt, LabelOk, Label
    <3>2. c[x] = IF n[x].id \in DOMAIN new THEN [n[x] EXCEPT !.id = new[@]] ELSE n[x]
      BY <1>2 DEF RemapIds
    <3>3. c[x].sealed = n[x].sealed
      BY <3>1, <3>2
    <3>. QED  BY <3>3 DEF Down
  <2>. QED  BY <1>3, <2>1 DEF Size, Nodes
<1>. QED  BY <1>3, <1>9, <1>10, <1>11, <1>12

\* The sub-node at a position holds each id once, as the tree does.
LEMMA SubIsFine ==
    ASSUME NEW t, Fine(t, {}), NEW f \in DOMAIN t
    PROVE  Fine(Sub(t, f), {})
<1>. DEFINE c == Sub(t, f)
<1>0. Good(t) /\ Unique(t) /\ DOMAIN t \subseteq Pos /\ Good(c)
  BY FineIsUnique, SubOf DEF Fine, Good, Rooted
<1>1. Unique(c)
  <2>1. CASE f = << >>
    <3>1. DOMAIN c = DOMAIN t /\ \A x \in DOMAIN t : c[x] = t[x]
      BY <1>0, <2>1, SubRoot
    <3>. HIDE DEF c
    <3>. QED  BY <1>0, <3>1 DEF Unique
  <2>2. CASE f # << >>
    <3>. DEFINE g == Front(f)
                k == Last(f)
    <3>1. g \in Pos /\ k \in Nat /\ f = Child(g, k)
      BY <1>0, <2>2, LastOf
    <3>. HIDE DEF g, k
    <3>2. \A y \in DOMAIN c : y \in Pos /\ At(g, k, y) \in DOMAIN t /\ c[y] = t[At(g, k, y)]
      BY <1>0, <3>1, SubHas
    <3>. HIDE DEF c
    <3>3. ASSUME NEW x \in DOMAIN c, NEW y \in DOMAIN c, c[x].id = c[y].id
          PROVE  x = y
      <4>1. At(g, k, x) = At(g, k, y)
        BY <1>0, <3>2, <3>3 DEF Unique
      <4>. QED  BY <3>1, <3>2, <4>1, AtInjective
    <3>. QED  BY <3>3 DEF Unique
  <2>. QED  BY <2>1, <2>2
<1>. QED  BY <1>0, <1>1, FineIsUnique


\* A node whose ids the tree does not hold goes in at the end of a layout node's
\* children, all of it, or not for the limits.
LEMMA ChildGoesIn ==
    ASSUME NEW t, Fine(t, {}), Roomy(t), NEW parent \in Ids(t), IsLayout(t[Find(parent, t)]),
           NEW c, Fine(c, {}), Ids(c) \intersect Ids(t) = {},
           NEW r, r = ApplyOp(InsertOp(parent, c), t)
    PROVE  \/ r = Fail("LimitExceeded", t)
           \/ \E u : r = Ok(u) /\ Ids(u) = Ids(t) \union Ids(c) /\ Size(u) = Size(t) + Size(c)
<1>. DEFINE op == InsertOp(parent, c)
            v == InsertChild(parent, c, t)
            u == v.tree
<1>1. op.tag = "InsertChild" /\ op.parent = parent /\ op.child = c
  BY DEF InsertOp
<1>. HIDE DEF op
<1>2. ApplyOne(op, t) = v
  BY <1>1 DEF ApplyOne, ApplyEdit
<1>3. \E w : v = Ok(w)
  BY DEF InsertChild
<1>4. Fine(u, {})
  BY InsertKeeps
<1>. HIDE DEF v
<1>5. v = Ok(u) /\ v.err = "None"
  BY <1>3 DEF Ok
<1>6. \E p, n : Grown(u, t, p, n, c)
  <2>1. v = InsertChild(parent, c, t) /\ MaxSlots # 0 /\ Good(c)
    BY MaxSlotsAssumption DEF v, Fine
  <2>2. \E n : Grown(u, t, Find(parent, t), n, c)
    BY <1>4, <1>5, <2>1, InsertGrows
  <2>. QED  BY <2>2
<1>. HIDE DEF u
<1>7. Labels(u) = Labels(t) \union Labels(c) /\ Ids(u) = Ids(t) \union Ids(c)
  <2>1. Labels(u) = Labels(t) \union Labels(c)
    BY <1>6, GrownLabels
  <2>2. \A w : Ids(w) = {l.id : l \in Labels(w)}
    BY DEF Ids, Labels
  <2>. QED  BY <2>1, <2>2
<1>8. Size(u) = Size(t) + Size(c)
  <2>. DEFINE A == Marks(Labels(t))
              B == Marks(Labels(c))
  <2>1. /\ IsFiniteSet(A) /\ IsFiniteSet(B) /\ Size(t) \in Nat /\ Size(c) \in Nat
        /\ Size(t) = Cardinality(A) /\ Size(c) = Cardinality(B)
        /\ \A m \in A : m[1] \in Ids(t)
        /\ \A m \in B : m[1] \in Ids(c)
    BY SizeIs
  <2>2. Size(u) = Cardinality(Marks(Labels(t) \union Labels(c)))
    BY <1>4, <1>7, SizeIs
  <2>3. Marks(Labels(t) \union Labels(c)) = A \union B
    BY DEF Marks
  <2>. HIDE DEF A, B
  <2>4. A \intersect B = {} /\ Cardinality({}) = 0
    BY <2>1, FS_EmptySet
  <2>5. Cardinality(A \union B) = Cardinality(A) + Cardinality(B) - Cardinality(A \intersect B)
    BY <2>1, FS_Union
  <2>6. Cardinality(A \union B) = Size(t) + Size(c) - 0
    BY <2>1, <2>4, <2>5
  <2>7. Size(u) = Cardinality(A \union B)
    BY <2>2, <2>3
  <2>. QED  BY <2>1, <2>6, <2>7
<1>9. r = Ok(u) \/ r = Fail("LimitExceeded", t)
  <2>1. ApplyOne(op, t) = Ok(u) /\ Unique(u) /\ r = ApplyOp(op, t)
    BY <1>2, <1>4, <1>5, FineIsUnique DEF op
  <2>. QED  BY <2>1, OnlyLimits
<1>. QED  BY <1>7, <1>8, <1>9

\* At the end of the children there is no reorder.
LEMMA LastIsAppended ==
    ASSUME NEW t, Fine(t, {}), NEW parent \in Ids(t), IsLayout(t[Find(parent, t)]), NEW c,
           Ids(c) \intersect Ids(t) = {}, c[<< >>].id \in Ids(c),
           NEW spot, spot = [parent |-> parent, placement |-> [at |-> "Last"]], NEW m, m = PlaceChild(t, c, spot)
    PROVE  m = Emit(InsertOp(parent, c))
<1>. DEFINE p == Find(parent, t)
            id == c[<< >>].id
            rest == Siblings(t, parent)
            appended == Append(rest, id)
            placement == [at |-> "Last"]
            wanted == Reposition(appended, id, placement)
            S == Ids(t) \union {id}
            n == Len(rest)
<1>0. Good(t) /\ p \in DOMAIN t /\ id \notin Ids(t)
  BY FindIs DEF Fine
<1>1. spot.parent = parent /\ spot.placement = placement /\ placement.at = "Last"
  OBVIOUS
<1>2. PICK l : HeldAre(t, p, l)
  BY <1>0, HeldIs
<1>3. rest = KidIds(t, p)
  BY DEF Siblings
<1>. HIDE DEF p, rest, id, placement
<1>4. /\ DOMAIN rest = 1 .. l /\ Len(rest) = l /\ l \in Nat /\ rest \in Seq(Ids(t))
      /\ \A i, k \in 1 .. l : rest[i] = rest[k] => i = k
  <2>1. KidRow(rest, t, p, l)
    BY <1>0, <1>2, <1>3, RowIsOf
  <2>. QED  BY <2>1 DEF KidRow
<1>5. RowAnd(rest, n, id, S)
  <2>1. \A i \in 1 .. l : rest[i] # id
    BY <1>0, <1>4
  <2>2. rest \in Seq(S) /\ id \in S
    BY <1>4
  <2>. HIDE DEF S
  <2>. QED  BY <1>4, <2>1, <2>2 DEF RowAnd
<1>6. rest \in Seq(S) /\ id \in S /\ n \in Nat /\ n = Len(rest)
  BY <1>5 DEF RowAnd
<1>. HIDE DEF S, n
<1>7. wanted = InsertAt(rest, n + 1, id)
  <2>. DEFINE q == Without(appended, id)
  <2>1. q = rest
    BY <1>5, WithoutLast
  <2>2. wanted = InsertAt(q, Len(q) + 1, id)
    BY <1>1 DEF Reposition
  <2>. HIDE DEF q, wanted
  <2>. QED  BY <1>6, <2>1, <2>2
<1>8. wanted = appended
  <2>. DEFINE v == wanted
              a == appended
  <2>1. PutAfter(v, rest, n, n, id) /\ v \in Seq(S)
    <3>1. v = InsertAt(rest, n + 1, id) /\ n \in 0 .. n
      BY <1>6, <1>7
    <3>. HIDE DEF v
    <3>. QED  BY <1>6, <3>1, InsertAtIs
  <2>. HIDE DEF v
  <2>2. Len(v) = n + 1 /\ v[n + 1] = id /\ \A i \in 1 .. n : v[i] = rest[i]
    BY <2>1 DEF PutAfter
  <2>3. a \in Seq(S) /\ Len(a) = n + 1 /\ a[n + 1] = id /\ \A i \in 1 .. n : a[i] = rest[i]
    BY <1>6
  <2>. HIDE DEF a
  <2>4. \A i \in 1 .. n + 1 : i = n + 1 \/ i \in 1 .. n
    BY <1>6
  <2>5. \A i \in 1 .. n + 1 : v[i] = a[i]
    BY <2>2, <2>3, <2>4
  <2>6. v = a
    BY <2>1, <2>2, <2>3, <2>5
  <2>. QED  BY <2>6 DEF v, a
<1>9. ContainerError(t, parent) = "None"
  BY DEF ContainerError
<1>10. ~AnchorMissing(appended, id, placement)
  BY <1>1 DEF AnchorMissing
<1>11. m = Emit(Placed(InsertOp(parent, c), parent, appended, wanted))
  <2>1. m = LET app == Append(Siblings(t, spot.parent), c[<< >>].id)
            IN  IF ContainerError(t, spot.parent) # "None" THEN Refused(ContainerError(t, spot.parent))
                ELSE IF Ids(c) \intersect Ids(t) # {} THEN Refused("DuplicateId")
                ELSE IF AnchorMissing(app, c[<< >>].id, spot.placement) THEN Refused("UnknownAnchor")
                ELSE Emit(Placed(InsertOp(spot.parent, c), spot.parent, app,
                                 Reposition(app, c[<< >>].id, spot.placement)))
    BY DEF PlaceChild
  <2>2. c[<< >>].id = id /\ Siblings(t, spot.parent) = rest
    BY <1>1 DEF id, rest
  <2>. QED  BY <1>1, <1>9, <1>10, <2>1, <2>2
<1>. HIDE DEF wanted, appended
<1>12. Placed(InsertOp(parent, c), parent, appended, wanted) = InsertOp(parent, c)
  BY <1>8 DEF Placed
<1>. QED  BY <1>11, <1>12

\* What is pasted goes in whole, under ids of its own.
LEMMA PasteAdds ==
    ASSUME Fine(tree, {}), Roomy(tree), NEW p \in Layouts, NEW n, Fine(n, {}),
           NEW m, m = Paste(tree, n, [parent |-> p, placement |-> [at |-> "Last"]])
    PROVE  FreshlyIn(n, m)
<1>. DEFINE c == RemapForInsert(tree, n)
            r == ApplyOp(m.op, tree)
<1>1. /\ Fine(c, {}) /\ DOMAIN c = DOMAIN n /\ Ids(c) \intersect Ids(tree) = {}
      /\ Ids(n) \ Ids(tree) \subseteq Ids(c) /\ Size(c) = Size(n)
  BY RemapIs DEF Fine
<1>2. p \in Ids(tree) /\ IsLayout(tree[Find(p, tree)])
  BY DEF Layouts
<1>3. m = PlaceChild(tree, c, [parent |-> p, placement |-> [at |-> "Last"]])
  BY DEF Paste
<1>. HIDE DEF c
<1>4. c[<< >>].id \in Ids(c)
  BY <1>1 DEF Fine, Good, Rooted, Ids
<1>5. m = Emit(InsertOp(p, c))
  BY <1>1, <1>2, <1>3, <1>4, LastIsAppended
<1>6. m.err = "None" /\ m.op = InsertOp(p, c)
  BY <1>5 DEF Emit
<1>7. \/ r = Fail("LimitExceeded", tree)
      \/ \E u : r = Ok(u) /\ Ids(u) = Ids(tree) \union Ids(c) /\ Size(u) = Size(tree) + Size(c)
  <2>1. r = ApplyOp(InsertOp(p, c), tree)
    BY <1>6
  <2>. HIDE DEF r
  <2>. QED  BY <1>1, <1>2, <2>1, ChildGoesIn
<1>. HIDE DEF r
<1>9. AddsAll(n, r)
  <2>1. CASE r = Fail("LimitExceeded", tree)
    BY <2>1 DEF AddsAll, Fail
  <2>2. ASSUME NEW u, r = Ok(u), Ids(u) = Ids(tree) \union Ids(c), Size(u) = Size(tree) + Size(c)
        PROVE  AddsAll(n, r)
    <3>1. r.err = "None" /\ r.tree = u
      BY <2>2 DEF Ok
    <3>. QED  BY <1>1, <2>2, <3>1 DEF AddsAll
  <2>. QED  BY <1>7, <2>1, <2>2
<1>. QED  BY <1>6, <1>9 DEF FreshlyIn, r

\* Of any session.
LEMMA GesturesHold ==
    ASSUME IInv
    PROVE  GesturesLand
<1>0. Good(tree)
  BY DEF IInv
<1>1. DropsLand
  <2>. SUFFICES ASSUME Unique(tree), Roomy(tree), NEW t \in Targets, NEW spot \in Spots,
                       NEW m, m = MovePlaced(tree, t, spot)
                PROVE  PermittedLands(t, spot, m)
    BY DEF DropsLand
  <2>1. spot.placement.at \in {"Last", "First", "Before", "After"}
    BY DEF Spots, Places
  <2>2. m.err = "None" => Landed(t, spot, ApplyOp(m.op, tree))
    BY <1>0, <2>1, FineIsUnique, DropLands
  <2>. QED  BY <2>2 DEF PermittedLands
<1>2. NoFalseRefuse
  BY RefusedMoves DEF NoFalseRefuse
<1>3. NudgeUndoes
  <2>. SUFFICES ASSUME Unique(tree), NEW t \in Targets, Nudge(tree, t, 1).err = "None",
                       NEW after, after = ApplyOp(Nudge(tree, t, 1).op, tree).tree,
                       NEW back, back = Nudge(after, t, -1)
                PROVE  NudgedBack(back, ApplyOp(back.op, after))
    BY DEF NudgeUndoes
  <2>. QED  BY <1>0, FineIsUnique, NudgesUndo
<1>4. ClonesAreFresh
  <2>. SUFFICES ASSUME Unique(tree), Roomy(tree), NEW p \in Layouts,
                       NEW n \in {n \in Fresh : Unique(n)} \union {Sub(tree, x) : x \in DOMAIN tree},
                       NEW m, m = Paste(tree, n, [parent |-> p, placement |-> [at |-> "Last"]])
                PROVE  FreshlyIn(n, m)
    BY DEF ClonesAreFresh
  <2>1. Fine(tree, {})
    BY <1>0, FineIsUnique
  <2>2. Fine(n, {})
    <3>1. ASSUME n \in Fresh, Unique(n)
          PROVE  Fine(n, {})
      BY <3>1, AlphabetAssumption, NodeIsGood, FineIsUnique
    <3>2. ASSUME NEW x \in DOMAIN tree, n = Sub(tree, x)
          PROVE  Fine(n, {})
      BY <2>1, <3>2, SubIsFine
    <3>. QED  BY <3>1, <3>2
  <2>. QED  BY <2>1, <2>2, PasteAdds
<1>. QED  BY <1>1, <1>2, <1>3, <1>4 DEF GesturesLand

\* What a person does by hand lands where it points, is refused for a reason, and
\* can be taken back, and what is pasted has ids of its own wherever an op can
\* address them, and is the node otherwise: for trees, nodes and sessions of any size.
THEOREM GesturesStayTrue == Spec => []GesturesLand
<1>1. IInv => GesturesLand
  BY GesturesHold
<1>. QED  BY <1>1, SessionKeeps, PTL
=============================================================================
