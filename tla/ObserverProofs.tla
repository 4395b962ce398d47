--------------------------- MODULE ObserverProofs ---------------------------
(***************************************************************************)
(* Proofs about the observers: no notification leaves a handler out but in *)
(* place of one that unsubscribed meanwhile, and nobody is left with stale *)
(* flags, for any page, fixtures, handlers and nesting.                    *)
(***************************************************************************)
EXTENDS EitherObserver, FiniteSetTheorems, WellFoundedInduction, TLAPS

(***************************************************************************)
(* Whom a loop owes a call stands further on in the list than the loop, or *)
(* is late: it was moved back past the loop's place.  An entry that goes   *)
(* at or before that place moves one back, so there are no more late than  *)
(* such entries were lost.                                                 *)
(***************************************************************************)
\* Of a notification only how far its loop is, and whom it owes, matters here.
LoopsIn(N, F, R) == [node : N, flags : F, next : Nat \ {0}, busy : BOOLEAN,
                     owed : SUBSET Handlers, lost : Nat, rest : R]
Awaits(h, c, list) == \E j \in DOMAIN list :
                         list[j] = h /\ j >= c.next /\ (c.busy => j > c.next)
Late(c, list) == {h \in c.owed : ~Awaits(h, c, list)}
InOrder(c, list) == IsFiniteSet(c.owed) /\ Cardinality(Late(c, list)) <= c.lost
Owing == /\ subs \in Seq(Handlers)
         /\ \E N, F, R : calls \in Seq(LoopsIn(N, F, R))
         /\ \A i \in DOMAIN calls : InOrder(calls[i], subs) /\ (i # 1 => calls[i].busy)

\* A loop is in order whose late are among those of one that is.
LEMMA FewerLate ==
    ASSUME NEW c, NEW d, NEW list, NEW list1, InOrder(c, list), d.owed \subseteq c.owed,
           Late(d, list1) \subseteq Late(c, list), c.lost \in Nat, d.lost \in Nat, c.lost <= d.lost
    PROVE  InOrder(d, list1)
<1>1. IsFiniteSet(c.owed) /\ IsFiniteSet(d.owed) /\ IsFiniteSet(Late(c, list))
  BY FS_Subset DEF InOrder, Late
<1>2. /\ Cardinality(Late(d, list1)) \in Nat /\ Cardinality(Late(c, list)) \in Nat
      /\ Cardinality(Late(d, list1)) <= Cardinality(Late(c, list))
  BY <1>1, FS_Subset, FS_CardinalityType
<1>3. Cardinality(Late(d, list1)) <= d.lost
  <2>1. Cardinality(Late(c, list)) <= c.lost
    BY DEF InOrder
  <2>. QED  BY <1>2, <2>1
<1>. QED  BY <1>1, <1>3 DEF InOrder

\* At its end a loop is late with all it owes.
LEMMA OwingEmits == ASSUME Owing PROVE EmitsToEvery
<1>. SUFFICES ASSUME AllTold PROVE Cardinality(calls[1].owed) <= calls[1].lost
  BY DEF EmitsToEvery
<1>1. PICK N, F, R : calls \in Seq(LoopsIn(N, F, R))
  BY DEF Owing
<1>2. 1 \in DOMAIN calls /\ calls[1] \in LoopsIn(N, F, R)
  BY <1>1 DEF AllTold, HostTurn
<1>3. calls[1].next \in Nat /\ calls[1].next > Len(subs) /\ InOrder(calls[1], subs)
  BY <1>2 DEF Owing, AllTold, LoopsIn
<1>4. Late(calls[1], subs) = calls[1].owed
  BY <1>3 DEF Late, Awaits, Owing
<1>. QED  BY <1>3, <1>4 DEF InOrder

\* What is to be shown of a step.
LEMMA OwingNext ==
    ASSUME subs' \in Seq(Handlers), NEW N, NEW F, NEW R, calls' \in Seq(LoopsIn(N, F, R)),
           \A i \in DOMAIN calls' : InOrder(calls'[i], subs') /\ (i # 1 => calls'[i].busy)
    PROVE  Owing'
<1>1. (\A i \in DOMAIN calls : InOrder(calls[i], subs) /\ (i # 1 => calls[i].busy))'
  BY DEF InOrder, Late, Awaits
<1>2. (\E N1, F1, R1 : calls \in Seq(LoopsIn(N1, F1, R1)))'
  BY DEF LoopsIn
<1>. QED  BY <1>1, <1>2 DEF Owing

\* A step of the innermost loop.
LEMMA LibraryOwes == ASSUME Owing, Library PROVE Owing'
<1>1. PICK N, F, R : calls \in Seq(LoopsIn(N, F, R))
  BY DEF Owing
<1>2. calls # << >>
  BY DEF Library, Deliver, HostTurn, Return, Raise
<1>3. 1 \in DOMAIN calls /\ calls[1] \in LoopsIn(N, F, R)
  BY <1>1, <1>2
<1>4. subs' = subs
  BY DEF Library, Deliver, Return, Raise
<1>5. PICK c \in LoopsIn(N, F, R) : calls' = [calls EXCEPT ![1] = c] /\ InOrder(c, subs)
  <2>0. InOrder(calls[1], subs) /\ calls[1].next \in Nat \ {0} /\ calls[1].lost \in Nat
    BY <1>3 DEF Owing, LoopsIn
  <2>1. CASE Deliver
    <3>. DEFINE c == [calls[1] EXCEPT !.busy = TRUE, !.owed = @ \ {subs[calls[1].next]}]
    <3>1. calls' = [calls EXCEPT ![1] = c] /\ ~calls[1].busy
      BY <1>1, <1>3, <2>1 DEF Deliver, HostTurn
    <3>2. /\ c \in LoopsIn(N, F, R) /\ c.next = calls[1].next /\ c.lost = calls[1].lost /\ c.busy
          /\ c.owed = calls[1].owed \ {subs[c.next]}
      BY <1>3 DEF LoopsIn
    <3>. HIDE DEF c
    <3>3. Late(c, subs) \subseteq Late(calls[1], subs)
      <4>. SUFFICES ASSUME NEW h \in c.owed, Awaits(h, calls[1], subs) PROVE Awaits(h, c, subs)
        BY <3>2 DEF Late
      <4>1. PICK j \in DOMAIN subs : subs[j] = h /\ j >= calls[1].next
        BY DEF Awaits
      <4>2. j # c.next /\ j \in Nat
        BY <3>2, <4>1 DEF Owing
      <4>. QED  BY <2>0, <3>2, <4>1, <4>2 DEF Awaits
    <3>4. InOrder(c, subs)
      BY <2>0, <3>2, <3>3, FewerLate
    <3>. QED  BY <3>1, <3>2, <3>4
  <2>2. CASE Return \/ Raise
    <3>. DEFINE c == [calls[1] EXCEPT !.busy = FALSE, !.next = @ + 1]
    <3>1. calls' = [calls EXCEPT ![1] = c] /\ calls[1].busy
      BY <1>1, <1>3, <2>2 DEF Return, Raise
    <3>2. calls[1].next + 1 \in Nat \ {0}
      BY <2>0
    <3>3. c \in LoopsIn(N, F, R)
      BY <1>3, <3>2 DEF LoopsIn
    <3>4. /\ c.next = calls[1].next + 1 /\ c.owed = calls[1].owed /\ c.busy = FALSE
          /\ c.lost = calls[1].lost
      BY <1>3 DEF LoopsIn
    <3>. HIDE DEF c
    <3>5. Late(c, subs) \subseteq Late(calls[1], subs)
      <4>. SUFFICES ASSUME NEW h \in c.owed, Awaits(h, calls[1], subs) PROVE Awaits(h, c, subs)
        BY <3>4 DEF Late
      <4>1. PICK j \in DOMAIN subs : subs[j] = h /\ j > calls[1].next /\ j \in Nat
        BY <3>1 DEF Awaits, Owing
      <4>. QED  BY <2>0, <3>4, <4>1 DEF Awaits
    <3>6. InOrder(c, subs)
      BY <2>0, <3>4, <3>5, FewerLate
    <3>. QED  BY <3>1, <3>3, <3>6
  <2>. QED  BY <2>1, <2>2 DEF Library
<1>6. calls' \in Seq(LoopsIn(N, F, R)) /\ DOMAIN calls' = DOMAIN calls
      /\ \A i \in DOMAIN calls : calls'[i] = IF i = 1 THEN c ELSE calls[i]
  BY <1>1, <1>3, <1>5
<1>7. \A i \in DOMAIN calls' : InOrder(calls'[i], subs) /\ (i # 1 => calls'[i].busy)
  BY <1>5, <1>6 DEF Owing
<1>. QED  BY <1>4, <1>6, <1>7, OwingNext DEF Owing

\* A notification begins, inside those under way or in place of the innermost.
LEMMA NotifyOwes ==
    ASSUME Owing, NEW n, NEW f, NEW r, subs' = subs,
           \/ HostTurn /\ calls' = <<Notification(n, f, r)>> \o calls
           \/ calls # << >> /\ calls' = <<Notification(n, f, r)>> \o Tail(calls)
           \/ calls # << >> /\ calls' = Tail(calls)
    PROVE  Owing'
<1>1. PICK N, F, R : calls \in Seq(LoopsIn(N, F, R))
  BY DEF Owing
<1>. DEFINE L == LoopsIn(N \cup {n}, F \cup {f}, R \cup {r})
            c == Notification(n, f, r)
<1>2. c \in L /\ InOrder(c, subs)
  <2>1. /\ c.node = n /\ c.flags = f /\ c.next = 1 /\ c.busy = FALSE
        /\ c.owed = ToSet(subs) /\ c.lost = 0
    BY DEF Notification
  <2>2. subs \in Seq(Handlers) /\ ToSet(subs) \in SUBSET Handlers
    BY DEF Owing, ToSet
  <2>3. c \in L
    BY <2>2 DEF Notification, LoopsIn
  <2>. HIDE DEF c
  <2>4. Late(c, subs) = {}
    BY <2>1, <2>2 DEF Late, Awaits, ToSet
  <2>5. IsFiniteSet(ToSet(subs))
    <3>1. subs \in Surjection(1 .. Len(subs), ToSet(subs)) /\ Len(subs) \in Nat
      BY <2>2 DEF ToSet, Surjection
    <3>. QED  BY <3>1, FS_Interval, FS_Surjection
  <2>6. Cardinality({}) = 0
    BY FS_EmptySet
  <2>. QED  BY <2>1, <2>3, <2>4, <2>5, <2>6 DEF InOrder
<1>3. calls \in Seq(L)
  <2>1. LoopsIn(N, F, R) \subseteq L
    BY DEF LoopsIn
  <2>. HIDE DEF L
  <2>. QED  BY <1>1, <2>1
<1>. HIDE DEF L, c
<1>4. PICK below : /\ (HostTurn /\ below = calls) \/ (calls # << >> /\ below = Tail(calls))
                   /\ calls' = <<c>> \o below \/ (calls # << >> /\ calls' = Tail(calls) /\ below = calls')
  BY DEF c
<1>5. /\ below \in Seq(L)
      /\ \A i \in DOMAIN below : below[i].busy /\ \E k \in DOMAIN calls : below[i] = calls[k]
  <2>1. CASE HostTurn /\ below = calls
    BY <1>3, <2>1 DEF HostTurn, Owing
  <2>2. CASE calls # << >> /\ below = Tail(calls)
    <3>1. \A i \in DOMAIN below : i + 1 \in DOMAIN calls /\ i + 1 # 1 /\ below[i] = calls[i + 1]
      BY <1>3, <2>2
    <3>2. below \in Seq(L)
      BY <1>3, <2>2
    <3>. QED  BY <3>1, <3>2 DEF Owing
  <2>. QED  BY <1>4, <2>1, <2>2
<1>6. \A i \in DOMAIN below : InOrder(below[i], subs)
  BY <1>5 DEF Owing
<1>7. /\ calls' \in Seq(L)
      /\ \A i \in DOMAIN calls' : InOrder(calls'[i], subs) /\ (i # 1 => calls'[i].busy)
  <2>1. CASE calls' = below
    BY <1>5, <1>6, <2>1
  <2>2. CASE calls' = <<c>> \o below
    <3>1. calls' \in Seq(L)
      BY <1>2, <1>5, <2>2
    <3>2. \A i \in DOMAIN calls' :
             (i = 1 /\ calls'[i] = c) \/ (i - 1 \in DOMAIN below /\ calls'[i] = below[i - 1])
      BY <1>2, <1>5, <2>2
    <3>. QED  BY <1>2, <1>5, <1>6, <3>1, <3>2
  <2>. QED  BY <1>4, <2>1, <2>2
<1>. QED  BY <1>7, OwingNext DEF Owing, L

\* What is left of a list when one entry goes.
LEMMA Removed ==
    ASSUME NEW S, NEW list \in Seq(S), NEW i \in DOMAIN list
    PROVE  /\ RemoveAt(list, i) \in Seq(S) /\ Len(RemoveAt(list, i)) = Len(list) - 1
           /\ DOMAIN RemoveAt(list, i) = 1 .. Len(list) - 1
           /\ \A j \in 1 .. Len(list) - 1 : RemoveAt(list, i)[j] = IF j < i THEN list[j] ELSE list[j + 1]
<1>0. i \in 1 .. Len(list) /\ Len(list) \in Nat
  OBVIOUS
<1>1. RemoveAt(list, i) = SubSeq(list, 1, i - 1) \o SubSeq(list, i + 1, Len(list))
  BY DEF RemoveAt
<1>. DEFINE x == SubSeq(list, 1, i - 1)
            y == SubSeq(list, i + 1, Len(list))
<1>2. /\ x \in Seq(S) /\ Len(x) = i - 1 /\ \A j \in 1 .. i - 1 : x[j] = list[j]
      /\ y \in Seq(S) /\ Len(y) = Len(list) - i
      /\ \A j \in 1 .. Len(list) - i : y[j] = list[i + j]
  BY <1>0
<1>3. RemoveAt(list, i) = x \o y
  BY <1>1
<1>. HIDE DEF x, y
<1>. QED  BY <1>0, <1>2, <1>3

\* One that unsubscribes, the i-th of the list, leaves all calls under way, with fewer to tell.
Leaves(h, i, L) ==
    /\ subs[i] = h /\ \A j \in 1 .. i - 1 : subs[j] # h
    /\ subs' \in Seq(Handlers) /\ i \in 1 .. Len(subs) /\ Len(subs) \in Nat
    /\ DOMAIN subs = 1 .. Len(subs) /\ DOMAIN subs' = 1 .. Len(subs) - 1
    /\ Len(subs') = Len(subs) - 1
    /\ \A j \in 1 .. Len(subs) - 1 : subs'[j] = IF j < i THEN subs[j] ELSE subs[j + 1]
    /\ calls' \in Seq(L) /\ DOMAIN calls' = DOMAIN calls
    /\ \A k \in DOMAIN calls :
         /\ calls'[k].node = calls[k].node /\ calls'[k].flags = calls[k].flags
         /\ calls'[k].rest = calls[k].rest
         /\ calls'[k].next = calls[k].next /\ calls'[k].busy = calls[k].busy
         /\ calls'[k].owed = calls[k].owed \intersect ToSet(subs')
         /\ calls'[k].lost = IF i <= calls[k].next /\ calls[k].lost < Cardinality(calls[k].owed)
                             THEN calls[k].lost + 1 ELSE calls[k].lost

LEMMA UnsubscribeIs ==
    ASSUME subs \in Seq(Handlers), NEW N, NEW F, NEW R, calls \in Seq(LoopsIn(N, F, R)),
           NEW h \in Handlers, Unsubscribe(h)
    PROVE  \E i \in DOMAIN subs : Leaves(h, i, LoopsIn(N, F, R))
<1>1. PICK i \in DOMAIN subs :
        /\ subs[i] = h /\ \A j \in 1 .. i - 1 : subs[j] # h
        /\ subs' = RemoveAt(subs, i)
        /\ calls' = [k \in DOMAIN calls |->
             [calls[k] EXCEPT !.owed = @ \intersect ToSet(subs'),
                              !.lost = IF i <= calls[k].next /\ @ < Cardinality(calls[k].owed)
                                       THEN @ + 1 ELSE @]]
  BY DEF Unsubscribe
<1>2. /\ subs' \in Seq(Handlers) /\ i \in 1 .. Len(subs) /\ Len(subs) \in Nat
      /\ DOMAIN subs = 1 .. Len(subs) /\ DOMAIN subs' = 1 .. Len(subs) - 1
      /\ Len(subs') = Len(subs) - 1
      /\ \A j \in 1 .. Len(subs) - 1 : subs'[j] = IF j < i THEN subs[j] ELSE subs[j + 1]
  <2>1. subs' = RemoveAt(subs, i)
    BY <1>1
  <2>2. /\ RemoveAt(subs, i) \in Seq(Handlers) /\ Len(RemoveAt(subs, i)) = Len(subs) - 1
        /\ DOMAIN RemoveAt(subs, i) = 1 .. Len(subs) - 1
        /\ \A j \in 1 .. Len(subs) - 1 : RemoveAt(subs, i)[j] = IF j < i THEN subs[j] ELSE subs[j + 1]
    BY Removed, Zenon
  <2>. QED  BY <2>1, <2>2
<1>3. ASSUME NEW k \in DOMAIN calls
      PROVE  /\ calls'[k] \in LoopsIn(N, F, R)
             /\ calls'[k].node = calls[k].node /\ calls'[k].flags = calls[k].flags
             /\ calls'[k].rest = calls[k].rest
             /\ calls'[k].next = calls[k].next /\ calls'[k].busy = calls[k].busy
             /\ calls'[k].owed = calls[k].owed \intersect ToSet(subs')
             /\ calls'[k].lost = IF i <= calls[k].next /\ calls[k].lost < Cardinality(calls[k].owed)
                                 THEN calls[k].lost + 1 ELSE calls[k].lost
  <2>. DEFINE c == calls[k]
              d == calls'[k]
              more == IF i <= c.next /\ c.lost < Cardinality(c.owed) THEN c.lost + 1 ELSE c.lost
              fewer == c.owed \intersect ToSet(subs')
  <2>1. d = [c EXCEPT !.owed = fewer, !.lost = more]
    BY <1>1
  <2>2. c \in LoopsIn(N, F, R)
    OBVIOUS
  <2>3. fewer \in SUBSET Handlers /\ more \in Nat
    BY <2>2 DEF LoopsIn
  <2>. HIDE DEF c, d, fewer, more
  <2>4. /\ d.node = c.node /\ d.flags = c.flags /\ d.rest = c.rest
        /\ d.next = c.next /\ d.busy = c.busy /\ d.owed = fewer /\ d.lost = more
        /\ d \in LoopsIn(N, F, R)
    BY <2>1, <2>2, <2>3 DEF LoopsIn
  <2>. QED  BY <2>4 DEF c, d, fewer, more
<1>4. calls' \in Seq(LoopsIn(N, F, R)) /\ DOMAIN calls' = DOMAIN calls
  <2>1. DOMAIN calls = 1 .. Len(calls) /\ Len(calls) \in Nat
    OBVIOUS
  <2>2. calls' \in [1 .. Len(calls) -> LoopsIn(N, F, R)]
    BY <1>1, <1>3, <2>1
  <2>. QED  BY <2>1, <2>2
<1>. QED  BY <1>1, <1>2, <1>3, <1>4 DEF Leaves

\* An entry that goes makes late at most the one after the place of the loop, and only if
\* it went at or before that place.
LEMMA UnsubscribeOwes == ASSUME Owing, NEW h \in Handlers, Unsubscribe(h) PROVE Owing'
<1>1. PICK N, F, R : calls \in Seq(LoopsIn(N, F, R))
  BY DEF Owing
<1>2. PICK i \in DOMAIN subs : Leaves(h, i, LoopsIn(N, F, R))
  <2>1. subs \in Seq(Handlers)
    BY DEF Owing
  <2>. QED  BY <1>1, <2>1, UnsubscribeIs
<1>3. /\ subs' \in Seq(Handlers) /\ i \in 1 .. Len(subs) /\ Len(subs) \in Nat
      /\ DOMAIN subs = 1 .. Len(subs) /\ DOMAIN subs' = 1 .. Len(subs) - 1
      /\ \A j \in 1 .. Len(subs) - 1 : subs'[j] = IF j < i THEN subs[j] ELSE subs[j + 1]
      /\ calls' \in Seq(LoopsIn(N, F, R)) /\ DOMAIN calls' = DOMAIN calls
  BY <1>2 DEF Leaves
<1>4. \A k \in DOMAIN calls : calls[k].busy
  <2>1. calls # << >> => calls[1].busy
    BY DEF Unsubscribe, May
  <2>2. \A k \in DOMAIN calls : calls # << >>
    BY <1>1
  <2>. QED  BY <2>1, <2>2 DEF Owing
<1>5. ASSUME NEW k \in DOMAIN calls
      PROVE  calls'[k].busy /\ InOrder(calls'[k], subs')
  <2>. DEFINE c == calls[k]
              d == calls'[k]
  <2>1. c \in LoopsIn(N, F, R) /\ c.busy /\ InOrder(c, subs)
    BY <1>1, <1>4 DEF Owing
  <2>2. IsFiniteSet(c.owed) /\ Cardinality(c.owed) \in Nat
    BY <2>1, FS_CardinalityType DEF InOrder
  <2>3. /\ c.next \in Nat \ {0} /\ c.lost \in Nat /\ d.next = c.next /\ d.busy
        /\ d.owed = c.owed \intersect ToSet(subs')
        /\ d.lost = IF i <= c.next /\ c.lost < Cardinality(c.owed) THEN c.lost + 1 ELSE c.lost
        /\ d \in LoopsIn(N, F, R)
    <3>1. c.next \in Nat \ {0} /\ c.lost \in Nat
      BY <2>1 DEF LoopsIn
    <3>2. d \in LoopsIn(N, F, R)
      BY <1>3
    <3>. QED  BY <1>2, <2>1, <3>1, <3>2 DEF Leaves
  <2>. HIDE DEF c, d
  <2>4. d.lost \in Nat /\ c.lost <= d.lost
    BY <2>2, <2>3
  <2>5. ASSUME NEW g \in Late(d, subs'), g \notin Late(c, subs)
        PROVE  i <= c.next /\ c.next + 1 \in DOMAIN subs /\ g = subs[c.next + 1]
    <3>1. PICK j \in DOMAIN subs : subs[j] = g /\ j > c.next
      BY <2>1, <2>3, <2>5 DEF Late, Awaits
    <3>2. \A m \in 1 .. Len(subs) - 1 : subs'[m] = g => ~(m > c.next)
      BY <1>3, <2>3 DEF Late, Awaits
    <3>3. CASE j < i
      BY <1>3, <2>3, <3>1, <3>2, <3>3
    <3>4. CASE j = i
      <4>1. PICK m \in DOMAIN subs' : subs'[m] = g
        BY <2>3 DEF Late, ToSet
      <4>2. ~(m < i)
        <5>1. m < i => m \in 1 .. i - 1 /\ subs'[m] = subs[m]
          BY <1>3, <4>1
        <5>. QED  BY <1>2, <3>1, <3>4, <4>1, <5>1 DEF Leaves
      <4>. QED  BY <1>3, <2>3, <3>1, <3>2, <3>4, <4>1, <4>2
    <3>5. CASE j > i
      <4>1. j - 1 \in 1 .. Len(subs) - 1 /\ ~(j - 1 < i) /\ (j - 1) + 1 = j
        BY <1>3, <3>5
      <4>2. subs'[j - 1] = g
        BY <1>3, <3>1, <4>1
      <4>3. ~(j - 1 > c.next)
        BY <3>2, <4>1, <4>2
      <4>. QED  BY <1>3, <2>3, <3>1, <3>5, <4>3
    <3>. QED  BY <1>3, <3>3, <3>4, <3>5
  <2>6. CASE ~(i <= c.next)
    <3>1. Late(d, subs') \subseteq Late(c, subs) /\ d.owed \subseteq c.owed
      BY <2>3, <2>5, <2>6
    <3>. QED  BY <2>1, <2>3, <2>4, <3>1, FewerLate DEF d
  <2>7. CASE i <= c.next /\ c.lost < Cardinality(c.owed)
    <3>. DEFINE one == subs[c.next + 1]
    <3>1. Late(d, subs') \subseteq Late(c, subs) \union {one}
      BY <2>5
    <3>2. IsFiniteSet(Late(c, subs)) /\ Cardinality(Late(c, subs)) \in Nat
      BY <2>2, FS_Subset, FS_CardinalityType DEF Late
    <3>3. /\ IsFiniteSet(Late(c, subs) \union {one})
          /\ Cardinality(Late(c, subs) \union {one}) \in Nat
          /\ Cardinality(Late(c, subs) \union {one}) <= Cardinality(Late(c, subs)) + 1
      BY <3>2, FS_AddElement
    <3>4. /\ Cardinality(Late(d, subs')) \in Nat
          /\ Cardinality(Late(d, subs')) <= Cardinality(Late(c, subs) \union {one})
      BY <3>1, <3>3, FS_Subset, FS_CardinalityType
    <3>5. Cardinality(Late(c, subs)) <= c.lost /\ d.lost = c.lost + 1
      BY <2>1, <2>3, <2>7 DEF InOrder
    <3>6. Cardinality(Late(d, subs')) <= d.lost
      <4>. HIDE DEF one
      <4>. QED  BY <2>3, <3>2, <3>3, <3>4, <3>5
    <3>7. IsFiniteSet(d.owed)
      BY <2>2, <2>3, FS_Subset
    <3>. QED  BY <2>3, <3>6, <3>7 DEF InOrder, d
  <2>8. CASE i <= c.next /\ ~(c.lost < Cardinality(c.owed))
    <3>1. Late(d, subs') \subseteq c.owed /\ d.lost = c.lost
      BY <2>3, <2>8 DEF Late
    <3>2. /\ Cardinality(Late(d, subs')) \in Nat
          /\ Cardinality(Late(d, subs')) <= Cardinality(c.owed)
      BY <2>2, <3>1, FS_Subset, FS_CardinalityType
    <3>3. Cardinality(Late(d, subs')) <= d.lost
      BY <2>2, <2>3, <2>8, <3>1, <3>2
    <3>4. IsFiniteSet(d.owed)
      BY <2>2, <2>3, FS_Subset
    <3>. QED  BY <2>3, <3>3, <3>4 DEF InOrder, d
  <2>. QED  BY <2>3, <2>6, <2>7, <2>8 DEF d
<1>. QED  BY <1>3, <1>5, OwingNext

\* The host's subscriptions: a new one stands at the end.
LEMMA HostListOwes == ASSUME Owing, HostList PROVE Owing'
<1>1. ASSUME NEW h \in Handlers, Subscribe(h) PROVE Owing'
  <2>1. subs' \in Seq(Handlers) /\ calls' = calls
        /\ \A j \in DOMAIN subs : j \in DOMAIN subs' /\ subs'[j] = subs[j]
    BY <1>1 DEF Subscribe, Owing
  <2>2. PICK N, F, R : calls \in Seq(LoopsIn(N, F, R))
    BY DEF Owing
  <2>3. ASSUME NEW i \in DOMAIN calls PROVE InOrder(calls[i], subs')
    <3>1. calls[i] \in LoopsIn(N, F, R) /\ InOrder(calls[i], subs)
      BY <2>2 DEF Owing
    <3>2. Late(calls[i], subs') \subseteq Late(calls[i], subs)
      BY <2>1 DEF Late, Awaits
    <3>3. calls[i].lost \in Nat
      BY <3>1 DEF LoopsIn
    <3>. QED  BY <3>1, <3>2, <3>3, FewerLate
  <2>. QED  BY <2>1, <2>2, <2>3, OwingNext DEF Owing
<1>. QED  BY <1>1, UnsubscribeOwes DEF HostList
-----------------------------------------------------------------------------
\* Visit begins a notification of the list's first news, or leaves what runs below.
LEMMA VisitOwes ==
    ASSUME Owing, NEW list, subs' = subs,
           \/ HostTurn /\ Visit(list, calls)
           \/ calls # << >> /\ Visit(list, Tail(calls))
    PROVE  Owing'
<1>1. CASE calls' = calls
  BY <1>1 DEF Owing, InOrder, Late, Awaits, LoopsIn
<1>2. CASE calls' # calls
  <2>1. \/ HostTurn /\ \E n, f, r : calls' = <<Notification(n, f, r)>> \o calls
        \/ calls # << >> /\ \E n, f, r : calls' = <<Notification(n, f, r)>> \o Tail(calls)
        \/ calls # << >> /\ calls' = Tail(calls)
    BY <1>2, Zenon DEF Visit
  <2>. QED  BY <2>1, NotifyOwes
<1>. QED  BY <1>1, <1>2

\* Every step of a page and its observer keeps the loops in order.
LEMMA PageOwes == ASSUME Owing, [Next]_vars PROVE Owing'
<1>1. ASSUME UNCHANGED core PROVE Owing'
  BY <1>1 DEF core, Owing, InOrder, Late, Awaits, LoopsIn
<1>2. CASE Host
  <2>1. CASE HostList
    BY <2>1, HostListOwes
  <2>2. CASE \E n \in Nodes : Refresh(n)
    BY <2>2, VisitOwes DEF Refresh, May, HostTurn
  <2>3. CASE RefreshTree \/ Connect
    BY <2>3, VisitOwes DEF RefreshTree, Connect, Wire, RefreshAll, May, HostTurn
  <2>4. CASE Disconnect
    BY <1>1, <2>4 DEF Disconnect
  <2>. QED  BY <1>2, <2>1, <2>2, <2>3, <2>4 DEF Host
<1>3. CASE Page \/ UNCHANGED vars
  BY <1>1, <1>3 DEF Page, Mutate, Overlook, Replace, Turn, vars
<1>4. CASE Loop
  <2>1. CASE Library
    BY <2>1, LibraryOwes
  <2>2. CASE Finish
    <3>1. calls # << >> /\ subs' = subs
      BY <2>2 DEF Finish, End, AllTold, HostTurn
    <3>. QED  BY <2>2, <3>1, VisitOwes DEF Finish
  <2>. QED  BY <1>4, <2>1, <2>2 DEF Loop
<1>5. CASE Callback
  BY <1>5, VisitOwes DEF Callback, OnMutation, HandOver, RefreshAll, HostTurn
<1>. QED  BY <1>2, <1>3, <1>4, <1>5 DEF Next

\* observer.py, _notify: "Emit to every subscriber" of a page, through every refresh, mutation,
\* connection and subscription its handlers make or end: a notification passes over at most one
\* handler for each that unsubscribed at or before the loop's place, and none otherwise.
THEOREM PageEmitsToEvery == Spec => []EmitsToEvery
<1>1. Init => Owing
  BY DEF Init, InitCore, Owing
<1>2. Owing /\ [Next]_vars => Owing'
  BY PageOwes
<1>. QED  BY <1>1, <1>2, OwingEmits, PTL DEF Spec
-----------------------------------------------------------------------------
\* The observer of fixtures shares the subscriber list and the loops over it.
LEMMA OneCore ==
    /\ Memory!HostList <=> HostList
    /\ Memory!Library <=> Library
    /\ Memory!AllTold <=> AllTold
    /\ Memory!End <=> End
    /\ Memory!InitCore <=> InitCore
    /\ Memory!core = core
    /\ \A n, f, r : Memory!Notification(n, f, r) = Notification(n, f, r)
    /\ \A s : Memory!ToSet(s) = ToSet(s)
<1>1. \A s : Memory!ToSet(s) = ToSet(s)
  BY DEF Memory!ToSet, ToSet
<1>2. \A n, f, r : Memory!Notification(n, f, r) = Notification(n, f, r)
  BY <1>1 DEF Memory!Notification, Notification
<1>3. Memory!core = core
  BY DEF Memory!core, core
<1>4. Memory!InitCore <=> InitCore
  BY DEF Memory!InitCore, InitCore, Memory!NothingHeard, NothingHeard, Memory!Unknown, Unknown
<1>5. Memory!AllTold <=> AllTold
  BY DEF Memory!AllTold, AllTold, Memory!HostTurn, HostTurn
<1>6. Memory!Library <=> Library
  BY DEF Memory!Library, Library, Memory!Deliver, Deliver, Memory!Return, Return,
         Memory!Raise, Raise, Memory!HostTurn, HostTurn
<1>7. \A s : Memory!Cardinality(s) = Cardinality(s)
  BY DEF Memory!Cardinality, Cardinality
<1>8. Memory!HostList <=> HostList
  <2>1. ASSUME NEW h PROVE Memory!Subscribe(h) <=> Subscribe(h)
    BY DEF Memory!Subscribe, Subscribe, Memory!May, May
  <2>2. \A s, i : Memory!RemoveAt(s, i) = RemoveAt(s, i)
    BY DEF Memory!RemoveAt, RemoveAt
  <2>3. Memory!May("unsubscribe") <=> May("unsubscribe")
    BY DEF Memory!May, May
  <2>4. Memory!NothingHeard = NothingHeard
    BY DEF Memory!NothingHeard, NothingHeard, Memory!Unknown, Unknown
  <2>5. ASSUME NEW h PROVE Memory!Unsubscribe(h) <=> Unsubscribe(h)
    BY <1>1, <1>7, <2>2, <2>3, <2>4, Zenon DEF Memory!Unsubscribe, Unsubscribe
  <2>. QED  BY <2>1, <2>5 DEF Memory!HostList, HostList
<1>9. Memory!End <=> End
  BY <1>5 DEF Memory!End, End, Memory!Unknown, Unknown
<1>. QED  BY <1>1, <1>2, <1>3, <1>4, <1>5, <1>6, <1>8, <1>9

\* And every step of the observer of fixtures.
LEMMA FixturesOwe ==
    ASSUME Owing, [Memory!Next]_(Memory!vars)
    PROVE  Owing'
<1>1. ASSUME NEW n, NEW f, HostTurn, Memory!Emit(n, f) PROVE Owing'
  BY <1>1, NotifyOwes, OneCore DEF Memory!Emit
<1>2. CASE UNCHANGED Memory!core
  BY <1>2 DEF Memory!core, Owing, InOrder, Late, Awaits, LoopsIn
<1>3. CASE Memory!Host
  <2>1. CASE HostList
    BY <2>1, HostListOwes
  <2>2. CASE \E n \in Nodes, input \in Inputs : Memory!RegisterFixture(n, input) \/ Memory!Update(n, input)
    <3>1. HostTurn /\ ((\E n, f : Memory!Emit(n, f)) \/ UNCHANGED Memory!core)
      BY <2>2 DEF Memory!RegisterFixture, Memory!Update, Memory!May, HostTurn
    <3>. QED  BY <1>1, <1>2, <3>1
  <2>3. CASE \E n \in Nodes : Memory!Register(n) \/ Memory!Unregister(n)
    <3>1. HostTurn /\ ((\E n, f : Memory!Emit(n, f)) \/ UNCHANGED Memory!core)
      BY <2>3 DEF Memory!Register, Memory!RegisterFixture, Memory!Unregister, Memory!May, HostTurn
    <3>. QED  BY <1>1, <1>2, <3>1
  <2>. QED  BY <1>3, <2>1, <2>2, <2>3, OneCore DEF Memory!Host
<1>4. CASE Memory!Loop
  <2>1. CASE Library
    BY <2>1, LibraryOwes
  <2>2. CASE Memory!Finish
    <3>1. calls # << >>
      BY <2>2, OneCore DEF Memory!Finish, Memory!End, AllTold, HostTurn
    <3>. QED  BY <2>2, <3>1, NotifyOwes DEF Memory!Finish
  <2>. QED  BY <1>4, <2>1, <2>2, OneCore DEF Memory!Loop
<1>5. CASE UNCHANGED Memory!vars
  BY <1>2, <1>5 DEF Memory!vars
<1>. QED  BY <1>3, <1>4, <1>5 DEF Memory!Next

\* observer.py, _notify: the same of the observer of fixtures, through every registration,
\* update and removal its handlers make.
THEOREM FixturesEmitToEvery == Memory!Spec => []EmitsToEvery
<1>1. Memory!Init => Owing
  BY OneCore DEF Memory!Init, InitCore, Owing
<1>2. Owing /\ [Memory!Next]_(Memory!vars) => Owing'
  BY FixturesOwe
<1>. QED  BY <1>1, <1>2, OwingEmits, PTL DEF Memory!Spec
-----------------------------------------------------------------------------
(***************************************************************************)
(* What handlers have heard.  L is what a node's flags are, of the nodes K *)
(* that nobody emitted again while handlers were told of them.             *)
(***************************************************************************)
Loops == LoopsIn(Nodes, Flags, Seq([node : Nodes, flags : Flags]))

KnowIn(K, L, list, loops, told) ==
    /\ \A n \in K : \A i \in DOMAIN loops : loops[i].node = n => loops[i].flags = L[n]
    /\ \A n \in K : \A h \in ToSet(list) :
         \/ told[h][n] \in {Unknown, L[n]}
         \/ \E i \in DOMAIN loops : loops[i].node = n /\ h \in loops[i].owed

Hearing ==
    /\ heard \in [Handlers -> [Nodes -> Flags \union {Unknown}]]
    /\ \A h \in Handlers \ ToSet(subs) : heard[h] = NothingHeard
Listening ==
    /\ calls \in Seq(Loops)
    /\ subs \in Seq(Handlers) /\ Len(subs) <= MaxSubs
    /\ Hearing

Reading ==
    /\ dom \in [Nodes -> Flags \union {Gone}] /\ (watching # {} => dom[Root] # Gone)
    /\ lastFlags \in [Nodes -> Flags \union {Unread}]
    /\ made \in Nat /\ mutationObserver \in 0 .. made
    /\ live \subseteq 1 .. made /\ queued \subseteq live /\ watching \subseteq live
    /\ unseen \subseteq Nodes

\* What a page's observer holds: once one of its MutationObservers watches the root and has
\* nothing to hand over, whatever is stored otherwise than the page shows, and changed
\* inside the root, is still to be visited; and what a list says of it is as the page now is.
IsFresh(list, known) == \A j \in DOMAIN list : list[j].node \in known => list[j].flags = dom[list[j].node]
In(o, list) == \E j \in DOMAIN list : list[j] = o
Under(o, loops) == \E i \in DOMAIN loops : In(o, loops[i].rest)
Caught ==
    watching \ queued # {} =>
      /\ \A i \in DOMAIN calls : IsFresh(calls[i].rest, Nodes \ unseen)
      /\ \A n \in Nodes \ unseen : dom[n] \in {Gone, lastFlags[n]} \/ Under(Observation(n), calls)

PageInv == /\ Listening /\ Reading /\ Caught
           /\ KnowIn(Nodes \ renewed, lastFlags, subs, calls, heard)

Fixed ==
    /\ Len(calls) <= MaxCalls
    /\ registry \in [Nodes -> Inputs \union {Memory!Absent}]
    /\ fixtureFlags = [n \in Nodes |->
         IF registry[n] = Memory!Absent THEN Memory!Absent ELSE FlagsOf[registry[n]]]
Registered == {n \in Nodes \ fixturesRenewed : registry[n] # Memory!Absent}
FixturesInv == /\ Listening /\ Fixed
               /\ KnowIn(Registered, fixtureFlags, subs, calls, heard)

\* What is told is of a node, and so is what is still to be visited.
LEMMA LoopIs ==
    ASSUME Listening, NEW i \in DOMAIN calls
    PROVE  /\ calls[i].node \in Nodes /\ calls[i].flags \in Flags
           /\ calls[i].rest \in Seq([node : Nodes, flags : Flags])
<1>1. calls[i] \in Loops
  BY DEF Listening
<1>. QED  BY <1>1 DEF Loops, LoopsIn

\* The steps of a loop: a handler told knows what the node's flags are.
LEMMA LibraryKnows ==
    ASSUME Listening, Library, NEW K \in SUBSET Nodes, NEW L, KnowIn(K, L, subs, calls, heard)
    PROVE  /\ Listening' /\ KnowIn(K, L, subs', calls', heard')
           /\ DOMAIN calls' = DOMAIN calls /\ \A i \in DOMAIN calls : calls'[i].rest = calls[i].rest
<1>. DEFINE c == calls[1]
<1>1. calls # << >> /\ subs' = subs
  BY DEF Library, Deliver, HostTurn, Return, Raise
<1>2. 1 \in DOMAIN calls /\ c \in Loops
  BY <1>1 DEF Listening
<1>3. c.next \in Nat \ {0} /\ c.node \in Nodes /\ c.flags \in Flags /\ c.owed \in SUBSET Handlers
  BY <1>2 DEF Loops, LoopsIn
<1>4. PICK d \in Loops : /\ calls' = [calls EXCEPT ![1] = d]
                         /\ d.node = c.node /\ d.flags = c.flags /\ d.rest = c.rest
                         /\ \/ d.owed = c.owed /\ heard' = heard
                            \/ \E h \in ToSet(subs) : /\ d.owed = c.owed \ {h}
                                                      /\ heard' = [heard EXCEPT ![h][c.node] = c.flags]
  <2>1. CASE Deliver
    <3>. DEFINE h == subs[c.next]
                d == [c EXCEPT !.busy = TRUE, !.owed = @ \ {h}]
    <3>1. calls' = [calls EXCEPT ![1] = d] /\ heard' = [heard EXCEPT ![h][c.node] = c.flags]
      BY <1>2, <2>1 DEF Deliver, Listening
    <3>2. d \in Loops /\ d.node = c.node /\ d.flags = c.flags /\ d.rest = c.rest /\ d.owed = c.owed \ {h}
      BY <1>2 DEF Loops, LoopsIn
    <3>3. h \in ToSet(subs)
      BY <1>3, <2>1 DEF Deliver, Listening, ToSet
    <3>. HIDE DEF d, h
    <3>. QED  BY <3>1, <3>2, <3>3
  <2>2. CASE Return \/ Raise
    <3>. DEFINE d == [c EXCEPT !.busy = FALSE, !.next = @ + 1]
    <3>1. calls' = [calls EXCEPT ![1] = d] /\ heard' = heard
      BY <1>2, <2>2 DEF Return, Raise, Listening
    <3>2. c.next + 1 \in Nat \ {0}
      BY <1>3
    <3>3. d \in Loops /\ d.node = c.node /\ d.flags = c.flags /\ d.rest = c.rest /\ d.owed = c.owed
      BY <1>2, <3>2 DEF Loops, LoopsIn
    <3>. HIDE DEF d
    <3>. QED  BY <3>1, <3>3
  <2>. QED  BY <2>1, <2>2 DEF Library
<1>5. /\ calls' \in Seq(Loops) /\ DOMAIN calls' = DOMAIN calls
      /\ calls'[1] = d /\ \A i \in DOMAIN calls : i # 1 => calls'[i] = calls[i]
  BY <1>2, <1>4 DEF Listening
<1>. HIDE DEF c
<1>6. \A n \in K : \A i \in DOMAIN calls' : calls'[i].node = n => calls'[i].flags = L[n]
  BY <1>2, <1>4, <1>5 DEF KnowIn, c
<1>7. CASE d.owed = c.owed /\ heard' = heard
  <2>1. ASSUME NEW n \in K, NEW h \in ToSet(subs)
        PROVE  \/ heard'[h][n] \in {Unknown, L[n]}
               \/ \E i \in DOMAIN calls' : calls'[i].node = n /\ h \in calls'[i].owed
    <3>1. CASE heard[h][n] \in {Unknown, L[n]}
      BY <1>7, <3>1
    <3>2. CASE \E i \in DOMAIN calls : calls[i].node = n /\ h \in calls[i].owed
      BY <1>4, <1>5, <1>7, <3>2 DEF c
    <3>. QED  BY <3>1, <3>2 DEF KnowIn
  <2>2. KnowIn(K, L, subs', calls', heard')
    BY <1>1, <1>6, <2>1 DEF KnowIn
  <2>. QED  BY <1>1, <1>2, <1>4, <1>5, <1>7, <2>2 DEF Listening, Hearing, c
<1>8. ASSUME NEW g \in ToSet(subs), d.owed = c.owed \ {g}, heard' = [heard EXCEPT ![g][c.node] = c.flags]
      PROVE  Listening' /\ KnowIn(K, L, subs', calls', heard')
  <2>0. g \in Handlers
    BY DEF Listening, ToSet
  <2>1. \A h \in Handlers, n \in Nodes :
          heard'[h][n] = IF h = g /\ n = c.node THEN c.flags ELSE heard[h][n]
    BY <1>8, <2>0 DEF Listening, Hearing
  <2>2. ASSUME NEW n \in K, NEW h \in ToSet(subs)
        PROVE  \/ heard'[h][n] \in {Unknown, L[n]}
               \/ \E i \in DOMAIN calls' : calls'[i].node = n /\ h \in calls'[i].owed
    <3>0. h \in Handlers /\ n \in Nodes
      BY DEF Listening, ToSet
    <3>1. CASE h = g /\ n = c.node
      <4>1. c.flags = L[n]
        BY <1>2, <3>1 DEF KnowIn, c
      <4>. QED  BY <2>1, <3>0, <3>1, <4>1
    <3>2. CASE ~(h = g /\ n = c.node)
      <4>1. CASE heard[h][n] \in {Unknown, L[n]}
        BY <2>1, <3>0, <3>2, <4>1
      <4>2. CASE \E i \in DOMAIN calls : calls[i].node = n /\ h \in calls[i].owed
        <5>1. PICK i \in DOMAIN calls : calls[i].node = n /\ h \in calls[i].owed
          BY <4>2
        <5>2. CASE i = 1
          BY <1>4, <1>5, <1>8, <3>2, <5>1, <5>2 DEF c
        <5>3. CASE i # 1
          BY <1>5, <5>1, <5>3
        <5>. QED  BY <5>2, <5>3
      <4>. QED  BY <4>1, <4>2 DEF KnowIn
    <3>. QED  BY <3>1, <3>2
  <2>3. KnowIn(K, L, subs', calls', heard')
    BY <1>1, <1>6, <2>2 DEF KnowIn
  <2>4. /\ heard' \in [Handlers -> [Nodes -> Flags \union {Unknown}]]
        /\ \A h \in Handlers \ ToSet(subs) : heard'[h] = NothingHeard
    BY <1>3, <1>8, <2>0 DEF Listening, Hearing, c
  <2>. QED  BY <1>1, <1>5, <2>3, <2>4 DEF Listening, Hearing
<1>9. \A i \in DOMAIN calls : calls'[i].rest = calls[i].rest
  BY <1>4, <1>5 DEF c
<1>. QED  BY <1>4, <1>5, <1>7, <1>8, <1>9

\* A loop that ends has told all that it owed, but those it passed over, who know no better.
LEMMA EndKnows ==
    ASSUME Listening, End, subs' = subs, NEW K \in SUBSET Nodes, NEW L, KnowIn(K, L, subs, calls, heard)
    PROVE  /\ Hearing' /\ KnowIn(K, L, subs, Tail(calls), heard')
           /\ calls # << >> /\ 1 \in DOMAIN calls /\ calls[1] \in Loops
           /\ Tail(calls) \in Seq(Loops) /\ Len(Tail(calls)) = Len(calls) - 1 /\ Len(calls) \in Nat
           /\ \A i \in DOMAIN Tail(calls) : i + 1 \in DOMAIN calls /\ Tail(calls)[i] = calls[i + 1]
           /\ \A k \in DOMAIN calls :
                k = 1 \/ (k - 1 \in DOMAIN Tail(calls) /\ Tail(calls)[k - 1] = calls[k])
<1>. DEFINE below == Tail(calls)
            c == calls[1]
<1>1. calls # << >> /\ calls \in Seq(Loops)
  BY DEF End, AllTold, HostTurn, Listening
<1>2. /\ 1 \in DOMAIN calls /\ c \in Loops
      /\ below \in Seq(Loops) /\ Len(below) = Len(calls) - 1 /\ Len(calls) \in Nat
      /\ \A i \in DOMAIN below : i + 1 \in DOMAIN calls /\ below[i] = calls[i + 1]
      /\ \A k \in DOMAIN calls : k = 1 \/ (k - 1 \in DOMAIN below /\ below[k - 1] = calls[k])
  BY <1>1
<1>3. c.node \in Nodes
  BY <1>2 DEF Loops, LoopsIn
<1>4. /\ heard' \in [Handlers -> [Nodes -> Flags \union {Unknown}]]
      /\ \A h \in Handlers, n \in Nodes :
           heard'[h][n] = IF h \in c.owed /\ n = c.node THEN Unknown ELSE heard[h][n]
      /\ \A h \in Handlers : h \notin c.owed => heard'[h] = heard[h]
  BY <1>3 DEF End, Listening, Hearing
<1>5. ASSUME NEW h \in Handlers \ ToSet(subs) PROVE heard'[h] = NothingHeard
  <2>1. heard[h] = NothingHeard /\ heard[h] \in [Nodes -> Flags \union {Unknown}]
    BY DEF Listening, Hearing
  <2>2. heard'[h] \in [Nodes -> Flags \union {Unknown}]
    BY <1>4
  <2>3. \A n \in Nodes : heard'[h][n] = Unknown
    BY <1>4, <2>1 DEF NothingHeard
  <2>. QED  BY <2>2, <2>3 DEF NothingHeard
<1>. HIDE DEF below, c
<1>6. \A n \in K : \A i \in DOMAIN below : below[i].node = n => below[i].flags = L[n]
  BY <1>2 DEF KnowIn
<1>7. ASSUME NEW n \in K, NEW h \in ToSet(subs)
      PROVE  \/ heard'[h][n] \in {Unknown, L[n]}
             \/ \E i \in DOMAIN below : below[i].node = n /\ h \in below[i].owed
  <2>0. h \in Handlers /\ n \in Nodes
    BY DEF Listening, ToSet
  <2>1. CASE heard[h][n] \in {Unknown, L[n]}
    BY <1>4, <2>0, <2>1
  <2>2. CASE \E k \in DOMAIN calls : calls[k].node = n /\ h \in calls[k].owed
    <3>1. PICK k \in DOMAIN calls : calls[k].node = n /\ h \in calls[k].owed
      BY <2>2
    <3>2. CASE k = 1
      BY <1>4, <2>0, <3>1, <3>2 DEF c
    <3>3. CASE k # 1
      BY <1>2, <3>1, <3>3
    <3>. QED  BY <3>2, <3>3
  <2>. QED  BY <2>1, <2>2 DEF KnowIn
<1>8. KnowIn(K, L, subs, below, heard')
  BY <1>6, <1>7 DEF KnowIn
<1>9. Hearing'
  BY <1>4, <1>5 DEF Hearing
<1>. QED  BY <1>1, <1>2, <1>8, <1>9 DEF below, c

\* A notification of n owes the flags now stored to all.
LEMMA NotifyKnows ==
    ASSUME NEW K, NEW L, NEW told, NEW below \in Seq(Loops), KnowIn(K, L, subs, below, told),
           NEW n, NEW f, NEW r, NEW K1, NEW L1,
           \A m \in K1 : m # n => m \in K /\ L1[m] = L[m],
           n \in K1 => L1[n] = f /\ \A i \in DOMAIN below : below[i].node # n
    PROVE  KnowIn(K1, L1, subs, <<Notification(n, f, r)>> \o below, told)
<1>. DEFINE c == Notification(n, f, r)
            loops == <<c>> \o below
<1>0. c.node = n /\ c.flags = f /\ c.owed = ToSet(subs)
  BY DEF Notification
<1>. HIDE DEF c
<1>1. /\ DOMAIN loops = 1 .. Len(below) + 1
      /\ loops[1] = c
      /\ \A i \in DOMAIN below : i + 1 \in DOMAIN loops /\ loops[i + 1] = below[i]
      /\ \A i \in DOMAIN loops : i = 1 \/ (i - 1 \in DOMAIN below /\ loops[i] = below[i - 1])
  OBVIOUS
<1>. HIDE DEF loops
<1>2. ASSUME NEW m \in K1, NEW i \in DOMAIN loops, loops[i].node = m
      PROVE  loops[i].flags = L1[m]
  <2>1. CASE i = 1
    BY <1>0, <1>1, <1>2, <2>1
  <2>2. CASE i # 1
    <3>1. i - 1 \in DOMAIN below /\ loops[i] = below[i - 1]
      BY <1>1, <2>2
    <3>2. m # n
      BY <1>2, <3>1
    <3>. QED  BY <1>2, <3>1, <3>2 DEF KnowIn
  <2>. QED  BY <2>1, <2>2
<1>3. ASSUME NEW m \in K1, NEW h \in ToSet(subs)
      PROVE  \/ told[h][m] \in {Unknown, L1[m]}
             \/ \E i \in DOMAIN loops : loops[i].node = m /\ h \in loops[i].owed
  <2>1. CASE m = n
    <3>1. 1 \in DOMAIN loops /\ loops[1].node = m /\ h \in loops[1].owed
      BY <1>0, <1>1, <2>1
    <3>. QED  BY <3>1
  <2>2. CASE m # n
    <3>1. m \in K /\ L1[m] = L[m]
      BY <2>2
    <3>2. CASE told[h][m] \in {Unknown, L[m]}
      BY <3>1, <3>2
    <3>3. CASE \E i \in DOMAIN below : below[i].node = m /\ h \in below[i].owed
      BY <1>1, <3>3
    <3>. QED  BY <3>1, <3>2, <3>3 DEF KnowIn
  <2>. QED  BY <2>1, <2>2
<1>4. KnowIn(K1, L1, subs, loops, told)
  BY <1>2, <1>3 DEF KnowIn
<1>. QED  BY <1>4 DEF loops, c

\* Who subscribes has heard nothing, and who unsubscribes is not asked.
LEMMA HostListKnows ==
    ASSUME Listening, HostList, NEW K \in SUBSET Nodes, NEW L, KnowIn(K, L, subs, calls, heard)
    PROVE  /\ Listening' /\ KnowIn(K, L, subs', calls', heard')
           /\ DOMAIN calls' = DOMAIN calls /\ \A i \in DOMAIN calls : calls'[i].rest = calls[i].rest
<1>1. ASSUME NEW h \in Handlers, Subscribe(h)
      PROVE  Listening' /\ KnowIn(K, L, subs', calls', heard') /\ calls' = calls
  <2>1. /\ subs' = Append(subs, h) /\ calls' = calls /\ heard' = heard
        /\ Len(subs) < MaxSubs /\ subs \in Seq(Handlers)
    BY <1>1 DEF Subscribe, Listening
  <2>2. subs' \in Seq(Handlers) /\ Len(subs') = Len(subs) + 1 /\ Len(subs) \in Nat
    BY <2>1
  <2>3. ToSet(subs') = ToSet(subs) \union {h}
    BY <2>1 DEF ToSet
  <2>4. Listening'
    BY <2>1, <2>2, <2>3, BoundsAssumption DEF Listening, Hearing
  <2>5. \A n \in K : heard[h][n] = Unknown \/ h \in ToSet(subs)
    BY DEF Listening, Hearing, NothingHeard
  <2>6. KnowIn(K, L, subs', calls', heard')
    BY <2>1, <2>3, <2>5 DEF KnowIn
  <2>. QED  BY <2>1, <2>4, <2>6
<1>2. ASSUME NEW h \in Handlers, Unsubscribe(h)
      PROVE  /\ Listening' /\ KnowIn(K, L, subs', calls', heard')
             /\ DOMAIN calls' = DOMAIN calls /\ \A k \in DOMAIN calls : calls'[k].rest = calls[k].rest
  <2>0. subs \in Seq(Handlers) /\ calls \in Seq(Loops)
    BY DEF Listening
  <2>1. PICK i \in DOMAIN subs : Leaves(h, i, Loops)
    BY <1>2, <2>0, UnsubscribeIs DEF Loops
  <2>2. /\ subs[i] = h /\ subs' \in Seq(Handlers) /\ i \in 1 .. Len(subs) /\ Len(subs) \in Nat
        /\ DOMAIN subs = 1 .. Len(subs) /\ DOMAIN subs' = 1 .. Len(subs) - 1
        /\ Len(subs') = Len(subs) - 1
        /\ \A j \in 1 .. Len(subs) - 1 : subs'[j] = IF j < i THEN subs[j] ELSE subs[j + 1]
        /\ calls' \in Seq(Loops) /\ DOMAIN calls' = DOMAIN calls
        /\ \A k \in DOMAIN calls :
             /\ calls'[k].node = calls[k].node /\ calls'[k].flags = calls[k].flags
             /\ calls'[k].rest = calls[k].rest
             /\ calls'[k].owed = calls[k].owed \intersect ToSet(subs')
    BY <2>1 DEF Leaves
  <2>3. ToSet(subs') \subseteq ToSet(subs) /\ ToSet(subs) \subseteq ToSet(subs') \union {h}
    <3>1. ToSet(subs') \subseteq ToSet(subs)
      <4>. SUFFICES ASSUME NEW j \in DOMAIN subs' PROVE subs'[j] \in ToSet(subs)
        BY DEF ToSet
      <4>1. j \in 1 .. Len(subs) - 1 /\ j \in DOMAIN subs /\ j + 1 \in DOMAIN subs
        BY <2>2
      <4>. QED  BY <2>2, <4>1 DEF ToSet
    <3>2. /\ \A j \in 1 .. i - 1 : j \in DOMAIN subs' /\ subs'[j] = subs[j]
          /\ \A j \in i .. Len(subs) - 1 : j \in DOMAIN subs' /\ subs'[j] = subs[j + 1]
      <4>1. /\ i \in 1 .. Len(subs) /\ Len(subs) \in Nat /\ DOMAIN subs' = 1 .. Len(subs) - 1
            /\ \A j \in 1 .. Len(subs) - 1 : subs'[j] = IF j < i THEN subs[j] ELSE subs[j + 1]
        BY <2>2
      <4>. QED  BY <4>1
    <3>3. ASSUME NEW j \in DOMAIN subs, subs[j] # h PROVE \E k \in DOMAIN subs' : subs'[k] = subs[j]
      <4>1. CASE j \in 1 .. i - 1
        BY <3>2, <4>1
      <4>2. CASE j \in i + 1 .. Len(subs)
        <5>1. j - 1 \in i .. Len(subs) - 1 /\ (j - 1) + 1 = j
          BY <2>2, <4>2
        <5>. QED  BY <3>2, <5>1
      <4>3. j # i /\ j \in 1 .. Len(subs)
        BY <2>2, <3>3
      <4>. QED  BY <2>2, <4>1, <4>2, <4>3
    <3>. QED  BY <3>1, <3>3 DEF ToSet
  <2>4. heard' = IF h \in ToSet(subs') THEN heard ELSE [heard EXCEPT ![h] = NothingHeard]
    BY <1>2 DEF Unsubscribe
  <2>5. NothingHeard \in [Nodes -> Flags \union {Unknown}]
    BY DEF NothingHeard
  <2>6. Hearing'
    <3>1. heard' \in [Handlers -> [Nodes -> Flags \union {Unknown}]]
      BY <2>4, <2>5 DEF Listening, Hearing
    <3>2. ASSUME NEW g \in Handlers \ ToSet(subs') PROVE heard'[g] = NothingHeard
      BY <2>3, <2>4 DEF Listening, Hearing
    <3>. QED  BY <3>1, <3>2 DEF Hearing
  <2>7. Listening'
    BY <2>2, <2>6, BoundsAssumption DEF Listening
  <2>8. KnowIn(K, L, subs', calls', heard')
    <3>1. ASSUME NEW n \in K, NEW g \in ToSet(subs')
          PROVE  \/ heard'[g][n] \in {Unknown, L[n]}
                 \/ \E k \in DOMAIN calls' : calls'[k].node = n /\ g \in calls'[k].owed
      <4>0. g \in ToSet(subs)
        BY <2>3
      <4>1. g \in ToSet(subs) /\ g \in Handlers
        BY <2>0, <4>0 DEF ToSet
      <4>2. heard'[g] = heard[g]
        BY <2>4, <4>1 DEF Listening, Hearing
      <4>. QED  BY <2>2, <4>1, <4>2 DEF KnowIn
    <3>2. \A n \in K : \A k \in DOMAIN calls' : calls'[k].node = n => calls'[k].flags = L[n]
      BY <2>2 DEF KnowIn
    <3>. QED  BY <3>1, <3>2 DEF KnowIn
  <2>. QED  BY <2>2, <2>7, <2>8
<1>. QED  BY <1>1, <1>2 DEF HostList
-----------------------------------------------------------------------------
(***************************************************************************)
(* What a page's observer has stored.                                      *)
(***************************************************************************)
Obs == [node : Nodes, flags : Flags]

\* A set of numbers has a least one.
LEMMA Least ==
    ASSUME NEW T, T \subseteq Nat, T # {}
    PROVE  \E m \in T : \A n \in T : m <= n
<1>1. PICK m \in T : \A n \in T : ~ (<<n, m>> \in OpToRel(<, Nat))
  BY WFMin, NatLessThanWellFounded
<1>2. \A n \in T : ~ (n < m)
  BY <1>1 DEF OpToRel
<1>. QED  BY <1>2

\* observe_tree reads every element of a page that has its root.
LEMMA TreeIsRead ==
    ASSUME Reading
    PROVE  /\ ObserveTree \in Seq(Obs)
           /\ \A j \in DOMAIN ObserveTree : ObserveTree[j].flags = dom[ObserveTree[j].node]
           /\ dom[Root] # Gone =>
                \A n \in Nodes : dom[n] # Gone => \E j \in DOMAIN ObserveTree : ObserveTree[j] = Observation(n)
<1>0. CASE dom[Root] = Gone
  <2>1. ObserveTree = << >>
    BY <1>0 DEF ObserveTree
  <2>. QED  BY <1>0, <2>1
<1>. SUFFICES ASSUME dom[Root] # Gone
              PROVE  /\ ObserveTree \in Seq(Obs)
                     /\ \A j \in DOMAIN ObserveTree : ObserveTree[j].flags = dom[ObserveTree[j].node]
                     /\ \A n \in Nodes : dom[n] # Gone =>
                          \E j \in DOMAIN ObserveTree : ObserveTree[j] = Observation(n)
  BY <1>0
<1>. DEFINE below == {n \in Nodes \ {Root} : dom[n] # Gone}
            s == SetToSeq(below)
            rest == [i \in DOMAIN s |-> Observation(s[i])]
<1>1. IsFiniteSet(below)
  <2>1. below \subseteq Nodes
    OBVIOUS
  <2>. QED  BY <2>1, PageAssumption, FS_Subset
<1>2. \A n \in below \union {Root} : Observation(n) \in Obs /\ Observation(n).flags = dom[Observation(n).node]
  BY PageAssumption DEF Observation, Obs, Reading
<1>3. /\ Cardinality(below) \in Nat
      /\ s \in [1 .. Cardinality(below) -> below] /\ IsInjective(s)
  <2>1. Cardinality(below) \in Nat /\ ExistsBijection(1 .. Cardinality(below), below)
    BY <1>1, FS_CardinalityType
  <2>2. \E f \in [1 .. Cardinality(below) -> below] : IsInjective(f)
    BY <2>1 DEF ExistsBijection, Bijection, Injection, IsInjective
  <2>. HIDE DEF below
  <2>. QED  BY <2>1, <2>2 DEF SetToSeq
<1>4. \A n \in below : \E i \in DOMAIN s : s[i] = n
  <2>1. s \in Injection(1 .. Cardinality(below), below)
    BY <1>3 DEF Injection
  <2>2. Cardinality(1 .. Cardinality(below)) = Cardinality(below)
    BY <1>3, FS_Interval
  <2>3. s \in Surjection(1 .. Cardinality(below), below)
    <3>. HIDE DEF below, s
    <3>. QED  BY <1>1, <2>1, <2>2, FS_Injection
  <2>. QED  BY <1>3, <2>3 DEF Surjection
<1>5. ObserveTree = <<Observation(Root)>> \o rest
  BY DEF ObserveTree
<1>. HIDE DEF s, below
<1>6. /\ DOMAIN s = 1 .. Cardinality(below)
      /\ rest \in Seq(Obs) /\ Len(rest) = Cardinality(below)
      /\ \A i \in DOMAIN s : rest[i] = Observation(s[i])
  BY <1>2, <1>3
<1>. HIDE DEF rest
<1>7. /\ ObserveTree \in Seq(Obs) /\ DOMAIN ObserveTree = 1 .. Cardinality(below) + 1
      /\ ObserveTree[1] = Observation(Root)
      /\ \A i \in 1 .. Cardinality(below) : ObserveTree[i + 1] = Observation(s[i])
  <2>1. /\ ObserveTree \in Seq(Obs) /\ DOMAIN ObserveTree = 1 .. Cardinality(below) + 1
        /\ ObserveTree[1] = Observation(Root)
        /\ \A i \in 1 .. Cardinality(below) : ObserveTree[i + 1] = rest[i]
    <3>1. Observation(Root) \in Obs
      BY <1>2
    <3>. QED  BY <1>3, <1>5, <1>6, <3>1
  <2>. QED  BY <1>6, <2>1
<1>8. ASSUME NEW j \in DOMAIN ObserveTree PROVE ObserveTree[j].flags = dom[ObserveTree[j].node]
  <2>1. CASE j = 1
    BY <1>2, <1>7, <2>1
  <2>2. CASE j # 1
    <3>1. j - 1 \in 1 .. Cardinality(below) /\ ObserveTree[j] = Observation(s[j - 1])
      <4>1. j - 1 \in 1 .. Cardinality(below) /\ (j - 1) + 1 = j
        BY <1>3, <1>7, <2>2
      <4>. QED  BY <1>7, <4>1
    <3>2. s[j - 1] \in below
      BY <1>3, <3>1
    <3>. QED  BY <1>2, <3>1, <3>2
  <2>. QED  BY <2>1, <2>2
<1>9. ASSUME NEW n \in Nodes, dom[n] # Gone
      PROVE  \E j \in DOMAIN ObserveTree : ObserveTree[j] = Observation(n)
  <2>1. CASE n = Root
    BY <1>3, <1>7, <2>1
  <2>2. CASE n # Root
    <3>1. n \in below
      BY <1>9, <2>2 DEF below
    <3>2. PICK i \in 1 .. Cardinality(below) : s[i] = n
      BY <1>4, <1>6, <3>1
    <3>3. i + 1 \in DOMAIN ObserveTree /\ ObserveTree[i + 1] = Observation(n)
      BY <1>3, <1>7, <3>2
    <3>. QED  BY <3>3
  <2>. QED  BY <2>1, <2>2
<1>. QED  BY <1>7, <1>8, <1>9

\* A step of a walk: what it passes by is stored, what is left of it stays in the walk.
LEMMA VisitReads ==
    ASSUME Listening, Reading, NEW list \in Seq(Obs), NEW below \in Seq(Loops), Visit(list, below),
           Hearing', KnowIn(Nodes \ renewed, lastFlags, subs, below, heard'), NEW K \in SUBSET Nodes,
           subs' = subs, dom' = dom
    PROVE  /\ Listening' /\ lastFlags' \in [Nodes -> Flags \union {Unread}]
           /\ KnowIn(Nodes \ renewed', lastFlags', subs', calls', heard')
           /\ IsFresh(list, K) =>
                /\ \A i \in DOMAIN calls' :
                     IsFresh(calls'[i].rest, K) \/ \E k \in DOMAIN below : calls'[i].rest = below[k].rest
                /\ \A n \in K :
                     \/ dom[n] \in {Gone, lastFlags[n]}
                     \/ In(Observation(n), list) \/ Under(Observation(n), below)
                     => dom[n] \in {Gone, lastFlags'[n]} \/ Under(Observation(n), calls')
<1>. DEFINE news == {i \in DOMAIN list : Tells(list[i])}
            i == CHOOSE k \in news : \A j \in news : k <= j
            o == list[i]
            left == SubSeq(list, i + 1, Len(list))
<1>0. \A n \in Nodes : Observation(n).node = n /\ Observation(n).flags = dom[n]
  BY DEF Observation
<1>1. ASSUME NEW j \in DOMAIN list, j \notin news
      PROVE  list[j].flags = lastFlags[list[j].node]
  BY <1>1 DEF Tells
<1>2. CASE news = {}
  <2>1. calls' = below /\ lastFlags' = lastFlags /\ renewed' = renewed
    BY <1>2 DEF Visit
  <2>2. Listening'
    BY <2>1 DEF Listening
  <2>3. ASSUME IsFresh(list, K), NEW n \in K, In(Observation(n), list)
        PROVE  dom[n] = lastFlags[n]
    <3>1. PICK j \in DOMAIN list : list[j] = Observation(n)
      BY <2>3 DEF In
    <3>. QED  BY <1>0, <1>1, <1>2, <3>1
  <2>4. /\ KnowIn(Nodes \ renewed', lastFlags', subs', calls', heard')
        /\ lastFlags' \in [Nodes -> Flags \union {Unread}]
    BY <2>1 DEF Reading
  <2>5. ASSUME IsFresh(list, K), NEW n \in K,
               \/ dom[n] \in {Gone, lastFlags[n]}
               \/ In(Observation(n), list) \/ Under(Observation(n), below)
        PROVE  dom[n] \in {Gone, lastFlags'[n]} \/ Under(Observation(n), calls')
    BY <2>1, <2>3, <2>5
  <2>6. \A k \in DOMAIN calls' : \E m \in DOMAIN below : calls'[k].rest = below[m].rest
    BY <2>1
  <2>. QED  BY <2>2, <2>4, <2>5, <2>6
<1>3. CASE news # {}
  <2>1. news \subseteq Nat /\ news \subseteq DOMAIN list
    OBVIOUS
  <2>2. i \in news /\ \A j \in news : i <= j
    <3>1. \E k \in news : \A j \in news : k <= j
      BY <1>3, <2>1, Least
    <3>. HIDE DEF news
    <3>. QED  BY <3>1
  <2>3. /\ lastFlags' = [lastFlags EXCEPT ![o.node] = o.flags]
        /\ calls' = <<Notification(o.node, o.flags, left)>> \o below
        /\ renewed' = RenewedBy(o.node, below)
    BY <1>3 DEF Visit
  <2>4. o \in Obs /\ i \in 1 .. Len(list)
    BY <2>1, <2>2
  <2>. HIDE DEF news, i
  <2>5. o.node \in Nodes /\ o.flags \in Flags
    BY <2>4 DEF Obs
  <2>6. /\ left \in Seq(Obs)
        /\ \A j \in DOMAIN left : i + j \in DOMAIN list /\ left[j] = list[i + j]
        /\ \A j \in DOMAIN list : j > i => j - i \in DOMAIN left /\ left[j - i] = list[j]
    BY <2>4
  <2>. DEFINE c == Notification(o.node, o.flags, left)
  <2>7. c \in Loops /\ c.rest = left /\ c.node = o.node
    <3>1. ToSet(subs) \in SUBSET Handlers
      BY DEF Listening, ToSet
    <3>2. left \in Seq([node : Nodes, flags : Flags])
      BY <2>6 DEF Obs
    <3>. HIDE DEF o, left
    <3>. QED  BY <2>5, <3>1, <3>2 DEF Loops, LoopsIn, Notification
  <2>. HIDE DEF o, left, c
  <2>8. /\ calls' = <<c>> \o below
        /\ calls' \in Seq(Loops) /\ DOMAIN calls' = 1 .. Len(below) + 1
        /\ calls'[1] = c
        /\ \A k \in DOMAIN below : k + 1 \in DOMAIN calls' /\ calls'[k + 1] = below[k]
        /\ \A k \in DOMAIN calls' : k = 1 \/ (k - 1 \in DOMAIN below /\ calls'[k] = below[k - 1])
    BY <2>3, <2>7 DEF c
  <2>9. Listening'
    BY <2>8 DEF Listening
  <2>10. /\ lastFlags' \in [Nodes -> Flags \union {Unread}]
         /\ lastFlags'[o.node] = o.flags
         /\ \A n \in Nodes : n # o.node => lastFlags'[n] = lastFlags[n]
    BY <2>3, <2>5 DEF Reading
  <2>11. KnowIn(Nodes \ renewed', lastFlags', subs', calls', heard')
    <3>1. /\ renewed \subseteq renewed'
          /\ o.node \in renewed' \/ \A k \in DOMAIN below : below[k].node # o.node
      BY <2>3 DEF RenewedBy
    <3>2. KnowIn(Nodes \ renewed', lastFlags', subs, <<Notification(o.node, o.flags, left)>> \o below, heard')
      <4>1. \A m \in Nodes \ renewed' : m # o.node => m \in Nodes \ renewed /\ lastFlags'[m] = lastFlags[m]
        BY <2>10, <3>1
      <4>2. o.node \in Nodes \ renewed' =>
              lastFlags'[o.node] = o.flags /\ \A k \in DOMAIN below : below[k].node # o.node
        BY <2>10, <3>1
      <4>. QED  BY <4>1, <4>2, NotifyKnows
    <3>. QED  BY <2>3, <3>2
  <2>12. ASSUME IsFresh(list, K), NEW k \in DOMAIN calls'
         PROVE  IsFresh(calls'[k].rest, K) \/ \E m \in DOMAIN below : calls'[k].rest = below[m].rest
    <3>1. CASE k = 1
      BY <2>6, <2>7, <2>8, <2>12, <3>1 DEF IsFresh
    <3>2. CASE k # 1
      BY <2>8, <3>2
    <3>. QED  BY <3>1, <3>2
  <2>13. ASSUME IsFresh(list, K), NEW n \in K,
                \/ dom[n] \in {Gone, lastFlags[n]}
                \/ In(Observation(n), list) \/ Under(Observation(n), below)
         PROVE  dom[n] \in {Gone, lastFlags'[n]} \/ Under(Observation(n), calls')
    <3>1. CASE n = o.node
      <4>1. o.flags = dom[o.node]
        BY <2>4, <2>13, <3>1 DEF IsFresh, o
      <4>. QED  BY <2>10, <3>1, <4>1
    <3>2. CASE n # o.node /\ dom[n] \in {Gone, lastFlags[n]}
      BY <2>10, <3>2
    <3>3. CASE Under(Observation(n), below)
      BY <2>8, <3>3 DEF Under
    <3>4. CASE n # o.node /\ In(Observation(n), list)
      <4>1. PICK j \in DOMAIN list : list[j] = Observation(n)
        BY <3>4 DEF In
      <4>2. CASE j > i
        <5>1. In(Observation(n), left)
          BY <2>6, <4>1, <4>2 DEF In
        <5>2. 1 \in DOMAIN calls' /\ calls'[1].rest = left
          BY <2>7, <2>8
        <5>. QED  BY <5>1, <5>2 DEF Under
      <4>3. CASE j = i
        BY <1>0, <3>4, <4>1, <4>3 DEF o
      <4>4. CASE j < i
        <5>1. j \notin news
          BY <2>2, <2>4, <4>4
        <5>2. dom[n] = lastFlags[n]
          BY <1>0, <1>1, <4>1, <5>1
        <5>. QED  BY <2>10, <3>4, <5>2
      <4>. QED  BY <2>4, <4>2, <4>3, <4>4
    <3>. QED  BY <2>13, <3>1, <3>2, <3>3, <3>4
  <2>. QED  BY <2>9, <2>10, <2>11, <2>12, <2>13
<1>. QED  BY <1>2, <1>3

\* A walk over what is as the page keeps the rest of it so.
LEMMA VisitCatches ==
    ASSUME Listening, Reading, NEW list \in Seq(Obs), NEW below \in Seq(Loops), Visit(list, below),
           Hearing', KnowIn(Nodes \ renewed, lastFlags, subs, below, heard'),
           subs' = subs, dom' = dom,
           watching' \ queued' # {} =>
             /\ IsFresh(list, Nodes \ unseen')
             /\ \A k \in DOMAIN below : IsFresh(below[k].rest, Nodes \ unseen')
             /\ \A n \in Nodes \ unseen' : \/ dom[n] \in {Gone, lastFlags[n]}
                                           \/ In(Observation(n), list) \/ Under(Observation(n), below)
    PROVE  /\ Listening' /\ lastFlags' \in [Nodes -> Flags \union {Unread}] /\ Caught'
           /\ KnowIn(Nodes \ renewed', lastFlags', subs', calls', heard')
<1>0. PICK K \in SUBSET Nodes : K = Nodes \ unseen'
  OBVIOUS
<1>1. SUFFICES ASSUME watching' \ queued' # {}
               PROVE  /\ \A i \in DOMAIN calls' : IsFresh(calls'[i].rest, K)
                      /\ \A n \in K : dom[n] \in {Gone, lastFlags'[n]} \/ Under(Observation(n), calls')
  <2>1. ASSUME NEW list1, IsFresh(list1, K) PROVE IsFresh(list1, K)'
    BY <2>1 DEF IsFresh
  <2>2. \A n : Observation(n)' = Observation(n)
    BY DEF Observation
  <2>3. ASSUME watching' \ queued' # {} =>
                 /\ \A i \in DOMAIN calls' : IsFresh(calls'[i].rest, K)
                 /\ \A n \in K : dom[n] \in {Gone, lastFlags'[n]} \/ Under(Observation(n), calls')
        PROVE  Caught'
    BY <1>0, <2>2, <2>3 DEF Caught, IsFresh, Under, In, Gone
  <2>. QED  BY <2>3, VisitReads
<1>2. /\ \A i \in DOMAIN calls' :
           IsFresh(calls'[i].rest, K) \/ \E k \in DOMAIN below : calls'[i].rest = below[k].rest
      /\ \A n \in K :
           \/ dom[n] \in {Gone, lastFlags[n]}
           \/ In(Observation(n), list) \/ Under(Observation(n), below)
           => dom[n] \in {Gone, lastFlags'[n]} \/ Under(Observation(n), calls')
  BY <1>0, <1>1, VisitReads
<1>. QED  BY <1>0, <1>1, <1>2

\* A walk of the whole page catches up with all of it.
LEMMA WalkCatches ==
    ASSUME Listening, Reading, Caught, RefreshAll, dom' = dom, watching' # {} => dom[Root] # Gone,
           KnowIn(Nodes \ renewed, lastFlags, subs, calls, heard),
           watching' \ queued' # {} => calls = << >> \/ watching \ queued # {}
    PROVE  /\ Listening' /\ lastFlags' \in [Nodes -> Flags \union {Unread}] /\ Caught'
           /\ KnowIn(Nodes \ renewed', lastFlags', subs', calls', heard')
           /\ unseen' \subseteq Nodes
<1>1. /\ ObserveTree \in Seq(Obs) /\ IsFresh(ObserveTree, Nodes \ unseen')
      /\ dom[Root] # Gone => \A n \in Nodes : dom[n] # Gone => In(Observation(n), ObserveTree)
  BY TreeIsRead DEF IsFresh, In
<1>2. /\ calls # << >> => unseen' = unseen
      /\ unseen' \subseteq Nodes /\ Hearing' /\ subs' = subs /\ heard' = heard
      /\ calls \in Seq(Loops)
  BY DEF RefreshAll, Read, Reading, Listening, Hearing
<1>3. watching' \ queued' # {} => \A k \in DOMAIN calls : IsFresh(calls[k].rest, Nodes \ unseen')
  <2>1. \A k \in DOMAIN calls : calls # << >>
    BY <1>2
  <2>. QED  BY <1>2, <2>1 DEF Caught
<1>. QED  BY <1>1, <1>2, <1>3, VisitCatches DEF RefreshAll

\* Every step of a page and its observer.
LEMMA PageKnows ==
    ASSUME PageInv, "connect" \notin Inside, [Next]_vars
    PROVE  PageInv'
<1>. USE DEF PageInv
<1>. DEFINE Known == KnowIn(Nodes \ renewed, lastFlags, subs, calls, heard)
            Rest == /\ Listening' /\ Reading' /\ Caught'
                    /\ KnowIn(Nodes \ renewed', lastFlags', subs', calls', heard')
<1>. SUFFICES Rest
  OBVIOUS
<1>1. ASSUME HostList, UNCHANGED Observed PROVE Rest
  <2>1. /\ Listening' /\ KnowIn(Nodes \ renewed, lastFlags, subs', calls', heard')
        /\ DOMAIN calls' = DOMAIN calls /\ \A i \in DOMAIN calls : calls'[i].rest = calls[i].rest
    BY <1>1, HostListKnows
  <2>. QED  BY <1>1, <2>1 DEF Observed, Wiring, Reading, Caught, Observation, Under, In, IsFresh
<1>2. ASSUME NEW n \in Nodes, Refresh(n) PROVE Rest
  <2>. DEFINE list == <<Observation(n)>>
  <2>1. /\ Visit(list, calls) /\ subs' = subs /\ heard' = heard /\ dom' = dom /\ dom[n] # Gone
        /\ unseen' = IF calls = << >> THEN unseen \ {n} ELSE unseen
        /\ UNCHANGED Wiring
    BY <1>2 DEF Refresh, Read
  <2>2. list \in Seq(Obs) /\ IsFresh(list, Nodes \ unseen') /\ In(Observation(n), list)
    <3>1. Observation(n) \in Obs /\ Observation(n).flags = dom[Observation(n).node]
      BY <2>1 DEF Observation, Obs, Reading
    <3>. QED  BY <3>1 DEF IsFresh, In
  <2>. HIDE DEF list
  <2>3. /\ Listening' /\ lastFlags' \in [Nodes -> Flags \union {Unread}] /\ Caught'
        /\ KnowIn(Nodes \ renewed', lastFlags', subs', calls', heard')
    <3>1. ASSUME watching' \ queued' # {}
          PROVE  /\ \A k \in DOMAIN calls : IsFresh(calls[k].rest, Nodes \ unseen')
                 /\ \A m \in Nodes \ unseen' : \/ dom[m] \in {Gone, lastFlags[m]}
                                               \/ In(Observation(m), list) \/ Under(Observation(m), calls)
      <4>1. /\ \A k \in DOMAIN calls : IsFresh(calls[k].rest, Nodes \ unseen)
            /\ \A m \in Nodes \ unseen : dom[m] \in {Gone, lastFlags[m]} \/ Under(Observation(m), calls)
        BY <2>1, <3>1 DEF Caught, Wiring
      <4>2. \A k \in DOMAIN calls : IsFresh(calls[k].rest, Nodes \ unseen')
        <5>1. \A k \in DOMAIN calls : calls # << >>
          BY DEF Listening
        <5>. QED  BY <2>1, <4>1, <5>1
      <4>. QED  BY <2>1, <2>2, <4>1, <4>2
    <3>2. calls \in Seq(Loops) /\ Hearing'
      BY <2>1 DEF Listening, Hearing
    <3>. QED  BY <2>1, <2>2, <3>1, <3>2, VisitCatches
  <2>. QED  BY <2>1, <2>3 DEF Reading, Wiring
<1>3. ASSUME RefreshTree PROVE Rest
  <2>1. RefreshAll /\ dom' = dom /\ UNCHANGED Wiring
    BY <1>3 DEF RefreshTree
  <2>. QED  BY <2>1, WalkCatches DEF Reading, Wiring
<1>4. ASSUME Connect PROVE Rest
  <2>1. /\ RefreshAll /\ dom' = dom /\ calls = << >> /\ dom[Root] # Gone
        /\ made' = made + 1 /\ mutationObserver' = made' /\ live' = live \union {made'} /\ queued' = queued
        /\ watching' = watching \union {made'}
    BY <1>4 DEF Connect, Wire, May
  <2>2. /\ Listening' /\ lastFlags' \in [Nodes -> Flags \union {Unread}] /\ Caught'
        /\ KnowIn(Nodes \ renewed', lastFlags', subs', calls', heard') /\ unseen' \subseteq Nodes
    BY <2>1, WalkCatches
  <2>. QED  BY <2>1, <2>2 DEF Reading
<1>5. ASSUME Disconnect PROVE Rest
  <2>1. /\ UNCHANGED <<subs, calls, heard, dom, lastFlags, made, renewed, unseen>>
        /\ live' = live \ {mutationObserver} /\ queued' = queued \ {mutationObserver}
        /\ watching' = watching \ {mutationObserver} /\ mutationObserver' = Nobody
    BY <1>5 DEF Disconnect, core
  <2>2. Listening' /\ KnowIn(Nodes \ renewed', lastFlags', subs', calls', heard')
    BY <2>1 DEF Listening, Hearing
  <2>3. Reading'
    BY <2>1 DEF Reading, Nobody
  <2>4. Caught'
    <3>1. watching' \ queued' # {} => watching \ queued # {}
      BY <2>1
    <3>. QED  BY <2>1, <3>1 DEF Caught, Observation, Under, In, IsFresh
  <2>. QED  BY <2>2, <2>3, <2>4
<1>6. ASSUME NEW page \in Pages, Mutate(page) \/ Overlook(page) \/ Replace(page) PROVE Rest
  <2>1. /\ UNCHANGED <<subs, calls, heard, lastFlags, mutationObserver, live, made, renewed>>
        /\ dom' = page /\ page \in [Nodes -> Flags \union {Gone}]
    BY <1>6, PageAssumption DEF Mutate, Overlook, Replace, Turn, core
  <2>2. Listening' /\ KnowIn(Nodes \ renewed', lastFlags', subs', calls', heard')
    BY <2>1 DEF Listening, Hearing
  <2>3. CASE Mutate(page)
    <3>1. /\ queued' = queued \union watching /\ watching' = watching /\ page[Root] # Gone
          /\ unseen' \in {unseen, {}}
      BY <2>3 DEF Mutate
    <3>2. Reading' /\ Caught'
      BY <2>1, <3>1 DEF Reading, Caught
    <3>. QED  BY <2>2, <3>2
  <2>4. CASE Overlook(page)
    <3>1. /\ queued' = queued /\ watching' = watching
          /\ unseen' = unseen \union {n \in Nodes : page[n] # dom[n]}
          /\ \A n \in Nodes : page[n] = Gone <=> dom[n] = Gone
      BY <2>4 DEF Overlook
    <3>2. \A n \in Nodes \ unseen' : n \notin unseen /\ dom'[n] = dom[n] /\ Observation(n)' = Observation(n)
      BY <2>1, <3>1 DEF Observation
    <3>3. Reading'
      BY <2>1, <3>1, PageAssumption DEF Reading
    <3>4. Caught'
      <4>1. SUFFICES ASSUME watching \ queued # {}
                     PROVE  /\ \A i \in DOMAIN calls : \A j \in DOMAIN calls[i].rest :
                                 calls[i].rest[j].node \in Nodes \ unseen' =>
                                   calls[i].rest[j].flags = dom'[calls[i].rest[j].node]
                            /\ \A n \in Nodes \ unseen' : \/ dom'[n] \in {Gone, lastFlags[n]}
                                                          \/ Under(Observation(n)', calls)
        BY <2>1, <3>1 DEF Caught, IsFresh, Under, In, Gone
      <4>. QED  BY <3>2, <4>1 DEF Caught, IsFresh
    <3>. QED  BY <2>2, <3>3, <3>4
  <2>5. CASE Replace(page)
    <3>1. watching' = {} /\ queued' = queued /\ unseen' = unseen
      BY <2>5 DEF Replace
    <3>2. Reading' /\ Caught'
      BY <2>1, <3>1 DEF Reading, Caught
    <3>. QED  BY <2>2, <3>2
  <2>. QED  BY <1>6, <2>3, <2>4, <2>5
<1>7. ASSUME Library, UNCHANGED Observed PROVE Rest
  <2>1. /\ Listening' /\ KnowIn(Nodes \ renewed, lastFlags, subs', calls', heard')
        /\ DOMAIN calls' = DOMAIN calls /\ \A i \in DOMAIN calls : calls'[i].rest = calls[i].rest
    BY <1>7, LibraryKnows
  <2>. QED  BY <1>7, <2>1 DEF Observed, Wiring, Reading, Caught, Observation, Under, In, IsFresh
<1>8. ASSUME Finish PROVE Rest
  <2>. DEFINE list == calls[1].rest
              below == Tail(calls)
  <2>1. /\ End /\ Visit(list, below) /\ subs' = subs /\ dom' = dom /\ unseen' = unseen
        /\ UNCHANGED Wiring
    BY <1>8 DEF Finish
  <2>2. /\ Hearing' /\ KnowIn(Nodes \ renewed, lastFlags, subs, below, heard')
        /\ 1 \in DOMAIN calls /\ below \in Seq(Loops)
        /\ \A i \in DOMAIN below : i + 1 \in DOMAIN calls /\ below[i] = calls[i + 1]
        /\ \A k \in DOMAIN calls : k = 1 \/ (k - 1 \in DOMAIN below /\ below[k - 1] = calls[k])
    BY <2>1, EndKnows
  <2>3. list \in Seq(Obs)
    BY <2>2, LoopIs DEF Obs
  <2>. HIDE DEF below, list
  <2>4. ASSUME watching' \ queued' # {}
        PROVE  /\ IsFresh(list, Nodes \ unseen')
               /\ \A k \in DOMAIN below : IsFresh(below[k].rest, Nodes \ unseen')
               /\ \A n \in Nodes \ unseen' : \/ dom[n] \in {Gone, lastFlags[n]}
                                             \/ In(Observation(n), list) \/ Under(Observation(n), below)
    <3>1. /\ \A k \in DOMAIN calls : IsFresh(calls[k].rest, Nodes \ unseen)
          /\ \A n \in Nodes \ unseen : dom[n] \in {Gone, lastFlags[n]} \/ Under(Observation(n), calls)
      BY <2>1, <2>4 DEF Caught, Wiring
    <3>2. ASSUME NEW n \in Nodes, Under(Observation(n), calls)
          PROVE  In(Observation(n), list) \/ Under(Observation(n), below)
      <4>1. PICK k \in DOMAIN calls : In(Observation(n), calls[k].rest)
        BY <3>2 DEF Under
      <4>2. CASE k = 1
        BY <4>1, <4>2 DEF list
      <4>3. CASE k # 1
        BY <2>2, <4>1, <4>3 DEF Under
      <4>. QED  BY <4>2, <4>3
    <3>3. \A k \in DOMAIN below : IsFresh(below[k].rest, Nodes \ unseen)
      BY <2>2, <3>1
    <3>. QED  BY <2>1, <2>2, <3>1, <3>2, <3>3 DEF list
  <2>5. /\ Listening' /\ lastFlags' \in [Nodes -> Flags \union {Unread}] /\ Caught'
        /\ KnowIn(Nodes \ renewed', lastFlags', subs', calls', heard')
    BY <2>1, <2>2, <2>3, <2>4, VisitCatches
  <2>. QED  BY <2>1, <2>5 DEF Reading, Wiring
<1>9. ASSUME NEW m \in 1 .. Observers, OnMutation(m) PROVE Rest
  <2>1. /\ RefreshAll /\ dom' = dom /\ calls = << >> /\ mutationObserver' = mutationObserver
        /\ live' = live /\ watching' = watching /\ queued' = queued \ {m} /\ made' = made
    BY <1>9 DEF OnMutation, HandOver
  <2>2. /\ Listening' /\ lastFlags' \in [Nodes -> Flags \union {Unread}] /\ Caught'
        /\ KnowIn(Nodes \ renewed', lastFlags', subs', calls', heard') /\ unseen' \subseteq Nodes
    BY <2>1, WalkCatches DEF Reading
  <2>. QED  BY <2>1, <2>2 DEF Reading
<1>10. CASE UNCHANGED vars
  BY <1>10 DEF vars, core, Wiring, Listening, Hearing, Reading, Caught, Observation, Under, In, IsFresh
<1>. HIDE DEF Rest
<1>. QED  BY <1>1, <1>2, <1>3, <1>4, <1>5, <1>6, <1>7, <1>8, <1>9, <1>10 DEF Next, Host, Page, Loop, Callback

\* Once quiet, nothing is left to visit and nobody is owed.
LEMMA PageInvMeans == ASSUME PageInv PROVE Settled
<1>1. subs \in BoundedSeq(Handlers, MaxSubs)
  <2>1. subs \in Seq(Handlers) /\ Len(subs) \in 0 .. MaxSubs /\ DOMAIN subs = 1 .. Len(subs)
    BY BoundsAssumption DEF PageInv, Listening
  <2>2. subs \in [1 .. Len(subs) -> Handlers]
    BY <2>1
  <2>. QED  BY <2>1, <2>2 DEF BoundedSeq, SeqOf
<1>2. TypeOK
  BY <1>1, LoopIs DEF PageInv, Reading, TypeOK
<1>3. ASSUME Quiet, watching # {}, NEW n \in Nodes \ unseen PROVE dom[n] \in {Gone, lastFlags[n]}
  <2>1. watching \ queued # {} /\ DOMAIN calls = {}
    BY <1>3 DEF Quiet
  <2>. QED  BY <2>1 DEF PageInv, Caught, Under
<1>4. ASSUME Quiet, watching # {}, NEW h \in ToSet(subs), NEW n \in Nodes \ (renewed \union unseen),
             dom[n] # Gone
      PROVE  heard[h][n] \in {Unknown, dom[n]}
  <2>1. DOMAIN calls = {}
    BY <1>4 DEF Quiet
  <2>2. heard[h][n] \in {Unknown, lastFlags[n]}
    BY <2>1 DEF PageInv, KnowIn
  <2>3. dom[n] = lastFlags[n]
    BY <1>3, <1>4
  <2>. QED  BY <2>2, <2>3
<1>. QED  BY <1>2, <1>3, <1>4 DEF Settled, Stored, HeardTheLast
-----------------------------------------------------------------------------
\* The same of fixtures, whose flags are stored as they are given: an emission tells the
\* flags stored, and a change that is not emitted stores what was stored.
LEMMA EmitKnows ==
    ASSUME Listening, NEW n \in Nodes, NEW f \in Flags, Memory!Emit(n, f), Len(calls) < MaxCalls,
           KnowIn(Registered, fixtureFlags, subs, calls, heard),
           fixtureFlags'[n] = f,
           \A m \in Nodes : m # n => registry'[m] = registry[m] /\ fixtureFlags'[m] = fixtureFlags[m]
    PROVE  Listening' /\ Len(calls') <= MaxCalls /\ KnowIn(Registered', fixtureFlags', subs', calls', heard')
<1>. DEFINE c == Notification(n, f, << >>)
<1>1. /\ calls' = <<c>> \o calls /\ subs' = subs /\ heard' = heard
      /\ fixturesRenewed' = fixturesRenewed
           \union (IF \E i \in DOMAIN calls : calls[i].node = n THEN {n} ELSE {})
  BY OneCore DEF Memory!Emit
<1>2. c \in Loops
  <2>1. ToSet(subs) \in SUBSET Handlers
    BY DEF Listening, ToSet
  <2>2. << >> \in Seq([node : Nodes, flags : Flags])
    OBVIOUS
  <2>. QED  BY <2>1, <2>2 DEF Loops, LoopsIn, Notification
<1>3. calls \in Seq(Loops)
  BY DEF Listening
<1>4. KnowIn(Registered', fixtureFlags', subs, <<c>> \o calls, heard)
  <2>1. \A m \in Registered' : m # n => m \in Registered /\ fixtureFlags'[m] = fixtureFlags[m]
    BY <1>1 DEF Registered
  <2>2. n \in Registered' => fixtureFlags'[n] = f /\ \A i \in DOMAIN calls : calls[i].node # n
    BY <1>1 DEF Registered
  <2>. QED  BY <1>3, <2>1, <2>2, NotifyKnows
<1>. HIDE DEF c
<1>5. calls' \in Seq(Loops) /\ Len(calls') = Len(calls) + 1 /\ Len(calls) \in Nat
  BY <1>1, <1>2, <1>3
<1>6. Len(calls') <= MaxCalls
  BY <1>5, BoundsAssumption
<1>7. Listening'
  BY <1>1, <1>5 DEF Listening, Hearing
<1>. QED  BY <1>1, <1>4, <1>6, <1>7

\* Every step of the observer of fixtures.
LEMMA FixturesKnow ==
    ASSUME FixturesInv, [Memory!Next]_(Memory!vars)
    PROVE  FixturesInv'
<1>. USE DEF FixturesInv
<1>. DEFINE Rest == /\ Listening' /\ Fixed'
                    /\ KnowIn(Registered', fixtureFlags', subs', calls', heard')
<1>. SUFFICES Rest
  OBVIOUS
<1>1. /\ Registered \in SUBSET Nodes
      /\ UNCHANGED fixtures => Registered' = Registered /\ fixtureFlags' = fixtureFlags
  BY DEF Registered, fixtures
<1>2. ASSUME HostList, UNCHANGED fixtures PROVE Rest
  <2>1. /\ Listening' /\ KnowIn(Registered, fixtureFlags, subs', calls', heard')
        /\ DOMAIN calls' = DOMAIN calls
    BY <1>1, <1>2, HostListKnows
  <2>2. Len(calls') = Len(calls)
    BY <2>1 DEF Listening
  <2>. QED  BY <1>1, <1>2, <2>1, <2>2 DEF Fixed, fixtures
<1>3. ASSUME NEW n \in Nodes, NEW input \in Inputs, Memory!RegisterFixture(n, input) PROVE Rest
  <2>1. /\ Memory!Emit(n, FlagsOf[input]) /\ Len(calls) < MaxCalls
        /\ registry' = [registry EXCEPT ![n] = input]
        /\ fixtureFlags' = [fixtureFlags EXCEPT ![n] = FlagsOf[input]]
    BY <1>3 DEF Memory!RegisterFixture, Memory!CanNest
  <2>2. FlagsOf[input] \in Flags /\ input # Memory!Absent
    BY FlagsAssumption
  <2>3. /\ fixtureFlags'[n] = FlagsOf[input]
        /\ \A m \in Nodes : m # n => registry'[m] = registry[m] /\ fixtureFlags'[m] = fixtureFlags[m]
    BY <2>1 DEF Fixed
  <2>4. Listening' /\ Len(calls') <= MaxCalls /\ KnowIn(Registered', fixtureFlags', subs', calls', heard')
    BY <2>1, <2>2, <2>3, EmitKnows
  <2>5. /\ registry' \in [Nodes -> Inputs \union {Memory!Absent}]
        /\ fixtureFlags' = [m \in Nodes |->
             IF registry'[m] = Memory!Absent THEN Memory!Absent ELSE FlagsOf[registry'[m]]]
    BY <2>1, <2>2 DEF Fixed
  <2>. QED  BY <2>4, <2>5 DEF Fixed
<1>4. ASSUME NEW n \in Nodes, NEW input \in Inputs, Memory!Update(n, input) PROVE Rest
  <2>1. /\ Len(calls) < MaxCalls
        /\ registry[n] # Memory!Absent
        /\ registry' = [registry EXCEPT ![n] = input]
        /\ fixtureFlags' = [fixtureFlags EXCEPT ![n] = FlagsOf[input]]
        /\ \/ Memory!Emit(n, FlagsOf[input])
           \/ FlagsOf[input] = fixtureFlags[n] /\ UNCHANGED <<core, fixturesRenewed>>
    BY <1>4 DEF Memory!Update, Memory!CanNest, Memory!core, core
  <2>2. FlagsOf[input] \in Flags /\ input # Memory!Absent
    BY FlagsAssumption
  <2>3. /\ fixtureFlags'[n] = FlagsOf[input]
        /\ \A m \in Nodes : m # n => registry'[m] = registry[m] /\ fixtureFlags'[m] = fixtureFlags[m]
    BY <2>1 DEF Fixed
  <2>4. Listening' /\ Len(calls') <= MaxCalls /\ KnowIn(Registered', fixtureFlags', subs', calls', heard')
    <3>1. CASE Memory!Emit(n, FlagsOf[input])
      BY <2>1, <2>2, <2>3, <3>1, EmitKnows
    <3>2. CASE FlagsOf[input] = fixtureFlags[n] /\ UNCHANGED <<core, fixturesRenewed>>
      <4>1. fixtureFlags' = fixtureFlags
        BY <2>1, <3>2 DEF Fixed
      <4>2. Registered' = Registered
        BY <2>1, <2>2, <3>2 DEF Fixed, Registered
      <4>. QED  BY <3>2, <4>1, <4>2 DEF core, Listening, Hearing, Fixed
    <3>. QED  BY <2>1, <3>1, <3>2
  <2>5. /\ registry' \in [Nodes -> Inputs \union {Memory!Absent}]
        /\ fixtureFlags' = [m \in Nodes |->
             IF registry'[m] = Memory!Absent THEN Memory!Absent ELSE FlagsOf[registry'[m]]]
    BY <2>1, <2>2 DEF Fixed
  <2>. QED  BY <2>4, <2>5 DEF Fixed
<1>5. ASSUME NEW n \in Nodes, Memory!Unregister(n) PROVE Rest
  <2>1. /\ UNCHANGED <<subs, calls, heard, fixturesRenewed>>
        /\ registry' = [registry EXCEPT ![n] = Memory!Absent]
        /\ fixtureFlags' = [fixtureFlags EXCEPT ![n] = Memory!Absent]
    BY <1>5 DEF Memory!Unregister, Memory!core
  <2>2. Registered' \subseteq Registered /\ \A m \in Registered' : fixtureFlags'[m] = fixtureFlags[m]
    BY <2>1 DEF Registered, Fixed
  <2>3. KnowIn(Registered', fixtureFlags', subs', calls', heard')
    <3>1. KnowIn(Registered, fixtureFlags, subs', calls', heard')
      BY <2>1
    <3>. QED  BY <2>2, <3>1 DEF KnowIn
  <2>. QED  BY <2>1, <2>3 DEF Fixed, Listening, Hearing
<1>6. ASSUME Library, UNCHANGED fixtures PROVE Rest
  <2>1. /\ Listening' /\ KnowIn(Registered, fixtureFlags, subs', calls', heard')
        /\ DOMAIN calls' = DOMAIN calls
    BY <1>1, <1>6, LibraryKnows
  <2>2. Len(calls') = Len(calls)
    BY <2>1 DEF Listening
  <2>. QED  BY <1>1, <1>6, <2>1, <2>2 DEF Fixed, fixtures
<1>7. ASSUME Memory!Finish PROVE Rest
  <2>1. End /\ calls' = Tail(calls) /\ UNCHANGED <<subs, fixtures>>
    BY <1>7, OneCore DEF Memory!Finish, fixtures
  <2>2. /\ Hearing' /\ KnowIn(Registered, fixtureFlags, subs, calls', heard')
        /\ calls' \in Seq(Loops) /\ Len(calls') = Len(calls) - 1 /\ Len(calls) \in Nat
    BY <1>1, <2>1, EndKnows
  <2>3. Len(calls') <= MaxCalls
    BY <2>2, BoundsAssumption DEF Fixed
  <2>. QED  BY <1>1, <2>1, <2>2, <2>3 DEF Listening, Fixed, fixtures
<1>8. CASE UNCHANGED Memory!vars
  BY <1>1, <1>8 DEF Memory!vars, Memory!core, fixtures, Listening, Hearing, Fixed
<1>9. ASSUME NEW n \in Nodes, Memory!Register(n) PROVE Rest
  BY <1>3, <1>9, FlagsAssumption DEF Memory!Register
<1>. HIDE DEF Rest
<1>10. Memory!Host => Rest
  BY <1>2, <1>3, <1>4, <1>5, <1>9, OneCore DEF Memory!Host, fixtures
<1>11. Memory!Loop => Rest
  BY <1>6, <1>7, OneCore DEF Memory!Loop, fixtures
<1>. QED  BY <1>8, <1>10, <1>11 DEF Memory!Next

\* Once quiet, whoever heard of a fixture heard its flags.
LEMMA FixturesInvMeans == ASSUME FixturesInv PROVE Memory!UpToDate
<1>1. subs \in Memory!BoundedSeq(Handlers, MaxSubs)
  <2>1. subs \in Seq(Handlers) /\ Len(subs) \in 0 .. MaxSubs /\ DOMAIN subs = 1 .. Len(subs)
    BY BoundsAssumption DEF FixturesInv, Listening
  <2>2. subs \in [1 .. Len(subs) -> Handlers]
    BY <2>1
  <2>. QED  BY <2>1, <2>2 DEF Memory!BoundedSeq, Memory!SeqOf
<1>2. Memory!TypeOK
  BY <1>1, LoopIs DEF FixturesInv, Fixed, Memory!TypeOK, Memory!Fixture
<1>3. ASSUME calls = << >>, NEW h \in ToSet(subs), NEW n \in Nodes \ fixturesRenewed,
             registry[n] # Memory!Absent
      PROVE  heard[h][n] \in {Unknown, FlagsOf[registry[n]]}
  <2>1. DOMAIN calls = {} /\ n \in Registered
    BY <1>3 DEF Registered
  <2>2. heard[h][n] \in {Unknown, fixtureFlags[n]}
    BY <2>1 DEF FixturesInv, KnowIn
  <2>. QED  BY <1>3, <2>2 DEF FixturesInv, Fixed
<1>. QED  BY <1>2, <1>3, OneCore DEF Memory!UpToDate, Memory!Unknown, Unknown

\* With no handler that connects while it is told: whatever else handlers do to the observer,
\* the page and the fixtures, once all is quiet what is stored, and what each handler that heard
\* of a node and was not passed over since was last told, is what the page shows, if its root is
\* watched and the change was made inside it, and what the fixtures give.
THEOREM NobodyIsLeftStale == "connect" \notin Inside => (MCSpec => []FlagsAreCurrent)
<1>. SUFFICES ASSUME "connect" \notin Inside PROVE MCSpec => []FlagsAreCurrent
  OBVIOUS
<1>. DEFINE Inv == IF holds = "page" THEN PageInv ELSE FixturesInv
<1>1. MCInit => Inv
  <2>. SUFFICES ASSUME MCInit PROVE PageInv /\ FixturesInv
    OBVIOUS
  <2>1. /\ subs = << >> /\ calls = << >> /\ heard = [h \in Handlers |-> NothingHeard]
        /\ DOMAIN calls = {} /\ ToSet(subs) = {}
    BY DEF MCInit, Init, InitCore, ToSet
  <2>3. Listening
    BY <2>1, BoundsAssumption DEF Listening, Hearing, NothingHeard
  <2>4. \A K, L : KnowIn(K, L, subs, calls, heard)
    BY <2>1 DEF KnowIn
  <2>5. Reading /\ Caught
    BY PageAssumption DEF MCInit, Init, Reading, Caught, Nobody
  <2>6. Fixed
    <3>1. registry = [n \in Nodes |-> Memory!Absent] /\ fixtureFlags = [n \in Nodes |-> Memory!Absent]
      BY DEF MCInit, Memory!Init
    <3>. QED  BY <2>1, <3>1, BoundsAssumption DEF Fixed
  <2>. QED  BY <2>3, <2>4, <2>5, <2>6 DEF PageInv, FixturesInv
<1>2. Inv /\ [MCNext]_all => Inv'
  <2>. SUFFICES ASSUME Inv, [MCNext]_all PROVE Inv'
    OBVIOUS
  <2>1. CASE holds = "page"
    <3>1. holds' = holds /\ [Next]_vars
      BY <2>1 DEF MCNext, OfPage, OfFixtures, Next, all
    <3>2. PageInv'
      BY <2>1, <3>1, PageKnows
    <3>. QED  BY <2>1, <3>1, <3>2
  <2>2. CASE holds # "page"
    <3>1. holds' = holds /\ [Memory!Next]_(Memory!vars)
      BY <2>2 DEF MCNext, OfPage, OfFixtures, all, vars, core, fixtures, Memory!vars, Memory!core
    <3>2. FixturesInv'
      BY <2>2, <3>1, FixturesKnow
    <3>. QED  BY <2>2, <3>1, <3>2
  <2>. QED  BY <2>1, <2>2
<1>3. Inv => FlagsAreCurrent
  BY PageInvMeans, FixturesInvMeans DEF FlagsAreCurrent
<1>. QED  BY <1>1, <1>2, <1>3, PTL DEF MCSpec
=============================================================================
