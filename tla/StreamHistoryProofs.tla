------------------------- MODULE StreamHistoryProofs -------------------------
(***************************************************************************)
(* Proofs about StreamHistory, for any hosts, any ops and streams of any   *)
(* length: tampering is caught, and what every host holds and every        *)
(* checkpoint says is what the stream replays to.                          *)
(***************************************************************************)
EXTENDS StreamHistory, WellFoundedInduction, SequenceTheorems, TLAPS

-----------------------------------------------------------------------------
(***************************************************************************)
(* The chain.                                                              *)
(***************************************************************************)
\* What a digest is of: the payloads up to it.
Trace(recs, n) == [k \in 1 .. n |-> <<k - 1, recs[k].op>>]

\* The n-th record is the one its payload and those before it give.
Chained(recs, n) == recs[n] = Sealed(n, Trace(recs, n - 1), recs[n].op)

\* A record verify_chain passes over.
Sound(recs, n) ==
    /\ recs[n].seq = n
    /\ recs[n].prev = ExpectedPrevious(recs, n)
    /\ recs[n].hash = ComputeHash(recs[n].prev, recs[n].op, recs[n].seq)

ChainInv ==
    /\ records \in Seq(OpRecord)
    /\ \A n \in 1 .. Latest : Chained(records, n)
    /\ \A c \in checkpoints : c.seq \in 0 .. Latest /\ c.head = Trace(records, c.seq)
    /\ at \in [Hosts -> {Astray} \union 0 .. Latest]

\* A digest is a sequence of as many pairs as payloads.
LEMMA TraceIs ==
    ASSUME NEW recs, NEW n \in Nat
    PROVE  /\ Len(Trace(recs, n)) = n /\ DOMAIN Trace(recs, n) = 1 .. n
           /\ \A k \in 1 .. n : Trace(recs, n)[k] = <<k - 1, recs[k].op>>
           /\ \E S : Trace(recs, n) \in Seq(S)
<1>. DEFINE S == {<<k - 1, recs[k].op>> : k \in 1 .. n}
            t == Trace(recs, n)
<1>1. t \in [1 .. n -> S]
  BY DEF Trace
<1>. HIDE DEF S
<1>2. t \in Seq(S) /\ Len(t) = n
  BY <1>1
<1>3. DOMAIN t = 1 .. n /\ \A k \in 1 .. n : t[k] = <<k - 1, recs[k].op>>
  BY DEF Trace
<1>. QED  BY <1>2, <1>3

\* One more payload makes the next digest.
LEMMA TraceNext ==
    ASSUME NEW recs, NEW n \in Nat \ {0}
    PROVE  ComputeHash(Trace(recs, n - 1), recs[n].op, n) = Trace(recs, n)
<1>. DEFINE t == Trace(recs, n - 1)
            u == Trace(recs, n)
            x == <<n - 1, recs[n].op>>
<1>1. n - 1 \in Nat
  OBVIOUS
<1>2. PICK S : t \in Seq(S)
  BY <1>1, TraceIs
<1>3. Len(t) = n - 1 /\ \A k \in 1 .. n - 1 : t[k] = <<k - 1, recs[k].op>>
  BY <1>1, TraceIs
<1>4. DOMAIN u = 1 .. n /\ \A k \in 1 .. n : u[k] = <<k - 1, recs[k].op>>
  BY TraceIs
<1>5. PICK R : u \in Seq(R)
  BY TraceIs
<1>. DEFINE T == S \union R \union {x}
<1>. HIDE DEF t, u
<1>6. t \in Seq(T) /\ u \in Seq(T) /\ x \in T
  BY <1>2, <1>5
<1>. HIDE DEF T
<1>. DEFINE v == Append(t, x)
<1>7. /\ v \in Seq(T) /\ Len(v) = n /\ v[n] = x
      /\ \A k \in 1 .. n - 1 : v[k] = t[k]
  BY <1>3, <1>6
<1>. HIDE DEF v
<1>8. Len(u) = n
  BY <1>4, <1>6
<1>9. ASSUME NEW k \in 1 .. n
      PROVE  v[k] = u[k]
  <2>1. CASE k = n
    BY <1>4, <1>7, <2>1
  <2>2. CASE k # n
    <3>1. k \in 1 .. n - 1
      BY <2>2
    <3>. QED  BY <1>3, <1>4, <1>7, <3>1
  <2>. QED  BY <2>1, <2>2
<1>10. v = u
  BY <1>6, <1>7, <1>8, <1>9, SeqEqual
<1>. QED  BY <1>10 DEF v, t, u, x, ComputeHash

\* So a chained record is what its fields say.
LEMMA ChainedIs ==
    ASSUME NEW recs, NEW n \in Nat \ {0}, Chained(recs, n)
    PROVE  /\ recs[n].seq = n /\ recs[n].prev = Trace(recs, n - 1)
           /\ recs[n].hash = Trace(recs, n)
           /\ recs[n].hash = ComputeHash(recs[n].prev, recs[n].op, recs[n].seq)
<1>1. recs[n] = [seq |-> n, prev |-> Trace(recs, n - 1), hash |-> Trace(recs, n), op |-> recs[n].op]
  BY TraceNext DEF Chained, Sealed
<1>2. recs[n].seq = n /\ recs[n].prev = Trace(recs, n - 1) /\ recs[n].hash = Trace(recs, n)
  BY <1>1
<1>. QED  BY <1>2, TraceNext

\* And verify_chain passes over one after another.
LEMMA ChainedSound ==
    ASSUME NEW recs, NEW n \in Nat \ {0}, Chained(recs, n), n > 1 => Chained(recs, n - 1)
    PROVE  Sound(recs, n)
<1>1. n = 1 => recs[n].prev = Genesis
  <2>1. Trace(recs, 0) = << >>
    BY TraceIs
  <2>. QED  BY <2>1, ChainedIs DEF Genesis
<1>2. n > 1 => recs[n].prev = recs[n - 1].hash
  <2>1. n > 1 => n - 1 \in Nat \ {0}
    OBVIOUS
  <2>. QED  BY <2>1, ChainedIs
<1>. QED  BY <1>1, <1>2, ChainedIs DEF Sound, ExpectedPrevious

\* What verify_chain names is the first record that is not sound.
LEMMA FirstCaught ==
    ASSUME NEW recs, NEW i \in DOMAIN recs, DOMAIN recs \subseteq Nat, ~Sound(recs, i),
           \A j \in DOMAIN recs : j < i => Sound(recs, j)
    PROVE  CaughtAt(recs, i)
<1>1. \A j \in DOMAIN recs : j \in Violations(recs) <=> ~Sound(recs, j)
  BY DEF Violations, OutOfOrder, PreviousHashMismatch, HashMismatch, Sound
<1>. DEFINE bad == Violations(recs)
<1>2. bad \subseteq DOMAIN recs
  BY DEF Violations
<1>3. i \in bad /\ \A j \in bad : i <= j
  BY <1>1, <1>2
<1>4. bad # {} => VerifyChain(recs).at = Min(bad)
  BY DEF VerifyChain, Clean
<1>. HIDE DEF bad
<1>5. Min(bad) = i
  <2>1. \A x \in bad : (\A y \in bad : x <= y) => x = i
    BY <1>2, <1>3
  <2>. QED  BY <1>3, <2>1 DEF Min
<1>. QED  BY <1>3, <1>4, <1>5 DEF CaughtAt

\* A stream as long as its records, all sound, verifies.
LEMMA SoundVerifies ==
    ASSUME NEW recs, \A j \in DOMAIN recs : Sound(recs, j)
    PROVE  VerifyChain(recs).error = "None"
<1>1. Violations(recs) = {}
  BY DEF Violations, OutOfOrder, PreviousHashMismatch, HashMismatch, Sound
<1>. QED  BY <1>1 DEF VerifyChain, Clean

\* The records before what was altered are sound.
LEMMA SoundBefore ==
    ASSUME ChainInv, NEW recs, NEW i \in 1 .. Latest, \A j \in 1 .. i - 1 : recs[j] = records[j]
    PROVE  \A j \in 1 .. i - 1 : Sound(recs, j)
<1>. SUFFICES ASSUME NEW j \in 1 .. i - 1
              PROVE  Sound(recs, j)
  OBVIOUS
<1>0. Latest \in Nat
  BY DEF ChainInv, Latest
<1>1. Sound(records, j)
  BY <1>0, ChainedSound DEF ChainInv
<1>2. recs[j] = records[j] /\ (j # 1 => recs[j - 1] = records[j - 1])
  <2>1. j # 1 => j - 1 \in 1 .. i - 1
    BY <1>0
  <2>. QED  BY <2>1
<1>. QED  BY <1>1, <1>2 DEF Sound, ExpectedPrevious

\* Two digests of as many payloads are one where the payloads are.
LEMMA TracesDiffer ==
    ASSUME NEW recs, NEW others, NEW n \in Nat, NEW m \in Nat, NEW k \in 1 .. n,
           n # m \/ recs[k].op # others[k].op
    PROVE  Trace(recs, n) # Trace(others, m)
<1>1. n # m => Trace(recs, n) # Trace(others, m)
  BY TraceIs
<1>2. ASSUME n = m, recs[k].op # others[k].op
      PROVE  Trace(recs, n) # Trace(others, m)
  <2>1. Trace(recs, n)[k] = <<k - 1, recs[k].op>> /\ Trace(others, n)[k] = <<k - 1, others[k].op>>
    BY TraceIs
  <2>. QED  BY <1>2, <2>1
<1>. QED  BY <1>1, <1>2

\* A stream altered from the i-th record on, and unsound there, is caught there.
LEMMA AlteredCaught ==
    ASSUME ChainInv, NEW i \in 1 .. Latest, NEW recs, NEW n \in Nat, DOMAIN recs = 1 .. n, i <= n,
           \A j \in 1 .. i - 1 : recs[j] = records[j], ~Sound(recs, i)
    PROVE  CaughtAt(recs, i)
<1>0. Latest \in Nat
  BY DEF ChainInv, Latest
<1>1. i \in DOMAIN recs /\ DOMAIN recs \subseteq Nat
  BY <1>0
<1>2. \A j \in DOMAIN recs : j < i => Sound(recs, j)
  <2>1. \A j \in 1 .. i - 1 : Sound(recs, j)
    BY SoundBefore
  <2>. QED  BY <1>0, <2>1
<1>. QED  BY <1>1, <1>2, FirstCaught

\* A record dropped: the next one's sequence is not its own.
LEMMA WithoutCaught ==
    ASSUME ChainInv, NEW i \in 1 .. Latest, i < Latest
    PROVE  CaughtAt(Without(i), i)
<1>. DEFINE low  == SubSeq(records, 1, i - 1)
            high == SubSeq(records, i + 1, Latest)
            recs == low \o high
<1>0. Latest \in Nat /\ records \in Seq(OpRecord) /\ Len(records) = Latest
  BY DEF ChainInv, Latest
<1>1. low \in Seq(OpRecord) /\ Len(low) = i - 1 /\ \A j \in 1 .. i - 1 : low[j] = records[j]
  BY <1>0, SubSeqProperties
<1>2. high \in Seq(OpRecord) /\ Len(high) = Latest - i /\ high[1] = records[i + 1]
  <2>1. \A j \in i + 1 .. Latest : records[j] \in OpRecord
    BY <1>0
  <2>2. /\ high \in Seq(OpRecord) /\ Len(high) = Latest - (i + 1) + 1
        /\ \A j \in 1 .. Latest - (i + 1) + 1 : high[j] = records[(i + 1) + j - 1]
    BY <1>0, <2>1, SubSeqProperties
  <2>3. 1 \in 1 .. Latest - (i + 1) + 1 /\ (i + 1) + 1 - 1 = i + 1 /\ Latest - (i + 1) + 1 = Latest - i
    BY <1>0
  <2>. QED  BY <2>2, <2>3
<1>. HIDE DEF low, high
<1>3. /\ recs \in Seq(OpRecord) /\ Len(recs) = Len(low) + Len(high)
      /\ \A j \in 1 .. Len(low) + Len(high) : recs[j] = IF j <= Len(low) THEN low[j] ELSE high[j - Len(low)]
  BY <1>1, <1>2, ConcatProperties
<1>. HIDE DEF recs
<1>4. Len(recs) = Latest - 1 /\ DOMAIN recs = 1 .. Latest - 1
  BY <1>0, <1>1, <1>2, <1>3
<1>5. \A j \in 1 .. i - 1 : recs[j] = records[j]
  BY <1>0, <1>1, <1>2, <1>3
<1>6. recs[i] = records[i + 1]
  <2>1. recs[i] = high[i - (i - 1)] /\ i - (i - 1) = 1
    BY <1>0, <1>1, <1>2, <1>3
  <2>. QED  BY <1>2, <2>1
<1>7. records[i + 1].seq = i + 1
  <2>1. i + 1 \in 1 .. Latest /\ i + 1 \in Nat \ {0}
    BY <1>0
  <2>2. Chained(records, i + 1)
    BY <2>1 DEF ChainInv
  <2>. QED  BY <2>1, <2>2, ChainedIs
<1>8. ~Sound(recs, i)
  BY <1>6, <1>7 DEF Sound
<1>9. CaughtAt(recs, i)
  BY <1>0, <1>4, <1>5, <1>8, AlteredCaught
<1>. QED  BY <1>9 DEF Without, recs, low, high

\* And where those after it take the sequences below: the first of them links to what was dropped.
LEMMA ClosedCaught ==
    ASSUME ChainInv, NEW i \in 1 .. Latest, i < Latest
    PROVE  CaughtAt(Closed(i), i)
<1>. DEFINE recs == Closed(i)
<1>0. Latest \in Nat /\ records \in Seq(OpRecord) /\ Len(records) = Latest
  BY DEF ChainInv, Latest
<1>1. DOMAIN recs = 1 .. Latest - 1 /\ \A j \in 1 .. i - 1 : recs[j] = records[j]
  BY <1>0 DEF Closed
<1>2. recs[i] = [records[i + 1] EXCEPT !.seq = i]
  BY <1>0 DEF Closed
<1>3. Chained(records, i + 1) /\ i + 1 \in Nat \ {0}
  BY <1>0 DEF ChainInv
<1>4. recs[i].prev = Trace(records, i)
  BY <1>2, <1>3, ChainedIs DEF Chained, Sealed
<1>5. ExpectedPrevious(recs, i) = Trace(records, i - 1)
  <2>1. CASE i = 1
    BY <2>1, TraceIs DEF ExpectedPrevious, Genesis
  <2>2. CASE i > 1
    <3>1. recs[i - 1] = records[i - 1] /\ Chained(records, i - 1) /\ i - 1 \in Nat \ {0}
      BY <1>0, <1>1, <2>2 DEF ChainInv
    <3>. QED  BY <2>2, <3>1, ChainedIs DEF ExpectedPrevious
  <2>. QED  BY <1>0, <2>1, <2>2
<1>6. Trace(records, i) # Trace(records, i - 1)
  BY <1>0, TraceIs
<1>7. ~Sound(recs, i)
  BY <1>4, <1>5, <1>6 DEF Sound
<1>. HIDE DEF recs
<1>8. CaughtAt(recs, i)
  BY <1>0, <1>1, <1>7, AlteredCaught
<1>. QED  BY <1>8 DEF recs

\* A record moved: the next one stands at its sequence.
LEMMA SwappedCaught ==
    ASSUME ChainInv, NEW i \in 1 .. Latest, i < Latest
    PROVE  CaughtAt(Swapped(i), i)
<1>. DEFINE recs == Swapped(i)
<1>0. Latest \in Nat /\ records \in Seq(OpRecord) /\ DOMAIN records = 1 .. Latest
  BY DEF ChainInv, Latest
<1>1. DOMAIN recs = 1 .. Latest /\ recs[i] = records[i + 1] /\ \A j \in 1 .. i - 1 : recs[j] = records[j]
  BY <1>0 DEF Swapped
<1>2. records[i + 1].seq = i + 1
  BY <1>0, ChainedIs DEF ChainInv
<1>. HIDE DEF recs
<1>3. ~Sound(recs, i)
  BY <1>1, <1>2 DEF Sound
<1>4. CaughtAt(recs, i)
  BY <1>0, <1>1, <1>3, AlteredCaught
<1>. QED  BY <1>4 DEF recs

\* A record whose payload is another: its hash is not its own.
LEMMA RewrittenCaught ==
    ASSUME ChainInv, NEW i \in 1 .. Latest, NEW p \in Others(i)
    PROVE  CaughtAt(Rewritten(i, p), i)
<1>. DEFINE recs == Rewritten(i, p)
<1>0. Latest \in Nat /\ records \in Seq(OpRecord) /\ DOMAIN records = 1 .. Latest
  BY DEF ChainInv, Latest
<1>1. /\ DOMAIN recs = 1 .. Latest /\ recs[i] = [records[i] EXCEPT !.op = p]
      /\ \A j \in 1 .. i - 1 : recs[j] = records[j]
  BY <1>0 DEF Rewritten
<1>2. Chained(records, i) /\ i \in Nat \ {0} /\ p # records[i].op
  BY <1>0 DEF ChainInv, Others
<1>3. records[i] = [seq |-> i, prev |-> Trace(records, i - 1), hash |-> Trace(records, i), op |-> records[i].op]
  BY <1>2, TraceNext DEF Chained, Sealed
<1>4. /\ recs[i].op = p /\ recs[i].seq = i
      /\ recs[i].prev = Trace(records, i - 1) /\ recs[i].hash = Trace(records, i)
  BY <1>1, <1>3
<1>. HIDE DEF recs
<1>5. ComputeHash(Trace(records, i - 1), p, i) = Trace(recs, i)
  <2>1. Trace(records, i - 1) = Trace(recs, i - 1)
    BY <1>0, <1>1 DEF Trace
  <2>. QED  BY <1>2, <1>4, <2>1, TraceNext
<1>6. Trace(recs, i) # Trace(records, i)
  BY <1>2, <1>4, TracesDiffer
<1>7. ~Sound(recs, i)
  BY <1>4, <1>5, <1>6 DEF Sound
<1>8. CaughtAt(recs, i)
  BY <1>0, <1>1, <1>7, AlteredCaught
<1>. QED  BY <1>8 DEF recs

\* A record sealed anew over another payload: the next one links to the one that was there.
LEMMA ResealedCaught ==
    ASSUME ChainInv, NEW i \in 1 .. Latest, i < Latest, NEW p \in Others(i)
    PROVE  CaughtAt(Resealed(i, p), i + 1)
<1>. DEFINE recs == Resealed(i, p)
<1>0. Latest \in Nat /\ records \in Seq(OpRecord) /\ DOMAIN records = 1 .. Latest
  BY DEF ChainInv, Latest
<1>1. /\ DOMAIN recs = 1 .. Latest /\ recs[i] = Sealed(i, HeadAt(i - 1), p)
      /\ \A j \in 1 .. Latest : j # i => recs[j] = records[j]
  BY <1>0 DEF Resealed
<1>2. p # records[i].op
  BY DEF Others
<1>. HIDE DEF recs
<1>3. HeadAt(i - 1) = Trace(recs, i - 1)
  <2>1. HeadAt(i - 1) = Trace(records, i - 1)
    <3>1. CASE i = 1
      BY <3>1, TraceIs DEF HeadAt, Genesis
    <3>2. CASE i > 1
      <4>1. Chained(records, i - 1) /\ i - 1 \in Nat \ {0}
        BY <1>0, <3>2 DEF ChainInv
      <4>. QED  BY <3>2, <4>1, ChainedIs DEF HeadAt
    <3>. QED  BY <1>0, <3>1, <3>2
  <2>2. Trace(records, i - 1) = Trace(recs, i - 1)
    BY <1>0, <1>1 DEF Trace
  <2>. QED  BY <2>1, <2>2
<1>4. recs[i].op = p /\ Chained(recs, i)
  <2>1. recs[i].op = p
    BY <1>1 DEF Sealed
  <2>. QED  BY <1>1, <1>3, <2>1 DEF Chained
<1>5. Sound(recs, i)
  <2>1. i \in Nat \ {0} /\ (i > 1 => i - 1 \in Nat \ {0})
    BY <1>0
  <2>2. recs[i].prev = ExpectedPrevious(recs, i)
    <3>1. CASE i = 1
      BY <1>1, <3>1 DEF Sealed, HeadAt, ExpectedPrevious
    <3>2. CASE i > 1
      <4>1. recs[i - 1] = records[i - 1]
        BY <1>0, <1>1, <3>2
      <4>2. HeadAt(i - 1) = records[i - 1].hash
        BY <3>2 DEF HeadAt
      <4>. QED  BY <1>1, <3>2, <4>1, <4>2 DEF Sealed, ExpectedPrevious
    <3>. QED  BY <1>0, <3>1, <3>2
  <2>. QED  BY <1>4, <2>1, <2>2, ChainedIs DEF Sound
<1>6. recs[i + 1] = records[i + 1] /\ Chained(records, i + 1) /\ i + 1 \in Nat \ {0}
  BY <1>0, <1>1 DEF ChainInv
<1>7. recs[i + 1].prev = Trace(records, i)
  BY <1>6, ChainedIs
<1>8. recs[i].hash = Trace(recs, i) /\ Trace(recs, i) # Trace(records, i)
  BY <1>0, <1>2, <1>4, ChainedIs, TracesDiffer
<1>9. ~Sound(recs, i + 1)
  BY <1>0, <1>7, <1>8 DEF Sound, ExpectedPrevious
<1>10. \A j \in DOMAIN recs : j < i + 1 => Sound(recs, j)
  <2>1. \A j \in 1 .. i - 1 : recs[j] = records[j]
    BY <1>0, <1>1
  <2>2. \A j \in 1 .. i - 1 : Sound(recs, j)
    BY <2>1, SoundBefore
  <2>. QED  BY <1>0, <1>1, <1>5, <2>2
<1>11. CaughtAt(recs, i + 1)
  BY <1>0, <1>1, <1>9, <1>10, FirstCaught
<1>. QED  BY <1>11 DEF recs

\* All that follows sealed anew verifies, and has other digests from there on.
LEMMA ForgedDiffers ==
    ASSUME ChainInv, NEW i \in 1 .. Latest, NEW p \in Others(i)
    PROVE  /\ VerifyChain(Forged(i, p)).error = "None"
           /\ \A c \in checkpoints : c.seq >= i => Forged(i, p)[c.seq].hash # c.head
<1>. DEFINE recs == Forged(i, p)
            op(k) == IF k = i THEN p ELSE records[k].op
            digest(n) == [k \in 1 .. n |-> <<k - 1, op(k)>>]
<1>0. Latest \in Nat /\ records \in Seq(OpRecord) /\ DOMAIN records = 1 .. Latest
  BY DEF ChainInv, Latest
<1>1. recs = [k \in 1 .. Latest |-> Sealed(k, digest(k - 1), op(k))]
  BY <1>0 DEF Forged
<1>. HIDE DEF recs, digest
<1>2. /\ DOMAIN recs = 1 .. Latest
      /\ \A k \in 1 .. Latest : recs[k] = Sealed(k, digest(k - 1), op(k)) /\ recs[k].op = op(k)
  BY <1>1 DEF Sealed
<1>3. ASSUME NEW n \in 0 .. Latest
      PROVE  digest(n) = Trace(recs, n)
  <2>1. \A k \in 1 .. n : op(k) = recs[k].op
    <3>1. \A k \in 1 .. n : k \in 1 .. Latest
      BY <1>0
    <3>. HIDE DEF op
    <3>. QED  BY <1>2, <3>1
  <2>. HIDE DEF op
  <2>. QED  BY <2>1 DEF digest, Trace
<1>4. ASSUME NEW k \in 1 .. Latest
      PROVE  Chained(recs, k)
  <2>1. digest(k - 1) = Trace(recs, k - 1)
    BY <1>0, <1>3
  <2>. QED  BY <1>2, <2>1 DEF Chained
<1>5. \A k \in DOMAIN recs : Sound(recs, k)
  BY <1>0, <1>2, <1>4, ChainedSound
<1>6. ASSUME NEW c \in checkpoints, c.seq >= i
      PROVE  recs[c.seq].hash # c.head
  <2>1. c.seq \in 1 .. Latest /\ c.head = Trace(records, c.seq)
    BY <1>0, <1>6 DEF ChainInv
  <2>2. recs[c.seq].hash = Trace(recs, c.seq)
    BY <1>0, <1>4, <2>1, ChainedIs
  <2>3. recs[i].op # records[i].op
    BY <1>2 DEF Others
  <2>. QED  BY <1>0, <1>6, <2>1, <2>2, <2>3, TracesDiffer
<1>. QED  BY <1>5, <1>6, SoundVerifies DEF recs

\* So a chain in order is tamper-evident.
LEMMA ChainInvCatches ==
    ASSUME ChainInv
    PROVE  TamperingIsCaught
<1>0. Latest \in Nat /\ records \in Seq(OpRecord) /\ DOMAIN records = 1 .. Latest
  BY DEF ChainInv, Latest
<1>1. VerifyChain(records).error = "None"
  BY <1>0, ChainedSound, SoundVerifies DEF ChainInv
<1>2. \A i \in 1 .. Latest :
        i < Latest => CaughtAt(Without(i), i) /\ CaughtAt(Closed(i), i) /\ CaughtAt(Swapped(i), i)
  BY WithoutCaught, ClosedCaught, SwappedCaught
<1>3. \A i \in 1 .. Latest : \A p \in Others(i) :
         CaughtAt(Rewritten(i, p), i) /\ (i < Latest => CaughtAt(Resealed(i, p), i + 1))
  BY RewrittenCaught, ResealedCaught
<1>. QED  BY <1>0, <1>1, <1>2, <1>3, ForgedDiffers DEF TamperingIsCaught

\* The head of a stream in order is the digest of its payloads.
LEMMA HeadIs ==
    ASSUME ChainInv, NEW n \in 0 .. Latest
    PROVE  HeadAt(n) = Trace(records, n)
<1>1. CASE n = 0
  BY <1>1, TraceIs DEF HeadAt, Genesis
<1>2. CASE n # 0
  <2>1. Chained(records, n) /\ n \in Nat \ {0}
    BY <1>2 DEF ChainInv, Latest
  <2>. QED  BY <1>2, <2>1, ChainedIs DEF HeadAt
<1>. QED  BY <1>1, <1>2

\* The digest of a prefix is of its records only.
LEMMA TraceAgrees ==
    ASSUME NEW recs, NEW others, NEW n \in Nat, \A k \in 1 .. n : recs[k] = others[k]
    PROVE  Trace(recs, n) = Trace(others, n)
BY DEF Trace

\* A record sealed onto the head of a stream is a record.
LEMMA SealedIs ==
    ASSUME ChainInv, NEW p \in Payload
    PROVE  Sealed(Latest + 1, HeadAt(Latest), p) \in OpRecord
<1>. DEFINE n == Latest
<1>0. n \in Nat /\ records \in Seq(OpRecord) /\ Len(records) = n
  BY DEF ChainInv, Latest
<1>. HIDE DEF n
<1>1. n \in 0 .. n
  BY <1>0
<1>2. HeadAt(n) = Trace(records, n)
  BY <1>1, HeadIs DEF n
<1>3. \A k \in 1 .. n : <<k - 1, records[k].op>> \in Nat \X Payload
  <2>1. \A k \in 1 .. n : records[k] \in OpRecord
    BY <1>0
  <2>2. \A r \in OpRecord : r.op \in Payload
    BY DEF OpRecord
  <2>3. \A k \in 1 .. n : k - 1 \in Nat
    BY <1>0
  <2>. QED  BY <2>1, <2>2, <2>3
<1>4. Trace(records, n) \in [1 .. n -> Nat \X Payload]
  BY <1>3 DEF Trace
<1>. DEFINE D == Nat \X Payload
            x == <<n + 1 - 1, p>>
<1>5. x \in D
  BY <1>0
<1>6. Trace(records, n) \in [1 .. n -> D]
  BY <1>4
<1>. HIDE DEF D, x
<1>7. Trace(records, n) \in Seq(D)
  BY <1>0, <1>6
<1>8. Append(Trace(records, n), x) \in Seq(D)
  BY <1>5, <1>7
<1>. QED  BY <1>0, <1>2, <1>7, <1>8 DEF Sealed, OpRecord, ComputeHash, Digest, D, x, n

\* A record written at the head keeps the chain in order, and the digests that were.
LEMMA WriteKeepsChain ==
    ASSUME ChainInv, NEW h \in Hosts, NEW name \in DOMAIN Ops, NEW result \in {"Success", "Failure"},
           Write(h, name, result)
    PROVE  ChainInv'
<1>. DEFINE p == [op |-> name, result |-> result]
            x == Sealed(Latest + 1, HeadAt(Latest), p)
<1>0. Latest \in Nat /\ records \in Seq(OpRecord) /\ Len(records) = Latest
  BY DEF ChainInv, Latest
<1>1. p \in Payload
  BY DEF Payload
<1>. HIDE DEF p
<1>2. x \in OpRecord
  BY <1>1, SealedIs
<1>3. x = Sealed(Latest + 1, Trace(records, Latest), p) /\ x.op = p
  BY <1>0, HeadIs DEF Sealed
<1>. HIDE DEF x
<1>4. records' = Append(records, x)
  BY DEF Write, x, p
<1>5. /\ records' \in Seq(OpRecord) /\ Latest' = Latest + 1 /\ records'[Latest + 1] = x
      /\ \A k \in 1 .. Latest : records'[k] = records[k]
  BY <1>0, <1>2, <1>4 DEF Latest
<1>6. \A n \in 0 .. Latest : Trace(records', n) = Trace(records, n)
  <2>. SUFFICES ASSUME NEW n \in 0 .. Latest
                PROVE  Trace(records', n) = Trace(records, n)
    OBVIOUS
  <2>1. n \in Nat /\ \A k \in 1 .. n : records'[k] = records[k]
    BY <1>0, <1>5
  <2>. QED  BY <2>1, TraceAgrees
<1>7. ASSUME NEW n \in 1 .. Latest'
      PROVE  Chained(records', n)
  <2>1. CASE n \in 1 .. Latest
    <3>1. n - 1 \in 0 .. Latest /\ Chained(records, n)
      BY <1>0, <2>1 DEF ChainInv
    <3>. QED  BY <1>5, <1>6, <2>1, <3>1 DEF Chained
  <2>2. CASE n = Latest + 1
    <3>1. n - 1 = Latest /\ Latest \in 0 .. Latest
      BY <1>0, <2>2
    <3>. QED  BY <1>3, <1>5, <1>6, <2>2, <3>1 DEF Chained
  <2>. QED  BY <1>0, <1>5, <2>1, <2>2
<1>8. ASSUME NEW c \in checkpoints'
      PROVE  c.seq \in 0 .. Latest' /\ c.head = Trace(records', c.seq)
  <2>1. c.seq \in 0 .. Latest /\ c.head = Trace(records, c.seq)
    BY DEF Write, ChainInv
  <2>. QED  BY <1>0, <1>5, <1>6, <2>1
<1>9. at' \in [Hosts -> {Astray} \union 0 .. Latest']
  <2>1. /\ {Astray} \union 0 .. Latest \subseteq {Astray} \union 0 .. Latest'
        /\ Latest + 1 \in {Astray} \union 0 .. Latest'
    BY <1>0, <1>5
  <2>2. at \in [Hosts -> {Astray} \union 0 .. Latest]
    BY DEF ChainInv
  <2>3. at' = [at EXCEPT ![h] = IF @ = Latest THEN Latest + 1 ELSE Astray]
    BY DEF Write
  <2>. QED  BY <2>1, <2>2, <2>3
<1>. QED  BY <1>5, <1>7, <1>8, <1>9 DEF ChainInv

\* Every step keeps it.
LEMMA ChainInductive ==
    ASSUME ChainInv, [Next]_vars
    PROVE  ChainInv'
<1>0. Latest \in Nat /\ Latest \in 0 .. Latest
  BY DEF ChainInv, Latest
<1>1. ASSUME NEW h \in Hosts, NEW name \in DOMAIN Ops, Persist(h, name) \/ Deny(h, name)
      PROVE  ChainInv'
  BY <1>1, WriteKeepsChain DEF Persist, Deny
<1>2. ASSUME NEW h \in Hosts, AppendCheckpoint(h)
      PROVE  ChainInv'
  <2>1. /\ checkpoints' = checkpoints \union {CheckpointOf(h)} /\ at[h] # Astray
        /\ UNCHANGED <<records, at>> /\ Latest' = Latest
    BY <1>2 DEF AppendCheckpoint, Latest
  <2>2. at[h] \in 0 .. Latest
    BY <2>1 DEF ChainInv
  <2>3. CheckpointOf(h).seq \in 0 .. Latest /\ CheckpointOf(h).head = Trace(records, CheckpointOf(h).seq)
    BY <2>2, HeadIs DEF CheckpointOf
  <2>. QED  BY <2>1, <2>3 DEF ChainInv
<1>3. ASSUME NEW h \in Hosts, CatchUp(h)
      PROVE  ChainInv'
  <2>1. at' = [at EXCEPT ![h] = Latest] /\ UNCHANGED <<records, checkpoints>> /\ Latest' = Latest
    BY <1>3 DEF CatchUp, Latest
  <2>. QED  BY <1>0, <2>1 DEF ChainInv
<1>4. CASE UNCHANGED vars
  BY <1>4 DEF vars, ChainInv, Latest
<1>. QED  BY <1>1, <1>2, <1>3, <1>4 DEF Next

\* The chain holds of an empty stream.
LEMMA ChainInit ==
    ASSUME Init
    PROVE  ChainInv
<1>1. records = << >> /\ records \in Seq(OpRecord) /\ Latest = 0 /\ checkpoints = {}
  BY DEF Init, Latest
<1>2. at \in [Hosts -> {Astray} \union 0 .. 0]
  BY DEF Init
<1>. QED  BY <1>1, <1>2 DEF ChainInv

\* "The stream is tamper-evident".
THEOREM StreamIsTamperEvident == Spec => []TamperingIsCaught
<1>1. Init => ChainInv
  BY ChainInit
<1>2. ChainInv /\ [Next]_vars => ChainInv'
  BY ChainInductive
<1>3. ChainInv => TamperingIsCaught
  BY ChainInvCatches
<1>. QED  BY <1>1, <1>2, <1>3, PTL DEF Spec

-----------------------------------------------------------------------------
(***************************************************************************)
(* The fold.  FoldLeft chooses a function on the subsets of a sequence's   *)
(* domain; that there is one, and that two of them agree on the prefixes   *)
(* they share, is shown by the least length where it would fail.           *)
(***************************************************************************)
Base(t) == [err |-> "None", tree |-> t, stopped |-> 0]
Step(acc, record, b) == IF acc.err # "None" \/ Skipped(record, b) THEN acc ELSE Folded(acc, record)

IsFold(f, t, recs, b, n) ==
    /\ DOMAIN f = SUBSET (1 .. n)
    /\ \A s \in SUBSET (1 .. n) : f[s] = IF s = {} THEN Base(t) ELSE Step(f[s \ {Max(s)}], recs[Max(s)], b)

\* A set of numbers has a least one.
LEMMA Least ==
    ASSUME NEW T, T \subseteq Nat, T # {}
    PROVE  \E m \in T : \A n \in T : m <= n
<1>1. PICK m \in T : \A n \in T : ~ (<<n, m>> \in OpToRel(<, Nat))
  BY WFMin, NatLessThanWellFounded
<1>2. \A n \in T : ~ (n < m)
  BY <1>1 DEF OpToRel
<1>. QED  BY <1>2

\* And a range has a greatest, its end.
LEMMA MaxOf ==
    ASSUME NEW n \in Nat, NEW s \in SUBSET (1 .. n), n \in s
    PROVE  Max(s) = n
<1>1. \A x \in s : (\A y \in s : x >= y) => x = n
  OBVIOUS
<1>2. \A y \in s : n >= y
  OBVIOUS
<1>. QED  BY <1>1, <1>2 DEF Max

\* A fold over 1 .. n takes n away and goes on over 1 .. n - 1.
LEMMA RangeIs ==
    ASSUME NEW n \in Nat \ {0}
    PROVE  Max(1 .. n) = n /\ 1 .. n # {} /\ (1 .. n) \ {n} = 1 .. n - 1 /\ 1 .. n \in SUBSET (1 .. n)
<1>1. n \in 1 .. n /\ 1 .. n \in SUBSET (1 .. n)
  OBVIOUS
<1>2. Max(1 .. n) = n
  BY <1>1, MaxOf
<1>3. ASSUME NEW x
      PROVE  x \in (1 .. n) \ {n} <=> x \in 1 .. n - 1
  OBVIOUS
<1>. QED  BY <1>1, <1>2, <1>3

\* There is a fold over every length.
LEMMA FoldExists ==
    ASSUME NEW t, NEW recs, NEW b, NEW n \in Nat
    PROVE  \E f : IsFold(f, t, recs, b, n)
<1>. DEFINE T == {m \in Nat : ~ \E f : IsFold(f, t, recs, b, m)}
<1>. SUFFICES ASSUME T # {}
              PROVE  FALSE
  OBVIOUS
<1>1. PICK m \in T : \A k \in T : m <= k
  BY Least
<1>2. CASE m = 0
  <2>. DEFINE f == [s \in SUBSET (1 .. 0) |-> Base(t)]
  <2>1. SUBSET (1 .. 0) = {{}}
    OBVIOUS
  <2>2. IsFold(f, t, recs, b, 0)
    BY <2>1 DEF IsFold
  <2>. QED  BY <1>1, <1>2, <2>2
<1>3. CASE m # 0
  <2>1. m - 1 \in Nat /\ m - 1 \notin T
    BY <1>1, <1>3
  <2>2. PICK g : IsFold(g, t, recs, b, m - 1)
    BY <2>1
  <2>. DEFINE f == [s \in SUBSET (1 .. m) |-> IF m \in s THEN Step(g[s \ {m}], recs[m], b) ELSE g[s]]
  <2>3. ASSUME NEW s \in SUBSET (1 .. m)
        PROVE  f[s] = IF s = {} THEN Base(t) ELSE Step(f[s \ {Max(s)}], recs[Max(s)], b)
    <3>1. CASE m \in s
      <4>1. Max(s) = m
        BY <1>1, <3>1, MaxOf
      <4>2. s \ {m} \in SUBSET (1 .. m) /\ m \notin s \ {m}
        OBVIOUS
      <4>3. f[s \ {m}] = g[s \ {m}]
        BY <4>2
      <4>4. f[s] = Step(g[s \ {m}], recs[m], b)
        BY <3>1
      <4>. QED  BY <3>1, <4>1, <4>3, <4>4
    <3>2. CASE m \notin s
      <4>1. s \in SUBSET (1 .. m - 1)
        BY <1>1, <3>2
      <4>2. f[s] = g[s] /\ f[s \ {Max(s)}] = g[s \ {Max(s)}]
        BY <3>2
      <4>. QED  BY <2>2, <4>1, <4>2 DEF IsFold
    <3>. QED  BY <3>1, <3>2
  <2>4. DOMAIN f = SUBSET (1 .. m)
    OBVIOUS
  <2>. HIDE DEF f
  <2>5. IsFold(f, t, recs, b, m)
    BY <2>3, <2>4 DEF IsFold
  <2>. QED  BY <1>1, <2>5
<1>. QED  BY <1>2, <1>3

\* What a fold gives a prefix is of the prefix only.
LEMMA FoldsAgree ==
    ASSUME NEW t, NEW b, NEW recs, NEW others, NEW n \in Nat, NEW m \in Nat, NEW f, NEW g,
           IsFold(f, t, recs, b, n), IsFold(g, t, others, b, m),
           NEW k \in Nat, k <= n, k <= m, \A j \in 1 .. k : recs[j] = others[j]
    PROVE  f[1 .. k] = g[1 .. k]
<1>. DEFINE T == {i \in Nat : i <= k /\ f[1 .. i] # g[1 .. i]}
<1>. SUFFICES ASSUME T # {}
              PROVE  FALSE
  OBVIOUS
<1>1. PICK i \in T : \A j \in T : i <= j
  BY Least
<1>2. 1 .. i \in SUBSET (1 .. n) /\ 1 .. i \in SUBSET (1 .. m)
  BY <1>1
<1>3. CASE i = 0
  <2>1. 1 .. i = {}
    BY <1>3
  <2>. QED  BY <1>1, <1>2, <2>1 DEF IsFold
<1>4. CASE i # 0
  <2>1. Max(1 .. i) = i /\ 1 .. i # {} /\ (1 .. i) \ {i} = 1 .. i - 1
    BY <1>1, <1>4, RangeIs
  <2>2. i - 1 \in Nat /\ i - 1 <= k /\ i - 1 \notin T
    BY <1>1, <1>4
  <2>3. f[1 .. i - 1] = g[1 .. i - 1]
    BY <2>2
  <2>4. f[1 .. i] = Step(f[1 .. i - 1], recs[i], b)
    BY <1>2, <2>1 DEF IsFold
  <2>5. g[1 .. i] = Step(g[1 .. i - 1], others[i], b)
    BY <1>2, <2>1 DEF IsFold
  <2>6. recs[i] = others[i]
    BY <1>1, <1>4
  <2>. QED  BY <1>1, <2>3, <2>4, <2>5, <2>6
<1>. QED  BY <1>3, <1>4

\* ApplyTo is such a fold over all of its records.
LEMMA ApplyToFolds ==
    ASSUME NEW t, NEW recs, NEW b, NEW n \in Nat, DOMAIN recs = 1 .. n
    PROVE  \E f : IsFold(f, t, recs, b, n) /\ ApplyTo(t, recs, b) = f[1 .. n]
<1>. DEFINE F(f) == f = [s \in SUBSET DOMAIN recs |->
                         IF s = {} THEN Base(t) ELSE Step(f[s \ {Max(s)}], recs[Max(s)], b)]
            c == CHOOSE f : F(f)
<1>1. ApplyTo(t, recs, b) = c[DOMAIN recs]
  BY DEF ApplyTo, FoldLeft, MapThenFoldSet, Step, Base
<1>2. \E f : F(f)
  <2>1. PICK f : IsFold(f, t, recs, b, n)
    BY FoldExists
  <2>. DEFINE g == [s \in SUBSET (1 .. n) |-> f[s]]
  <2>2. g = [s \in SUBSET (1 .. n) |-> IF s = {} THEN Base(t) ELSE Step(g[s \ {Max(s)}], recs[Max(s)], b)]
    BY <2>1 DEF IsFold
  <2>. HIDE DEF g
  <2>3. F(g)
    BY <2>2
  <2>. HIDE DEF F
  <2>. QED  BY <2>3
<1>. HIDE DEF F
<1>3. F(c)
  BY <1>2
<1>. HIDE DEF c
<1>4. c = [s \in SUBSET (1 .. n) |-> IF s = {} THEN Base(t) ELSE Step(c[s \ {Max(s)}], recs[Max(s)], b)]
  BY <1>3 DEF F
<1>5. IsFold(c, t, recs, b, n)
  <2>. DEFINE B(s) == IF s = {} THEN Base(t) ELSE Step(c[s \ {Max(s)}], recs[Max(s)], b)
  <2>1. c = [s \in SUBSET (1 .. n) |-> B(s)]
    BY <1>4
  <2>. HIDE DEF B
  <2>2. DOMAIN c = SUBSET (1 .. n) /\ \A s \in SUBSET (1 .. n) : c[s] = B(s)
    BY <2>1
  <2>. QED  BY <2>2 DEF IsFold, B
<1>. QED  BY <1>1, <1>5

\* So no record gives the tree it began with,
LEMMA ApplyToNone ==
    ASSUME NEW t, NEW recs, NEW b, DOMAIN recs = 1 .. 0
    PROVE  ApplyTo(t, recs, b) = Base(t)
<1>1. PICK f : IsFold(f, t, recs, b, 0) /\ ApplyTo(t, recs, b) = f[1 .. 0]
  BY ApplyToFolds
<1>2. 1 .. 0 = {} /\ 1 .. 0 \in SUBSET (1 .. 0)
  OBVIOUS
<1>. QED  BY <1>1, <1>2 DEF IsFold

\* and one more record is one more step.
LEMMA ApplyToMore ==
    ASSUME NEW t, NEW recs, NEW fewer, NEW b, NEW n \in Nat \ {0}, DOMAIN recs = 1 .. n,
           DOMAIN fewer = 1 .. n - 1, \A j \in 1 .. n - 1 : recs[j] = fewer[j]
    PROVE  ApplyTo(t, recs, b) = Step(ApplyTo(t, fewer, b), recs[n], b)
<1>1. PICK f : IsFold(f, t, recs, b, n) /\ ApplyTo(t, recs, b) = f[1 .. n]
  BY ApplyToFolds
<1>2. PICK g : IsFold(g, t, fewer, b, n - 1) /\ ApplyTo(t, fewer, b) = g[1 .. n - 1]
  BY ApplyToFolds
<1>3. f[1 .. n - 1] = g[1 .. n - 1]
  BY <1>1, <1>2, FoldsAgree
<1>4. Max(1 .. n) = n /\ 1 .. n # {} /\ (1 .. n) \ {n} = 1 .. n - 1 /\ 1 .. n \in SUBSET (1 .. n)
  BY RangeIs
<1>5. f[1 .. n] = Step(f[1 .. n - 1], recs[n], b)
  BY <1>1, <1>4 DEF IsFold
<1>. QED  BY <1>1, <1>2, <1>3, <1>5

-----------------------------------------------------------------------------
(***************************************************************************)
(* Replay, from any sequence to any other.                                 *)
(***************************************************************************)
Replayed(recs, t, m, n, b) == ApplyTo(t, SubSeq(recs, m + 1, n), b)

\* It is what replay_stream answers,
LEMMA ReplayIs ==
    ASSUME ChainInv, NEW t, NEW m \in Nat, NEW n \in 0 .. Latest, NEW b
    PROVE  ReplayStream(t, m + 1, n, b) = Replayed(records, t, m, n, b)
<1>1. (IF n < Latest THEN n ELSE Latest) = n
  BY DEF ChainInv, Latest
<1>. QED  BY <1>1 DEF ReplayStream, SinkReplay, Replayed

\* which is the tree itself where there is no record,
LEMMA ReplayedNone ==
    ASSUME NEW recs \in Seq(OpRecord), NEW t, NEW m \in 0 .. Len(recs), NEW b
    PROVE  Replayed(recs, t, m, m, b) = Base(t)
<1>1. DOMAIN SubSeq(recs, m + 1, m) = 1 .. 0
  OBVIOUS
<1>. QED  BY <1>1, ApplyToNone DEF Replayed

\* and one step more for one record more.
LEMMA ReplayedMore ==
    ASSUME NEW recs \in Seq(OpRecord), NEW t, NEW m \in Nat, NEW n \in 1 .. Len(recs), m < n, NEW b
    PROVE  Replayed(recs, t, m, n, b) = Step(Replayed(recs, t, m, n - 1, b), recs[n], b)
<1>. DEFINE s == SubSeq(recs, m + 1, n)
            r == SubSeq(recs, m + 1, n - 1)
            k == n - m
<1>0. \A j \in 1 .. Len(recs) : recs[j] \in OpRecord
  OBVIOUS
<1>1. DOMAIN s = 1 .. k /\ \A j \in 1 .. k : s[j] = recs[m + j]
  <2>1. /\ Len(s) = n - (m + 1) + 1 /\ s \in Seq(OpRecord)
        /\ \A j \in 1 .. n - (m + 1) + 1 : s[j] = recs[(m + 1) + j - 1]
    BY <1>0, SubSeqProperties
  <2>2. n - (m + 1) + 1 = k /\ \A j \in 1 .. k : (m + 1) + j - 1 = m + j
    OBVIOUS
  <2>. HIDE DEF s, k
  <2>. QED  BY <2>1, <2>2
<1>2. DOMAIN r = 1 .. k - 1 /\ \A j \in 1 .. k - 1 : r[j] = recs[m + j]
  <2>1. /\ Len(r) = n - 1 - (m + 1) + 1 /\ r \in Seq(OpRecord)
        /\ \A j \in 1 .. n - 1 - (m + 1) + 1 : r[j] = recs[(m + 1) + j - 1]
    BY <1>0, SubSeqProperties
  <2>2. n - 1 - (m + 1) + 1 = k - 1 /\ \A j \in 1 .. k : (m + 1) + j - 1 = m + j
    OBVIOUS
  <2>3. 1 .. k - 1 \subseteq 1 .. k
    OBVIOUS
  <2>. HIDE DEF r, k
  <2>. QED  BY <2>1, <2>2, <2>3
<1>3. k \in Nat \ {0} /\ m + k = n /\ k \in 1 .. k /\ 1 .. k - 1 \subseteq 1 .. k
  OBVIOUS
<1>. HIDE DEF s, r, k
<1>4. s[k] = recs[n] /\ \A j \in 1 .. k - 1 : s[j] = r[j]
  BY <1>1, <1>2, <1>3
<1>5. ApplyTo(t, s, b) = Step(ApplyTo(t, r, b), s[k], b)
  BY <1>1, <1>2, <1>3, <1>4, ApplyToMore
<1>. QED  BY <1>4, <1>5 DEF Replayed, s, r

\* A replay is of the records it reads.
LEMMA ReplayedAgrees ==
    ASSUME NEW recs \in Seq(OpRecord), NEW others \in Seq(OpRecord),
           NEW n \in Nat, n <= Len(recs), n <= Len(others),
           \A k \in 1 .. n : recs[k] = others[k], NEW t, NEW m \in Nat, NEW b
    PROVE  Replayed(recs, t, m, n, b) = Replayed(others, t, m, n, b)
<1>1. SubSeq(recs, m + 1, n) = SubSeq(others, m + 1, n)
  OBVIOUS
<1>. QED  BY <1>1 DEF Replayed

-----------------------------------------------------------------------------
(***************************************************************************)
(* What a replay gives back.                                               *)
(***************************************************************************)
\* A replay that did not stop is a tree and nothing else.
Good(r) == r.err = "None" => r = Base(r.tree)

\* A step of the fold keeps that.
LEMMA StepGood ==
    ASSUME NEW acc, Good(acc), NEW record, NEW b
    PROVE  Good(Step(acc, record, b))
<1>. DEFINE r == ApplyOp(Ops[record.op.op], acc.tree)
            s == Step(acc, record, b)
<1>1. CASE acc.err # "None" \/ Skipped(record, b)
  BY <1>1 DEF Step
<1>2. CASE acc.err = "None" /\ ~Skipped(record, b)
  <2>1. acc = Base(acc.tree)
    BY <1>2 DEF Good
  <2>3. s = IF r.err = "None" THEN [acc EXCEPT !.tree = r.tree]
            ELSE [acc EXCEPT !.err = r.err, !.stopped = record.seq]
    BY <1>2 DEF Step, Folded
  <2>. HIDE DEF r, s
  <2>5. r.err = "None" => s = Base(r.tree) /\ s.tree = r.tree
    BY <2>1, <2>3 DEF Base
  <2>6. r.err # "None" => s.err # "None"
    BY <2>1, <2>3 DEF Base
  <2>7. Good(s)
    BY <2>5, <2>6 DEF Good
  <2>. QED  BY <2>7 DEF s
<1>. QED  BY <1>1, <1>2

\* So every replay is good.
LEMMA ReplayedGood ==
    ASSUME NEW recs \in Seq(OpRecord), NEW t, NEW b,
           NEW m \in Nat, NEW n \in m .. Len(recs)
    PROVE  Good(Replayed(recs, t, m, n, b))
<1>. DEFINE T == {k \in Nat : m <= k /\ k <= n /\ ~ Good(Replayed(recs, t, m, k, b))}
<1>. SUFFICES ASSUME T # {}
              PROVE  FALSE
  OBVIOUS
<1>1. PICK k \in T : \A j \in T : k <= j
  BY Least
<1>2. CASE k = m
  <2>1. Replayed(recs, t, m, m, b) = Base(t)
    BY <1>1, <1>2, ReplayedNone
  <2>2. Good(Base(t))
    BY DEF Good, Base
  <2>. QED  BY <1>1, <1>2, <2>1, <2>2
<1>3. CASE k # m
  <2>1. k - 1 \in Nat /\ m <= k - 1 /\ k - 1 <= n /\ k - 1 \notin T /\ k \in 1 .. Len(recs) /\ m < k
    BY <1>1, <1>3
  <2>2. Good(Replayed(recs, t, m, k - 1, b))
    BY <2>1
  <2>3. Replayed(recs, t, m, k, b) = Step(Replayed(recs, t, m, k - 1, b), recs[k], b)
    BY <2>1, ReplayedMore
  <2>5. Good(Replayed(recs, t, m, k, b))
    BY <2>2, <2>3, StepGood
  <2>. QED  BY <1>1, <2>5
<1>. QED  BY <1>2, <1>3

\* The document up to a record, and with every record that says it was refused.
Document(n) == Replayed(records, Start, 0, n, FALSE)
Literal == Replayed(records, Start, 0, Latest, TRUE)
IsFirst(f) == f \in Refusals /\ \A j \in Refusals : f <= j

ReplayInv ==
    /\ ChainInv
    /\ DOMAIN tree = Hosts
    /\ \A h \in Hosts : at[h] # Astray => Document(at[h]) = Base(tree[h])
    /\ \A c \in checkpoints : Document(c.seq) = Base(c.snapshot)
    /\ Document(Latest).err # "None" => \E n \in crossed : n <= Document(Latest).stopped
    /\ Refusals = {} => Literal = Document(Latest)
    /\ \A f \in Refusals :
         IsFirst(f) /\ (\A n \in crossed : n > f) => Literal.err # "None" /\ Literal.stopped = f

\* A reading from the start is the document as far as it goes.
LEMMA FromStartIs ==
    ASSUME ChainInv, NEW n \in 0 .. Latest
    PROVE  FromStart(n) = Document(n)
<1>1. FromStart(n) = ReplayStream(Start, 0 + 1, n, FALSE)
  BY DEF FromStart
<1>. QED  BY <1>1, ReplayIs DEF Document

\* A replay that goes on from what another gave is that one gone on.
LEMMA ReplayedOn ==
    ASSUME NEW recs \in Seq(OpRecord), NEW t, NEW u, NEW b, NEW m \in 0 .. Len(recs), NEW n \in m .. Len(recs),
           Replayed(recs, t, 0, m, b) = Base(u)
    PROVE  Replayed(recs, u, m, n, b) = Replayed(recs, t, 0, n, b)
<1>. DEFINE T == {k \in Nat : m <= k /\ k <= n /\ Replayed(recs, u, m, k, b) # Replayed(recs, t, 0, k, b)}
<1>. SUFFICES ASSUME T # {}
              PROVE  FALSE
  OBVIOUS
<1>1. PICK k \in T : \A j \in T : k <= j
  BY Least
<1>2. CASE k = m
  <2>1. Replayed(recs, u, m, m, b) = Base(u)
    BY ReplayedNone
  <2>. QED  BY <1>1, <1>2, <2>1
<1>3. CASE k # m
  <2>1. k - 1 \in Nat /\ m <= k - 1 /\ k - 1 <= n /\ k - 1 \notin T /\ k \in 1 .. Len(recs) /\ m < k /\ 0 < k
    BY <1>1, <1>3
  <2>2. Replayed(recs, u, m, k - 1, b) = Replayed(recs, t, 0, k - 1, b)
    BY <2>1
  <2>3. Replayed(recs, u, m, k, b) = Step(Replayed(recs, u, m, k - 1, b), recs[k], b)
    BY <2>1, ReplayedMore
  <2>4. Replayed(recs, t, 0, k, b) = Step(Replayed(recs, t, 0, k - 1, b), recs[k], b)
    BY <2>1, ReplayedMore
  <2>. QED  BY <1>1, <2>2, <2>3, <2>4
<1>. QED  BY <1>2, <1>3

\* From a checkpoint on, the replay is that of the whole stream.
LEMMA FromCheckpoint ==
    ASSUME ChainInv, NEW c, c.seq \in 0 .. Latest, Document(c.seq) = Base(c.snapshot), NEW n \in c.seq .. Latest
    PROVE  Resume(c, n) = Document(n)
<1>0. Latest \in Nat /\ records \in Seq(OpRecord) /\ Len(records) = Latest
  BY DEF ChainInv, Latest
<1>1. c.seq \in 0 .. Len(records) /\ n \in c.seq .. Len(records) /\ c.seq \in Nat /\ n \in 0 .. Latest
  BY <1>0
<1>2. Replayed(records, c.snapshot, c.seq, n, FALSE) = Document(n)
  <2>1. Replayed(records, Start, 0, c.seq, FALSE) = Base(c.snapshot)
    BY DEF Document
  <2>2. c.seq \in 0 .. Len(records) /\ n \in c.seq .. Len(records)
    BY <1>0, <1>1
  <2>3. Replayed(records, c.snapshot, c.seq, n, FALSE) = Replayed(records, Start, 0, n, FALSE)
    BY <1>0, <2>1, <2>2, ReplayedOn
  <2>. QED  BY <2>3 DEF Document
<1>3. Resume(c, n) = Replayed(records, c.snapshot, c.seq, n, FALSE)
  BY <1>1, ReplayIs DEF Resume
<1>. QED  BY <1>2, <1>3

\* The invariant is what is asked for.
LEMMA ReplayInvGivesBack ==
    ASSUME ReplayInv
    PROVE  HeldIsReplayed /\ PastIsOne /\ StopsAtCrossings /\ LiteralFoldStops
<1>0. /\ ChainInv /\ Latest \in Nat /\ Latest \in 0 .. Latest
      /\ records \in Seq(OpRecord) /\ DOMAIN records = 1 .. Latest
  BY DEF ReplayInv, ChainInv, Latest
<1>2. HeldIsReplayed
  <2>. SUFFICES ASSUME NEW h \in Hosts, at[h] # Astray
                PROVE  FromStart(at[h]) = Base(tree[h])
    BY DEF HeldIsReplayed, Base
  <2>1. at[h] \in 0 .. Latest /\ Document(at[h]) = Base(tree[h])
    BY DEF ReplayInv, ChainInv
  <2>. QED  BY <1>0, <2>1, FromStartIs
<1>3. PastIsOne
  <2>. SUFFICES ASSUME NEW c \in checkpoints, NEW n \in 0 .. Latest, c.seq <= n
                PROVE  Resume(c, n) = FromStart(n)
    BY DEF PastIsOne
  <2>1. c.seq \in 0 .. Latest /\ Document(c.seq) = Base(c.snapshot) /\ n \in c.seq .. Latest
    BY <1>0 DEF ReplayInv, ChainInv
  <2>2. Resume(c, n) = Document(n)
    BY <1>0, <2>1, FromCheckpoint
  <2>. QED  BY <1>0, <2>2, FromStartIs
<1>4. StopsAtCrossings
  <2>1. FromStart(Latest) = Document(Latest)
    BY <1>0, FromStartIs
  <2>. QED  BY <2>1 DEF ReplayInv, StopsAtCrossings
<1>5. LiteralFoldStops
  <2>. SUFFICES ASSUME Refusals # {}
                PROVE  LET first == CHOOSE i \in Refusals : \A j \in Refusals : i <= j
                       IN  (\A n \in crossed : n > first) => ReplayStream(Start, 1, Latest, TRUE).stopped = first
    BY DEF LiteralFoldStops
  <2>. DEFINE first == CHOOSE i \in Refusals : \A j \in Refusals : i <= j
  <2>1. Refusals \subseteq Nat
    BY <1>0 DEF Refusals
  <2>2. IsFirst(first)
    BY <2>1, Least DEF IsFirst
  <2>. HIDE DEF first
  <2>3. ReplayStream(Start, 1, Latest, TRUE) = Literal
    <3>1. ReplayStream(Start, 0 + 1, Latest, TRUE) = Literal
      BY <1>0, ReplayIs DEF Literal
    <3>2. 0 + 1 = 1
      OBVIOUS
    <3>. QED  BY <3>1, <3>2
  <2>4. (\A n \in crossed : n > first) => ReplayStream(Start, 1, Latest, TRUE).stopped = first
    BY <2>2, <2>3 DEF ReplayInv, IsFirst
  <2>. QED  BY <2>4 DEF first
<1>. QED  BY <1>2, <1>3, <1>4, <1>5

\* What writing a record does to the stream and to its replays.
LEMMA Written ==
    ASSUME ChainInv, NEW h \in Hosts, NEW name \in DOMAIN Ops, NEW result \in {"Success", "Failure"},
           Write(h, name, result)
    PROVE  /\ ChainInv' /\ Latest' = Latest + 1
           /\ records'[Latest + 1].seq = Latest + 1
           /\ records'[Latest + 1].op = [op |-> name, result |-> result]
           /\ records'[Latest + 1] \in OpRecord
           /\ Refusals' = IF result = "Failure" THEN Refusals \union {Latest + 1} ELSE Refusals
           /\ \A b \in BOOLEAN, n \in 0 .. Latest :
                Replayed(records', Start, 0, n, b) = Replayed(records, Start, 0, n, b)
           /\ \A b \in BOOLEAN :
                Replayed(records', Start, 0, Latest + 1, b)
                  = Step(Replayed(records, Start, 0, Latest, b), records'[Latest + 1], b)
<1>. DEFINE p == [op |-> name, result |-> result]
            x == Sealed(Latest + 1, HeadAt(Latest), p)
<1>0. Latest \in Nat /\ records \in Seq(OpRecord) /\ Len(records) = Latest
  BY DEF ChainInv, Latest
<1>1. p \in Payload
  BY DEF Payload
<1>2. records' = Append(records, x)
  BY DEF Write
<1>. HIDE DEF p
<1>3. x \in OpRecord
  BY <1>1, SealedIs
<1>4. x.seq = Latest + 1 /\ x.op = p
  BY DEF Sealed
<1>. HIDE DEF x
<1>5. /\ records' \in Seq(OpRecord) /\ Len(records') = Latest + 1 /\ records'[Latest + 1] = x
      /\ \A k \in 1 .. Latest : records'[k] = records[k]
  BY <1>0, <1>2, <1>3
<1>6. ChainInv' /\ Latest' = Latest + 1
  BY <1>5, WriteKeepsChain DEF Latest
<1>7. ASSUME NEW b \in BOOLEAN, NEW n \in 0 .. Latest
      PROVE  Replayed(records', Start, 0, n, b) = Replayed(records, Start, 0, n, b)
  <2>1. n \in Nat /\ n <= Len(records) /\ n <= Len(records') /\ \A k \in 1 .. n : records'[k] = records[k]
    BY <1>0, <1>5
  <2>. QED  BY <1>0, <1>5, <2>1, ReplayedAgrees
<1>8. ASSUME NEW b \in BOOLEAN
      PROVE  Replayed(records', Start, 0, Latest + 1, b) = Step(Replayed(records, Start, 0, Latest, b), x, b)
  <2>1. Latest + 1 \in 1 .. Len(records') /\ 0 < Latest + 1 /\ Latest + 1 - 1 = Latest /\ Latest \in 0 .. Latest
    BY <1>0, <1>5
  <2>. DEFINE k == Latest + 1
  <2>2. k \in 1 .. Len(records') /\ 0 < k /\ k - 1 = Latest
    BY <2>1
  <2>. HIDE DEF k
  <2>3. Replayed(records', Start, 0, k, b) = Step(Replayed(records', Start, 0, k - 1, b), records'[k], b)
    BY <1>5, <2>2, ReplayedMore
  <2>4. Replayed(records', Start, 0, Latest, b) = Replayed(records, Start, 0, Latest, b)
    BY <1>7, <2>1
  <2>5. records'[k] = x
    BY <1>5 DEF k
  <2>. QED  BY <2>2, <2>3, <2>4, <2>5 DEF k
<1>9. Refusals' = IF result = "Failure" THEN Refusals \union {Latest + 1} ELSE Refusals
  <2>1. DOMAIN records = 1 .. Latest /\ DOMAIN records' = 1 .. Latest + 1
    BY <1>0, <1>5
  <2>2. \A k \in 1 .. Latest + 1 : k \in 1 .. Latest \/ k = Latest + 1
    BY <1>0
  <2>3. Latest + 1 \in 1 .. Latest + 1 /\ Latest + 1 \notin 1 .. Latest /\ 1 .. Latest \subseteq 1 .. Latest + 1
    BY <1>0
  <2>4. records'[Latest + 1].op.result = result
    BY <1>4, <1>5 DEF p
  <2>5. \A k \in 1 .. Latest : records'[k].op.result = records[k].op.result
    BY <1>5
  <2>6. Refusals = {k \in 1 .. Latest : records[k].op.result = "Failure"}
    BY <2>1 DEF Refusals
  <2>7. Refusals' = {k \in 1 .. Latest + 1 : records'[k].op.result = "Failure"}
    BY <2>1 DEF Refusals
  <2>. DEFINE n == Latest + 1
  <2>8. result = "Failure" => Refusals' = Refusals \union {n}
    BY <2>2, <2>3, <2>4, <2>5, <2>6, <2>7
  <2>9. result # "Failure" => Refusals' = Refusals
    BY <2>2, <2>3, <2>4, <2>5, <2>6, <2>7
  <2>. QED  BY <2>8, <2>9
<1>. QED  BY <1>3, <1>4, <1>5, <1>6, <1>7, <1>8, <1>9 DEF p

\* What a host or a checkpoint holds that was not the last to write is as it was.
LEMMA HeldElsewhere ==
    ASSUME ReplayInv, NEW h \in Hosts, NEW name \in DOMAIN Ops, NEW result \in {"Success", "Failure"},
           Write(h, name, result), DOMAIN tree' = Hosts, \A g \in Hosts \ {h} : tree'[g] = tree[g],
           at[h] = Latest => Replayed(records', Start, 0, Latest + 1, FALSE) = Base(tree'[h])
    PROVE  /\ \A g \in Hosts : at'[g] # Astray => Replayed(records', Start, 0, at'[g], FALSE) = Base(tree'[g])
           /\ \A c \in checkpoints' : Replayed(records', Start, 0, c.seq, FALSE) = Base(c.snapshot)
<1>0. ChainInv /\ Latest \in Nat /\ Latest \in 0 .. Latest
  BY DEF ReplayInv, ChainInv, Latest
<1>1. \A n \in 0 .. Latest : Replayed(records', Start, 0, n, FALSE) = Document(n)
  BY <1>0, Written DEF Document
<1>2. /\ at \in [Hosts -> {Astray} \union 0 .. Latest]
      /\ at' = [at EXCEPT ![h] = IF at[h] = Latest THEN Latest + 1 ELSE Astray]
  BY <1>0 DEF ChainInv, Write
<1>3. \A g \in Hosts \ {h} : at'[g] = at[g] /\ at[g] \in {Astray} \union 0 .. Latest
  BY <1>2
<1>4. at'[h] = IF at[h] = Latest THEN Latest + 1 ELSE Astray
  BY <1>2
<1>5. ASSUME NEW g \in Hosts, at'[g] # Astray
      PROVE  Replayed(records', Start, 0, at'[g], FALSE) = Base(tree'[g])
  <2>1. CASE g = h
    BY <1>4, <1>5, <2>1
  <2>2. CASE g # h
    <3>1. at'[g] = at[g] /\ at[g] \in 0 .. Latest
      BY <1>3, <1>5, <2>2
    <3>2. Document(at[g]) = Base(tree[g])
      BY <1>5, <3>1 DEF ReplayInv
    <3>. QED  BY <1>1, <2>2, <3>1, <3>2
  <2>. QED  BY <2>1, <2>2
<1>6. ASSUME NEW c \in checkpoints'
      PROVE  Replayed(records', Start, 0, c.seq, FALSE) = Base(c.snapshot)
  <2>1. c \in checkpoints
    BY DEF Write
  <2>. QED  BY <1>0, <1>1, <2>1 DEF ReplayInv, ChainInv
<1>. QED  BY <1>5, <1>6

\* The numbers an invariant state compares.
LEMMA Numbers ==
    ASSUME ChainInv
    PROVE  Latest \in Nat /\ Latest \in 0 .. Latest /\ Refusals \subseteq 1 .. Latest
<1>1. Latest \in Nat /\ DOMAIN records = 1 .. Latest
  BY DEF ChainInv, Latest
<1>. QED  BY <1>1 DEF Refusals

\* An op that applies.
LEMMA PersistKeeps ==
    ASSUME ReplayInv, NEW h \in Hosts, NEW name \in DOMAIN Ops, Persist(h, name)
    PROVE  ReplayInv'
<1>. DEFINE a == ApplyOp(Ops[name], tree[h])
            d == Document(Latest)
            x == records'[Latest + 1]
            after == Replayed(records', Start, 0, Latest + 1, FALSE)
            literal == Replayed(records', Start, 0, Latest + 1, TRUE)
<1>0. ChainInv /\ Latest \in Nat /\ Latest \in 0 .. Latest /\ Refusals \subseteq 1 .. Latest
  BY Numbers DEF ReplayInv
<1>1. Write(h, name, "Success") /\ tree' = [tree EXCEPT ![h] = a.tree] /\ a.err = "None"
  BY DEF Persist, Answer
<1>2. /\ ChainInv' /\ Latest' = Latest + 1 /\ Refusals' = Refusals
      /\ x.seq = Latest + 1 /\ x.op = [op |-> name, result |-> "Success"]
  BY <1>0, <1>1, Written
<1>3. after = Step(d, x, FALSE) /\ literal = Step(Literal, x, TRUE)
  BY <1>0, <1>1, Written DEF Document, Literal
<1>4. DOMAIN tree' = Hosts /\ tree'[h] = a.tree /\ \A g \in Hosts \ {h} : tree'[g] = tree[g]
  BY <1>1 DEF ReplayInv
<1>6. \A acc : \A b \in BOOLEAN : Step(acc, x, b) = IF acc.err # "None" THEN acc ELSE Folded(acc, x)
  <2>1. x.op.result = "Success"
    BY <1>2
  <2>. HIDE DEF x
  <2>. QED  BY <2>1 DEF Step, Skipped
<1>7. \A acc : Folded(acc, x) = LET r == ApplyOp(Ops[name], acc.tree)
                              IN  IF r.err = "None" THEN [acc EXCEPT !.tree = r.tree]
                                  ELSE [acc EXCEPT !.err = r.err, !.stopped = Latest + 1]
  BY <1>2 DEF Folded
<1>8. at[h] = Latest => d = Base(tree[h]) /\ after = Base(a.tree)
  <2>1. Latest # Astray
    BY <1>0 DEF Astray
  <2>2. at[h] = Latest => d = Base(tree[h])
    BY <2>1 DEF ReplayInv
  <2>3. Folded(Base(tree[h]), x) = Base(a.tree)
    <3>1. Base(tree[h]).tree = tree[h]
      BY DEF Base
    <3>2. Folded(Base(tree[h]), x) = [Base(tree[h]) EXCEPT !.tree = a.tree]
      BY <1>1, <1>7, <3>1
    <3>. HIDE DEF a, x
    <3>. QED  BY <3>2 DEF Base
  <2>4. Step(Base(tree[h]), x, FALSE) = Base(a.tree)
    BY <1>6, <2>3 DEF Base
  <2>. HIDE DEF a, d, after, x
  <2>. QED  BY <1>3, <2>2, <2>4
<1>9. crossed' = IF at[h] = Latest THEN crossed ELSE crossed \union {Latest + 1}
  BY <1>1 DEF Write
<1>10. after.err # "None" => \E n \in crossed' : n <= after.stopped
  <2>1. CASE d.err # "None"
    <3>1. after = d
      BY <1>3, <1>6, <2>1
    <3>2. \E n \in crossed : n <= d.stopped
      BY <2>1 DEF ReplayInv
    <3>. QED  BY <1>9, <3>1, <3>2
  <2>2. CASE d.err = "None" /\ at[h] = Latest
    <3>1. after = Base(a.tree)
      BY <1>8, <2>2
    <3>2. Base(a.tree).err = "None"
      BY DEF Base
    <3>. QED  BY <3>1, <3>2
  <2>3. CASE d.err = "None" /\ at[h] # Latest
    <3>1. Good(d)
      BY <1>0, ReplayedGood DEF ChainInv, Document, Latest
    <3>2. d = Base(d.tree)
      BY <2>3, <3>1 DEF Good
    <3>3. after = Folded(d, x)
      BY <1>3, <1>6, <2>3
    <3>. DEFINE r == ApplyOp(Ops[name], d.tree)
    <3>4. after = IF r.err = "None" THEN [d EXCEPT !.tree = r.tree]
                  ELSE [d EXCEPT !.err = r.err, !.stopped = Latest + 1]
      BY <1>7, <3>3
    <3>. HIDE DEF r, after, d
    <3>5. after.err # "None" => after.stopped = Latest + 1
      BY <2>3, <3>2, <3>4 DEF Base
    <3>6. Latest + 1 \in crossed' /\ Latest + 1 <= Latest + 1
      BY <1>0, <1>9, <2>3
    <3>. QED  BY <3>5, <3>6
  <2>. QED  BY <2>1, <2>2, <2>3
<1>11. Refusals' = {} => literal = after
  <2>1. Refusals' = {} => Literal = d
    BY <1>2 DEF ReplayInv
  <2>. QED  BY <1>3, <1>6, <2>1
<1>12. ASSUME NEW f \in Refusals, \A j \in Refusals : f <= j, \A n \in crossed' : n > f
       PROVE  literal.err # "None" /\ literal.stopped = f
  <2>1. Literal.err # "None" /\ Literal.stopped = f
    BY <1>9, <1>12 DEF ReplayInv, IsFirst
  <2>2. Step(Literal, x, TRUE) = Literal
    BY <1>6, <2>1
  <2>3. literal = Literal
    BY <1>3, <2>2
  <2>. HIDE DEF literal
  <2>. QED  BY <2>1, <2>3
<1>13. /\ \A g \in Hosts : at'[g] # Astray => Replayed(records', Start, 0, at'[g], FALSE) = Base(tree'[g])
       /\ \A c \in checkpoints' : Replayed(records', Start, 0, c.seq, FALSE) = Base(c.snapshot)
  BY <1>1, <1>4, <1>8, HeldElsewhere
<1>14. Document(Latest)' = after /\ Literal' = literal
  BY <1>2 DEF Document, Literal
<1>. HIDE DEF after, literal
<1>. QED  BY <1>2, <1>4, <1>10, <1>11, <1>12, <1>13, <1>14 DEF ReplayInv, Document, IsFirst

\* An op that was refused, and is recorded.
LEMMA DenyKeeps ==
    ASSUME ReplayInv, NEW h \in Hosts, NEW name \in DOMAIN Ops, Deny(h, name)
    PROVE  ReplayInv'
<1>. DEFINE a == ApplyOp(Ops[name], tree[h])
            d == Document(Latest)
            x == records'[Latest + 1]
            after == Replayed(records', Start, 0, Latest + 1, FALSE)
            literal == Replayed(records', Start, 0, Latest + 1, TRUE)
<1>0. ChainInv /\ Latest \in Nat /\ Latest \in 0 .. Latest /\ Refusals \subseteq 1 .. Latest
  BY Numbers DEF ReplayInv
<1>1. Write(h, name, "Failure") /\ tree' = tree /\ a.err # "None"
  BY DEF Deny, Answer
<1>2. /\ ChainInv' /\ Latest' = Latest + 1 /\ Refusals' = Refusals \union {Latest + 1}
      /\ x.seq = Latest + 1 /\ x.op = [op |-> name, result |-> "Failure"]
  BY <1>0, <1>1, Written
<1>3. after = Step(d, x, FALSE) /\ literal = Step(Literal, x, TRUE)
  BY <1>0, <1>1, Written DEF Document, Literal
<1>4. Skipped(x, FALSE) /\ ~Skipped(x, TRUE)
  BY <1>2 DEF Skipped
<1>5. after = d /\ literal = IF Literal.err # "None" THEN Literal ELSE Folded(Literal, x)
  BY <1>3, <1>4 DEF Step
<1>6. DOMAIN tree' = Hosts /\ \A g \in Hosts : tree'[g] = tree[g]
  BY <1>1 DEF ReplayInv
<1>7. at[h] = Latest => d = Base(tree[h])
  BY <1>0 DEF ReplayInv, Astray
<1>8. crossed' = IF at[h] = Latest THEN crossed ELSE crossed \union {Latest + 1}
  BY <1>1 DEF Write
<1>9. after.err # "None" => \E n \in crossed' : n <= after.stopped
  BY <1>5, <1>8 DEF ReplayInv
<1>10. ASSUME NEW f \in Refusals', \A j \in Refusals' : f <= j, \A n \in crossed' : n > f
       PROVE  literal.err # "None" /\ literal.stopped = f
  <2>1. CASE Refusals = {}
    <3>1. f = Latest + 1
      BY <1>2, <2>1
    <3>2. at[h] = Latest
      <4>1. Latest + 1 \notin crossed'
        BY <1>0, <1>10, <3>1
      <4>. QED  BY <1>8, <4>1
    <3>3. Literal = Base(tree[h])
      BY <1>7, <2>1, <3>2 DEF ReplayInv
    <3>4. literal = Folded(Base(tree[h]), x)
      BY <1>5, <3>3 DEF Base
    <3>5. Folded(Base(tree[h]), x) = [Base(tree[h]) EXCEPT !.err = a.err, !.stopped = Latest + 1]
      BY <1>1, <1>2 DEF Folded, Base
    <3>. HIDE DEF a, literal, x
    <3>. QED  BY <1>1, <3>1, <3>4, <3>5 DEF Base
  <2>2. CASE Refusals # {}
    <3>1. PICK j \in Refusals : TRUE
      BY <2>2
    <3>2. f # Latest + 1
      BY <1>0, <1>2, <1>10, <3>1
    <3>3. f \in Refusals /\ \A i \in Refusals : f <= i
      BY <1>2, <1>10, <3>2
    <3>4. \A n \in crossed : n > f
      BY <1>8, <1>10
    <3>5. Literal.err # "None" /\ Literal.stopped = f
      BY <3>3, <3>4 DEF ReplayInv, IsFirst
    <3>6. literal = Literal
      BY <1>5, <3>5
    <3>. HIDE DEF literal
    <3>. QED  BY <3>5, <3>6
  <2>. QED  BY <2>1, <2>2
<1>11. /\ \A g \in Hosts : at'[g] # Astray => Replayed(records', Start, 0, at'[g], FALSE) = Base(tree'[g])
       /\ \A c \in checkpoints' : Replayed(records', Start, 0, c.seq, FALSE) = Base(c.snapshot)
  BY <1>1, <1>5, <1>6, <1>7, HeldElsewhere
<1>12. Document(Latest)' = after /\ Literal' = literal /\ Refusals' # {}
  BY <1>2 DEF Document, Literal
<1>. HIDE DEF after, literal
<1>. QED  BY <1>2, <1>6, <1>9, <1>10, <1>11, <1>12 DEF ReplayInv, Document, IsFirst

\* What a host resumes from is where a document can begin.
LEMMA CheckpointIs ==
    ASSUME ReplayInv
    PROVE  LET c == LatestCheckpoint(Latest) IN c.seq \in 0 .. Latest /\ Document(c.seq) = Base(c.snapshot)
<1>. DEFINE candidates == {c \in checkpoints : c.seq <= Latest}
<1>0. ChainInv /\ Latest \in Nat /\ records \in Seq(OpRecord) /\ 0 \in 0 .. Len(records)
  BY Numbers DEF ReplayInv, ChainInv
<1>1. CASE candidates = {}
  <2>1. LatestCheckpoint(Latest) = [seq |-> 0, head |-> Genesis, snapshot |-> Start]
    BY <1>1 DEF LatestCheckpoint
  <2>2. Document(0) = Base(Start)
    BY <1>0, ReplayedNone DEF Document
  <2>. QED  BY <1>0, <2>1, <2>2
<1>2. CASE candidates # {}
  <2>. DEFINE T == {Latest - c.seq : c \in candidates}
              top == CHOOSE c \in candidates : \A e \in candidates : e.seq <= c.seq
  <2>1. \A c \in candidates : c.seq \in 0 .. Latest
    BY <1>0 DEF ChainInv
  <2>. HIDE DEF candidates
  <2>2. T \subseteq Nat /\ T # {}
    <3>1. \A c \in candidates : Latest - c.seq \in Nat
      BY <1>0, <2>1
    <3>. QED  BY <1>2, <3>1
  <2>3. PICK m \in T : \A n \in T : m <= n
    BY <2>2, Least
  <2>4. PICK c \in candidates : m = Latest - c.seq
    BY <2>3
  <2>5. \A e \in candidates : e.seq <= c.seq
    <3>. SUFFICES ASSUME NEW e \in candidates
                  PROVE  e.seq <= c.seq
      OBVIOUS
    <3>1. m <= Latest - e.seq
      BY <2>3
    <3>. QED  BY <1>0, <2>1, <2>4, <3>1
  <2>6. top \in candidates
    BY <2>4, <2>5
  <2>7. LatestCheckpoint(Latest) = top
    BY <1>2 DEF LatestCheckpoint, candidates
  <2>8. top \in checkpoints
    BY <2>6 DEF candidates
  <2>. QED  BY <2>1, <2>6, <2>7, <2>8 DEF ReplayInv
<1>. QED  BY <1>1, <1>2

\* A host that catches up holds the document.
LEMMA CatchUpKeeps ==
    ASSUME ReplayInv, NEW h \in Hosts, CatchUp(h), ChainInv'
    PROVE  ReplayInv'
<1>. DEFINE c == LatestCheckpoint(Latest)
            r == Resume(c, Latest)
<1>0. /\ ChainInv /\ Latest \in Nat /\ Latest \in 0 .. Latest
      /\ records \in Seq(OpRecord) /\ Len(records) = Latest
      /\ DOMAIN at = Hosts
  BY Numbers DEF ReplayInv, ChainInv, Latest
<1>1. r.err = "None" /\ tree' = [tree EXCEPT ![h] = r.tree] /\ at' = [at EXCEPT ![h] = Latest]
  BY DEF CatchUp
<1>2. UNCHANGED <<records, checkpoints, crossed>>
  BY DEF CatchUp
<1>3. c.seq \in 0 .. Latest /\ Document(c.seq) = Base(c.snapshot)
  BY CheckpointIs
<1>. HIDE DEF c
<1>4. r = Document(Latest)
  BY <1>0, <1>3, FromCheckpoint
<1>5. Good(Document(Latest))
  BY <1>0, ReplayedGood DEF Document
<1>. HIDE DEF r
<1>6. Document(Latest) = Base(r.tree)
  BY <1>1, <1>4, <1>5 DEF Good
<1>7. DOMAIN tree' = Hosts /\ tree'[h] = r.tree /\ \A g \in Hosts \ {h} : tree'[g] = tree[g] /\ at'[g] = at[g]
  BY <1>0, <1>1 DEF ReplayInv
<1>8. at'[h] = Latest
  BY <1>0, <1>1
<1>9. ASSUME NEW g \in Hosts
      PROVE  at'[g] # Astray => Document(at'[g]) = Base(tree'[g])
  <2>1. CASE g = h
    BY <1>6, <1>7, <1>8, <2>1
  <2>2. CASE g # h
    BY <1>7, <2>2 DEF ReplayInv
  <2>. QED  BY <2>1, <2>2
<1>10. /\ \A n : Replayed(records', Start, 0, n, FALSE) = Document(n)
       /\ Literal' = Literal /\ Refusals' = Refusals /\ Latest' = Latest
  BY <1>2 DEF Document, Literal, Refusals, Latest
<1>. QED  BY <1>2, <1>7, <1>9, <1>10 DEF ReplayInv, Document, IsFirst

\* A checkpoint is of the document its host holds.
LEMMA CheckpointKeeps ==
    ASSUME ReplayInv, NEW h \in Hosts, AppendCheckpoint(h), ChainInv'
    PROVE  ReplayInv'
<1>1. /\ at[h] # Astray /\ checkpoints' = checkpoints \union {CheckpointOf(h)}
      /\ UNCHANGED <<records, tree, at, crossed>>
  BY DEF AppendCheckpoint
<1>2. Document(CheckpointOf(h).seq) = Base(CheckpointOf(h).snapshot)
  BY <1>1 DEF ReplayInv, CheckpointOf
<1>3. /\ \A n : Replayed(records', Start, 0, n, FALSE) = Document(n)
      /\ Literal' = Literal /\ Refusals' = Refusals /\ Latest' = Latest
  BY <1>1 DEF Document, Literal, Refusals, Latest
<1>. QED  BY <1>1, <1>2, <1>3 DEF ReplayInv, Document, IsFirst

\* Nothing is replayed of an empty stream.
LEMMA ReplayInit ==
    ASSUME Init
    PROVE  ReplayInv
<1>1. ChainInv
  BY ChainInit
<1>2. /\ records = << >> /\ records \in Seq(OpRecord) /\ Len(records) = 0 /\ Latest = 0
      /\ checkpoints = {} /\ Refusals = {}
      /\ 0 \in 0 .. Len(records)
  BY DEF Init, Latest, Refusals
<1>3. Document(0) = Base(Start) /\ Literal = Base(Start)
  BY <1>2, ReplayedNone DEF Document, Literal
<1>4. Base(Start).err = "None"
  BY DEF Base
<1>5. DOMAIN tree = Hosts /\ \A h \in Hosts : tree[h] = Start /\ at[h] = 0
  BY DEF Init
<1>. QED  BY <1>1, <1>2, <1>3, <1>4, <1>5 DEF ReplayInv, IsFirst

\* Every step keeps it.
LEMMA ReplayInductive ==
    ASSUME ReplayInv, [Next]_vars
    PROVE  ReplayInv'
<1>1. ChainInv'
  BY ChainInductive DEF ReplayInv
<1>2. ASSUME NEW h \in Hosts, NEW name \in DOMAIN Ops, Persist(h, name) \/ Deny(h, name)
      PROVE  ReplayInv'
  BY <1>2, PersistKeeps, DenyKeeps
<1>3. ASSUME NEW h \in Hosts, AppendCheckpoint(h) \/ CatchUp(h)
      PROVE  ReplayInv'
  BY <1>1, <1>3, CheckpointKeeps, CatchUpKeeps
<1>4. CASE UNCHANGED vars
  <2>1. UNCHANGED <<records, checkpoints, tree, at, crossed>>
    BY <1>4 DEF vars
  <2>2. /\ \A n : Replayed(records', Start, 0, n, FALSE) = Document(n)
        /\ Literal' = Literal /\ Refusals' = Refusals /\ Latest' = Latest
    BY <2>1 DEF Document, Literal, Refusals, Latest
  <2>. QED  BY <1>1, <2>1, <2>2 DEF ReplayInv, Document, IsFirst
<1>. QED  BY <1>2, <1>3, <1>4 DEF Next

\* "replay_stream folds a stream back into a tree", whatever the ops do: what every host holds
\* and every checkpoint says is in the stream, from whichever checkpoint it is read, and where
\* a stream does not replay is where a host wrote past what it had not seen.
THEOREM StreamReplays == Spec => [](HeldIsReplayed /\ PastIsOne /\ StopsAtCrossings /\ LiteralFoldStops)
<1>1. Init => ReplayInv
  BY ReplayInit
<1>2. ReplayInv /\ [Next]_vars => ReplayInv'
  BY ReplayInductive
<1>3. ReplayInv => HeldIsReplayed /\ PastIsOne /\ StopsAtCrossings /\ LiteralFoldStops
  BY ReplayInvGivesBack
<1>. QED  BY <1>1, <1>2, <1>3, PTL DEF Spec

-----------------------------------------------------------------------------
(***************************************************************************)
(* And of trees.                                                           *)
(***************************************************************************)
\* Trees the document begins as one of, and no op leads out of.
Lawful(Trees) ==
    /\ Start \in Trees
    /\ \A t \in Trees : WellFormed(t) /\ \A name \in DOMAIN Ops :
         ApplyOp(Ops[name], t).err = "None" => ApplyOp(Ops[name], t).tree \in Trees

TreesInv(Trees) ==
    /\ ReplayInv
    /\ \A h \in Hosts : tree[h] \in Trees
    /\ Document(Latest).err = "None" => Document(Latest).tree \in Trees

\* A record folded into a tree of them gives one of them.
LEMMA StepOfTrees ==
    ASSUME NEW Trees, Lawful(Trees), NEW acc, Good(acc), acc.err = "None" => acc.tree \in Trees,
           NEW record \in OpRecord, NEW b
    PROVE  LET s == Step(acc, record, b) IN s.err = "None" => s.tree \in Trees
<1>. DEFINE r == ApplyOp(Ops[record.op.op], acc.tree)
            s == Step(acc, record, b)
<1>1. CASE acc.err # "None" \/ Skipped(record, b)
  BY <1>1 DEF Step
<1>2. CASE acc.err = "None" /\ ~Skipped(record, b)
  <2>1. acc = Base(acc.tree) /\ acc.tree \in Trees
    BY <1>2 DEF Good
  <2>2. record.op.op \in DOMAIN Ops
    BY DEF OpRecord, Payload
  <2>3. s = IF r.err = "None" THEN [acc EXCEPT !.tree = r.tree]
            ELSE [acc EXCEPT !.err = r.err, !.stopped = record.seq]
    BY <1>2 DEF Step, Folded
  <2>4. r.err = "None" => r.tree \in Trees
    BY <2>1, <2>2 DEF Lawful
  <2>. HIDE DEF r, s
  <2>5. s.err = "None" => s.tree \in Trees
    BY <2>1, <2>3, <2>4 DEF Base
  <2>. QED  BY <2>5 DEF s
<1>. QED  BY <1>1, <1>2

\* Every step leaves only documents built by applied ops, where the apply engine is lawful.
LEMMA TreesInductive ==
    ASSUME NEW Trees, Lawful(Trees), TreesInv(Trees), [Next]_vars
    PROVE  TreesInv(Trees)'
<1>0. /\ ReplayInv /\ ReplayInv' /\ ChainInv /\ DOMAIN tree = Hosts
      /\ Latest \in Nat /\ Latest \in 0 .. Latest /\ records \in Seq(OpRecord) /\ Len(records) = Latest
  BY ReplayInductive, Numbers DEF TreesInv, ReplayInv, ChainInv, Latest
<1>1. ASSUME NEW h \in Hosts, NEW name \in DOMAIN Ops, NEW result \in {"Success", "Failure"},
             Write(h, name, result), \A g \in Hosts : tree'[g] \in Trees
      PROVE  TreesInv(Trees)'
  <2>. DEFINE d == Document(Latest)
              x == records'[Latest + 1]
  <2>1. /\ Latest' = Latest + 1 /\ x \in OpRecord
        /\ Replayed(records', Start, 0, Latest + 1, FALSE) = Step(d, x, FALSE)
    BY <1>0, <1>1, Written DEF Document
  <2>2. Document(Latest)' = Step(d, x, FALSE)
    BY <2>1 DEF Document
  <2>3. Good(d)
    BY <1>0, ReplayedGood DEF Document
  <2>4. d.err = "None" => d.tree \in Trees
    BY DEF TreesInv
  <2>. HIDE DEF d, x
  <2>5. Step(d, x, FALSE).err = "None" => Step(d, x, FALSE).tree \in Trees
    BY <2>1, <2>3, <2>4, StepOfTrees
  <2>. QED  BY <1>0, <1>1, <2>2, <2>5 DEF TreesInv
<1>2. ASSUME NEW h \in Hosts, NEW name \in DOMAIN Ops, Persist(h, name)
      PROVE  TreesInv(Trees)'
  <2>. DEFINE a == ApplyOp(Ops[name], tree[h])
  <2>1. Write(h, name, "Success") /\ tree' = [tree EXCEPT ![h] = a.tree] /\ a.err = "None"
    BY <1>2 DEF Persist, Answer
  <2>2. a.tree \in Trees
    BY <2>1 DEF Lawful, TreesInv
  <2>. HIDE DEF a
  <2>3. \A g \in Hosts : tree'[g] \in Trees
    BY <1>0, <2>1, <2>2 DEF TreesInv
  <2>. QED  BY <1>1, <2>1, <2>3
<1>3. ASSUME NEW h \in Hosts, NEW name \in DOMAIN Ops, Deny(h, name)
      PROVE  TreesInv(Trees)'
  <2>1. Write(h, name, "Failure") /\ \A g \in Hosts : tree'[g] \in Trees
    BY <1>3 DEF Deny, TreesInv
  <2>. QED  BY <1>1, <2>1
<1>4. ASSUME UNCHANGED records, \A g \in Hosts : tree'[g] \in Trees
      PROVE  TreesInv(Trees)'
  <2>1. Document(Latest)' = Document(Latest)
    BY <1>4 DEF Document, Latest
  <2>. QED  BY <1>0, <1>4, <2>1 DEF TreesInv
<1>5. ASSUME NEW h \in Hosts, CatchUp(h)
      PROVE  TreesInv(Trees)'
  <2>. DEFINE c == LatestCheckpoint(Latest)
              r == Resume(c, Latest)
  <2>1. r.err = "None" /\ tree' = [tree EXCEPT ![h] = r.tree] /\ UNCHANGED records
    BY <1>5 DEF CatchUp
  <2>2. c.seq \in 0 .. Latest /\ Document(c.seq) = Base(c.snapshot)
    BY <1>0, CheckpointIs
  <2>. HIDE DEF c
  <2>3. r = Document(Latest)
    BY <1>0, <2>2, FromCheckpoint
  <2>4. r.tree \in Trees
    BY <2>1, <2>3 DEF TreesInv
  <2>. HIDE DEF r
  <2>5. \A g \in Hosts : tree'[g] \in Trees
    BY <1>0, <2>1, <2>4 DEF TreesInv
  <2>. QED  BY <1>4, <2>1, <2>5
<1>6. ASSUME UNCHANGED <<records, tree>>
      PROVE  TreesInv(Trees)'
  BY <1>4, <1>6 DEF TreesInv
<1>7. CASE UNCHANGED vars
  BY <1>6, <1>7 DEF vars
<1>8. ASSUME NEW h \in Hosts, AppendCheckpoint(h)
      PROVE  TreesInv(Trees)'
  BY <1>6, <1>8 DEF AppendCheckpoint
<1>. QED  BY <1>2, <1>3, <1>5, <1>7, <1>8 DEF Next

\* Of which the types follow.
LEMMA TreesInvTyped ==
    ASSUME NEW Trees, Lawful(Trees), TreesInv(Trees)
    PROVE  TypeOK
<1>0. /\ ChainInv /\ Latest \in Nat /\ Latest \in 0 .. Latest
      /\ records \in Seq(OpRecord) /\ DOMAIN records = 1 .. Latest
  BY DEF TreesInv, ReplayInv, ChainInv, Latest
<1>1. \A i \in DOMAIN records : records[i].seq = i
  BY <1>0, ChainedIs DEF ChainInv
<1>2. \A i \in DOMAIN records : records[i].op \in Payload
  <2>1. \A i \in DOMAIN records : records[i] \in OpRecord
    BY <1>0
  <2>. QED  BY <2>1 DEF OpRecord
<1>3. \A h \in Hosts : WellFormed(tree[h]) /\ at[h] \in {Astray} \union 0 .. Latest
  BY <1>0 DEF ChainInv, TreesInv, Lawful
<1>4. \A c \in checkpoints : c.seq \in 0 .. Latest
  BY <1>0 DEF ChainInv
<1>. QED  BY <1>1, <1>2, <1>3, <1>4 DEF TypeOK

\* Where no op leads out of the trees, all of ReplayGivesBack.
THEOREM ReplayGivesTheDocumentBack ==
    ASSUME NEW CONSTANT Trees, Lawful(Trees)
    PROVE  Spec => []ReplayGivesBack
<1>1. Init => TreesInv(Trees)
  <2>. SUFFICES ASSUME Init
                PROVE  TreesInv(Trees)
    OBVIOUS
  <2>1. ReplayInv
    BY ReplayInit
  <2>2. /\ records = << >> /\ records \in Seq(OpRecord) /\ Latest = 0 /\ 0 \in 0 .. Len(records)
    BY DEF Init, Latest
  <2>3. Document(Latest) = Base(Start)
    BY <2>2, ReplayedNone DEF Document
  <2>4. Base(Start).tree = Start /\ \A h \in Hosts : tree[h] = Start
    BY DEF Base, Init
  <2>. QED  BY <2>1, <2>3, <2>4 DEF TreesInv, Lawful
<1>2. TreesInv(Trees) /\ [Next]_vars => TreesInv(Trees)'
  BY TreesInductive
<1>3. TreesInv(Trees) => ReplayGivesBack
  BY TreesInvTyped, ReplayInvGivesBack DEF TreesInv, ReplayGivesBack
<1>. QED  BY <1>1, <1>2, <1>3, PTL DEF Spec
=============================================================================
