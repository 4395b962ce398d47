--------------------------- MODULE OpStreamProofs ---------------------------
(***************************************************************************)
(* Proofs about OpStream, for any set of writers, any ops, any bound on    *)
(* the attempts and any imported records.                                  *)
(***************************************************************************)
EXTENDS OpStream, TLAPS

\* A sealed record is a record, and its hash a digest.
LEMMA SealedType ==
    ASSUME NEW n \in Nat \ {0}, NEW p \in Digest, NEW x \in Ops \union {Foreign}
    PROVE  Sealed(n, p, x) \in OpRecord
  BY DEF Sealed, OpRecord, ComputeHash, Digest

\* The foreign chain is made of records.
LEMMA ForeignType ==
    ASSUME NEW n \in Nat \ {0}
    PROVE  ForeignRecord(n) \in OpRecord
<1>1. ForeignHash(n - 1) \in Digest
  BY DEF ForeignHash, Digest
<1>. QED  BY <1>1, SealedType DEF ForeignRecord

\* An append of a record keeps the sink's four variables in their types.
LEMMA AppendLockedType ==
    ASSUME TypeOK, NEW r \in OpRecord, AppendLocked(r)
    PROVE  /\ log' \in Seq(OpRecord)
           /\ seqs' \subseteq Nat \ {0}
           /\ maxSeq' \in Nat
           /\ headHash' \in Digest
<1>1. log' \in Seq(OpRecord)
  BY DEF TypeOK, AppendLocked
<1>2. r.seq \in Nat \ {0} /\ r.hash \in Digest
  BY DEF OpRecord
<1>3. seqs' \subseteq Nat \ {0}
  BY <1>2 DEF TypeOK, AppendLocked
<1>4. maxSeq' \in Nat /\ headHash' \in Digest
  BY <1>2 DEF TypeOK, AppendLocked
<1>. QED  BY <1>1, <1>3, <1>4

\* A return keeps the writers' variables in their types.
LEMMA ReturnType ==
    ASSUME TypeOK, NEW w \in Writers, NEW outcome \in Outcomes,
           Return(w, outcome)
    PROVE  /\ pc' \in [Writers -> Labels]
           /\ op' \in [Writers -> Ops \union {NoOp}]
           /\ base' \in [Writers -> Digest]
           /\ next' \in [Writers -> Nat]
           /\ tries' \in [Writers -> 0 .. MaxAttempts]
           /\ status' \in [Ops -> Outcomes]
           /\ began' \in [Ops -> Nat]
<1>1. Genesis \in Digest
  BY DEF Genesis, Digest
<1>2. pc' \in [Writers -> Labels]
  BY DEF TypeOK, Return, Goto, Labels
<1>3. op' \in [Writers -> Ops \union {NoOp}]
  BY DEF TypeOK, Return
<1>4. base' \in [Writers -> Digest]
  BY <1>1 DEF TypeOK, Return
<1>5. next' \in [Writers -> Nat]
  BY DEF TypeOK, Return
<1>6. tries' \in [Writers -> 0 .. MaxAttempts]
  BY OpStreamAssumption DEF TypeOK, Return
<1>7. status' \in [Ops -> Outcomes] /\ began' \in [Ops -> Nat]
  BY DEF TypeOK, Return
<1>. QED  BY <1>2, <1>3, <1>4, <1>5, <1>6, <1>7

(***************************************************************************)
(* Type correctness, with what a writer inside a call holds: the record a  *)
(* writer seals is typed only because its op and its sequence are set.     *)
(***************************************************************************)
Typed == TypeOK /\ InFlight

LEMMA ReturnTyped ==
    ASSUME Typed, NEW w \in Writers, NEW outcome \in Outcomes,
           pc[w] # "idle", Return(w, outcome)
    PROVE  InFlight'
<1>. USE DEF Typed, TypeOK, InFlight, Return, Goto
<1>1. pc'[w] = "idle" /\ tries'[w] = 0
  OBVIOUS
<1>2. \A v \in Writers \ {w} : pc'[v] = pc[v] /\ op'[v] = op[v]
                               /\ next'[v] = next[v] /\ tries'[v] = tries[v]
  OBVIOUS
<1>3. \A o \in Ops \ {op[w]} : status'[o] = status[o]
  OBVIOUS
<1>. QED  BY <1>1, <1>2, <1>3

\* What a writer seals is a record.
LEMMA SealedByWriter ==
    ASSUME Typed, NEW w \in Writers, pc[w] \in {"casAppend", "append"}
    PROVE  Sealed(next[w], base[w], op[w]) \in OpRecord
<1>1. next[w] \in Nat \ {0} /\ base[w] \in Digest /\ op[w] \in Ops
  BY DEF Typed, TypeOK, InFlight
<1>. QED  BY <1>1, SealedType

LEMMA TypedStep == Typed /\ [Next]_vars => Typed'
<1>. SUFFICES ASSUME Typed, [Next]_vars PROVE Typed'
  OBVIOUS
<1>. USE OpStreamAssumption DEF Goto, sink, local
<1>1. ASSUME NEW w \in Writers, NEW o \in Ops, Call(w, o) PROVE Typed'
  <2>1. TypeOK'
    BY <1>1 DEF Typed, TypeOK, Call, Labels, Outcomes
  <2>2. \A v \in Writers : pc[v] # "idle" => op[v] # o
    BY <1>1 DEF Typed, InFlight, Call
  <2>3. InFlight'
    BY <1>1, <2>2 DEF Typed, TypeOK, InFlight, Call
  <2>. QED  BY <2>1, <2>3 DEF Typed
<1>2. ASSUME NEW w \in Writers, NEW o \in Ops, Refuse(w, o) PROVE Typed'
  <2>1. TypeOK'
    BY <1>2 DEF Typed, TypeOK, Refuse, Outcomes
  <2>2. InFlight'
    BY <1>2 DEF Typed, TypeOK, InFlight, Refuse
  <2>. QED  BY <2>1, <2>2 DEF Typed
<1>3. ASSUME NEW w \in Writers,
             \/ CasReadHead(w) \/ CasReadLatest(w) \/ CasStale(w)
             \/ ReadLatest(w) \/ ReadPrevious(w)
      PROVE  Typed'
  <2>1. CASE CasReadHead(w)
    BY <2>1 DEF Typed, TypeOK, InFlight, CasReadHead, Labels
  <2>2. CASE CasReadLatest(w)
    BY <2>2 DEF Typed, TypeOK, InFlight, CasReadLatest, Labels
  <2>3. CASE CasStale(w)
    <3>1. tries[w] + 1 \in 0 .. MaxAttempts
      BY <2>3 DEF Typed, TypeOK, InFlight, CasStale
    <3>. QED  BY <2>3, <3>1 DEF Typed, TypeOK, InFlight, CasStale, Labels
  <2>4. CASE ReadLatest(w)
    BY <2>4 DEF Typed, TypeOK, InFlight, ReadLatest, Labels
  <2>5. CASE ReadPrevious(w)
    <3>1. base' \in [Writers -> Digest]
      <4>1. Genesis \in Digest
        BY DEF Genesis, Digest
      <4>2. \A i \in DOMAIN log : log[i].hash \in Digest
        <5>1. \A i \in DOMAIN log : log[i] \in OpRecord
          BY DEF Typed, TypeOK
        <5>. QED  BY <5>1 DEF OpRecord
      <4>3. \E h \in Digest : base' = [base EXCEPT ![w] = h]
        <5>1. CASE base' = [base EXCEPT ![w] = Genesis]
          BY <4>1, <5>1
        <5>2. CASE \E i \in Replay(next[w] - 1, next[w] - 1) :
                     base' = [base EXCEPT ![w] = log[i].hash]
          <6>1. PICK i \in Replay(next[w] - 1, next[w] - 1) :
                  base' = [base EXCEPT ![w] = log[i].hash]
            BY <5>2
          <6>2. i \in DOMAIN log
            BY DEF Replay
          <6>. QED  BY <6>1, <6>2, <4>2
        <5>. QED  BY <2>5, <5>1, <5>2 DEF ReadPrevious
      <4>. QED  BY <4>3 DEF Typed, TypeOK
    <3>2. UNCHANGED <<sink, op, next, tries, status, began>>
          /\ pc' = [pc EXCEPT ![w] = "append"] /\ pc[w] = "previous"
      BY <2>5 DEF ReadPrevious
    <3>. QED  BY <3>1, <3>2 DEF Typed, TypeOK, InFlight, Labels
  <2>. QED  BY <1>3, <2>1, <2>2, <2>3, <2>4, <2>5
<1>4. ASSUME NEW w \in Writers, NEW outcome \in Outcomes, pc[w] # "idle",
             Return(w, outcome), UNCHANGED sink
      PROVE  Typed'
  <2>1. TypeOK'
    BY <1>4, ReturnType DEF Typed, TypeOK
  <2>. QED  BY <1>4, <2>1, ReturnTyped DEF Typed
<1>5. ASSUME NEW w \in Writers, pc[w] \in {"casAppend", "append"},
             AppendLocked(Sealed(next[w], base[w], op[w])),
             Return(w, "appended")
      PROVE  Typed'
  <2>1. "appended" \in Outcomes
    BY DEF Outcomes
  <2>2. Sealed(next[w], base[w], op[w]) \in OpRecord
    BY <1>5, SealedByWriter
  <2>3. TypeOK'
    BY <1>5, <2>1, <2>2, AppendLockedType, ReturnType DEF Typed, TypeOK
  <2>. QED  BY <1>5, <2>1, <2>3, ReturnTyped DEF Typed
<1>6. ASSUME NEW n \in Imports, Import(n) PROVE Typed'
  <2>1. ForeignRecord(n) \in OpRecord
    BY ForeignType
  <2>2. TypeOK'
    BY <1>6, <2>1, AppendLockedType DEF Typed, TypeOK, Import
  <2>. QED  BY <1>6, <2>2 DEF Typed, InFlight, Import
<1>7. ASSUME NEW i \in DOMAIN log, SinkLoses(i) PROVE Typed'
  <2>1. log' \in Seq(OpRecord)
    BY <1>7 DEF Typed, TypeOK, SinkLoses
  <2>. QED  BY <1>7, <2>1 DEF Typed, TypeOK, InFlight, SinkLoses
<1>8. CASE UNCHANGED vars
  BY <1>8 DEF Typed, TypeOK, InFlight, vars
<1>9. ASSUME NEW w \in Writers, Step(w) PROVE Typed'
  <2>1. CASE CasExhausted(w)
    BY <2>1, <1>4 DEF CasExhausted, Outcomes
  <2>2. CASE CasAppend(w)
    BY <2>2, <1>4, <1>5 DEF CasAppend, Outcomes
  <2>3. CASE ReportGap(w)
    BY <2>3, <1>4 DEF ReportGap, Outcomes
  <2>4. CASE PlainAppended(w)
    BY <2>4, <1>5 DEF PlainAppended
  <2>5. CASE PlainDuplicate(w)
    BY <2>5, <1>4 DEF PlainDuplicate, Outcomes
  <2>6. CASE SinkRaises(w)
    BY <2>6, <1>4 DEF SinkRaises, Outcomes
  <2>. QED
    BY <1>9, <1>3, <2>1, <2>2, <2>3, <2>4, <2>5, <2>6 DEF Step
<1>. QED  BY <1>1, <1>2, <1>6, <1>7, <1>8, <1>9 DEF Next

LEMMA InitTyped == Init => Typed
  BY OpStreamAssumption
     DEF Init, Typed, TypeOK, InFlight, Genesis, Digest, Labels, Outcomes

LEMMA TypedAlways == Spec => []Typed
  BY InitTyped, TypedStep, PTL DEF Spec

\* Every variable keeps its type, whatever the sink does.
THEOREM TypeCorrect == Spec => []TypeOK
<1>1. Typed => TypeOK
  BY DEF Typed
<1>. QED  BY <1>1, TypedAlways, PTL

-----------------------------------------------------------------------------
(***************************************************************************)
(* The two reads of _persist_via_cas.  A digest fixes the sequence it was  *)
(* computed at, and the head's sequence is the maximum, which only grows:  *)
(* a head seen earlier and still in place is still at the same maximum.    *)
(***************************************************************************)
SequenceOf(h) == IF h = << >> THEN 0 ELSE h[Len(h)][1] + 1

Snapshots ==
    /\ SequenceOf(headHash) = maxSeq
    /\ \A n \in seqs : n <= maxSeq
    /\ \A w \in Writers :
         /\ pc[w] \in {"casLatest", "casAppend"} => SequenceOf(base[w]) <= maxSeq
         /\ pc[w] = "casAppend" /\ base[w] = headHash => next[w] = maxSeq + 1

LEMMA SealedSequence ==
    ASSUME NEW n \in Nat \ {0}, NEW p \in Digest, NEW x \in Ops \union {Foreign}
    PROVE  Sealed(n, p, x).seq = n /\ SequenceOf(Sealed(n, p, x).hash) = n
<1>1. Sealed(n, p, x).seq = n /\ Sealed(n, p, x).hash = Append(p, <<n - 1, x>>)
  BY DEF Sealed, ComputeHash
<1>2. PICK S : S = Nat \X (Ops \union {Foreign})
  OBVIOUS
<1>3. p \in Seq(S) /\ <<n - 1, x>> \in S
  BY <1>2 DEF Digest
<1>4. \A e \in S : /\ Append(p, e) # << >>
                    /\ Len(Append(p, e)) = Len(p) + 1
                    /\ Append(p, e)[Len(p) + 1] = e
  BY <1>3
<1>5. <<n - 1, x>>[1] + 1 = n
  OBVIOUS
<1>. QED  BY <1>1, <1>3, <1>4, <1>5 DEF SequenceOf

LEMMA ForeignSequence ==
    ASSUME NEW n \in Nat \ {0}
    PROVE  ForeignRecord(n).seq = n /\ SequenceOf(ForeignRecord(n).hash) = n
<1>1. ForeignHash(n - 1) \in Digest
  BY DEF ForeignHash, Digest
<1>. QED  BY <1>1, SealedSequence DEF ForeignRecord

\* Appending a record sealed at its sequence keeps the sink's part, and moves
\* the head only to a higher sequence.
LEMMA AppendSnapshots ==
    ASSUME Typed, Snapshots, NEW r \in OpRecord, SequenceOf(r.hash) = r.seq,
           AppendLocked(r)
    PROVE  /\ SequenceOf(headHash') = maxSeq'
           /\ \A n \in seqs' : n <= maxSeq'
           /\ maxSeq' >= maxSeq
           /\ maxSeq' = maxSeq => headHash' = headHash
<1>1. r.seq \in Nat /\ maxSeq \in Nat /\ seqs \subseteq Nat
  BY DEF Typed, TypeOK, OpRecord
<1>. QED  BY <1>1 DEF Snapshots, AppendLocked

\* What the other writers hold survives any step of the sink that only raises
\* the maximum.
LEMMA RivalSnapshots ==
    ASSUME Typed, Snapshots, NEW v \in Writers, maxSeq' \in Nat,
           maxSeq' >= maxSeq, SequenceOf(headHash') = maxSeq',
           maxSeq' = maxSeq => headHash' = headHash,
           pc'[v] = pc[v], base'[v] = base[v], next'[v] = next[v]
    PROVE  /\ pc'[v] \in {"casLatest", "casAppend"} => SequenceOf(base'[v]) <= maxSeq'
           /\ pc'[v] = "casAppend" /\ base'[v] = headHash' => next'[v] = maxSeq' + 1
<1>1. maxSeq \in Nat
  BY DEF Typed, TypeOK
<1>2. ASSUME pc[v] \in {"casLatest", "casAppend"} PROVE SequenceOf(base[v]) <= maxSeq
  BY <1>2 DEF Snapshots
<1>3. CASE maxSeq' = maxSeq
  BY <1>3, <1>2 DEF Snapshots
<1>4. CASE maxSeq' > maxSeq
  <2>1. SequenceOf(base[v]) <= maxSeq => base[v] # headHash'
    BY <1>1, <1>4
  <2>2. SequenceOf(base[v]) <= maxSeq => SequenceOf(base[v]) <= maxSeq'
    <3>1. SequenceOf(base[v]) \in Int
      BY DEF Typed, TypeOK, Digest, SequenceOf
    <3>. QED  BY <3>1, <1>1
  <2>. QED  BY <1>2, <2>1, <2>2
<1>. QED  BY <1>1, <1>3, <1>4

LEMMA SnapshotsStep ==
    ~ThirdParty /\ Typed /\ Snapshots /\ [Next]_vars => Snapshots'
<1>. SUFFICES ASSUME ~ThirdParty, Typed, Snapshots, [Next]_vars PROVE Snapshots'
  OBVIOUS
<1>. USE OpStreamAssumption
<1>0. maxSeq \in Nat /\ SequenceOf(headHash) = maxSeq
  BY DEF Typed, TypeOK, Snapshots
<1>1. ASSUME NEW w \in Writers, UNCHANGED sink,
             \A v \in Writers \ {w} :
               pc'[v] = pc[v] /\ base'[v] = base[v] /\ next'[v] = next[v],
             pc'[w] \in {"casLatest", "casAppend"} => SequenceOf(base'[w]) <= maxSeq,
             pc'[w] = "casAppend" /\ base'[w] = headHash => next'[w] = maxSeq + 1
      PROVE  Snapshots'
  BY <1>1 DEF Snapshots, sink
<1>2. ASSUME NEW w \in Writers, NEW outcome, Return(w, outcome), UNCHANGED sink
      PROVE  Snapshots'
  <2>1. pc'[w] = "idle" /\ \A v \in Writers \ {w} :
               pc'[v] = pc[v] /\ base'[v] = base[v] /\ next'[v] = next[v]
    BY <1>2 DEF Return, Goto, Typed, TypeOK
  <2>. QED  BY <1>1, <1>2, <2>1
<1>3. ASSUME NEW w \in Writers, pc[w] \in {"casAppend", "append"},
             AppendLocked(Sealed(next[w], base[w], op[w])),
             Return(w, "appended")
      PROVE  Snapshots'
  <2>. DEFINE r == Sealed(next[w], base[w], op[w])
  <2>1. r \in OpRecord /\ SequenceOf(r.hash) = r.seq
    <3>1. next[w] \in Nat \ {0} /\ base[w] \in Digest /\ op[w] \in Ops
      BY <1>3 DEF Typed, TypeOK, InFlight
    <3>. QED  BY <3>1, <1>3, SealedByWriter, SealedSequence
  <2>2. /\ SequenceOf(headHash') = maxSeq' /\ maxSeq' \in Nat
        /\ \A n \in seqs' : n <= maxSeq'
        /\ maxSeq' >= maxSeq
        /\ maxSeq' = maxSeq => headHash' = headHash
    BY <1>3, <2>1, AppendSnapshots, AppendLockedType DEF Typed
  <2>3. pc'[w] = "idle" /\ \A v \in Writers \ {w} :
               pc'[v] = pc[v] /\ base'[v] = base[v] /\ next'[v] = next[v]
    BY <1>3 DEF Return, Goto, Typed, TypeOK
  <2>. QED  BY <2>2, <2>3, RivalSnapshots DEF Snapshots
<1>4. ASSUME NEW n \in Imports, Import(n) PROVE Snapshots'
  <2>1. ForeignRecord(n) \in OpRecord
        /\ SequenceOf(ForeignRecord(n).hash) = ForeignRecord(n).seq
    BY ForeignType, ForeignSequence
  <2>2. /\ SequenceOf(headHash') = maxSeq' /\ maxSeq' \in Nat
        /\ \A m \in seqs' : m <= maxSeq'
        /\ maxSeq' >= maxSeq
        /\ maxSeq' = maxSeq => headHash' = headHash
    BY <1>4, <2>1, AppendSnapshots, AppendLockedType DEF Typed, Import
  <2>3. UNCHANGED <<pc, base, next>>
    BY <1>4 DEF Import, local
  <2>. QED  BY <2>2, <2>3, RivalSnapshots DEF Snapshots
<1>5. ASSUME NEW w \in Writers, Step(w) PROVE Snapshots'
  <2>. USE DEF Goto, Typed, TypeOK
  <2>1. CASE CasReadHead(w)
    BY <2>1, <1>0, <1>1 DEF CasReadHead
  <2>2. CASE CasReadLatest(w)
    BY <2>2, <1>1 DEF CasReadLatest, Snapshots
  <2>3. CASE CasStale(w)
    BY <2>3, <1>0, <1>1 DEF CasStale
  <2>4. CASE ReadLatest(w)
    BY <2>4, <1>1 DEF ReadLatest
  <2>5. CASE ReadPrevious(w)
    BY <2>5, <1>1 DEF ReadPrevious
  <2>6. CASE CasExhausted(w) \/ ReportGap(w) \/ PlainDuplicate(w)
    BY <2>6, <1>2 DEF CasExhausted, ReportGap, PlainDuplicate
  <2>7. CASE CasAppend(w)
    BY <2>7, <1>2, <1>3 DEF CasAppend
  <2>8. CASE PlainAppended(w)
    BY <2>8, <1>3 DEF PlainAppended
  <2>. QED  BY <1>5, <2>1, <2>2, <2>3, <2>4, <2>5, <2>6, <2>7, <2>8
            DEF Step, SinkRaises
<1>6. ASSUME NEW w \in Writers, NEW o \in Ops, Call(w, o) \/ Refuse(w, o)
      PROVE  Snapshots'
  BY <1>6 DEF Call, Refuse, Goto, Snapshots, sink, local, Typed, TypeOK
<1>7. CASE UNCHANGED vars
  BY <1>7 DEF Snapshots, vars, sink, local
<1>. QED  BY <1>4, <1>5, <1>6, <1>7 DEF Next, SinkLoses

NoneRaised == \A o \in Ops : status[o] # "raised"

LEMMA NoneRaisedStep ==
    ~ThirdParty /\ Typed /\ Snapshots /\ NoneRaised /\ [Next]_vars => NoneRaised'
<1>. SUFFICES ASSUME ~ThirdParty, Typed, Snapshots, NoneRaised, [Next]_vars
              PROVE  NoneRaised'
  OBVIOUS
<1>1. ASSUME NEW w \in Writers, NEW outcome, outcome # "raised", Return(w, outcome)
      PROVE  NoneRaised'
  BY <1>1 DEF Return, NoneRaised, Typed, TypeOK
<1>2. ASSUME NEW w \in Writers, Step(w) PROVE NoneRaised'
  <2>1. CASE CasAppend(w)
    <3>1. next[w] = maxSeq + 1 /\ maxSeq \in Nat
      BY <2>1 DEF CasAppend, Snapshots, Typed, TypeOK
    <3>2. ~Present(next[w])
      BY <3>1 DEF Snapshots, Present
    <3>3. Return(w, "appended")
      BY <2>1, <3>2 DEF CasAppend, Sealed
    <3>. QED  BY <3>3, <1>1
  <2>2. CASE CasExhausted(w) \/ ReportGap(w) \/ PlainAppended(w) \/ PlainDuplicate(w)
    BY <2>2, <1>1 DEF CasExhausted, ReportGap, PlainAppended, PlainDuplicate
  <2>3. CASE UNCHANGED status
    BY <2>3 DEF NoneRaised
  <2>. QED  BY <1>2, <2>1, <2>2, <2>3
            DEF Step, SinkRaises, CasReadHead, CasReadLatest, CasStale,
                ReadLatest, ReadPrevious
<1>3. ASSUME NEW w \in Writers, NEW o \in Ops, Call(w, o) \/ Refuse(w, o)
      PROVE  NoneRaised'
  BY <1>3 DEF Call, Refuse, NoneRaised, Typed, TypeOK
<1>4. CASE UNCHANGED status
  BY <1>4 DEF NoneRaised
<1>. QED  BY <1>2, <1>3, <1>4 DEF Next, Import, SinkLoses, vars

\* With InMemorySink the compare-and-append path never raises: the duplicate
\* guard cannot fire inside append_if, for any writers, ops, bound and imports.
THEOREM CasPathNeverRaises == Spec => []CasNeverRaises
<1>1. CASE ThirdParty
  <2>1. CasNeverRaises
    BY <1>1 DEF CasNeverRaises
  <2>. QED  BY <2>1, <1>1, PTL DEF CasNeverRaises
<1>2. CASE ~ThirdParty
  <2>1. Init => Snapshots /\ NoneRaised
    BY DEF Init, Snapshots, SequenceOf, Genesis, NoneRaised
  <2>2. Typed /\ Snapshots /\ NoneRaised /\ [Next]_vars => (Snapshots /\ NoneRaised)'
    BY <1>2, SnapshotsStep, NoneRaisedStep
  <2>3. NoneRaised => CasNeverRaises
    BY DEF NoneRaised, CasNeverRaises
  <2>. QED  BY <2>1, <2>2, <2>3, TypedAlways, PTL DEF Spec
<1>. QED  BY <1>1, <1>2

-----------------------------------------------------------------------------
(***************************************************************************)
(* No silent loss.                                                         *)
(***************************************************************************)
Held(o) == {i \in DOMAIN log : log[i].op = o}

Accounted ==
    \A o \in Ops : IF status[o] = "appended" THEN \E i \in DOMAIN log : Held(o) = {i}
                   ELSE Held(o) = {}

\* An append adds exactly one index, to the held set of the record's op.
LEMMA HeldAfterAppend ==
    ASSUME Typed, NEW r \in OpRecord, AppendLocked(r), NEW o
    PROVE  /\ DOMAIN log' = DOMAIN log \union {Len(log) + 1}
           /\ Held(o)' = IF r.op = o THEN Held(o) \union {Len(log) + 1} ELSE Held(o)
<1>1. log \in Seq(OpRecord) /\ log' = Append(log, r)
  BY DEF Typed, TypeOK, AppendLocked
<1>2. /\ DOMAIN log' = DOMAIN log \union {Len(log) + 1}
      /\ \A i \in DOMAIN log : log'[i] = log[i]
      /\ log'[Len(log) + 1] = r
      /\ Len(log) + 1 \notin DOMAIN log
  BY <1>1
<1>. QED  BY <1>2 DEF Held

LEMMA AccountedStep ==
    ~ThirdParty /\ Typed /\ Accounted /\ [Next]_vars => Accounted'
<1>. SUFFICES ASSUME ~ThirdParty, Typed, Accounted, [Next]_vars PROVE Accounted'
  OBVIOUS
<1>. USE OpStreamAssumption
<1>1. ASSUME NEW o \in Ops, status[o] # "appended", status'[o] # "appended",
             \A x \in Ops \ {o} : status'[x] = status[x], UNCHANGED log
      PROVE  Accounted'
  BY <1>1 DEF Accounted, Held
<1>2. ASSUME NEW w \in Writers, NEW outcome, outcome # "appended", pc[w] # "idle",
             Return(w, outcome), UNCHANGED sink
      PROVE  Accounted'
  <2>1. op[w] \in Ops /\ status[op[w]] = "pending"
    BY <1>2 DEF Typed, InFlight
  <2>. QED  BY <2>1, <1>1, <1>2 DEF Return, Typed, TypeOK, sink
<1>3. ASSUME NEW w \in Writers, pc[w] \in {"casAppend", "append"},
             AppendLocked(Sealed(next[w], base[w], op[w])),
             Return(w, "appended")
      PROVE  Accounted'
  <2>. DEFINE r == Sealed(next[w], base[w], op[w])
              top == Len(log) + 1
  <2>1. op[w] \in Ops /\ status[op[w]] = "pending" /\ r.op = op[w]
    BY <1>3 DEF Typed, InFlight, Sealed
  <2>2. r \in OpRecord
    BY <1>3, SealedByWriter
  <2>3. SUFFICES ASSUME NEW o \in Ops
                 PROVE  IF status'[o] = "appended"
                        THEN \E i \in DOMAIN log' : Held(o)' = {i}
                        ELSE Held(o)' = {}
    BY DEF Accounted
  <2>4. CASE o = op[w]
    <3>1. Held(o)' = {top} /\ top \in DOMAIN log'
      BY <2>1, <2>2, <2>4, <1>3, HeldAfterAppend DEF Accounted
    <3>2. status'[o] = "appended"
      BY <2>1, <2>4, <1>3 DEF Return, Typed, TypeOK
    <3>. QED  BY <3>1, <3>2
  <2>5. CASE o # op[w]
    <3>1. Held(o)' = Held(o) /\ DOMAIN log \subseteq DOMAIN log'
      BY <2>1, <2>2, <2>5, <1>3, HeldAfterAppend
    <3>2. status'[o] = status[o]
      BY <2>1, <2>5, <1>3 DEF Return, Typed, TypeOK
    <3>. QED  BY <3>1, <3>2 DEF Accounted
  <2>. QED  BY <2>4, <2>5
<1>4. ASSUME NEW n \in Imports, Import(n) PROVE Accounted'
  <2>1. ForeignRecord(n) \in OpRecord /\ ForeignRecord(n).op = Foreign
    BY ForeignType DEF ForeignRecord, Sealed
  <2>2. \A o \in Ops : Held(o)' = Held(o) /\ DOMAIN log \subseteq DOMAIN log'
    BY <1>4, <2>1, HeldAfterAppend DEF Import
  <2>. QED  BY <1>4, <2>2 DEF Accounted, Import
<1>5. ASSUME NEW w \in Writers, Step(w) PROVE Accounted'
  <2>1. CASE CasAppend(w)
    BY <2>1, <1>2, <1>3 DEF CasAppend
  <2>2. CASE PlainAppended(w)
    BY <2>2, <1>3 DEF PlainAppended
  <2>3. CASE CasExhausted(w) \/ ReportGap(w) \/ PlainDuplicate(w)
    BY <2>3, <1>2 DEF CasExhausted, ReportGap, PlainDuplicate
  <2>4. CASE UNCHANGED <<log, status>>
    BY <2>4 DEF Accounted, Held
  <2>. QED  BY <1>5, <2>1, <2>2, <2>3, <2>4
            DEF Step, SinkRaises, CasReadHead, CasReadLatest, CasStale,
                ReadLatest, ReadPrevious, sink
<1>6. ASSUME NEW w \in Writers, NEW o \in Ops, Call(w, o) \/ Refuse(w, o)
      PROVE  Accounted'
  BY <1>6, <1>1 DEF Call, Refuse, Typed, TypeOK, sink
<1>7. CASE UNCHANGED vars
  BY <1>7 DEF Accounted, Held, vars, sink
<1>. QED  BY <1>4, <1>5, <1>6, <1>7 DEF Next, SinkLoses

\* With InMemorySink the log holds one record of each op whose call reported
\* nothing, and none of any other op.
THEOREM NothingLostSilently == Spec => []NoSilentLoss
<1>1. CASE ThirdParty
  <2>1. NoSilentLoss
    BY <1>1 DEF NoSilentLoss
  <2>. QED  BY <2>1, <1>1, PTL DEF NoSilentLoss
<1>2. CASE ~ThirdParty
  <2>1. Init => Accounted
    BY DEF Init, Accounted, Held
  <2>2. Typed /\ Accounted /\ [Next]_vars => Accounted'
    BY <1>2, AccountedStep
  <2>3. Accounted => NoSilentLoss
    BY DEF Accounted, NoSilentLoss, Held
  <2>. QED  BY <2>1, <2>2, <2>3, TypedAlways, PTL DEF Spec
<1>. QED  BY <1>1, <1>2

-----------------------------------------------------------------------------
(***************************************************************************)
(* The chain.  With no imports the records are numbered by their position, *)
(* the head is the last hash, and a read-then-append writer about to write *)
(* holds the hash stored just below the sequence it proposes.              *)
(***************************************************************************)
Dense ==
    /\ maxSeq = Len(log)
    /\ seqs = 1 .. Len(log)
    /\ headHash = IF log = << >> THEN Genesis ELSE log[Len(log)].hash
    /\ \A w \in Writers :
         /\ pc[w] \in {"previous", "append"} => next[w] <= Len(log) + 1
         /\ pc[w] = "append" =>
              base[w] = IF next[w] = 1 THEN Genesis ELSE log[next[w] - 1].hash

Linked ==
    \A i \in 1 .. Len(log) :
      /\ log[i].seq = i
      /\ log[i].prev = IF i = 1 THEN Genesis ELSE log[i - 1].hash
      /\ log[i].hash = ComputeHash(log[i].prev, log[i].op, log[i].seq)

LEMMA LinkedStep ==
    ASSUME OwnRecordsOnly
    PROVE  Typed /\ Snapshots /\ Dense /\ Linked /\ [Next]_vars => (Dense /\ Linked)'
<1>. SUFFICES ASSUME Typed, Snapshots, Dense, Linked, [Next]_vars
              PROVE  Dense' /\ Linked'
  OBVIOUS
<1>. USE OpStreamAssumption
<1>0. /\ log \in Seq(OpRecord) /\ Len(log) \in Nat
      /\ pc \in [Writers -> Labels] /\ next \in [Writers -> Nat]
      /\ base \in [Writers -> Digest]
  BY DEF Typed, TypeOK
<1>1. ASSUME NEW w \in Writers, UNCHANGED sink,
             \A v \in Writers \ {w} :
               pc'[v] = pc[v] /\ base'[v] = base[v] /\ next'[v] = next[v],
             pc'[w] \in {"previous", "append"} => next'[w] <= Len(log) + 1,
             pc'[w] = "append" =>
               base'[w] = IF next'[w] = 1 THEN Genesis ELSE log[next'[w] - 1].hash
      PROVE  Dense' /\ Linked'
  BY <1>1 DEF Dense, Linked, sink
<1>2. ASSUME NEW w \in Writers, NEW outcome, Return(w, outcome), UNCHANGED sink
      PROVE  Dense' /\ Linked'
  <2>1. pc'[w] = "idle" /\ \A v \in Writers \ {w} :
               pc'[v] = pc[v] /\ base'[v] = base[v] /\ next'[v] = next[v]
    BY <1>2 DEF Return, Goto, Typed, TypeOK
  <2>. QED  BY <1>1, <1>2, <2>1
<1>3. ASSUME NEW w \in Writers, next[w] = Len(log) + 1, base[w] = headHash,
             AppendLocked(Sealed(next[w], base[w], op[w])),
             Return(w, "appended")
      PROVE  Dense' /\ Linked'
  <2>. DEFINE r == Sealed(next[w], base[w], op[w])
  <2>1. /\ log' = Append(log, r) /\ seqs' = seqs \union {Len(log) + 1}
        /\ maxSeq' = Len(log) + 1 /\ headHash' = r.hash
        /\ r.seq = Len(log) + 1 /\ r.prev = headHash
        /\ r.hash = ComputeHash(r.prev, r.op, r.seq)
    BY <1>0, <1>3 DEF AppendLocked, Sealed, Dense
  <2>2. /\ Len(log') = Len(log) + 1 /\ log' # << >>
        /\ \A i \in 1 .. Len(log) : log'[i] = log[i]
        /\ log'[Len(log) + 1] = r
    BY <1>0, <2>1
  <2>3. pc'[w] = "idle" /\ \A v \in Writers \ {w} :
               pc'[v] = pc[v] /\ base'[v] = base[v] /\ next'[v] = next[v]
    BY <1>3 DEF Return, Goto, Typed, TypeOK
  <2>4. \A v \in Writers :
          /\ pc'[v] \in {"previous", "append"} => next'[v] <= Len(log') + 1
          /\ pc'[v] = "append" =>
               base'[v] = IF next'[v] = 1 THEN Genesis ELSE log'[next'[v] - 1].hash
    <3>. SUFFICES ASSUME NEW v \in Writers, v # w
                  PROVE  /\ pc[v] \in {"previous", "append"} => next[v] <= Len(log') + 1
                         /\ pc[v] = "append" =>
                              base[v] = IF next[v] = 1 THEN Genesis
                                        ELSE log'[next[v] - 1].hash
      BY <2>3
    <3>1. pc[v] = "append" /\ next[v] # 1 => next[v] - 1 \in 1 .. Len(log)
      BY <1>0 DEF Dense, Typed, InFlight
    <3>2. pc[v] = "append" /\ next[v] # 1 => log'[next[v] - 1] = log[next[v] - 1]
      BY <2>2, <3>1
    <3>3. pc[v] \in {"previous", "append"} => next[v] <= Len(log') + 1
      BY <1>0, <2>2 DEF Dense
    <3>4. pc[v] = "append" =>
            base[v] = IF next[v] = 1 THEN Genesis ELSE log[next[v] - 1].hash
      BY DEF Dense
    <3>5. CASE next[v] = 1
      BY <3>3, <3>4, <3>5
    <3>6. CASE next[v] # 1
      BY <3>2, <3>3, <3>4, <3>6
    <3>. QED  BY <3>5, <3>6
  <2>5. Dense'
    <3>1. maxSeq' = Len(log') /\ headHash' = log'[Len(log')].hash
      BY <2>1, <2>2
    <3>2. seqs' = 1 .. Len(log')
      BY <1>0, <2>1, <2>2 DEF Dense
    <3>. QED  BY <2>2, <2>4, <3>1, <3>2 DEF Dense
  <2>6. Linked'
    <3>. SUFFICES ASSUME NEW i \in 1 .. Len(log) + 1
                  PROVE  /\ log'[i].seq = i
                         /\ log'[i].prev = IF i = 1 THEN Genesis ELSE log'[i - 1].hash
                         /\ log'[i].hash = ComputeHash(log'[i].prev, log'[i].op, log'[i].seq)
      BY <2>2 DEF Linked
    <3>1. CASE i \in 1 .. Len(log)
      BY <1>0, <2>2, <3>1 DEF Linked
    <3>2. CASE i = Len(log) + 1
      <4>1. headHash = IF i = 1 THEN Genesis ELSE log[i - 1].hash
        BY <1>0, <3>2 DEF Dense
      <4>. QED  BY <1>0, <2>1, <2>2, <3>2, <4>1
    <3>. QED  BY <1>0, <3>1, <3>2
  <2>. QED  BY <2>5, <2>6
<1>4. ASSUME NEW w \in Writers, Step(w) PROVE Dense' /\ Linked'
  <2>. USE DEF Goto
  <2>1. CASE CasReadHead(w) \/ CasReadLatest(w) \/ CasStale(w)
    BY <2>1, <1>0, <1>1 DEF CasReadHead, CasReadLatest, CasStale
  <2>2. CASE ReadLatest(w)
    BY <2>2, <1>0, <1>1 DEF ReadLatest, Dense
  <2>3. CASE ReadPrevious(w)
    <3>1. next[w] <= Len(log) + 1 /\ next[w] \in Nat \ {0}
      BY <2>3, <1>0 DEF ReadPrevious, Dense, Typed, InFlight
    <3>2. \A i \in Replay(next[w] - 1, next[w] - 1) : i = next[w] - 1
      BY <1>0, <3>1 DEF Replay, Linked
    <3>3. base'[w] = IF next[w] = 1 THEN Genesis ELSE log[next[w] - 1].hash
      BY <2>3, <1>0, <3>2 DEF ReadPrevious
    <3>. QED  BY <2>3, <1>0, <1>1, <3>1, <3>3 DEF ReadPrevious
  <2>4. CASE CasExhausted(w) \/ ReportGap(w) \/ PlainDuplicate(w)
    BY <2>4, <1>2 DEF CasExhausted, ReportGap, PlainDuplicate
  <2>5. CASE CasAppend(w)
    <3>1. next[w] = Len(log) + 1
      BY <2>5 DEF CasAppend, Snapshots, Dense
    <3>. QED  BY <2>5, <3>1, <1>2, <1>3 DEF CasAppend
  <2>6. CASE PlainAppended(w)
    <3>1. next[w] = Len(log) + 1
      BY <2>6, <1>0 DEF PlainAppended, Present, Sealed, Dense, Typed, InFlight
    <3>2. base[w] = headHash
      BY <2>6, <1>0, <3>1 DEF PlainAppended, Dense
    <3>. QED  BY <2>6, <3>1, <3>2, <1>3 DEF PlainAppended
  <2>. QED  BY <1>4, <2>1, <2>2, <2>3, <2>4, <2>5, <2>6
            DEF Step, SinkRaises, OwnRecordsOnly
<1>5. ASSUME NEW w \in Writers, NEW o \in Ops, Call(w, o) \/ Refuse(w, o)
      PROVE  Dense' /\ Linked'
  BY <1>5, <1>0, <1>1 DEF Call, Refuse, Goto, local
<1>6. CASE UNCHANGED vars
  BY <1>6 DEF Dense, Linked, vars, sink, local
<1>. QED  BY <1>4, <1>5, <1>6 DEF Next, SinkLoses, OwnRecordsOnly

\* Whatever writers of both kinds do to one InMemorySink, however many they are
\* and however they interleave, verify_chain passes over what it holds.
THEOREM ChainAlwaysVerifies == Spec => []ChainVerifies
<1>1. CASE ~OwnRecordsOnly
  <2>1. ChainVerifies
    BY <1>1 DEF ChainVerifies
  <2>. QED  BY <2>1, <1>1, PTL DEF ChainVerifies
<1>2. CASE OwnRecordsOnly
  <2>1. Init => Snapshots /\ Dense /\ Linked
    BY DEF Init, Snapshots, SequenceOf, Genesis, Dense, Linked
  <2>2. Typed /\ Snapshots /\ Dense /\ Linked /\ [Next]_vars
          => (Snapshots /\ Dense /\ Linked)'
    BY <1>2, SnapshotsStep, LinkedStep DEF OwnRecordsOnly
  <2>3. Typed /\ Linked => ChainVerifies
    <3>1. Typed => DOMAIN log = 1 .. Len(log)
      BY DEF Typed, TypeOK
    <3>. QED  BY <3>1 DEF Linked, ChainVerifies, Clean, Violations, OutOfOrder,
                          PreviousHashMismatch, ExpectedPrevious, HashMismatch
  <2>. QED  BY <2>1, <2>2, <2>3, TypedAlways, PTL DEF Spec
<1>. QED  BY <1>1, <1>2

-----------------------------------------------------------------------------
(***************************************************************************)
(* Retries.  A writer whose expected head is no longer the head owes its   *)
(* next StaleHead to a record that landed since it read that head.         *)
(***************************************************************************)
Owed(w) ==
    IF pc[w] \in {"casLatest", "casAppend"} /\ base[w] # headHash THEN 1 ELSE 0

Charged ==
    \A w \in Writers :
      pc[w] # "idle" => began[op[w]] + tries[w] + Owed(w) <= Len(log)

LEMMA ChargedStep ==
    ~ThirdParty /\ Typed /\ Charged /\ [Next]_vars => Charged'
<1>. SUFFICES ASSUME ~ThirdParty, Typed, Charged, [Next]_vars PROVE Charged'
  OBVIOUS
<1>. USE OpStreamAssumption
<1>0. /\ Len(log) \in Nat /\ tries \in [Writers -> 0 .. MaxAttempts]
      /\ began \in [Ops -> Nat] /\ pc \in [Writers -> Labels]
      /\ op \in [Writers -> Ops \union {NoOp}] /\ base \in [Writers -> Digest]
      /\ \A v \in Writers : pc[v] # "idle" => op[v] \in Ops
  BY DEF Typed, TypeOK, InFlight
<1>1. ASSUME NEW w \in Writers, UNCHANGED <<log, headHash, began, op>>,
             \A v \in Writers \ {w} :
               pc'[v] = pc[v] /\ base'[v] = base[v] /\ tries'[v] = tries[v],
             pc[w] # "idle",
             pc'[w] # "idle" => tries'[w] + Owed(w)' <= tries[w] + Owed(w)
      PROVE  Charged'
  <2>. SUFFICES ASSUME NEW v \in Writers, pc'[v] # "idle"
                PROVE  began[op[v]] + tries'[v] + Owed(v)' <= Len(log)
    BY <1>1 DEF Charged
  <2>1. CASE v = w
    <3>1. /\ tries[v] \in Nat /\ began[op[v]] \in Nat /\ Owed(v) \in Nat /\ Owed(v)' \in Nat
      BY <1>0, <1>1, <2>1 DEF Owed
    <3>2. began[op[v]] + tries[v] + Owed(v) <= Len(log)
      BY <1>1, <2>1 DEF Charged
    <3>3. tries'[v] + Owed(v)' <= tries[v] + Owed(v)
      BY <1>1, <2>1
    <3>4. tries'[v] \in Nat
      BY TypedStep DEF Typed, TypeOK
    <3>. QED  BY <1>0, <3>1, <3>2, <3>3, <3>4
  <2>2. CASE v # w
    <3>1. pc'[v] = pc[v] /\ tries'[v] = tries[v] /\ Owed(v)' = Owed(v)
      BY <1>1, <2>2 DEF Owed
    <3>. QED  BY <3>1 DEF Charged
  <2>. QED  BY <2>1, <2>2
<1>2. ASSUME NEW w \in Writers, NEW outcome, Return(w, outcome), UNCHANGED sink
      PROVE  Charged'
  <2>. SUFFICES ASSUME NEW v \in Writers, pc'[v] # "idle"
                PROVE  began'[op'[v]] + tries'[v] + Owed(v)' <= Len(log')
    BY DEF Charged
  <2>1. v # w
    BY <1>0, <1>2 DEF Return, Goto
  <2>2. pc'[v] = pc[v] /\ op'[v] = op[v] /\ tries'[v] = tries[v] /\ Owed(v)' = Owed(v)
    BY <1>0, <1>2, <2>1 DEF Return, Goto, Owed, sink
  <2>. QED  BY <1>2, <2>2 DEF Return, sink, Charged
<1>3. ASSUME NEW r, AppendLocked(r), UNCHANGED began,
             \A v \in Writers : pc'[v] # "idle" =>
               pc'[v] = pc[v] /\ op'[v] = op[v] /\ base'[v] = base[v]
                 /\ tries'[v] = tries[v]
      PROVE  Charged'
  <2>1. Len(log') = Len(log) + 1
    BY <1>0, <1>3 DEF AppendLocked, Typed, TypeOK
  <2>. SUFFICES ASSUME NEW v \in Writers, pc'[v] # "idle"
                PROVE  began'[op'[v]] + tries'[v] + Owed(v)' <= Len(log')
    BY DEF Charged
  <2>2. pc[v] # "idle" /\ op'[v] = op[v] /\ tries'[v] = tries[v]
    BY <1>3
  <2>3. began[op[v]] + tries[v] + Owed(v) <= Len(log)
    BY <2>2 DEF Charged
  <2>4. Owed(v) \in {0, 1} /\ Owed(v)' \in {0, 1}
    BY DEF Owed
  <2>5. tries[v] \in Nat /\ began[op[v]] \in Nat
    BY <1>0, <2>2
  <2>. QED  BY <1>0, <1>3, <2>1, <2>2, <2>3, <2>4, <2>5
<1>4. ASSUME NEW w \in Writers, Step(w) PROVE Charged'
  <2>1. CASE CasReadHead(w) \/ CasReadLatest(w) \/ CasStale(w)
             \/ ReadLatest(w) \/ ReadPrevious(w)
    <3>1. /\ UNCHANGED <<log, headHash, began, op>>
          /\ \A v \in Writers \ {w} :
               pc'[v] = pc[v] /\ base'[v] = base[v] /\ tries'[v] = tries[v]
          /\ pc[w] # "idle"
      BY <1>0, <2>1 DEF CasReadHead, CasReadLatest, CasStale, ReadLatest,
                        ReadPrevious, Goto, sink
    <3>2. tries'[w] + Owed(w)' <= tries[w] + Owed(w)
      BY <1>0, <2>1 DEF CasReadHead, CasReadLatest, CasStale, ReadLatest,
                        ReadPrevious, Goto, sink, Owed
    <3>. QED  BY <1>1, <3>1, <3>2
  <2>2. CASE CasExhausted(w) \/ ReportGap(w) \/ PlainDuplicate(w)
    BY <2>2, <1>2 DEF CasExhausted, ReportGap, PlainDuplicate
  <2>3. ASSUME NEW r, AppendLocked(r), Return(w, "appended") PROVE Charged'
    BY <2>3, <1>0, <1>3 DEF Return, Goto
  <2>4. CASE CasAppend(w)
    BY <2>4, <1>2, <2>3 DEF CasAppend
  <2>5. CASE PlainAppended(w)
    BY <2>5, <2>3 DEF PlainAppended
  <2>. QED  BY <1>4, <2>1, <2>2, <2>4, <2>5 DEF Step, SinkRaises
<1>5. ASSUME NEW n \in Imports, Import(n) PROVE Charged'
  BY <1>5, <1>3 DEF Import, local
<1>6. ASSUME NEW w \in Writers, NEW o \in Ops, Call(w, o) PROVE Charged'
  <2>. SUFFICES ASSUME NEW v \in Writers, pc'[v] # "idle"
                PROVE  began'[op'[v]] + tries'[v] + Owed(v)' <= Len(log')
    BY DEF Charged
  <2>1. CASE v = w
    BY <1>0, <1>6, <2>1 DEF Call, Goto, sink, Owed, Typed, InFlight
  <2>2. CASE v # w
    BY <1>0, <1>6, <2>2 DEF Call, Goto, sink, Owed, Charged, Typed, InFlight
  <2>. QED  BY <2>1, <2>2
<1>7. ASSUME NEW w \in Writers, NEW o \in Ops, Refuse(w, o) PROVE Charged'
  BY <1>7 DEF Refuse, sink, local, Charged, Owed
<1>8. CASE UNCHANGED vars
  BY <1>8 DEF vars, sink, local, Charged, Owed
<1>. QED  BY <1>4, <1>5, <1>6, <1>7, <1>8 DEF Next, SinkLoses

\* With InMemorySink a call makes no more attempts than records landed during
\* it (plus the one that succeeds): giving up means losing to as many winners.
THEOREM RetriesAreLost == Spec => []RetriesLostToWinners
<1>1. CASE ThirdParty
  <2>1. RetriesLostToWinners
    BY <1>1 DEF RetriesLostToWinners
  <2>. QED  BY <2>1, <1>1, PTL DEF RetriesLostToWinners
<1>2. CASE ~ThirdParty
  <2>1. Init => Charged
    BY DEF Init, Charged, Owed
  <2>2. Typed /\ Charged /\ [Next]_vars => Charged'
    BY <1>2, ChargedStep
  <2>3. Typed /\ Charged => RetriesLostToWinners
    <3>. SUFFICES ASSUME Typed, Charged, NEW w \in Writers, pc[w] # "idle"
                  PROVE  tries[w] <= Len(log) - began[op[w]]
      BY DEF RetriesLostToWinners
    <3>1. /\ Owed(w) \in {0, 1} /\ tries[w] \in Nat /\ Len(log) \in Nat
          /\ began[op[w]] \in Nat
      BY OpStreamAssumption DEF Owed, Typed, TypeOK, InFlight
    <3>. QED  BY <3>1 DEF Charged
  <2>. QED  BY <2>1, <2>2, <2>3, TypedAlways, PTL DEF Spec
<1>. QED  BY <1>1, <1>2

-----------------------------------------------------------------------------
(***************************************************************************)
(* Refinement: each append is the abstract Commit of the writer's op, each *)
(* other return its Lose, and every step before them a stutter.            *)
(***************************************************************************)
Entries == [i \in DOMAIN log |-> log[i].op]

Fate == [o \in Ops |-> CASE status[o] \in {"new", "pending"} -> "open"
                        [] status[o] = "refused" -> "refused"
                        [] status[o] = "appended" -> "committed"
                        [] OTHER -> "lost"]

LEMMA EntriesAfterAppend ==
    ASSUME Typed, NEW r \in OpRecord, AppendLocked(r)
    PROVE  Entries' = Append(Entries, r.op)
<1>1. log \in Seq(OpRecord) /\ log' = Append(log, r)
  BY DEF Typed, TypeOK, AppendLocked
<1>2. /\ DOMAIN log = 1 .. Len(log) /\ DOMAIN log' = 1 .. Len(log) + 1
      /\ \A i \in 1 .. Len(log) : log'[i] = log[i]
      /\ log'[Len(log) + 1] = r
  BY <1>1
<1>3. Entries \in Seq(Ops \union {Foreign}) /\ Len(Entries) = Len(log)
  <2>1. \A i \in 1 .. Len(log) : log[i].op \in Ops \union {Foreign}
    <3>1. \A i \in 1 .. Len(log) : log[i] \in OpRecord
      BY <1>1
    <3>. QED  BY <3>1 DEF OpRecord
  <2>. QED  BY <1>1, <1>2, <2>1 DEF Entries
<1>4. r.op \in Ops \union {Foreign}
  BY DEF OpRecord
<1>5. Entries' = [i \in 1 .. Len(log) + 1 |-> IF i = Len(log) + 1 THEN r.op ELSE log[i].op]
  BY <1>2 DEF Entries
<1>6. Append(Entries, r.op)
        = [i \in 1 .. Len(log) + 1 |-> IF i = Len(log) + 1 THEN r.op ELSE Entries[i]]
  BY <1>3, <1>4
<1>. QED  BY <1>2, <1>5, <1>6 DEF Entries

LEMMA AbstractStep ==
    OwnRecordsOnly /\ Typed /\ [Next]_vars => [Abstract!Next]_(Abstract!vars)
<1>. SUFFICES ASSUME OwnRecordsOnly, Typed, [Next]_vars
              PROVE  Abstract!Next \/ (Entries' = Entries /\ Fate' = Fate)
  BY DEF Abstract!vars, Entries, Fate
<1>1. ASSUME NEW o \in Ops, Fate[o] = "open", NEW outcome \in Outcomes,
             status' = [status EXCEPT ![o] = outcome],
             \/ outcome = "appended" /\ Entries' = Append(Entries, o)
             \/ outcome \in {"reported", "exhausted", "gap", "raised", "refused"}
                  /\ Entries' = Entries
      PROVE  Abstract!Next
  <2>. DEFINE fate == IF outcome = "appended" THEN "committed"
                      ELSE IF outcome = "refused" THEN "refused" ELSE "lost"
  <2>1. Fate' = [Fate EXCEPT ![o] = fate]
    BY <1>1 DEF Typed, TypeOK, Fate
  <2>2. Abstract!Decide(o, fate)
    BY <1>1, <2>1 DEF Abstract!Decide, Fate
  <2>3. CASE outcome = "appended"
    BY <1>1, <2>2, <2>3 DEF Abstract!Next, Abstract!Commit, Entries
  <2>4. CASE outcome = "refused"
    BY <1>1, <2>2, <2>4 DEF Abstract!Next, Abstract!Refuse, Entries
  <2>5. CASE outcome \in {"reported", "exhausted", "gap", "raised"}
    BY <1>1, <2>2, <2>5 DEF Abstract!Next, Abstract!Lose, Entries
  <2>. QED  BY <1>1, <2>3, <2>4, <2>5
<1>2. ASSUME NEW w \in Writers, pc[w] # "idle",
             NEW outcome \in {"reported", "exhausted", "gap", "raised"},
             Return(w, outcome), UNCHANGED sink
      PROVE  Abstract!Next
  <2>1. op[w] \in Ops /\ Fate[op[w]] = "open"
    BY <1>2 DEF Typed, InFlight, Fate
  <2>2. Entries' = Entries /\ outcome \in Outcomes
    BY <1>2 DEF sink, Entries, Outcomes
  <2>. QED  BY <1>1, <1>2, <2>1, <2>2 DEF Return
<1>3. ASSUME NEW w \in Writers, pc[w] \in {"casAppend", "append"},
             AppendLocked(Sealed(next[w], base[w], op[w])), Return(w, "appended")
      PROVE  Abstract!Next
  <2>1. op[w] \in Ops /\ Fate[op[w]] = "open"
    BY <1>3 DEF Typed, InFlight, Fate
  <2>2. Entries' = Append(Entries, op[w])
    <3>1. Sealed(next[w], base[w], op[w]).op = op[w]
      BY DEF Sealed
    <3>. QED  BY <1>3, <3>1, SealedByWriter, EntriesAfterAppend
  <2>. QED  BY <1>1, <1>3, <2>1, <2>2 DEF Return, Outcomes
<1>4. ASSUME NEW w \in Writers, Step(w)
      PROVE  Abstract!Next \/ (Entries' = Entries /\ Fate' = Fate)
  <2>1. CASE UNCHANGED <<log, status>>
    BY <2>1 DEF Entries, Fate
  <2>2. CASE CasExhausted(w) \/ ReportGap(w) \/ PlainDuplicate(w)
    BY <2>2, <1>2 DEF CasExhausted, ReportGap, PlainDuplicate
  <2>3. CASE CasAppend(w)
    BY <2>3, <1>2, <1>3 DEF CasAppend
  <2>4. CASE PlainAppended(w)
    BY <2>4, <1>3 DEF PlainAppended
  <2>. QED  BY <1>4, <2>1, <2>2, <2>3, <2>4
            DEF Step, SinkRaises, OwnRecordsOnly, CasReadHead, CasReadLatest,
                CasStale, ReadLatest, ReadPrevious, sink
<1>5. ASSUME NEW w \in Writers, NEW o \in Ops, Call(w, o)
      PROVE  Entries' = Entries /\ Fate' = Fate
  BY <1>5 DEF Call, sink, Entries, Fate, Typed, TypeOK
<1>6. ASSUME NEW w \in Writers, NEW o \in Ops, Refuse(w, o) PROVE Abstract!Next
  <2>1. Fate[o] = "open" /\ Entries' = Entries
    BY <1>6 DEF Refuse, sink, Entries, Fate
  <2>. QED  BY <1>1, <1>6, <2>1 DEF Refuse, Outcomes
<1>7. CASE UNCHANGED vars
  BY <1>7 DEF vars, sink, Entries, Fate
<1>. QED  BY <1>4, <1>5, <1>6, <1>7 DEF Next, OwnRecordsOnly, SinkLoses

\* apply_and_persist over one InMemorySink implements the atomic append-only
\* log, for any writers, ops and bound on the attempts.
THEOREM WritePathIsAtomic == OwnRecordsOnly => (Spec => ImplementsAppendLog)
<1>. SUFFICES ASSUME OwnRecordsOnly PROVE Spec => Abstract!Spec
  BY DEF ImplementsAppendLog
<1>1. Init => Abstract!Init
  BY DEF Init, Abstract!Init
<1>2. Typed /\ [Next]_vars => [Abstract!Next]_(Abstract!vars)
  BY AbstractStep
<1>. QED  BY <1>1, <1>2, TypedAlways, PTL DEF Spec, Abstract!Spec
-----------------------------------------------------------------------------
(***************************************************************************)
(* Genesis.  Whatever a sink loses, its head is genesis only while its     *)
(* highest sequence is 0, and no record hashes to genesis; so a writer     *)
(* that chains onto genesis proposes sequence 1.                           *)
(***************************************************************************)
Founds(r) == r.hash # Genesis /\ (r.prev = Genesis => r.seq = 1)

Rooted ==
    /\ \A i \in DOMAIN log : Founds(log[i])
    /\ headHash = Genesis => maxSeq = 0
    /\ \A w \in Writers :
         /\ pc[w] = "casAppend" => next[w] <= maxSeq + 1
         /\ pc[w] = "append" /\ base[w] = Genesis => next[w] = 1

\* A sealed record is not genesis, and founds a chain only at sequence 1.
LEMMA SealedFounds ==
    ASSUME NEW n \in Nat \ {0}, NEW p \in Digest, NEW x \in Ops \union {Foreign},
           p = Genesis => n = 1
    PROVE  Founds(Sealed(n, p, x))
<1>1. SequenceOf(Sealed(n, p, x).hash) = n
  BY SealedSequence
<1>2. Sealed(n, p, x).hash # Genesis
  BY <1>1 DEF SequenceOf, Genesis
<1>. QED  BY <1>2 DEF Founds, Sealed

\* An append of such a record keeps the sink's part, and what writers hold stays within it.
LEMMA RootedAppend ==
    ASSUME Typed, Rooted, NEW r \in OpRecord, Founds(r), AppendLocked(r)
    PROVE  /\ \A i \in DOMAIN log' : Founds(log'[i])
           /\ headHash' = Genesis => maxSeq' = 0
           /\ maxSeq' \in Nat /\ maxSeq' >= maxSeq
<1>1. log \in Seq(OpRecord) /\ log' = Append(log, r) /\ maxSeq \in Nat /\ r.seq \in Nat
  BY DEF Typed, TypeOK, AppendLocked, OpRecord
<1>2. \A i \in DOMAIN log' : log'[i] = r \/ (i \in DOMAIN log /\ log'[i] = log[i])
  BY <1>1
<1>3. \A i \in DOMAIN log' : Founds(log'[i])
  BY <1>2 DEF Rooted
<1>4. /\ headHash' = Genesis => maxSeq' = 0
      /\ maxSeq' \in Nat /\ maxSeq' >= maxSeq
  BY <1>1 DEF AppendLocked, Rooted, Founds
<1>. QED  BY <1>3, <1>4

LEMMA RootedStep == Typed /\ Rooted /\ [Next]_vars => Rooted'
<1>. SUFFICES ASSUME Typed, Rooted, [Next]_vars PROVE Rooted'
  OBVIOUS
<1>0. /\ log \in Seq(OpRecord) /\ maxSeq \in Nat
      /\ pc \in [Writers -> Labels] /\ next \in [Writers -> Nat] /\ base \in [Writers -> Digest]
  BY DEF Typed, TypeOK
<1>1. ASSUME NEW w \in Writers, UNCHANGED sink,
             \A v \in Writers \ {w} :
               pc'[v] = pc[v] /\ base'[v] = base[v] /\ next'[v] = next[v],
             pc'[w] = "casAppend" => next'[w] <= maxSeq + 1,
             pc'[w] = "append" /\ base'[w] = Genesis => next'[w] = 1
      PROVE  Rooted'
  BY <1>1 DEF Rooted, sink
<1>2. ASSUME NEW w \in Writers, NEW outcome, Return(w, outcome), UNCHANGED sink
      PROVE  Rooted'
  <2>1. pc'[w] = "idle" /\ \A v \in Writers \ {w} :
               pc'[v] = pc[v] /\ base'[v] = base[v] /\ next'[v] = next[v]
    BY <1>2 DEF Return, Goto, Typed, TypeOK
  <2>. QED  BY <1>1, <1>2, <2>1
<1>3. ASSUME NEW w \in Writers, pc[w] \in {"casAppend", "append"},
             base[w] = Genesis => next[w] = 1,
             AppendLocked(Sealed(next[w], base[w], op[w])), Return(w, "appended")
      PROVE  Rooted'
  <2>1. next[w] \in Nat \ {0} /\ base[w] \in Digest /\ op[w] \in Ops
    BY <1>3 DEF Typed, TypeOK, InFlight
  <2>2. /\ \A i \in DOMAIN log' : Founds(log'[i])
        /\ headHash' = Genesis => maxSeq' = 0
        /\ maxSeq' \in Nat /\ maxSeq' >= maxSeq
    BY <1>3, <2>1, SealedType, SealedFounds, RootedAppend
  <2>3. pc'[w] = "idle" /\ \A v \in Writers \ {w} :
               pc'[v] = pc[v] /\ base'[v] = base[v] /\ next'[v] = next[v]
    BY <1>3 DEF Return, Goto, Typed, TypeOK
  <2>. QED  BY <1>0, <2>2, <2>3 DEF Rooted
<1>4. ASSUME NEW w \in Writers, Step(w) PROVE Rooted'
  <2>. USE DEF Goto
  <2>1. CASE CasReadHead(w) \/ CasReadLatest(w) \/ CasStale(w) \/ ReadLatest(w)
    BY <2>1, <1>0, <1>1 DEF CasReadHead, CasReadLatest, CasStale, ReadLatest
  <2>2. CASE ReadPrevious(w)
    <3>1. base'[w] = Genesis => next[w] = 1
      BY <2>2, <1>0 DEF ReadPrevious, Replay, Rooted, Founds
    <3>. QED  BY <2>2, <3>1, <1>0, <1>1 DEF ReadPrevious
  <2>3. CASE CasExhausted(w) \/ ReportGap(w) \/ PlainDuplicate(w) \/ SinkRaises(w)
    BY <2>3, <1>2 DEF CasExhausted, ReportGap, PlainDuplicate, SinkRaises
  <2>4. CASE CasAppend(w)
    <3>1. base[w] = Genesis => next[w] = 1
      BY <2>4, <1>0 DEF CasAppend, Rooted, Typed, InFlight
    <3>. QED  BY <2>4, <3>1, <1>2, <1>3 DEF CasAppend
  <2>5. CASE PlainAppended(w)
    BY <2>5, <1>3 DEF PlainAppended, Rooted
  <2>. QED  BY <1>4, <2>1, <2>2, <2>3, <2>4, <2>5 DEF Step
<1>5. ASSUME NEW w \in Writers, NEW o \in Ops, Call(w, o) \/ Refuse(w, o)
      PROVE  Rooted'
  BY <1>5, <1>0, <1>1 DEF Call, Refuse, Goto, local
<1>6. ASSUME NEW n \in Imports, Import(n) PROVE Rooted'
  <2>1. n \in Nat \ {0}
    BY OpStreamAssumption
  <2>2. ForeignHash(n - 1) \in Digest /\ (ForeignHash(n - 1) = Genesis => n = 1)
    BY <2>1 DEF ForeignHash, Digest, Genesis
  <2>3. Founds(ForeignRecord(n)) /\ ForeignRecord(n) \in OpRecord
    BY <2>1, <2>2, SealedFounds, ForeignType DEF ForeignRecord
  <2>4. /\ \A i \in DOMAIN log' : Founds(log'[i])
        /\ headHash' = Genesis => maxSeq' = 0
        /\ maxSeq' \in Nat /\ maxSeq' >= maxSeq
    BY <1>6, <2>3, RootedAppend DEF Import
  <2>5. UNCHANGED <<pc, base, next>>
    BY <1>6 DEF Import, local
  <2>. QED  BY <1>0, <2>4, <2>5 DEF Rooted
<1>7. ASSUME NEW i \in DOMAIN log, SinkLoses(i) PROVE Rooted'
  <2>1. \A j \in DOMAIN log' : \E k \in DOMAIN log : log'[j] = log[k]
    <3>1. /\ DOMAIN log' = 1 .. Len(log) - 1
          /\ \A j \in DOMAIN log' : log'[j] = log[IF j < i THEN j ELSE j + 1]
      BY <1>7 DEF SinkLoses
    <3>2. \A j \in 1 .. Len(log) - 1 : (IF j < i THEN j ELSE j + 1) \in DOMAIN log
      BY <1>0
    <3>. QED  BY <3>1, <3>2
  <2>2. UNCHANGED <<maxSeq, headHash, pc, base, next>>
    BY <1>7 DEF SinkLoses, local
  <2>. QED  BY <2>1, <2>2 DEF Rooted
<1>8. CASE UNCHANGED vars
  BY <1>8 DEF Rooted, vars, sink, local
<1>. QED  BY <1>4, <1>5, <1>6, <1>7, <1>8 DEF Next

\* _Gap: over a sink that raises and loses records, with raw appends in any order, no
\* record after the first is ever chained onto genesis.
THEOREM GenesisIsFirst == Spec => []NoSecondGenesis
<1>1. Init => Rooted
  BY DEF Init, Rooted
<1>2. Rooted => NoSecondGenesis
  BY DEF Rooted, Founds, NoSecondGenesis
<1>. QED  BY <1>1, <1>2, RootedStep, TypedAlways, PTL DEF Spec
=============================================================================
