--------------------------- MODULE StreamHistory ---------------------------
(***************************************************************************)
(* The stream as the source of truth: hosts that edit one document, each   *)
(* holding a tree of its own, write what they did to one stream with       *)
(* apply_and_persist, leave checkpoints, and read the document back with   *)
(* replay_stream (op_stream/replay.py, the checkpoint surface of           *)
(* in_memory_sink.py).                                                     *)
(*                                                                         *)
(* A call of apply_and_persist is one step: its tree is the caller's own,  *)
(* and its append is atomic (OpStream implements AppendLog).  So is one    *)
(* of replay_stream, since what lands between its two reads of the sink is *)
(* past the sequence the first one answered.  A host that records denials  *)
(* appends a record with a Failure envelope.                               *)
(***************************************************************************)
EXTENDS Apply

CONSTANTS Hosts, Start,
          Ops,            \* the ops a host may try, by name
          MaxRecords, MaxCheckpoints

VARIABLES records,        \* the stream
          checkpoints,    \* _checkpoints
          tree,           \* the tree each host holds
          at,             \* history: the sequence it stands for, Astray if none
          crossed         \* history: the sequences written past records their host had not seen

vars == <<records, checkpoints, tree, at, crossed>>

Payload == [op : DOMAIN Ops, result : {"Success", "Failure"}]
INSTANCE HashChain

Astray == -1
Latest == Len(records)                                        \* latest_sequence
HeadAt(n) == IF n = 0 THEN Genesis ELSE records[n].hash

-----------------------------------------------------------------------------
(***************************************************************************)
(* Replay.                                                                 *)
(***************************************************************************)
\* A record of an op that was refused never touched the tree.
Skipped(record, includeRefused) == ~includeRefused /\ record.op.result # "Success"

\* A fold that stops at the first op that does not apply: [err, tree], and the sequence it
\* stopped at.
Folded(acc, record) ==
    LET r == ApplyOp(Ops[record.op.op], acc.tree)
    IN  IF r.err = "None" THEN [acc EXCEPT !.tree = r.tree]
        ELSE [acc EXCEPT !.err = r.err, !.stopped = record.seq]

ApplyTo(initial, recs, includeRefused) ==
    FoldLeft(LAMBDA acc, record :
               IF acc.err # "None" \/ Skipped(record, includeRefused) THEN acc ELSE Folded(acc, record),
             [err |-> "None", tree |-> initial, stopped |-> 0], recs)

\* InMemorySink.replay: the records of these sequences, in order.  Record n is the n-th
\* (TypeOK), so they are a slice.
SinkReplay(from, to) == SubSeq(records, from, IF to < Latest THEN to ELSE Latest)

ReplayStream(initial, from, to, includeRefused) == ApplyTo(initial, SinkReplay(from, to), includeRefused)

\* latest_checkpoint_at_or_before; none is the tree the document began with.
LatestCheckpoint(upTo) ==
    LET candidates == {c \in checkpoints : c.seq <= upTo}
    IN  IF candidates = {} THEN [seq |-> 0, head |-> Genesis, snapshot |-> Start]
        ELSE CHOOSE c \in candidates : \A d \in candidates : d.seq <= c.seq

\* Mutant: the checkpoint's own record is folded again.
ResumeOnIt(c, upTo) == ReplayStream(c.snapshot, IF c.seq = 0 THEN 1 ELSE c.seq, upTo, FALSE)

\* "passing its snapshot as initial_tree and checkpoint.sequence + 1 as from_sequence"
Resume(c, upTo) == ReplayStream(c.snapshot, c.seq + 1, upTo, FALSE)

-----------------------------------------------------------------------------
Init ==
    /\ records = << >> /\ checkpoints = {} /\ crossed = {}
    /\ tree = [h \in Hosts |-> Start] /\ at = [h \in Hosts |-> 0]

\* A record at the head, whoever writes it and whatever it has seen.
Write(h, name, result) ==
    /\ Latest < MaxRecords
    /\ records' = Append(records, Sealed(Latest + 1, HeadAt(Latest), [op |-> name, result |-> result]))
    /\ at' = [at EXCEPT ![h] = IF @ = Latest THEN Latest + 1 ELSE Astray]
    /\ crossed' = IF at[h] = Latest THEN crossed ELSE crossed \union {Latest + 1}
    /\ UNCHANGED checkpoints

Answer(h, name) == ApplyOp(Ops[name], tree[h])

\* apply_and_persist, of an op that applies.
Persist(h, name) ==
    /\ Answer(h, name).err = "None"
    /\ tree' = [tree EXCEPT ![h] = Answer(h, name).tree]
    /\ Write(h, name, "Success")

\* Of one that does not the sink is untouched, and a host may append the denial.
Deny(h, name) ==
    /\ Answer(h, name).err # "None"
    /\ Write(h, name, "Failure")
    /\ UNCHANGED tree

CheckpointOf(h) == [seq |-> at[h], head |-> HeadAt(at[h]), snapshot |-> tree[h]]

\* append_checkpoint, of a host that knows where it stands; one there already is refused.
AppendCheckpoint(h) ==
    /\ at[h] # Astray /\ Cardinality(checkpoints) < MaxCheckpoints
    /\ \A c \in checkpoints : c.seq # at[h]
    /\ checkpoints' = checkpoints \union {CheckpointOf(h)}
    /\ UNCHANGED <<records, tree, at, crossed>>

\* A host restarts, or catches up, from the nearest checkpoint; a stream that does not
\* replay leaves it as it was.
CatchUp(h) ==
    LET r == Resume(LatestCheckpoint(Latest), Latest) IN
    /\ r.err = "None"
    /\ tree' = [tree EXCEPT ![h] = r.tree]
    /\ at' = [at EXCEPT ![h] = Latest]
    /\ UNCHANGED <<records, checkpoints, crossed>>

Next == \E h \in Hosts :
          \/ \E name \in DOMAIN Ops : Persist(h, name) \/ Deny(h, name)
          \/ AppendCheckpoint(h) \/ CatchUp(h)

Spec == Init /\ [][Next]_vars

-----------------------------------------------------------------------------
TypeOK ==
    /\ \A i \in DOMAIN records : records[i].seq = i /\ records[i].op \in Payload
    /\ \A h \in Hosts : WellFormed(tree[h]) /\ at[h] \in {Astray} \union 0 .. Latest
    /\ \A c \in checkpoints : c.seq \in 0 .. Latest

FromStart(upTo) == ReplayStream(Start, 1, upTo, FALSE)

\* A host that knows where it stands holds what the stream gives up to there, denials or no
\* denials between its ops.
HeldIsReplayed == \A h \in Hosts : at[h] # Astray => FromStart(at[h]) = [err |-> "None", tree |-> tree[h], stopped |-> 0]

\* Every point of the past is the same from whichever checkpoint before it, to the record it
\* stops at where the stream does not replay.
PastIsOne == \A c \in checkpoints, upTo \in 0 .. Latest : c.seq <= upTo => Resume(c, upTo) = FromStart(upTo)

\* A stream does not replay only where a host wrote past records it had not seen.
StopsAtCrossings == LET r == FromStart(Latest) IN r.err # "None" => \E n \in crossed : n <= r.stopped

\* README: "the literal fold fails on the very record that says it failed".
Refusals == {i \in DOMAIN records : records[i].op.result = "Failure"}
LiteralFoldStops ==
    Refusals # {} =>
      LET first == CHOOSE i \in Refusals : \A j \in Refusals : i <= j
      IN  (\A n \in crossed : n > first) => ReplayStream(Start, 1, Latest, TRUE).stopped = first

\* README: "replay_stream folds a stream back into a tree".  What every host holds, and what
\* every checkpoint says, is in the stream.
ReplayGivesBack == TypeOK /\ HeldIsReplayed /\ PastIsOne /\ StopsAtCrossings /\ LiteralFoldStops

\* The ways to alter a stream of records.
Without(i) == SubSeq(records, 1, i - 1) \o SubSeq(records, i + 1, Latest)
\* What follows takes the sequences below.
Closed(i) == [k \in 1 .. Latest - 1 |-> IF k < i THEN records[k] ELSE [records[k + 1] EXCEPT !.seq = k]]
Swapped(i) == [records EXCEPT ![i] = records[i + 1], ![i + 1] = records[i]]
Rewritten(i, p) == [records EXCEPT ![i].op = p]
Resealed(i, p) == [records EXCEPT ![i] = Sealed(i, HeadAt(i - 1), p)]
\* All that follows sealed anew: a digest is of the payloads up to it.
Forged(i, p) ==
    LET op(k) == IF k = i THEN p ELSE records[k].op
        digest(n) == [k \in 1 .. n |-> <<k - 1, op(k)>>]
    IN  [k \in DOMAIN records |-> Sealed(k, digest(k - 1), op(k))]

CaughtAt(recs, i) == VerifyChain(recs).at = i
Others(i) == {p \in Payload : p # records[i].op}

\* README: "the stream is tamper-evident".  The stream as it is verifies; a record altered,
\* turned from refused to accepted, dropped or moved is named, the first that is wrong; and
\* where all that follows is sealed anew, which verifies, every checkpoint past it has another
\* head.
TamperingIsCaught ==
    /\ VerifyChain(records).error = "None"
    /\ \A i \in DOMAIN records :
         /\ i < Latest => CaughtAt(Without(i), i) /\ CaughtAt(Closed(i), i) /\ CaughtAt(Swapped(i), i)
         /\ \A p \in Others(i) :
              /\ CaughtAt(Rewritten(i, p), i)
              /\ i < Latest => CaughtAt(Resealed(i, p), i + 1)
              /\ VerifyChain(Forged(i, p)).error = "None"
              /\ \A c \in checkpoints : c.seq >= i => Forged(i, p)[c.seq].hash # c.head
=============================================================================
