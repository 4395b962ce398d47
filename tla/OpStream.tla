------------------------------ MODULE OpStream ------------------------------
(***************************************************************************)
(* The write path of an op stream (op_stream/replay.py, apply_and_persist  *)
(* and what it calls) over one stream of a shared sink                     *)
(* (op_stream/in_memory_sink.py).                                          *)
(*                                                                         *)
(* Every sink method takes the sink's one lock, so a sink call is one step *)
(* and callers interleave between calls.  A writer in CasWriters sees the  *)
(* sink through CasOpStreamSink and runs _persist_via_cas; any other       *)
(* writer sees only OpStreamSink and runs _persist_read_then_append.       *)
(* Records can also enter through raw append calls: an importer copies     *)
(* records of another, honestly built chain in any order (gap filling,     *)
(* replay of a partial batch).                                             *)
(***************************************************************************)
EXTENDS Integers, Sequences, FiniteSets

CONSTANTS
    Writers,       \* threads that call apply_and_persist
    CasWriters,    \* those whose sink offers compare-and-append
    Ops,           \* the calls to make: one op each, never repeated
    Foreign,       \* the payload of an imported record
    Imports,       \* the sequences an importer offers through raw append
    MaxAttempts,   \* _MAX_CAS_APPEND_ATTEMPTS
    ThirdParty,    \* the sink is not InMemorySink: it may raise, or lose records
    NoOp

ASSUME OpStreamAssumption ==
    /\ CasWriters \subseteq Writers
    /\ Imports \subseteq Nat \ {0}
    /\ MaxAttempts \in Nat \ {0}
    /\ ThirdParty \in BOOLEAN
    /\ Foreign \notin Ops
    /\ NoOp \notin Ops

VARIABLES
    log,       \* _streams[s]: the records, in insertion order
    seqs,      \* _sequences[s]: every sequence present
    maxSeq,    \* _max_sequence[s]
    headHash,  \* _heads[s]
    pc,        \* where each writer is
    op,        \* the op it is persisting
    base,      \* expected_head or previous_hash, the hash it chains onto
    next,      \* the sequence it proposes
    tries,     \* append_if calls made for this op
    status,    \* how each call ended, as its caller can tell
    began      \* history: Len(log) when the call began

INSTANCE HashChain WITH Payload <- Ops \union {Foreign}

sink == <<log, seqs, maxSeq, headHash>>
local == <<op, base, next, tries>>
vars == <<sink, pc, local, status, began>>

-----------------------------------------------------------------------------
\* The sink's locked primitives

Present(sequence) == sequence \in seqs

\* The body of _append_locked below its duplicate guard.
AppendLocked(r) ==
    /\ log' = Append(log, r)
    /\ seqs' = seqs \union {r.seq}
    /\ IF r.seq > maxSeq
       THEN maxSeq' = r.seq /\ headHash' = r.hash
       ELSE UNCHANGED <<maxSeq, headHash>>

\* replay(s, from, to), as a set: the callers modelled here ask for one record.
Replay(from, to) == {i \in DOMAIN log : log[i].seq \in from .. to}

-----------------------------------------------------------------------------
Goto(w, label) == pc' = [pc EXCEPT ![w] = label]

\* The call returns (or raises) to its caller with this outcome.
Return(w, outcome) ==
    /\ Goto(w, "idle")
    /\ status' = [status EXCEPT ![op[w]] = outcome]
    /\ op' = [op EXCEPT ![w] = NoOp]
    /\ base' = [base EXCEPT ![w] = Genesis]
    /\ next' = [next EXCEPT ![w] = 0]
    /\ tries' = [tries EXCEPT ![w] = 0]
    /\ UNCHANGED began

\* apply(op, tree) succeeds and persistence starts on the writer's path.
Call(w, o) ==
    /\ pc[w] = "idle" /\ status[o] = "new"
    /\ status' = [status EXCEPT ![o] = "pending"]
    /\ op' = [op EXCEPT ![w] = o]
    /\ began' = [began EXCEPT ![o] = Len(log)]
    /\ Goto(w, IF w \in CasWriters THEN "casHead" ELSE "latest")
    /\ UNCHANGED <<sink, base, next, tries>>

\* apply(op, tree) fails: PersistErr, and the sink is not touched.
Refuse(w, o) ==
    /\ pc[w] = "idle" /\ status[o] = "new"
    /\ status' = [status EXCEPT ![o] = "refused"]
    /\ UNCHANGED <<sink, pc, local, began>>

-----------------------------------------------------------------------------
\* _persist_via_cas

CasReadHead(w) ==
    /\ pc[w] = "casHead"
    /\ base' = [base EXCEPT ![w] = headHash]
    /\ Goto(w, "casLatest")
    /\ UNCHANGED <<sink, op, next, tries, status, began>>

\* Mutated form: the sequence is not read again after a StaleHead.
CasReadLatestOnce(w) ==
    /\ pc[w] = "casLatest" /\ tries[w] < MaxAttempts
    /\ next' = [next EXCEPT ![w] = IF tries[w] = 0 THEN maxSeq + 1 ELSE @]
    /\ Goto(w, "casAppend")
    /\ UNCHANGED <<sink, op, base, tries, status, began>>

\* Mutated form: the retry loop has no bound.
CasReadLatestForever(w) ==
    /\ pc[w] = "casLatest"
    /\ next' = [next EXCEPT ![w] = maxSeq + 1]
    /\ Goto(w, "casAppend")
    /\ UNCHANGED <<sink, op, base, tries, status, began>>

\* A second lock acquisition: others may append between the two reads.  The
\* same read follows every StaleHead; after the last one the loop is over.
CasReadLatest(w) ==
    /\ pc[w] = "casLatest" /\ tries[w] < MaxAttempts
    /\ next' = [next EXCEPT ![w] = maxSeq + 1]
    /\ Goto(w, "casAppend")
    /\ UNCHANGED <<sink, op, base, tries, status, began>>

CasExhausted(w) ==
    /\ pc[w] = "casLatest" /\ tries[w] = MaxAttempts
    /\ Return(w, "exhausted")
    /\ UNCHANGED sink

\* Mutated form: append_if writes without comparing the head.
CasAppendBlindly(w) ==
    LET r == Sealed(next[w], base[w], op[w]) IN
    /\ pc[w] = "casAppend"
    /\ IF Present(r.seq)
       THEN Return(w, "raised") /\ UNCHANGED sink
       ELSE AppendLocked(r) /\ Return(w, "appended")

\* append_if at the true head.  The duplicate guard is still in its way, and
\* nothing on this path catches what it raises.
CasAppend(w) ==
    LET r == Sealed(next[w], base[w], op[w]) IN
    /\ pc[w] = "casAppend"
    /\ headHash = base[w]
    /\ IF Present(r.seq)
       THEN Return(w, "raised") /\ UNCHANGED sink
       ELSE AppendLocked(r) /\ Return(w, "appended")

\* Mutated form: a lost race does not move the expected head.
CasStaleKeepsBase(w) ==
    /\ pc[w] = "casAppend"
    /\ headHash # base[w]
    /\ tries' = [tries EXCEPT ![w] = @ + 1]
    /\ Goto(w, "casLatest")
    /\ UNCHANGED <<sink, op, base, next, status, began>>

\* Mutated form: neither the expected head moves nor the attempt is counted.
CasStaleSpins(w) ==
    /\ pc[w] = "casAppend"
    /\ headHash # base[w]
    /\ Goto(w, "casLatest")
    /\ UNCHANGED <<sink, local, status, began>>

\* Mutated form: the record is written before the heads are compared.
CasStaleWrites(w) ==
    /\ pc[w] = "casAppend"
    /\ headHash # base[w] /\ ~Present(next[w])
    /\ AppendLocked(Sealed(next[w], base[w], op[w]))
    /\ base' = [base EXCEPT ![w] = headHash]
    /\ tries' = [tries EXCEPT ![w] = @ + 1]
    /\ Goto(w, "casLatest")
    /\ UNCHANGED <<op, next, status, began>>

\* StaleHead: nothing is persisted, the actual head is the next expected one.
CasStale(w) ==
    /\ pc[w] = "casAppend"
    /\ headHash # base[w]
    /\ base' = [base EXCEPT ![w] = headHash]
    /\ tries' = [tries EXCEPT ![w] = @ + 1]
    /\ Goto(w, "casLatest")
    /\ UNCHANGED <<sink, op, next, status, began>>

-----------------------------------------------------------------------------
\* _persist_read_then_append

ReadLatest(w) ==
    /\ pc[w] = "latest"
    /\ next' = [next EXCEPT ![w] = maxSeq + 1]
    /\ Goto(w, "previous")
    /\ UNCHANGED <<sink, op, base, tries, status, began>>

\* Mutated form: a missing record is papered over with genesis.
ReadPreviousOrGenesis(w) ==
    /\ pc[w] = "previous"
    /\ LET found == Replay(next[w] - 1, next[w] - 1) IN
       \/ found = {} /\ base' = [base EXCEPT ![w] = Genesis]
       \/ \E i \in found : base' = [base EXCEPT ![w] = log[i].hash]
    /\ Goto(w, "append")
    /\ UNCHANGED <<sink, op, next, tries, status, began>>

\* _previous_hash_for: genesis for record 1, else the hash stored just below.
ReadPrevious(w) ==
    /\ pc[w] = "previous"
    /\ \/ next[w] = 1 /\ base' = [base EXCEPT ![w] = Genesis]
       \/ /\ next[w] # 1
          /\ \E i \in Replay(next[w] - 1, next[w] - 1) :
               base' = [base EXCEPT ![w] = log[i].hash]
    /\ Goto(w, "append")
    /\ UNCHANGED <<sink, op, next, tries, status, began>>

\* _Gap: the record below is missing, so the write is refused and reported.
ReportGap(w) ==
    /\ pc[w] = "previous"
    /\ next[w] # 1 /\ Replay(next[w] - 1, next[w] - 1) = {}
    /\ Return(w, "gap")
    /\ UNCHANGED sink

PlainAppended(w) ==
    LET r == Sealed(next[w], base[w], op[w]) IN
    /\ pc[w] = "append"
    /\ ~Present(r.seq)
    /\ AppendLocked(r)
    /\ Return(w, "appended")

\* Mutated form: the loser's exception is swallowed.
PlainDuplicateSwallowed(w) ==
    /\ pc[w] = "append"
    /\ Present(next[w])
    /\ Return(w, "appended")
    /\ UNCHANGED sink

\* append raises on the duplicate; the loser is reported, never propagated.
PlainDuplicate(w) ==
    /\ pc[w] = "append"
    /\ Present(next[w])
    /\ Return(w, "reported")
    /\ UNCHANGED sink

-----------------------------------------------------------------------------
\* A record of the foreign chain at this sequence.
ForeignHash(n) == [i \in 1 .. n |-> <<i - 1, Foreign>>]
ForeignRecord(n) == Sealed(n, ForeignHash(n - 1), Foreign)

\* InMemorySink.append called directly; on a duplicate it raises and changes
\* nothing.
Import(n) ==
    /\ ~Present(n)
    /\ AppendLocked(ForeignRecord(n))
    /\ UNCHANGED <<pc, local, status, began>>

\* A third-party sink raises.  Only the plain path's append is inside a try.
SinkRaises(w) ==
    /\ ThirdParty
    /\ pc[w] # "idle"
    /\ pc[w] = "casLatest" => tries[w] < MaxAttempts
    /\ pc[w] = "previous" => next[w] # 1
    /\ Return(w, IF pc[w] = "append" THEN "reported" ELSE "raised")
    /\ UNCHANGED sink

\* A third-party sink loses a record below the sequence it reports as latest.
SinkLoses(i) ==
    /\ ThirdParty
    /\ log' = [j \in 1 .. Len(log) - 1 |-> log[IF j < i THEN j ELSE j + 1]]
    /\ seqs' = seqs \ {log[i].seq}
    /\ UNCHANGED <<maxSeq, headHash, pc, local, status, began>>

-----------------------------------------------------------------------------
Init ==
    /\ log = << >> /\ seqs = {} /\ maxSeq = 0 /\ headHash = Genesis
    /\ pc = [w \in Writers |-> "idle"]
    /\ op = [w \in Writers |-> NoOp]
    /\ base = [w \in Writers |-> Genesis]
    /\ next = [w \in Writers |-> 0]
    /\ tries = [w \in Writers |-> 0]
    /\ status = [o \in Ops |-> "new"]
    /\ began = [o \in Ops |-> 0]

\* One step of the call a writer is in.
Step(w) ==
    \/ CasReadHead(w) \/ CasReadLatest(w) \/ CasExhausted(w)
    \/ CasAppend(w) \/ CasStale(w)
    \/ ReadLatest(w) \/ ReadPrevious(w) \/ ReportGap(w)
    \/ PlainAppended(w) \/ PlainDuplicate(w)
    \/ SinkRaises(w)

Next ==
    \/ \E w \in Writers : Step(w) \/ \E o \in Ops : Call(w, o) \/ Refuse(w, o)
    \/ \E n \in Imports : Import(n)
    \/ \E i \in DOMAIN log : SinkLoses(i)

\* A thread that entered a call keeps being scheduled.
Fairness == \A w \in Writers : WF_vars(Step(w))

Spec == Init /\ [][Next]_vars

FairSpec == Spec /\ Fairness
-----------------------------------------------------------------------------
Labels == {"idle", "casHead", "casLatest", "casAppend",
           "latest", "previous", "append"}

Outcomes == {"new", "refused", "pending", "appended", "reported", "exhausted",
             "gap", "raised"}

TypeOK ==
    /\ log \in Seq(OpRecord)
    /\ seqs \subseteq Nat \ {0}
    /\ maxSeq \in Nat
    /\ headHash \in Digest
    /\ pc \in [Writers -> Labels]
    /\ op \in [Writers -> Ops \union {NoOp}]
    /\ base \in [Writers -> Digest]
    /\ next \in [Writers -> Nat]
    /\ tries \in [Writers -> 0 .. MaxAttempts]
    /\ status \in [Ops -> Outcomes]
    /\ began \in [Ops -> Nat]

\* A writer inside a call is persisting an op of its own that is still pending,
\* and what it proposes to append has a sequence and an attempt left.
InFlight ==
    /\ \A w \in Writers :
         /\ pc[w] # "idle" => op[w] \in Ops /\ status[op[w]] = "pending"
         /\ pc[w] \in {"casAppend", "previous", "append"} => next[w] > 0
         /\ pc[w] = "casAppend" => tries[w] < MaxAttempts
         /\ pc[w] = "idle" => tries[w] = 0
    /\ \A v, w \in Writers :
         v # w /\ pc[v] # "idle" /\ pc[w] # "idle" => op[v] # op[w]

\* The only way records get in is apply_and_persist, into InMemorySink.
OwnRecordsOnly == Imports = {} /\ ~ThirdParty

(***************************************************************************)
(* However compare-and-append and read-then-append callers interleave on   *)
(* one InMemorySink, verify_chain finds nothing wrong with what the sink   *)
(* holds.                                                                  *)
(***************************************************************************)
ChainVerifies == OwnRecordsOnly => Clean(log)

(***************************************************************************)
(* _persist_via_cas reads the head and the next sequence under two         *)
(* separate lock acquisitions and has no try: on InMemorySink the          *)
(* duplicate guard inside append_if nevertheless never raises, because a   *)
(* head that did not move vouches for the sequence read after it.          *)
(***************************************************************************)
CasNeverRaises == ~ThirdParty => \A o \in Ops : status[o] # "raised"

(***************************************************************************)
(* No op is lost in silence and none is written twice: the log holds       *)
(* exactly one record of an op whose call reported nothing and none of an  *)
(* op that was refused, is unfinished, or whose failure reached            *)
(* on_sink_error.                                                          *)
(***************************************************************************)
NoSilentLoss ==
    ~ThirdParty =>
      \A o \in Ops :
        LET held == {i \in DOMAIN log : log[i].op = o} IN
        IF status[o] = "appended" THEN \E i \in DOMAIN log : held = {i}
        ELSE held = {}

(***************************************************************************)
(* Every StaleHead a call received was caused by a record that landed      *)
(* during that call, so the retry loop gives up only on a stream that      *)
(* accepted at least MaxAttempts appends meanwhile (CasRetryExhausted: "a  *)
(* concurrent writer kept winning the race").                              *)
(***************************************************************************)
RetriesLostToWinners ==
    ~ThirdParty =>
      \A w \in Writers :
        pc[w] # "idle" => tries[w] <= Len(log) - began[op[w]]

(***************************************************************************)
(* What _Gap exists for: even over a sink that loses records, no record    *)
(* after the first is ever chained onto genesis, which would look like a   *)
(* fresh chain and fail only at the next verify_chain.                     *)
(***************************************************************************)
NoSecondGenesis ==
    \A i \in DOMAIN log : log[i].prev = Genesis => log[i].seq = 1

(***************************************************************************)
(* Every call that began ends: appended, reported or raised; the retry     *)
(* loop cannot spin however the other writers are scheduled.               *)
(***************************************************************************)
CallsFinish == \A o \in Ops : status[o] = "pending" ~> status[o] # "pending"

(***************************************************************************)
(* replay.py:365-366 of apply_and_persist: "a durability failure is        *)
(* surfaced via ctx.on_sink_error but does NOT propagate".                 *)
(***************************************************************************)
FailuresDoNotPropagate == \A o \in Ops : status[o] # "raised"

(***************************************************************************)
(* What a caller of apply_and_persist can rely on: each op is committed to *)
(* the end of an append-only log in one atomic step or not at all.         *)
(***************************************************************************)
Abstract ==
    INSTANCE AppendLog WITH
      entries <- [i \in DOMAIN log |-> log[i].op],
      fate <- [o \in Ops |-> CASE status[o] \in {"new", "pending"} -> "open"
                               [] status[o] = "refused" -> "refused"
                               [] status[o] = "appended" -> "committed"
                               [] OTHER -> "lost"]

ImplementsAppendLog == Abstract!Spec
=============================================================================
