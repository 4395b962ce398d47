----------------------------- MODULE AppendLog -----------------------------
(***************************************************************************)
(* What the op-stream write path promises its callers: one append-only     *)
(* log.  A call commits its op at the end of the log in a single step,     *)
(* loses it (and says so), or is refused before it starts; its fate never  *)
(* changes afterwards and the log never holds an op that was not committed.*)
(***************************************************************************)
EXTENDS Sequences

CONSTANT Ops

VARIABLES entries, fate

vars == <<entries, fate>>

Decide(o, outcome) ==
    fate[o] = "open" /\ fate' = [fate EXCEPT ![o] = outcome]

Commit(o) == Decide(o, "committed") /\ entries' = Append(entries, o)

Lose(o) == Decide(o, "lost") /\ UNCHANGED entries

Refuse(o) == Decide(o, "refused") /\ UNCHANGED entries

Init == entries = << >> /\ fate = [o \in Ops |-> "open"]

Next == \E o \in Ops : Commit(o) \/ Lose(o) \/ Refuse(o)

Spec == Init /\ [][Next]_vars
=============================================================================
