-------------------------- MODULE InMemoryObserver --------------------------
(***************************************************************************)
(* InMemoryLayoutObserver and InMemoryStyleObserver: fixtures registered   *)
(* by hand, and a notification per change.  Inputs stand for fixtures,     *)
(* FlagsOf for the derivation of the flags, which are what is compared.    *)
(***************************************************************************)
EXTENDS Subscribers

CONSTANTS Inputs, FlagsOf,
          ChangesOnly,   \* options.emit_on_flag_change_only
          Baseline       \* baseline_style_input, what a bare register records

VARIABLES registry, lastFlags,
          renewed     \* history: the nodes emitted again while handlers were told of them

vars == <<core, registry, lastFlags, renewed>>

Absent == "absent"
Fixture == Inputs \union {Absent}

Init ==
    /\ InitCore
    /\ registry = [n \in Nodes |-> Absent]
    /\ lastFlags = [n \in Nodes |-> Absent]
    /\ renewed = {}

Emit(n, f) ==
    /\ calls' = <<Notification(n, f, << >>)>> \o calls
    /\ renewed' = renewed \union (IF \E i \in DOMAIN calls : calls[i].node = n THEN {n} ELSE {})
    /\ UNCHANGED <<subs, heard>>

\* The first emission of a fixture is unconditional.
RegisterFixture(n, input) ==
    /\ May("register") /\ CanNest
    /\ registry' = [registry EXCEPT ![n] = input]
    /\ lastFlags' = [lastFlags EXCEPT ![n] = FlagsOf[input]]
    /\ Emit(n, FlagsOf[input])

\* register: only a node with no fixture.
Register(n) == registry[n] = Absent /\ RegisterFixture(n, Baseline)

\* Mutant: the flags are compared with the ones just stored.
UpdateComparesNew(n, input) ==
    /\ May("update") /\ CanNest
    /\ registry[n] # Absent
    /\ registry' = [registry EXCEPT ![n] = input]
    /\ lastFlags' = [lastFlags EXCEPT ![n] = FlagsOf[input]]
    /\ UNCHANGED <<core, renewed>>

\* The new flags are stored before anyone is told.
Update(n, input) ==
    /\ May("update") /\ CanNest
    /\ registry[n] # Absent
    /\ registry' = [registry EXCEPT ![n] = input]
    /\ lastFlags' = [lastFlags EXCEPT ![n] = FlagsOf[input]]
    /\ IF ~ChangesOnly \/ FlagsOf[input] # lastFlags[n]
       THEN Emit(n, FlagsOf[input])
       ELSE UNCHANGED <<core, renewed>>

Unregister(n) ==
    /\ May("unregister")
    /\ registry[n] # Absent
    /\ registry' = [registry EXCEPT ![n] = Absent]
    /\ lastFlags' = [lastFlags EXCEPT ![n] = Absent]
    /\ UNCHANGED <<core, renewed>>

Finish ==
    /\ End
    /\ calls' = Tail(calls)
    /\ UNCHANGED <<subs, registry, lastFlags, renewed>>

Host ==
    \/ HostList /\ UNCHANGED <<registry, lastFlags, renewed>>
    \/ \E n \in Nodes :
         \/ \E input \in Inputs : RegisterFixture(n, input) \/ Update(n, input)
         \/ Register(n)
         \/ Unregister(n)
Loop == (Library /\ UNCHANGED <<registry, lastFlags, renewed>>) \/ Finish
Next == Host \/ Loop

Spec == Init /\ [][Next]_vars

-----------------------------------------------------------------------------
TypeOK ==
    /\ subs \in BoundedSeq(Handlers, MaxSubs)
    /\ Len(calls) <= MaxCalls
    /\ \A i \in DOMAIN calls : calls[i].node \in Nodes /\ calls[i].flags \in Flags
    /\ registry \in [Nodes -> Fixture]
    /\ \A n \in Nodes : lastFlags[n] = IF registry[n] = Absent THEN Absent ELSE FlagsOf[registry[n]]

\* The flags stored are those of the fixtures; and once all is quiet, a subscribed
\* handler that heard of a node, and was not passed over since, knows the flags the observer
\* would answer now: the change detection swallows no change that matters.  Save of a node that
\* a handler changed while it was told of it: the handlers after it then hear the newer flags first.
UpToDate ==
    TypeOK /\ (calls = << >> =>
      \A h \in ToSet(subs), n \in Nodes \ renewed :
        registry[n] # Absent => heard[h][n] \in {Unknown, FlagsOf[registry[n]]})
=============================================================================
