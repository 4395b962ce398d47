---------------------------- MODULE Subscribers ----------------------------
(***************************************************************************)
(* What the four observers of layout_observer/observer.py and              *)
(* style_observer/observer.py share: the subscriber list and _notify,      *)
(* which calls it handler by handler, in place, on the caller's stack.     *)
(*                                                                         *)
(* A handler is host code: while it runs it may use the observer again, so *)
(* the list can change under the loop that walks it and a notification can *)
(* start inside another.  calls is the stack of notifications under way,   *)
(* innermost first; the host has the turn when there is none, or when the  *)
(* innermost one is inside a handler.                                      *)
(***************************************************************************)
EXTENDS Integers, Sequences, FiniteSets, SequencesExt

CONSTANTS Nodes, Handlers, Flags,
          Inside,      \* what handlers of this host do: names of operations
          MaxSubs,     \* bound: subscriptions at a time
          MaxCalls     \* bound: notifications nested in one another
ASSUME BoundsAssumption == MaxSubs \in Nat /\ MaxCalls \in Nat

VARIABLES subs,        \* _subscribers
          calls,       \* the running _notify loops
          heard        \* history: what each subscribed handler was last told of each node,
                       \* forgotten again when a notification of the node passes it over

core == <<subs, calls, heard>>

Unknown == "unknown"
NothingHeard == [n \in Nodes |-> Unknown]

\* rest is what refresh_all still has to visit once this one is told.  History are
\* owed, the handlers subscribed since it began that it has not called, and lost,
\* how often the list has lost an entry at or before the loop's place in it
\* (counted no further than the number of those it owes).
Notification(n, f, rest) ==
    [node |-> n, flags |-> f, next |-> 1, busy |-> FALSE,
     owed |-> ToSet(subs), lost |-> 0, rest |-> rest]

HostTurn == calls # << >> => calls[1].busy
May(operation) == calls # << >> => calls[1].busy /\ operation \in Inside
CanNest == Len(calls) < MaxCalls

InitCore ==
    /\ subs = << >>
    /\ calls = << >>
    /\ heard = [h \in Handlers |-> NothingHeard]

Subscribe(h) ==
    /\ May("subscribe")
    /\ Len(subs) < MaxSubs
    /\ subs' = Append(subs, h)
    /\ UNCHANGED <<calls, heard>>

\* The first equal handler goes; a second call finds none and does nothing.
Unsubscribe(h) ==
    /\ May("unsubscribe")
    /\ \E i \in DOMAIN subs :
         /\ subs[i] = h /\ \A j \in 1 .. i - 1 : subs[j] # h
         /\ subs' = RemoveAt(subs, i)
         /\ calls' = [k \in DOMAIN calls |->
              [calls[k] EXCEPT !.owed = @ \intersect ToSet(subs'),
                               !.lost = IF i <= calls[k].next /\ @ < Cardinality(calls[k].owed)
                                        THEN @ + 1 ELSE @]]
    /\ heard' = IF h \in ToSet(subs') THEN heard ELSE [heard EXCEPT ![h] = NothingHeard]

\* The loop reads the list as it now is, at its own index.
Deliver ==
    /\ ~HostTurn
    /\ calls[1].next <= Len(subs)
    /\ LET h == subs[calls[1].next] IN
       /\ calls' = [calls EXCEPT ![1].busy = TRUE, ![1].owed = @ \ {h}]
       /\ heard' = [heard EXCEPT ![h][calls[1].node] = calls[1].flags]
    /\ UNCHANGED subs

Return ==
    /\ calls # << >> /\ calls[1].busy
    /\ calls' = [calls EXCEPT ![1].busy = FALSE, ![1].next = @ + 1]
    /\ UNCHANGED <<subs, heard>>

\* Mutant: a handler that raises ends the notification.
RaiseThrough ==
    /\ calls # << >> /\ calls[1].busy
    /\ calls' = [calls EXCEPT ![1].busy = FALSE, ![1].next = Len(subs) + 1]
    /\ UNCHANGED <<subs, heard>>

\* It is logged, and stepped over.
Raise ==
    /\ calls # << >> /\ calls[1].busy
    /\ calls' = [calls EXCEPT ![1].busy = FALSE, ![1].next = @ + 1]
    /\ UNCHANGED <<subs, heard>>

AllTold == ~HostTurn /\ calls[1].next > Len(subs)

\* The innermost notification ends; whom it did not call knows the node no better for it.
End ==
    /\ AllTold
    /\ heard' = [h \in Handlers |->
         IF h \in calls[1].owed THEN [heard[h] EXCEPT ![calls[1].node] = Unknown] ELSE heard[h]]

Library == Deliver \/ Return \/ Raise
HostList == \E h \in Handlers : Subscribe(h) \/ Unsubscribe(h)

-----------------------------------------------------------------------------
\* "Emit to every subscriber; a throwing one is reported, then stepped over" (_notify): of the
\* handlers that stay subscribed from its beginning on, a notification calls all, whichever
\* raise and however they nest - but the loop walks the live list, where an entry that goes at
\* or before the loop's place moves the next one out of its way: one may be passed over for
\* each handler that unsubscribed so, and none for any other reason.
EmitsToEvery == AllTold => Cardinality(calls[1].owed) <= calls[1].lost
=============================================================================
