-------------------------- MODULE BrowserObserver --------------------------
(***************************************************************************)
(* BrowserStyleObserver, and BrowserLayoutObserver, which is it without    *)
(* refresh_all, connect and disconnect: the flags of live elements, read   *)
(* back when asked to, or when a MutationObserver calls.                   *)
(*                                                                         *)
(* dom is the flags each element would derive, and belongs to the page.    *)
(* What the options of connect ask for is a record for each change inside  *)
(* the root element found then: of its descendants, or of a class, style   *)
(* or data-fuaran-tone in it.  A theme set on an ancestor, a style sheet,  *)
(* a media query change the flags and queue nothing, and an element that   *)
(* takes the root's place (runtime.py repaints so) is not observed at all. *)
(* The browser calls back when no script runs, once for all records queued.*)
(***************************************************************************)
EXTENDS Subscribers

CONSTANTS Root,           \* the root_id of connect and refresh_all
          Pages,          \* what scripts make of the page: the flags of each element
          ChangesOnly,    \* options.emit_on_flag_change_only
          Observers,      \* bound: the MutationObservers ever made, in order
          MaxMutations    \* bound: changes to the page

VARIABLES dom, lastFlags,
          mutationObserver,   \* _mutation_observer
          live,               \* the MutationObservers the browser still runs
          watching,           \* those of them whose element is the page's root still
          queued,             \* those with records to hand over
          made,               \* how many were ever made
          mutations,          \* how often the page has changed
          renewed,            \* history: the nodes told again while handlers were told of them
          unseen              \* history: the nodes changed by what queues no record, and not
                              \* read since from outside every walk

Wiring == <<mutationObserver, live, watching, queued, made>>
vars == <<core, dom, lastFlags, Wiring, mutations, renewed, unseen>>

Gone == "gone"          \* no such element; without the root there is none

ASSUME PageAssumption ==
    /\ Root \in Nodes /\ IsFiniteSet(Nodes) /\ Gone \notin Flags
    /\ Pages \subseteq [Nodes -> Flags \union {Gone}]
    /\ \A page \in Pages : page[Root] = Gone => page = [n \in Nodes |-> Gone]

Unread == "unread"      \* no entry in _last_flags
Nobody == 0

Init ==
    /\ InitCore
    /\ dom \in Pages
    /\ lastFlags = [n \in Nodes |-> Unread]
    /\ mutationObserver = Nobody /\ live = {} /\ watching = {} /\ queued = {}
    /\ made = 0 /\ mutations = 0 /\ renewed = {} /\ unseen = {}

Observation(n) == [node |-> n, flags |-> dom[n]]
Tells(o) == ~ChangesOnly \/ o.flags # lastFlags[o.node]

RenewedBy(n, below) ==
    renewed \union (IF \E i \in DOMAIN below : below[i].node = n THEN {n} ELSE {})

\* The loop of refresh_all over what observe_tree read: observations that bring
\* nothing new are passed by, the first that does is stored, then told.  below
\* is what was running when the loop took this step.
Visit(list, below) ==
    LET news == {i \in DOMAIN list : Tells(list[i])}
        i == CHOOSE k \in news : \A j \in news : k <= j
        o == list[i]
    IN  IF news = {}
        THEN calls' = below /\ UNCHANGED <<lastFlags, renewed>>
        ELSE /\ lastFlags' = [lastFlags EXCEPT ![o.node] = o.flags]
             /\ calls' = <<Notification(o.node, o.flags, SubSeq(list, i + 1, Len(list)))>> \o below
             /\ renewed' = RenewedBy(o.node, below)

\* observe_tree: the root, then its descendants, all read before any is told.
ObserveTree ==
    LET below == {n \in Nodes \ {Root} : dom[n] # Gone}
    IN  IF dom[Root] = Gone THEN << >>
        ELSE <<Observation(Root)>> \o [i \in DOMAIN SetToSeq(below) |-> Observation(SetToSeq(below)[i])]

\* A walk under way may still store what it read before; outside of all, what is read is known.
Read(nodes) == unseen' = IF calls = << >> THEN unseen \ nodes ELSE unseen

RefreshAll ==
    /\ Visit(ObserveTree, calls)
    /\ Read({o.node : o \in ToSet(ObserveTree)})
    /\ UNCHANGED <<subs, heard>>

\* refresh: one element, if it is there.
Refresh(n) ==
    /\ May("refresh") /\ CanNest
    /\ dom[n] # Gone
    /\ Visit(<<Observation(n)>>, calls)
    /\ Read({n})
    /\ UNCHANGED <<subs, heard, dom, Wiring, mutations>>

RefreshTree ==
    /\ May("refresh") /\ CanNest
    /\ RefreshAll
    /\ UNCHANGED <<dom, Wiring, mutations>>

\* A new MutationObserver takes the place of the one held, if any; without a
\* root element connect returns.
Wire ==
    /\ May("connect") /\ CanNest
    /\ made < Observers /\ dom[Root] # Gone
    /\ made' = made + 1
    /\ mutationObserver' = made'
    /\ live' = live \union {made'}
    /\ watching' = watching \union {made'}
    /\ UNCHANGED <<dom, queued, mutations>>

\* Mutant: nothing is read when the observer starts.
ConnectOnly == Wire /\ UNCHANGED <<core, lastFlags, renewed, unseen>>

Connect == Wire /\ RefreshAll

Disconnect ==
    /\ May("disconnect")
    /\ mutationObserver # Nobody
    /\ live' = live \ {mutationObserver}
    /\ watching' = watching \ {mutationObserver}
    /\ queued' = queued \ {mutationObserver}
    /\ mutationObserver' = Nobody
    /\ UNCHANGED <<core, dom, lastFlags, made, mutations, renewed, unseen>>

Finish ==
    /\ End
    /\ Visit(calls[1].rest, Tail(calls))
    /\ UNCHANGED <<subs, dom, Wiring, mutations, unseen>>

-----------------------------------------------------------------------------
\* The page, by the host's own scripts (a theme toggle in a handler, say).
Turn(page) ==
    /\ May("mutate")
    /\ mutations < MaxMutations
    /\ mutations' = mutations + 1
    /\ dom' = page
    /\ UNCHANGED <<core, lastFlags, mutationObserver, live, made, renewed>>

\* Inside the root element: who watches it is to read all of it again.
Mutate(page) ==
    /\ Turn(page)
    /\ page # dom /\ dom[Root] # Gone /\ page[Root] # Gone
    /\ queued' = queued \union watching
    /\ unseen' = IF watching = {} THEN unseen ELSE {}
    /\ UNCHANGED watching

\* By what stands outside of it: no record, and no element comes or goes.
Overlook(page) ==
    /\ Turn(page)
    /\ page # dom /\ \A n \in Nodes : page[n] = Gone <=> dom[n] = Gone
    /\ unseen' = unseen \union {n \in Nodes : page[n] # dom[n]}
    /\ UNCHANGED <<queued, watching>>

\* Another element takes the root's place, or none does, or one comes where none was.
Replace(page) ==
    /\ Turn(page)
    /\ {dom[Root], page[Root]} # {Gone}
    /\ watching' = {}
    /\ UNCHANGED <<queued, unseen>>

\* The browser hands the records over: _on_mutation.
HandOver(m) ==
    /\ calls = << >>
    /\ m \in queued
    /\ queued' = queued \ {m}
    /\ UNCHANGED <<dom, mutationObserver, live, watching, made, mutations>>

\* Mutant: only the MutationObserver held is listened to.
OnMutationOfHeld(m) ==
    /\ HandOver(m)
    /\ IF m = mutationObserver THEN RefreshAll ELSE UNCHANGED <<core, lastFlags, renewed, unseen>>

OnMutation(m) == HandOver(m) /\ RefreshAll

Observed == <<dom, lastFlags, Wiring, mutations, renewed, unseen>>
Page == \E page \in Pages : Mutate(page) \/ Overlook(page) \/ Replace(page)
Host ==
    \/ HostList /\ UNCHANGED Observed
    \/ \E n \in Nodes : Refresh(n)
    \/ RefreshTree \/ Connect \/ Disconnect
Loop == (Library /\ UNCHANGED Observed) \/ Finish
Callback == \E m \in 1 .. Observers : OnMutation(m)
Next == Host \/ Page \/ Loop \/ Callback

\* The loop is synchronous code and its handlers return; a browser with queued
\* records calls back once no script runs.  The host and the page owe nothing.
Spec == Init /\ [][Next]_vars
FairSpec == Spec /\ WF_vars(Loop) /\ WF_vars(Callback)

-----------------------------------------------------------------------------
TypeOK ==
    /\ subs \in BoundedSeq(Handlers, MaxSubs)
    /\ \A i \in DOMAIN calls : calls[i].node \in Nodes /\ calls[i].flags \in Flags
    /\ dom \in [Nodes -> Flags \union {Gone}]
    /\ lastFlags \in [Nodes -> Flags \union {Unread}]
    /\ mutationObserver \in 0 .. made
    /\ live \subseteq 1 .. made /\ queued \subseteq live /\ watching \subseteq live
    /\ unseen \subseteq Nodes

\* While a MutationObserver watches the page's root, and nothing is queued or under way,
\* _last_flags is what the elements derive, but for changes no record is queued of: the
\* snapshot a loop walks goes stale when a handler touches the page, and a later callback
\* makes up for it.
Quiet == calls = << >> /\ queued = {}

Stored ==
    (Quiet /\ watching # {}) => \A n \in Nodes \ unseen : dom[n] \in {Gone, lastFlags[n]}

\* And so does every handler subscribed that heard of the element and was not passed over
\* since: the last it was told is what the page shows, but for an element that a handler
\* refreshed again while it was told of it.
HeardTheLast ==
    (Quiet /\ watching # {}) =>
      \A h \in ToSet(subs), n \in Nodes \ (renewed \union unseen) :
        dom[n] # Gone => heard[h][n] \in {Unknown, dom[n]}

\* What the observer stores and what its handlers heard is the page, once quiet.
Settled == TypeOK /\ Stored /\ HeardTheLast

\* A change inside the root that is watched is read, or overtaken by another, or nobody
\* watches any more.
ChangesAreRead ==
    \A n \in Nodes, f \in Flags :
      (dom[n] = f /\ n \notin unseen /\ watching # {})
        ~> (lastFlags[n] = f \/ dom[n] # f \/ n \in unseen \/ watching = {})

\* disconnect: "Disconnect the live MutationObserver if one was wired via
\* connect": afterwards the browser runs none of this observer's.
DisconnectStops == mutationObserver = Nobody => live = {}
=============================================================================
