------------------------------ MODULE TurnLoop ------------------------------
(***************************************************************************)
(* The turn loop: a client that holds the current tree and sends it with   *)
(* each prompt, and the endpoint that answers with the next tree.  The     *)
(* client is a FuaranSession (client/session.py), which calls the endpoint *)
(* through client/client.py and waits for its answer; or the page of the   *)
(* FastAPI host (samples/fastapi-host/app.py), which answers the user      *)
(* while turns are in flight and calls through the route, with its guards. *)
(*                                                                         *)
(* A tree is the sequence of the prompts that made it; one with a 0 in it  *)
(* does not decode.  Each prompt is used once.                             *)
(***************************************************************************)
EXTENDS RateLimiter, Sequences, SequencesExt

Prompts == Threads
ASSUME PromptsAssumption == IsFiniteSet(Prompts) /\ Prompts = 1 .. Cardinality(Prompts)

VARIABLES client,     \* "session" or "page"
          held,       \* current_tree_json, currentTree
          turn,       \* of each prompt: where it is, what the first guards make of
                      \* its request (check), the tree it sent, the answer
          beside      \* history: the pairs of turns that were in flight together

vars == <<limiter, client, held, turn, beside>>

None == << >>
Idle == [at |-> "idle", check |-> "passes", sent |-> None, answer |-> None]
InFlight == {p \in Prompts : turn[p].at \notin {"idle", "done", "lost"}}
MayAct == client = "session" => InFlight = {}
Decodes(tree) == 0 \notin ToSet(tree)

\* The tree a session is seeded with: one that no prompt made.
Seed == <<Cardinality(Prompts) + 1>>

Init ==
    /\ InitLimiter
    /\ client \in {"session", "page"}
    /\ held \in IF client = "session" THEN {None, Seed} ELSE {None}
    /\ turn = [p \in Prompts |-> Idle]
    /\ beside = {}

Sending(p, at, check, tree) ==
    /\ turn' = [turn EXCEPT ![p] = [at |-> at, check |-> check, sent |-> tree, answer |-> None]]
    /\ beside' = beside \cup {{p, other} : other \in InFlight}
    /\ UNCHANGED <<limiter, client, held>>

\* next, of a session: it calls the endpoint itself.
NextTurn(p) ==
    /\ client = "session" /\ MayAct /\ turn[p].at = "idle"
    /\ Sending(p, "called", "passes", held)

\* Mutant: the page sends its prompt alone.
SubmitFresh(p, check) ==
    /\ client = "page" /\ turn[p].at = "idle"
    /\ Sending(p, "posted", check, None)

\* onsubmit, of the page.  The request passes the guards on secret and length, is
\* refused by one, or carries a secret with a letter that is not ASCII, which
\* hmac.compare_digest raises at.
Submit(p, check) ==
    /\ client = "page" /\ turn[p].at = "idle"
    /\ Sending(p, "posted", check, held)

\* A page may be reset while turns are in flight; their answers are taken after it.
Reset ==
    /\ MayAct
    /\ held' = None
    /\ UNCHANGED <<limiter, client, turn, beside>>

-----------------------------------------------------------------------------
\* The route.
Answered(p, tree) == turn' = [turn EXCEPT ![p].at = "answered", ![p].answer = tree]

RefuseUnfit(p) ==
    /\ turn[p].at = "posted" /\ turn[p].check = "refuses"
    /\ Answered(p, None)
    /\ UNCHANGED <<limiter, client, held, beside>>

\* An exception in the route: its answer is a 500 that is no JSON.
Raised(p) ==
    /\ turn' = [turn EXCEPT ![p].at = "raised"]
    /\ UNCHANGED <<limiter, client, held, beside>>

RaiseInGuard(p) == turn[p].at = "posted" /\ turn[p].check = "raises" /\ Raised(p)

\* Mutant: the rate is bounded before the input.
AskUnfit(p) ==
    /\ turn[p].at = "posted"
    /\ Read(p)
    /\ UNCHANGED <<client, held, turn, beside>>

Ask(p) ==
    /\ turn[p].at = "posted" /\ turn[p].check = "passes"
    /\ Read(p)
    /\ UNCHANGED <<client, held, turn, beside>>

Count(p) ==
    /\ turn[p].at = "posted"
    /\ Write(p)
    /\ UNCHANGED <<client, held, turn, beside>>

RefuseOver(p) ==
    /\ turn[p].at = "posted" /\ admit[p].at = "over"
    /\ Answered(p, None)
    /\ UNCHANGED <<limiter, client, held, beside>>

Call(p) ==
    /\ turn[p].at = "posted" /\ admit[p].at = "within"
    /\ turn' = [turn EXCEPT ![p].at = "called"]
    /\ UNCHANGED <<limiter, client, held, beside>>

-----------------------------------------------------------------------------
\* Mutant: the route does not decode it.
PassedAny(tree) == tree

\* The answer's tree, None without one.  What comes over the wire is a tree if it
\* is an object or a text; the route decodes it as well.
Passed(tree) == IF client = "session" \/ Decodes(tree) THEN tree ELSE None

\* The endpoint answers: a tree, or None where it refuses, fails, times out if the
\* client was given a timeout, or has no tree in its answer.
Reply(p, tree) ==
    /\ turn[p].at = "called"
    /\ Answered(p, Passed(tree))
    /\ UNCHANGED <<limiter, client, held, beside>>

\* The route's decoder or its renderer raises at what the endpoint answered.
RaiseAtReply(p) == client = "page" /\ turn[p].at = "called" /\ Raised(p)

\* Mutant: an answer without a tree is never taken.
ReceiveProduced(p) ==
    /\ turn[p].at = "answered" /\ turn[p].answer # None
    /\ held' = turn[p].answer
    /\ turn' = [turn EXCEPT ![p].at = "done"]
    /\ UNCHANGED <<limiter, client, beside>>

\* Only a produced turn advances the client.
Receive(p) ==
    /\ turn[p].at = "answered"
    /\ held' = IF turn[p].answer # None THEN turn[p].answer ELSE held
    /\ turn' = [turn EXCEPT ![p].at = "done"]
    /\ UNCHANGED <<limiter, client, beside>>

\* res.json() throws: the page keeps what it holds, and says "generating" on.
Lose(p) ==
    /\ turn[p].at = "raised"
    /\ turn' = [turn EXCEPT ![p].at = "lost"]
    /\ UNCHANGED <<limiter, client, held, beside>>

Clock == client = "page" /\ Tick /\ UNCHANGED <<client, held, turn, beside>>

Checks == {"passes", "refuses", "raises"}
Route(p) ==
    \/ RefuseUnfit(p) \/ RaiseInGuard(p) \/ Ask(p) \/ Count(p) \/ RefuseOver(p) \/ Call(p)
Endpoint(p) ==
    \/ \E tree \in {Append(turn[p].sent, p), <<0>>, None} : Reply(p, tree)
    \/ RaiseAtReply(p)
Take(p) == Receive(p) \/ Lose(p)

Next ==
    \/ Reset \/ Clock
    \/ \E p \in Prompts : \/ NextTurn(p) \/ (\E check \in Checks : Submit(p, check))
                          \/ Route(p) \/ Endpoint(p) \/ Take(p)

\* The host and the client run what is runnable: a route that is not async gets a
\* thread of the server's pool, which has one for each of the few prompts here.
\* Nobody has to send a prompt, the clock may stand, and the endpoint need not
\* answer: build_client gives its client no timeout, and without one a call waits
\* as long as its socket does.
Fairness == \A p \in Prompts : WF_vars(Route(p)) /\ WF_vars(Take(p))

Spec == Init /\ [][Next]_vars
FairSpec == Spec /\ Fairness

-----------------------------------------------------------------------------
TypeOK ==
    /\ TypeOKLimiter
    /\ \A p \in Prompts :
         /\ turn[p].at \in {"idle", "posted", "called", "answered", "raised", "done", "lost"}
         /\ ToSet(turn[p].sent) \cup ToSet(turn[p].answer) \subseteq 0 .. Cardinality(Prompts) + 1
    /\ client = "session" => Cardinality(InFlight) <= 1 /\ beside = {}

\* app.py: "authorise, then bound the input, then bound the rate".  No turn is
\* paid for that one of the three refuses, and one that is refused or raised at
\* before the rate does not use up the turns of the caller either.
Guarded ==
    TypeOK /\ \A p \in Prompts :
      client = "page" =>
        IF turn[p].check = "passes" THEN turn[p].at = "called" => admit[p].at = "within"
        ELSE turn[p].at # "called" /\ admit[p].at = "outside"

\* wire.py: "the session HOLDS the produced tree, so an empty one poisons every
\* later repair": whatever the endpoint answers, and in whatever order answers
\* come, the tree a page repairs next is one that decodes.  A session takes any
\* JSON object for a tree.
HeldDecodes == client = "page" => Decodes(held)

\* client.py: "None waits as long as the socket does".  A prompt whose own call of
\* the endpoint ends, if it comes to one, is answered or ends in an exception of the
\* page, whoever refuses it and however long the calls of others hang.
CallEnds(p) == turn[p].at = "called" ~> turn[p].at # "called"
Settles ==
    \A p \in Prompts :
        CallEnds(p) => (turn[p].at \in {"posted", "called"} ~> turn[p].at \in {"done", "lost"})

\* session.py: "The held tree (if any) is sent as the current tree, so this prompt
\* repairs it".  An answer replaces the tree it was made from, or none, or that of a
\* turn which was in flight beside it: answers that overtake each other, and resets
\* among them, lose no tree of a turn that was over before the prompt was sent.
OnlyOverlapsLose ==
    [][\A p \in Prompts :
         turn[p].at = "answered" /\ turn'[p].at = "done" /\ turn[p].answer # None =>
           held \in {turn[p].sent, None} \/ {p, Last(held)} \in beside]_vars
=============================================================================
