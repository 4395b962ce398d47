--------------------------- MODULE TurnLoopProofs ---------------------------
(***************************************************************************)
(* Proofs about TurnLoop and its limiter, for any number of prompts, any   *)
(* bound on the turns and any window.                                      *)
(***************************************************************************)
EXTENDS TurnLoop, FiniteSetTheorems, TLAPS

Ages == 0 .. Window
Trees == Seq(0 .. Cardinality(Prompts) + 1)

(***************************************************************************)
(* Types, with what makes them inductive: a session has one turn in        *)
(* flight.                                                                 *)
(***************************************************************************)
TypedLimiter ==
    /\ window \in [started : Ages, turns : 0 .. MaxTurns + 1]
    /\ admit \in [Threads -> [at : {"outside", "read", "within", "over"},
                              current : Ages, started : Ages, turns : 0 .. MaxTurns + 1]]
    /\ recent \in [Places -> Ages]
    /\ raced \in BOOLEAN

TypedTurns ==
    /\ client \in {"session", "page"}
    /\ held \in Trees
    /\ turn \in [Prompts -> [at : {"idle", "posted", "called", "answered", "raised", "done", "lost"},
                             check : Checks, sent : Trees, answer : Trees]]

OneAtATime == client = "session" => beside = {} /\ \A p, q \in InFlight : p = q

\* A page's request is in admit only once it was posted and passed, and is called
\* only once it was found within the window.
Gated ==
    client = "page" => \A p \in Prompts :
        /\ turn[p].at = "idle" \/ turn[p].check # "passes" => admit[p].at = "outside"
        /\ turn[p].at = "called" => turn[p].check = "passes" /\ admit[p].at = "within"

\* What a page is about to hold decodes.
Clean == client = "page" => Decodes(held) /\ \A p \in Prompts : Decodes(turn[p].answer)

\* A page's answer ends with the prompt it was given to.
Signed == client = "page" =>
    \A p \in Prompts : turn[p].answer # None => Last(turn[p].answer) = p

\* Turns in flight together are beside each other, and what was taken since one of
\* them was sent was of a turn beside it.
Overlapping ==
    /\ \A p, q \in InFlight : p # q => {p, q} \in beside
    /\ \A p \in InFlight : held \in {turn[p].sent, None} \/ {p, Last(held)} \in beside

(***************************************************************************)
(* The count of the limiter, while no two requests were in admit at once.  *)
(***************************************************************************)
\* Turns admitted in the present window, and those of the last Window before it began.
OfThis   == {i \in Places : recent[i] < Window /\ recent[i] <= window.started}
OfBefore == {i \in Places : recent[i] < Window /\ recent[i] > window.started}

\* The turn that opened a window is as old as the window, so it is forgotten when
\* the window expires, and one less is left of it.
Counted ==
    /\ Cardinality(OfThis) <= IF window.started < Window THEN Least(window.turns, MaxTurns)
                              ELSE IF window.turns = 0 THEN 0 ELSE Least(window.turns, MaxTurns) - 1
    /\ Cardinality(OfBefore) <= MaxTurns - 1
    /\ window.started < Window =>
         window.turns >= 1 /\ \E i \in Places : recent[i] = window.started
    /\ window.started = Window => \A i \in Places : recent[i] >= 1

\* A request that read the present window, and one that found it expired.
Continues(t) ==
    /\ admit[t].started = window.started
    /\ window.turns >= 1
    /\ admit[t].turns = Least(window.turns + 1, MaxTurns + 1)
    /\ admit[t].current <= admit[t].started
    /\ admit[t].started = Window => admit[t].current >= 1
Opens(t) ==
    /\ window.started = Window
    /\ admit[t].started = admit[t].current
    /\ admit[t].turns = 1
    /\ \A i \in Places : recent[i] = Window \/ recent[i] > admit[t].current

Reading == {t \in Threads : admit[t].at = "read"}
OneByOne == ~raced =>
    /\ Counted
    /\ \A t, u \in Reading : t = u
    /\ \A t \in Reading : Continues(t) \/ Opens(t)
-----------------------------------------------------------------------------
(***************************************************************************)
(* Types.                                                                  *)
(***************************************************************************)
\* A step of the limiter keeps its variables in their types.
LEMMA LimiterTyped ==
    ASSUME TypedLimiter, \/ \E t \in Threads : Read(t) \/ Write(t)
                         \/ Tick
                         \/ UNCHANGED limiter
    PROVE  TypedLimiter'
<1>. USE LimitsAssumption DEF TypedLimiter, Ages
<1>1. ASSUME NEW t \in Threads, Read(t) PROVE TypedLimiter'
  BY <1>1 DEF Read, ReadWindow, Opened, Least
<1>2. ASSUME NEW t \in Threads, Write(t) PROVE TypedLimiter'
  <2>1. window' \in [started : Ages, turns : 0 .. MaxTurns + 1] /\ raced' \in BOOLEAN
    BY <1>2 DEF Write, Decide
  <2>2. admit' \in [Threads -> [at : {"outside", "read", "within", "over"},
                                current : Ages, started : Ages, turns : 0 .. MaxTurns + 1]]
    BY <1>2 DEF Write, Decide, Outside
  <2>3. Vacant # {} => (CHOOSE i \in Vacant : TRUE) \in Places
    BY DEF Vacant
  <2>4. recent' \in [Places -> Ages]
    BY <1>2, <2>3 DEF Write, Decide
  <2>. QED  BY <2>1, <2>2, <2>4
<1>3. CASE Tick
  <2>1. \A age \in Ages : Older(age) \in Ages
    BY DEF Older
  <2>2. window' \in [started : Ages, turns : 0 .. MaxTurns + 1] /\ raced' \in BOOLEAN
    BY <1>3, <2>1 DEF Tick
  <2>3. ASSUME NEW t \in Threads
        PROVE  admit'[t] \in [at : {"outside", "read", "within", "over"},
                              current : Ages, started : Ages, turns : 0 .. MaxTurns + 1]
    BY <1>3, <2>1 DEF Tick
  <2>4. recent' \in [Places -> Ages]
    BY <1>3, <2>1 DEF Tick
  <2>5. admit' = [t \in Threads |-> admit'[t]]
    BY <1>3 DEF Tick
  <2>. QED  BY <2>2, <2>3, <2>4, <2>5
<1>4. CASE UNCHANGED limiter
  BY <1>4 DEF limiter
<1>. QED  BY <1>1, <1>2, <1>3, <1>4

\* The steps that move a turn, and those that leave turns to the limiter.
Moves(p) ==
    \/ NextTurn(p) \/ (\E check \in Checks : Submit(p, check))
    \/ RefuseUnfit(p) \/ RaiseInGuard(p) \/ RefuseOver(p) \/ Call(p) \/ Endpoint(p) \/ Take(p)

LEMMA StepsOfNext ==
    ASSUME [Next]_vars
    PROVE  \/ Reset \/ Clock \/ UNCHANGED vars
           \/ \E p \in Prompts : Moves(p) \/ Ask(p) \/ Count(p)
  BY DEF Next, Route, Moves

LEMMA LimiterSteps ==
    ASSUME [Next]_vars
    PROVE  \/ \E t \in Threads : Read(t) \/ Write(t)
           \/ Tick
           \/ UNCHANGED limiter
<1>1. ASSUME NEW p \in Prompts, Moves(p) PROVE UNCHANGED limiter
  BY <1>1 DEF Moves, NextTurn, Submit, Sending, RefuseUnfit, RaiseInGuard, Raised, RefuseOver,
              Call, Endpoint, Reply, RaiseAtReply, Take, Receive, Lose
<1>. QED  BY <1>1, StepsOfNext DEF Reset, Clock, vars, Ask, Count, Prompts

\* A tree one prompt longer is a tree, and so are the trees a client starts from.
LEMMA TreesType ==
    /\ None \in Trees /\ Seed \in Trees /\ <<0>> \in Trees
    /\ \A tree \in Trees, p \in Prompts : Append(tree, p) \in Trees
<1>1. Cardinality(Prompts) \in Nat
  BY PromptsAssumption, FS_CardinalityType
<1>2. 0 \in 0 .. Cardinality(Prompts) + 1 /\ Cardinality(Prompts) + 1 \in 0 .. Cardinality(Prompts) + 1
  BY <1>1
<1>3. \A p \in Prompts : p \in 0 .. Cardinality(Prompts) + 1
  BY <1>1, PromptsAssumption
<1>4. ASSUME NEW S, NEW x \in S, NEW y \in S
      PROVE  << >> \in Seq(S) /\ <<x>> \in Seq(S) /\ \A s \in Seq(S) : Append(s, x) \in Seq(S)
  OBVIOUS
<1>. QED  BY <1>2, <1>3, <1>4 DEF Trees, None, Seed

LEMMA TurnsTyped == ASSUME TypedTurns, [Next]_vars PROVE TypedTurns'
<1>. USE TreesType DEF TypedTurns, Checks
<1>1. CASE Reset
  BY <1>1 DEF Reset
<1>2. CASE Clock \/ UNCHANGED vars
  BY <1>2 DEF Clock, vars
<1>3. ASSUME NEW p \in Prompts, Ask(p) \/ Count(p) PROVE TypedTurns'
  BY <1>3 DEF Ask, Count
<1>4. ASSUME NEW p \in Prompts, Moves(p) PROVE TypedTurns'
  <2>1. CASE NextTurn(p)
    BY <2>1 DEF NextTurn, Sending
  <2>2. CASE \E check \in Checks : Submit(p, check)
    BY <2>2 DEF Submit, Sending
  <2>3. CASE RefuseUnfit(p) \/ RaiseInGuard(p) \/ RefuseOver(p) \/ Call(p)
    BY <2>3 DEF RefuseUnfit, RaiseInGuard, Raised, RefuseOver, Call, Answered
  <2>4. CASE Endpoint(p)
    <3>. SUFFICES ASSUME ~RaiseAtReply(p) PROVE TypedTurns'
      BY DEF RaiseAtReply, Raised
    <3>1. PICK tree \in {Append(turn[p].sent, p), <<0>>, None} : Reply(p, tree)
      BY <2>4 DEF Endpoint
    <3>2. turn[p].sent \in Trees
      OBVIOUS
    <3>3. tree \in Trees
      BY <3>1, <3>2, Zenon
    <3>4. Passed(tree) \in Trees
      BY <3>3 DEF Passed
    <3>. QED  BY <3>1, <3>4 DEF Reply, Answered
  <2>5. CASE Take(p)
    BY <2>5 DEF Take, Receive, Lose
  <2>. QED  BY <1>4, <2>1, <2>2, <2>3, <2>4, <2>5 DEF Moves
<1>. QED  BY <1>1, <1>2, <1>3, <1>4, StepsOfNext

Typed == TypedLimiter /\ TypedTurns /\ OneAtATime

LEMMA OneInFlight == ASSUME TypedTurns, OneAtATime, [Next]_vars PROVE OneAtATime'
<1>. USE DEF OneAtATime, InFlight, TypedTurns
<1>1. CASE Reset \/ Clock \/ UNCHANGED vars
  BY <1>1 DEF Reset, Clock, vars
<1>2. ASSUME NEW p \in Prompts, Ask(p) \/ Count(p) PROVE OneAtATime'
  BY <1>2 DEF Ask, Count
<1>3. ASSUME NEW p \in Prompts, Moves(p) PROVE OneAtATime'
  <2>1. CASE NextTurn(p)
    BY <2>1 DEF NextTurn, Sending, MayAct
  <2>2. CASE \E check \in Checks : Submit(p, check)
    BY <2>2 DEF Submit, Sending
  <2>3. CASE RefuseUnfit(p) \/ RaiseInGuard(p) \/ RefuseOver(p) \/ Call(p) \/ Endpoint(p) \/ Take(p)
    BY <2>3 DEF RefuseUnfit, RaiseInGuard, Raised, RefuseOver, Call, Answered, Endpoint, Reply,
                RaiseAtReply, Take, Receive, Lose
  <2>. QED  BY <1>3, <2>1, <2>2, <2>3 DEF Moves
<1>. QED  BY <1>1, <1>2, <1>3, StepsOfNext

LEMMA TypedStep == ASSUME Typed, [Next]_vars PROVE Typed'
  BY LimiterTyped, LimiterSteps, TurnsTyped, OneInFlight DEF Typed

LEMMA TypedInit == ASSUME Init PROVE Typed
<1>1. TypedLimiter
  <2>1. 0 \in Ages /\ Window \in Ages /\ 0 \in 0 .. MaxTurns + 1
    BY LimitsAssumption DEF Ages
  <2>. QED  BY <2>1 DEF Init, InitLimiter, TypedLimiter, NoWindow, Outside
<1>2. TypedTurns
  BY TreesType DEF Init, TypedTurns, Idle, Checks
<1>3. OneAtATime
  BY DEF Init, OneAtATime, InFlight, Idle
<1>. QED  BY <1>1, <1>2, <1>3 DEF Typed
LEMMA AlwaysTyped == Spec => []Typed
  BY TypedInit, TypedStep, PTL DEF Spec

-----------------------------------------------------------------------------
(***************************************************************************)
(* The guards of the route.                                                *)
(***************************************************************************)
LEMMA GatedStep == ASSUME Typed, Gated, [Next]_vars PROVE Gated'
<1>. USE DEF Gated, Typed, TypedTurns, TypedLimiter, Prompts
<1>1. CASE Reset \/ UNCHANGED vars
  BY <1>1 DEF Reset, vars, limiter
<1>2. CASE Clock
  BY <1>2 DEF Clock, Tick
<1>3. ASSUME NEW p \in Prompts, Ask(p) PROVE Gated'
  BY <1>3 DEF Ask, Read, ReadWindow
<1>4. ASSUME NEW p \in Prompts, Count(p) PROVE Gated'
  BY <1>4 DEF Count, Write, Decide
<1>5. ASSUME NEW p \in Prompts, Moves(p) PROVE Gated'
  <2>1. CASE NextTurn(p)
    BY <2>1 DEF NextTurn, Sending, limiter
  <2>2. CASE \E check \in Checks : Submit(p, check)
    BY <2>2 DEF Submit, Sending, limiter
  <2>3. CASE RefuseUnfit(p) \/ RaiseInGuard(p) \/ RefuseOver(p) \/ Call(p)
    BY <2>3 DEF RefuseUnfit, RaiseInGuard, Raised, RefuseOver, Call, Answered, limiter
  <2>4. CASE Endpoint(p)
    BY <2>4 DEF Endpoint, Reply, RaiseAtReply, Raised, Answered, limiter
  <2>5. CASE Take(p)
    BY <2>5 DEF Take, Receive, Lose, limiter
  <2>. QED  BY <1>5, <2>1, <2>2, <2>3, <2>4, <2>5 DEF Moves
<1>. QED  BY <1>1, <1>2, <1>3, <1>4, <1>5, StepsOfNext

\* What TurnLoop says of its types follows from those of its functions.
LEMMA TypedIsTypeOK == ASSUME Typed PROVE TypeOK
<1>1. TypeOKLimiter
  BY DEF Typed, TypedLimiter, TypeOKLimiter, Ages
<1>2. ASSUME NEW p \in Prompts
      PROVE  /\ turn[p].at \in {"idle", "posted", "called", "answered", "raised", "done", "lost"}
             /\ ToSet(turn[p].sent) \cup ToSet(turn[p].answer) \subseteq 0 .. Cardinality(Prompts) + 1
  <2>1. turn[p].at \in {"idle", "posted", "called", "answered", "raised", "done", "lost"}
        /\ turn[p].sent \in Trees /\ turn[p].answer \in Trees
    BY DEF Typed, TypedTurns
  <2>2. \A tree \in Trees : ToSet(tree) \subseteq 0 .. Cardinality(Prompts) + 1
    <3>1. ASSUME NEW S, NEW s \in Seq(S) PROVE {s[i] : i \in DOMAIN s} \subseteq S
      OBVIOUS
    <3>. QED  BY <3>1 DEF Trees, ToSet
  <2>. QED  BY <2>1, <2>2
<1>3. ASSUME client = "session" PROVE Cardinality(InFlight) <= 1 /\ beside = {}
  <2>. SUFFICES Cardinality(InFlight) <= 1
    BY <1>3 DEF Typed, OneAtATime
  <2>1. InFlight = {} \/ \E p \in InFlight : InFlight = {p}
    BY <1>3 DEF Typed, OneAtATime
  <2>2. CASE InFlight = {}
    BY <2>2, FS_EmptySet
  <2>3. ASSUME NEW p, InFlight = {p} PROVE Cardinality(InFlight) <= 1
    <3>1. Cardinality({p}) = 1
      BY FS_Singleton, Zenon
    <3>. QED  BY <2>3, <3>1
  <2>. QED  BY <2>1, <2>2, <2>3
<1>. QED  BY <1>1, <1>2, <1>3 DEF TypeOK

\* app.py: "authorise, then bound the input, then bound the rate", for any number of
\* requests at once: none is called that a guard has not passed, and one that is
\* refused or raised at before the rate leaves the caller's window alone.
THEOREM GuardsInOrder == Spec => []Guarded
<1>1. Init => Gated
  BY DEF Init, InitLimiter, Gated, Idle, Outside, Prompts
<1>2. Typed /\ Gated => Guarded
  BY TypedIsTypeOK DEF Guarded, Gated
<1>. QED  BY AlwaysTyped, <1>1, GatedStep, <1>2, PTL DEF Spec

-----------------------------------------------------------------------------
(***************************************************************************)
(* What clients hold.                                                      *)
(***************************************************************************)
LEMMA CleanStep == ASSUME Typed, Clean, [Next]_vars PROVE Clean'
<1>. USE DEF Clean, Typed, TypedTurns
<1>1. Decodes(None)
  BY DEF Decodes, None, ToSet
<1>2. CASE Reset \/ Clock \/ UNCHANGED vars
  BY <1>1, <1>2 DEF Reset, Clock, vars, Decodes
<1>3. ASSUME NEW p \in Prompts, Ask(p) \/ Count(p) PROVE Clean'
  BY <1>3 DEF Ask, Count, Decodes
<1>4. ASSUME NEW p \in Prompts, Moves(p) PROVE Clean'
  <2>1. CASE NextTurn(p)
    BY <2>1 DEF NextTurn, Sending
  <2>2. CASE \E check \in Checks : Submit(p, check)
    BY <2>2, <1>1 DEF Submit, Sending, Decodes
  <2>3. CASE RefuseUnfit(p) \/ RaiseInGuard(p) \/ RefuseOver(p) \/ Call(p)
    BY <2>3, <1>1 DEF RefuseUnfit, RaiseInGuard, Raised, RefuseOver, Call, Answered, Decodes
  <2>4. CASE Endpoint(p)
    <3>. SUFFICES ASSUME ~RaiseAtReply(p) PROVE Clean'
      BY DEF RaiseAtReply, Raised, Decodes
    <3>1. PICK tree : Reply(p, tree)
      BY <2>4 DEF Endpoint
    <3>2. client = "page" => Decodes(Passed(tree))
      BY <1>1 DEF Passed
    <3>. QED  BY <3>1, <3>2 DEF Reply, Answered, Decodes
  <2>5. CASE Take(p)
    BY <2>5 DEF Take, Receive, Lose, Decodes
  <2>. QED  BY <1>4, <2>1, <2>2, <2>3, <2>4, <2>5 DEF Moves
<1>. QED  BY <1>2, <1>3, <1>4, StepsOfNext

\* wire.py: "an empty one poisons every later repair": whatever the endpoint answers,
\* and however answers overtake each other, a page holds a tree that decodes.
THEOREM PageHoldsWhatDecodes == Spec => []HeldDecodes
<1>1. Init => Clean
  BY DEF Init, Clean, Decodes, None, Idle, ToSet
<1>2. Clean => HeldDecodes
  BY DEF Clean, HeldDecodes
<1>. QED  BY AlwaysTyped, <1>1, CleanStep, <1>2, PTL DEF Spec

LEMMA SignedStep == ASSUME Typed, Signed, [Next]_vars PROVE Signed'
<1>. USE DEF Signed, Typed, TypedTurns
<1>1. CASE Reset \/ Clock \/ UNCHANGED vars
  BY <1>1 DEF Reset, Clock, vars
<1>2. ASSUME NEW p \in Prompts, Ask(p) \/ Count(p) PROVE Signed'
  BY <1>2 DEF Ask, Count
<1>3. ASSUME NEW p \in Prompts, Moves(p) PROVE Signed'
  <2>1. CASE NextTurn(p)
    BY <2>1 DEF NextTurn, Sending
  <2>2. CASE \E check \in Checks : Submit(p, check)
    BY <2>2 DEF Submit, Sending
  <2>3. CASE RefuseUnfit(p) \/ RaiseInGuard(p) \/ RefuseOver(p) \/ Call(p)
    BY <2>3 DEF RefuseUnfit, RaiseInGuard, Raised, RefuseOver, Call, Answered
  <2>4. CASE Endpoint(p)
    <3>. SUFFICES ASSUME ~RaiseAtReply(p) PROVE Signed'
      BY DEF RaiseAtReply, Raised
    <3>1. PICK tree \in {Append(turn[p].sent, p), <<0>>, None} : Reply(p, tree)
      BY <2>4 DEF Endpoint
    <3>2. Last(Append(turn[p].sent, p)) = p
      <4>1. turn[p].sent \in Trees
        OBVIOUS
      <4>. QED  BY <4>1 DEF Trees, Last
    <3>3. ~Decodes(<<0>>)
      BY DEF Decodes, ToSet
    <3>4. client = "page" /\ Passed(tree) # None => Last(Passed(tree)) = p
      BY <3>1, <3>2, <3>3 DEF Passed
    <3>. QED  BY <3>1, <3>4 DEF Reply, Answered
  <2>5. CASE Take(p)
    BY <2>5 DEF Take, Receive, Lose
  <2>. QED  BY <1>3, <2>1, <2>2, <2>3, <2>4, <2>5 DEF Moves
<1>. QED  BY <1>1, <1>2, <1>3, StepsOfNext

LEMMA OverlappingStep == ASSUME Typed, Signed, Overlapping, [Next]_vars PROVE Overlapping'
<1>. USE DEF Typed, TypedTurns
<1>1. CASE Reset \/ Clock \/ UNCHANGED vars
  BY <1>1 DEF Overlapping, InFlight, Reset, Clock, vars
<1>2. ASSUME NEW p \in Prompts, Ask(p) \/ Count(p) PROVE Overlapping'
  BY <1>2 DEF Overlapping, InFlight, Ask, Count
<1>3. ASSUME NEW p \in Prompts, Moves(p) PROVE Overlapping'
  <2>1. ASSUME NEW at \in {"called", "posted"}, NEW check, Sending(p, at, check, held), turn[p].at = "idle"
        PROVE  Overlapping'
    <3>1. InFlight' = InFlight \cup {p} /\ p \notin InFlight
      BY <2>1 DEF Sending, InFlight
    <3>2. turn'[p].sent = held /\ \A q \in InFlight : turn'[q] = turn[q]
      BY <2>1, <3>1 DEF Sending, InFlight
    <3>3. held' = held /\ \A q \in InFlight : {p, q} \in beside' /\ {q, p} \in beside'
      <4>1. \A q : {q, p} = {p, q}
        OBVIOUS
      <4>. QED  BY <2>1, <4>1 DEF Sending
    <3>4. beside \subseteq beside'
      BY <2>1 DEF Sending
    <3>5. \A q, other \in InFlight' : q # other => {q, other} \in beside'
      BY <3>1, <3>3, <3>4 DEF Overlapping
    <3>6. \A q \in InFlight' : held' \in {turn'[q].sent, None} \/ {q, Last(held')} \in beside'
      BY <3>1, <3>2, <3>3, <3>4 DEF Overlapping
    <3>. QED  BY <3>5, <3>6 DEF Overlapping
  <2>2. CASE NextTurn(p)
    BY <2>1, <2>2 DEF NextTurn
  <2>3. CASE \E check \in Checks : Submit(p, check)
    BY <2>1, <2>3 DEF Submit
  <2>4. CASE RefuseUnfit(p) \/ RaiseInGuard(p) \/ RefuseOver(p) \/ Call(p) \/ Endpoint(p)
    BY <2>4 DEF Overlapping, InFlight, RefuseUnfit, RaiseInGuard, Raised, RefuseOver, Call,
                Endpoint, Reply, RaiseAtReply, Answered
  <2>5. CASE Take(p)
    <3>1. InFlight' = InFlight \ {p} /\ p \in InFlight
      BY <2>5 DEF Take, Receive, Lose, InFlight
    <3>2. beside' = beside /\ \A q \in InFlight' : turn'[q] = turn[q]
      BY <2>5, <3>1 DEF Take, Receive, Lose, InFlight
    <3>3. CASE held' = held
      BY <3>1, <3>2, <3>3 DEF Overlapping
    <3>4. CASE held' # held
      <4>1. turn[p].answer # None /\ held' = turn[p].answer
        BY <2>5, <3>4 DEF Take, Receive, Lose
      <4>2. \A q \in InFlight' : Last(held') = p
        BY <3>1, <4>1 DEF OneAtATime, Signed, InFlight
      <4>. QED  BY <3>1, <3>2, <4>2 DEF Overlapping
    <3>. QED  BY <3>3, <3>4
  <2>. QED  BY <1>3, <2>2, <2>3, <2>4, <2>5 DEF Moves
<1>. QED  BY <1>1, <1>2, <1>3, StepsOfNext

\* session.py: "The held tree (if any) is sent as the current tree, so this prompt repairs
\* it": for any number of prompts, however their answers overtake each other and resets
\* fall between them, an answer replaces no tree but the one it was made from and those of
\* turns that were in flight beside it; so a session, with one turn in flight, loses none.
THEOREM OverlapsAloneLose == Spec => OnlyOverlapsLose
<1>1. Init => Signed /\ Overlapping
  BY DEF Init, Signed, Overlapping, InFlight, Idle
<1>2. ASSUME Overlapping, [Next]_vars
      PROVE  [\A p \in Prompts :
                turn[p].at = "answered" /\ turn'[p].at = "done" /\ turn[p].answer # None =>
                  held \in {turn[p].sent, None} \/ {p, Last(held)} \in beside]_vars
  BY <1>2 DEF Overlapping, InFlight
<1>. QED  BY AlwaysTyped, <1>1, <1>2, SignedStep, OverlappingStep, PTL DEF Spec, OnlyOverlapsLose
-----------------------------------------------------------------------------
(***************************************************************************)
(* The quota.                                                              *)
(***************************************************************************)
LEMMA PlacesCount ==
    /\ Cardinality(Places) = 2 * MaxTurns
    /\ \A S \in SUBSET Places : Cardinality(S) \in Nat
    /\ \A S \in SUBSET Places : \A T \in SUBSET S : Cardinality(T) <= Cardinality(S)
    /\ \A S \in SUBSET Places : \A i \in S : Cardinality(S \ {i}) = Cardinality(S) - 1
    /\ \A S \in SUBSET Places, i \in Places : Cardinality(S \cup {i}) <= Cardinality(S) + 1
<1>1. IsFiniteSet(Places) /\ Cardinality(Places) = 2 * MaxTurns
  BY FS_Interval, LimitsAssumption DEF Places
<1>2. \A S \in SUBSET Places : IsFiniteSet(S) /\ Cardinality(S) \in Nat
  BY <1>1, FS_Subset, FS_CardinalityType
<1>3. \A S \in SUBSET Places : \A T \in SUBSET S : Cardinality(T) <= Cardinality(S)
  BY <1>2, FS_Subset
<1>4. \A S \in SUBSET Places : \A i \in S : Cardinality(S \ {i}) = Cardinality(S) - 1
  BY <1>2, FS_RemoveElement
<1>5. \A S \in SUBSET Places, i \in Places : Cardinality(S \cup {i}) <= Cardinality(S) + 1
  <2>. SUFFICES ASSUME NEW S \in SUBSET Places, NEW i \in Places
                PROVE  Cardinality(S \cup {i}) <= Cardinality(S) + 1
    OBVIOUS
  <2>. QED  BY <1>2, FS_AddElement
<1>. QED  BY <1>1, <1>2, <1>3, <1>4, <1>5

LEMMA Ranges ==
    ASSUME TypedLimiter
    PROVE  /\ MaxTurns \in Nat /\ MaxTurns >= 1 /\ Window \in Nat /\ Window >= 1
           /\ window.started \in Nat /\ window.started <= Window
           /\ window.turns \in Nat /\ window.turns <= MaxTurns + 1
           /\ \A i \in Places : recent[i] \in Nat /\ recent[i] <= Window
           /\ \A t \in Threads : /\ admit[t].started \in Nat /\ admit[t].started <= Window
                                 /\ admit[t].current \in Nat /\ admit[t].current <= Window
                                 /\ admit[t].turns \in Nat /\ admit[t].turns <= MaxTurns + 1
<1>1. MaxTurns \in Nat /\ MaxTurns >= 1 /\ Window \in Nat /\ Window >= 1
  BY LimitsAssumption
<1>2. window.started \in Ages /\ window.turns \in 0 .. MaxTurns + 1
      /\ \A i \in Places : recent[i] \in Ages
  BY DEF TypedLimiter
<1>3. \A n \in Ages : n \in Nat /\ n <= Window
  BY <1>1 DEF Ages
<1>4. \A n \in 0 .. MaxTurns + 1 : n \in Nat /\ n <= MaxTurns + 1
  BY <1>1
<1>5. /\ window.started \in Nat /\ window.started <= Window
      /\ window.turns \in Nat /\ window.turns <= MaxTurns + 1
      /\ \A i \in Places : recent[i] \in Nat /\ recent[i] <= Window
  BY <1>2, <1>3, <1>4
<1>6. ASSUME NEW t \in Threads
      PROVE  /\ admit[t].started \in Nat /\ admit[t].started <= Window
             /\ admit[t].current \in Nat /\ admit[t].current <= Window
             /\ admit[t].turns \in Nat /\ admit[t].turns <= MaxTurns + 1
  <2>1. admit[t].started \in Ages /\ admit[t].current \in Ages /\ admit[t].turns \in 0 .. MaxTurns + 1
    BY DEF TypedLimiter
  <2>. QED  BY <2>1, <1>3, <1>4, Zenon
<1>. QED  BY <1>1, <1>5, <1>6

LEMMA CountsRange ==
    /\ OfThis \in SUBSET Places /\ OfBefore \in SUBSET Places /\ Vacant \in SUBSET Places
    /\ OfThis' \in SUBSET Places /\ OfBefore' \in SUBSET Places
    /\ Cardinality(OfThis) \in Nat /\ Cardinality(OfBefore) \in Nat
    /\ Cardinality(OfThis') \in Nat /\ Cardinality(OfBefore') \in Nat
<1>1. /\ OfThis \in SUBSET Places /\ OfBefore \in SUBSET Places /\ Vacant \in SUBSET Places
      /\ OfThis' \in SUBSET Places /\ OfBefore' \in SUBSET Places
  BY DEF OfThis, OfBefore, Vacant
<1>2. \A S \in SUBSET Places : Cardinality(S) \in Nat
  BY PlacesCount
<1>. QED  BY <1>1, <1>2, Zenon

\* Time passes: what was in a window stays in it, or is forgotten.
LEMMA TickCounts ==
    ASSUME TypedLimiter, Counted, Tick
    PROVE  Counted'
<1>. DEFINE W == window.started
            N == window.turns
<1>1. /\ window'.started = (IF W >= Window THEN Window ELSE W + 1) /\ window'.turns = N
      /\ \A i \in Places : recent'[i] = IF recent[i] >= Window THEN Window ELSE recent[i] + 1
  BY DEF Tick, Older, TypedLimiter
<1>2. OfThis' \in SUBSET OfThis /\ OfBefore' \in SUBSET OfBefore
  BY <1>1, Ranges DEF OfThis, OfBefore
<1>3. Cardinality(OfThis') <= Cardinality(OfThis) /\ Cardinality(OfBefore') <= Cardinality(OfBefore)
  BY <1>2, CountsRange, PlacesCount, Zenon
<1>4. Cardinality(OfBefore') <= MaxTurns - 1
  <2>1. Cardinality(OfBefore) <= MaxTurns - 1
    BY DEF Counted
  <2>. QED  BY <1>3, <2>1, CountsRange, Ranges
<1>5. CASE W = Window
  <2>1. Cardinality(OfThis') <= IF N = 0 THEN 0 ELSE Least(N, MaxTurns) - 1
    <3>1. Cardinality(OfThis) <= IF N = 0 THEN 0 ELSE Least(N, MaxTurns) - 1
      BY <1>5, Ranges DEF Counted
    <3>. QED  BY <1>3, <3>1, CountsRange, Ranges DEF Least
  <2>2. window'.started = Window /\ ~(window'.started < Window)
    BY <1>1, <1>5, Ranges
  <2>3. \A i \in Places : recent'[i] >= 1
    BY <1>1, Ranges
  <2>. QED  BY <1>1, <1>4, <2>1, <2>2, <2>3 DEF Counted
<1>6. CASE W < Window
  <2>1. /\ Cardinality(OfThis) <= Least(N, MaxTurns) /\ N >= 1
        /\ \E i \in Places : recent[i] = W
    BY <1>6 DEF Counted
  <2>2. PICK i \in Places : recent[i] = W
    BY <2>1
  <2>3. CASE W + 1 < Window
    <3>1. window'.started < Window /\ window'.started # Window /\ recent'[i] = window'.started
      BY <1>1, <1>6, <2>2, <2>3, Ranges
    <3>2. Cardinality(OfThis') <= Least(N, MaxTurns)
      BY <1>3, <2>1, CountsRange, Ranges DEF Least
    <3>. QED  BY <1>1, <1>4, <2>1, <3>1, <3>2 DEF Counted
  <2>4. CASE W + 1 = Window
    <3>1. window'.started = Window /\ ~(window'.started < Window) /\ recent'[i] = Window
      BY <1>1, <1>6, <2>2, <2>4, Ranges
    <3>2. i \in OfThis /\ i \notin OfThis'
      BY <1>6, <2>2, <3>1, Ranges DEF OfThis
    <3>3. OfThis' \in SUBSET (OfThis \ {i}) /\ OfThis \ {i} \in SUBSET Places
      BY <1>2, <3>2, CountsRange
    <3>4. Cardinality(OfThis') <= Cardinality(OfThis \ {i})
      BY <3>3, PlacesCount, Zenon
    <3>5. Cardinality(OfThis \ {i}) = Cardinality(OfThis) - 1
      BY <3>2, CountsRange, PlacesCount, Zenon
    <3>6. Cardinality(OfThis') <= (IF N = 0 THEN 0 ELSE Least(N, MaxTurns) - 1)
      BY <2>1, <3>4, <3>5, CountsRange, Ranges DEF Least
    <3>7. \A j \in Places : recent'[j] >= 1
      BY <1>1, Ranges
    <3>. QED  BY <1>1, <1>4, <3>1, <3>6, <3>7 DEF Counted
  <2>. QED  BY <1>6, <2>3, <2>4, Ranges
<1>. QED  BY <1>5, <1>6, Ranges

LEMMA TickOneByOne == ASSUME TypedLimiter, OneByOne, Tick PROVE OneByOne'
<1>. SUFFICES ASSUME ~raced PROVE OneByOne'
  BY DEF OneByOne, Tick
<1>1. Counted'
  BY TickCounts DEF OneByOne
<1>2. Reading' = Reading
  BY DEF Reading, Tick, TypedLimiter
<1>3. ASSUME NEW t \in Reading PROVE (Continues(t) \/ Opens(t))'
  <2>1. /\ admit'[t].started = (IF admit[t].started >= Window THEN Window ELSE admit[t].started + 1)
        /\ admit'[t].current = (IF admit[t].current >= Window THEN Window ELSE admit[t].current + 1)
        /\ admit'[t].turns = admit[t].turns
    BY DEF Reading, Tick, Older, TypedLimiter
  <2>2. /\ window'.started = (IF window.started >= Window THEN Window ELSE window.started + 1)
        /\ window'.turns = window.turns
        /\ \A i \in Places : recent'[i] = IF recent[i] >= Window THEN Window ELSE recent[i] + 1
    BY DEF Tick, Older, TypedLimiter
  <2>3. t \in Threads
    BY DEF Reading
  <2>4. CASE Continues(t)
    <3>1. Continues(t)'
      BY <2>1, <2>2, <2>3, <2>4, Ranges DEF Continues
    <3>. QED  BY <3>1
  <2>5. CASE Opens(t)
    <3>1. Opens(t)'
      BY <2>1, <2>2, <2>3, <2>5, Ranges DEF Opens
    <3>. QED  BY <3>1
  <2>. QED  BY <2>4, <2>5 DEF OneByOne
<1>. QED  BY <1>1, <1>2, <1>3 DEF OneByOne

LEMMA ReadOneByOne ==
    ASSUME TypedLimiter, OneByOne, NEW t \in Threads, Read(t)
    PROVE  OneByOne'
<1>. SUFFICES ASSUME ~raced' PROVE OneByOne'
  BY DEF OneByOne
<1>1. ~raced /\ Reading = {}
  BY DEF Read, Reading, TypedLimiter
<1>2. Counted'
  BY <1>1 DEF OneByOne, Counted, OfThis, OfBefore, Read
<1>3. Reading' = {t}
  BY <1>1 DEF Reading, Read, ReadWindow, TypedLimiter
<1>4. (Continues(t) \/ Opens(t))'
  <2>. USE LimitsAssumption DEF TypedLimiter, Ages, Read, ReadWindow, Opened
  <2>1. CASE window.started < Window
    BY <1>1, <2>1 DEF Continues, Counted, OneByOne
  <2>2. CASE window.started = Window
    BY <1>1, <2>2 DEF Opens, Counted, OneByOne, Least
  <2>. QED  BY <2>1, <2>2
<1>. QED  BY <1>2, <1>3, <1>4 DEF OneByOne

\* A request writes what it read: one turn more of the window, or the first of the next.
LEMMA WriteCounts ==
    ASSUME TypedLimiter, Counted, NEW t \in Threads, Write(t), Continues(t) \/ Opens(t)
    PROVE  Counted'
<1>. DEFINE v == CHOOSE i \in Vacant : TRUE
            c == admit[t].current
            N == window.turns
<1>1. window'.started = admit[t].started /\ window'.turns = admit[t].turns
  BY DEF Write
<1>2. CASE Continues(t) /\ ~(Within(t) /\ Vacant # {})
  <2>1. recent' = recent
    BY <1>2 DEF Write, Decide
  <2>2. window'.started = window.started /\ OfThis' = OfThis /\ OfBefore' = OfBefore
    BY <1>1, <1>2, <2>1 DEF OfThis, OfBefore, Continues
  <2>3. window'.turns = Least(N + 1, MaxTurns + 1) /\ N >= 1
    BY <1>1, <1>2 DEF Continues
  <2>. QED  BY <2>1, <2>2, <2>3, CountsRange, Ranges DEF Counted, Least
<1>3. CASE Opens(t) /\ ~(Within(t) /\ Vacant # {})
  <2>1. Vacant = {}
    BY <1>3, Ranges DEF Opens, Within
  <2>2. OfThis = Places
    BY <1>3, <2>1, Ranges DEF Opens, OfThis, Vacant
  <2>3. Cardinality(OfThis) <= MaxTurns - 1
    BY <1>3, CountsRange, Ranges DEF Counted, Opens, Least
  <2>. QED  BY <2>2, <2>3, PlacesCount, Ranges
<1>4. CASE Within(t) /\ Vacant # {}
  <2>1. v \in Vacant /\ recent[v] = Window /\ v \in Places
    BY <1>4 DEF Vacant
  <2>. HIDE DEF v
  <2>2. recent'[v] = c /\ \A i \in Places \ {v} : recent'[i] = recent[i]
    <3>1. recent' = [recent EXCEPT ![v] = c]
      BY <1>4 DEF Write, Decide, v
    <3>. QED  BY <2>1, <3>1 DEF TypedLimiter
  <2>3. admit[t].turns <= MaxTurns
    BY <1>4 DEF Within
  <2>4. CASE Continues(t)
    <3>1. /\ window'.started = window.started /\ window'.turns = N + 1 /\ N >= 1 /\ N < MaxTurns
          /\ c <= window.started /\ (window.started = Window => c >= 1)
      BY <1>1, <2>3, <2>4, Ranges DEF Continues, Least
    <3>2. OfThis' \in SUBSET (OfThis \cup {v})
      BY <2>2, <3>1 DEF OfThis
    <3>3. OfBefore' \in SUBSET OfBefore
      BY <2>1, <2>2, <3>1, Ranges DEF OfBefore
    <3>4. Cardinality(OfThis') <= Cardinality(OfThis) + 1
      <4>1. OfThis \cup {v} \in SUBSET Places
        BY <2>1, CountsRange
      <4>2. Cardinality(OfThis \cup {v}) <= Cardinality(OfThis) + 1 /\ Cardinality(OfThis \cup {v}) \in Nat
        BY <2>1, <4>1, CountsRange, PlacesCount, Zenon
      <4>3. Cardinality(OfThis') <= Cardinality(OfThis \cup {v})
        BY <3>2, <4>1, PlacesCount, Zenon
      <4>. QED  BY <4>2, <4>3, CountsRange
    <3>5. Cardinality(OfBefore') <= Cardinality(OfBefore)
      BY <3>3, CountsRange, PlacesCount, Zenon
    <3>6. Cardinality(OfBefore') <= MaxTurns - 1
      BY <3>5, CountsRange, Ranges DEF Counted
    <3>7. Cardinality(OfThis') <= IF window'.started < Window THEN Least(window'.turns, MaxTurns)
                                  ELSE IF window'.turns = 0 THEN 0 ELSE Least(window'.turns, MaxTurns) - 1
      BY <3>1, <3>4, CountsRange, Ranges DEF Counted, Least
    <3>8. window'.started < Window =>
            window'.turns >= 1 /\ \E i \in Places : recent'[i] = window'.started
      <4>. SUFFICES ASSUME window.started < Window
                    PROVE  window'.turns >= 1 /\ \E i \in Places : recent'[i] = window'.started
        BY <3>1
      <4>1. PICK i \in Places : recent[i] = window.started
        BY DEF Counted
      <4>2. i # v
        BY <2>1, <4>1, Ranges
      <4>. QED  BY <2>2, <3>1, <4>1, <4>2, Ranges
    <3>9. window'.started = Window => \A i \in Places : recent'[i] >= 1
      BY <2>2, <3>1, Ranges DEF Counted
    <3>. QED  BY <3>6, <3>7, <3>8, <3>9 DEF Counted
  <2>5. CASE Opens(t)
    <3>1. /\ window'.started = c /\ window'.turns = 1 /\ window.started = Window
          /\ \A i \in Places : recent[i] = Window \/ recent[i] > c
      BY <1>1, <2>5 DEF Opens
    <3>2. OfThis' \in SUBSET {v} /\ (c = Window => OfThis' = {})
      BY <2>1, <2>2, <3>1, Ranges DEF OfThis
    <3>3. OfBefore' \in SUBSET OfThis
      BY <2>1, <2>2, <3>1, Ranges DEF OfThis, OfBefore
    <3>4. Cardinality(OfThis') <= (IF c = Window THEN 0 ELSE 1)
      <4>1. {v} \in SUBSET Places
        BY <2>1
      <4>2. Cardinality({v}) = 1
        BY FS_Singleton, Zenon
      <4>3. Cardinality({}) = 0
        BY FS_EmptySet
      <4>4. Cardinality(OfThis') <= Cardinality({v})
        BY <3>2, <4>1, PlacesCount, Zenon
      <4>. QED  BY <3>2, <4>2, <4>3, <4>4
    <3>5. Cardinality(OfBefore') <= MaxTurns - 1
      <4>1. Cardinality(OfThis) <= MaxTurns - 1
        BY <3>1, CountsRange, Ranges DEF Counted, Least
      <4>2. Cardinality(OfBefore') <= Cardinality(OfThis)
        BY <3>3, CountsRange, PlacesCount, Zenon
      <4>. QED  BY <4>1, <4>2, CountsRange, Ranges
    <3>6. window'.started = Window => \A i \in Places : recent'[i] >= 1
      BY <2>2, <3>1, Ranges
    <3>. QED  BY <2>1, <2>2, <3>1, <3>4, <3>5, <3>6, CountsRange, Ranges DEF Counted, Least
  <2>. QED  BY <2>4, <2>5
<1>. QED  BY <1>2, <1>3, <1>4

LEMMA WriteOneByOne ==
    ASSUME TypedLimiter, OneByOne, NEW t \in Threads, Write(t)
    PROVE  OneByOne'
<1>. SUFFICES ASSUME ~raced PROVE OneByOne'
  BY DEF OneByOne, Write, Decide
<1>1. t \in Reading /\ (Continues(t) \/ Opens(t))
  BY DEF OneByOne, Reading, Write
<1>2. Counted'
  BY <1>1, WriteCounts DEF OneByOne
<1>3. Reading' = {}
  BY <1>1 DEF OneByOne, Reading, Write, Decide, Outside, TypedLimiter
<1>. QED  BY <1>2, <1>3 DEF OneByOne

LEMMA OneByOneStep == ASSUME Typed, OneByOne, [Next]_vars PROVE OneByOne'
<1>1. CASE UNCHANGED limiter
  BY <1>1 DEF limiter, OneByOne, Counted, OfThis, OfBefore, Reading, Continues, Opens
<1>. QED  BY <1>1, LimiterSteps, TickOneByOne, ReadOneByOne, WriteOneByOne DEF Typed

LEMMA OneByOneInit == ASSUME Init PROVE OneByOne
<1>. USE LimitsAssumption DEF Init, InitLimiter, NoWindow
<1>1. OfThis = {} /\ OfBefore = {}
  BY DEF OfThis, OfBefore
<1>2. Cardinality(OfThis) = 0 /\ Cardinality(OfBefore) = 0
  BY <1>1, FS_EmptySet
<1>3. Counted
  BY <1>2 DEF Counted
<1>4. Reading = {}
  BY DEF Reading, Outside
<1>. QED  BY <1>3, <1>4 DEF OneByOne

\* app.py: "True when this turn is within the caller's window": in any time as long as a
\* window at most 2 * max_turns - 1 turns are admitted - the rest of one window after the
\* turn that opened it, and the whole of the next - unless two requests read the entry
\* before either wrote it.
THEOREM QuotaKept == Spec => []Quota
<1>1. ASSUME Typed, OneByOne PROVE Quota
  <2>. SUFFICES ASSUME ~raced PROVE Cardinality(Places \ Vacant) <= 2 * MaxTurns - 1
    BY DEF Quota
  <2>. TypedLimiter /\ OneByOne
    BY <1>1 DEF Typed
  <2>1. Places \ Vacant = OfThis \cup OfBefore /\ OfThis \cap OfBefore = {}
    BY Ranges DEF Vacant, OfThis, OfBefore
  <2>2. IsFiniteSet(OfThis) /\ IsFiniteSet(OfBefore)
    <3>1. IsFiniteSet(Places)
      BY FS_Interval, LimitsAssumption DEF Places
    <3>. QED  BY <3>1, CountsRange, FS_Subset
  <2>3. Cardinality(OfThis \cup OfBefore) =
            Cardinality(OfThis) + Cardinality(OfBefore) - Cardinality(OfThis \cap OfBefore)
    BY <2>2, FS_Union
  <2>4. Cardinality({}) = 0
    BY FS_EmptySet
  <2>5. Cardinality(OfThis) <= MaxTurns /\ Cardinality(OfBefore) <= MaxTurns - 1
    BY CountsRange, Ranges DEF OneByOne, Counted, Least
  <2>6. Cardinality(Places \ Vacant) = Cardinality(OfThis) + Cardinality(OfBefore)
    <3>1. Cardinality(OfThis \cap OfBefore) = 0
      BY <2>1, <2>4, Zenon
    <3>2. Cardinality(Places \ Vacant) = Cardinality(OfThis \cup OfBefore)
      BY <2>1, Zenon
    <3>. QED  BY <2>3, <3>1, <3>2, CountsRange
  <2>. QED  BY <2>5, <2>6, CountsRange, Ranges
<1>. QED  BY AlwaysTyped, OneByOneInit, OneByOneStep, <1>1, PTL DEF Spec
=============================================================================
