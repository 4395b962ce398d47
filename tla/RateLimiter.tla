---------------------------- MODULE RateLimiter ----------------------------
(***************************************************************************)
(* The fixed-window limiter of the FastAPI host (RateLimiter in            *)
(* samples/fastapi-host/app.py), for one caller.  The route is a sync      *)
(* function, which FastAPI runs in a pool of threads: admit reads the      *)
(* caller's window and writes it back, and other threads run between.      *)
(*                                                                         *)
(* Times are ages in ticks, none larger than Window: older is the same.    *)
(* Counts stop at one more than the code tells apart.                      *)
(***************************************************************************)
EXTENDS Integers, FiniteSets

CONSTANTS Threads,    \* the requests
          MaxTurns,   \* max_turns
          Window      \* window_seconds
ASSUME LimitsAssumption == MaxTurns \in Nat \ {0} /\ Window \in Nat \ {0}

VARIABLES window,     \* the caller's entry in _windows: [started, turns]
          admit,      \* where each request is in admit, when it looked at the
                      \* clock (current), and its started and turns
          recent,     \* the ages of the turns admitted; Window is a place with none
          raced       \* history: two requests were in admit at once

limiter == <<window, admit, recent, raced>>

Places == 1 .. 2 * MaxTurns     \* the bound on what recent remembers
NoWindow == [started |-> Window, turns |-> 0]
Outside == [at |-> "outside", current |-> 0, started |-> 0, turns |-> 0]

InitLimiter ==
    /\ window = NoWindow
    /\ admit = [t \in Threads |-> Outside]
    /\ recent = [i \in Places |-> Window]
    /\ raced = FALSE

\* An expired window, or none, is begun anew.
Opened(w) == IF w.started >= Window THEN [started |-> 0, turns |-> 0] ELSE w

Older(age) == IF age >= Window THEN Window ELSE age + 1
Least(m, n) == IF m < n THEN m ELSE n

\* What admit has in hand once it has looked at the clock and the entry.
ReadWindow(w) == [at |-> "read", current |-> 0, started |-> Opened(w).started,
                  turns |-> Least(Opened(w).turns + 1, MaxTurns + 1)]

\* admit: up to reading the entry.
Read(t) ==
    /\ admit[t].at = "outside"
    /\ admit' = [admit EXCEPT ![t] = ReadWindow(window)]
    /\ raced' = (raced \/ \E other \in Threads : admit[other].at = "read")
    /\ UNCHANGED <<window, recent>>

\* Mutant: one turn more.
WithinOneMore(t) == admit[t].turns <= MaxTurns + 1
Within(t) == admit[t].turns <= MaxTurns

Vacant == {i \in Places : recent[i] = Window}

Decide(t) ==
    /\ admit' = [admit EXCEPT ![t] = [Outside EXCEPT !.at = IF Within(t) THEN "within" ELSE "over"]]
    /\ recent' = IF Within(t) /\ Vacant # {}
                 THEN [recent EXCEPT ![CHOOSE i \in Vacant : TRUE] = admit[t].current] ELSE recent
    /\ UNCHANGED raced

\* admit: from there to its answer.
Write(t) ==
    /\ admit[t].at = "read"
    /\ window' = [started |-> admit[t].started, turns |-> admit[t].turns]
    /\ Decide(t)

\* The clock.  Of a request that has its answer nothing is read again.
Tick ==
    /\ window' = [window EXCEPT !.started = Older(@)]
    /\ admit' = [t \in Threads |->
                   IF admit[t].at = "read"
                   THEN [admit[t] EXCEPT !.started = Older(@), !.current = Older(@)]
                   ELSE admit[t]]
    /\ recent' = [i \in Places |-> Older(recent[i])]
    /\ UNCHANGED raced

-----------------------------------------------------------------------------
TypeOKLimiter ==
    /\ window.started \in 0 .. Window /\ window.turns \in 0 .. MaxTurns + 1
    /\ \A t \in Threads : /\ admit[t].at \in {"outside", "read", "within", "over"}
                          /\ admit[t].current \in 0 .. Window /\ admit[t].started \in 0 .. Window
    /\ recent \in [Places -> 0 .. Window]

\* app.py: "True when this turn is within the caller's window".  The first turn
\* of a window opens it, so any time as long as a window meets the rest of one
\* window after its opening turn, and the whole of the next.  Of requests one at
\* a time: two that read the entry before either wrote it are counted once.
Quota == ~raced => Cardinality(Places \ Vacant) <= 2 * MaxTurns - 1
=============================================================================
