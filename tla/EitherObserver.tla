--------------------------- MODULE EitherObserver ---------------------------
(***************************************************************************)
(* A host holds one observer: the one of a page, or one of fixtures.  The  *)
(* run's page is a root and an element in it, and starts clean; scripts    *)
(* turn its theme, and take the element off it, or the root.               *)
(***************************************************************************)
EXTENDS BrowserObserver

CONSTANTS Inputs, FlagsOf, Baseline     \* of the observer of fixtures

Fixtures == {"wide", "narrow"}
FlagsOfFixture == [i \in Fixtures |-> IF i = "narrow" THEN "clean" ELSE "contrast"]

FewPages ==
    {[n \in Nodes |-> IF n = "root" THEN look[1] ELSE look[2]] : look \in
      {<<"clean", "clean">>, <<"contrast", "contrast">>, <<"clean", Gone>>, <<Gone, Gone>>}}

VARIABLES holds,          \* which observer it is
          registry, fixtureFlags, fixturesRenewed

Memory == INSTANCE InMemoryObserver WITH lastFlags <- fixtureFlags, renewed <- fixturesRenewed

ASSUME FlagsAssumption ==
    FlagsOf \in [Inputs -> Flags] /\ Baseline \in Inputs /\ Memory!Absent \notin Inputs

fixtures == <<registry, fixtureFlags, fixturesRenewed>>
all == <<holds, vars, fixtures>>

MCInit == /\ holds \in {"page", "fixtures"}
          /\ Init /\ Memory!Init
          /\ dom = [n \in Nodes |-> "clean"]

OfPage     == holds = "page" /\ UNCHANGED <<holds, fixtures>>
OfFixtures == holds = "fixtures" /\ UNCHANGED <<holds, Observed>>
MCNext == \/ OfPage /\ (Host \/ Page \/ Loop \/ Callback)
          \/ OfFixtures /\ Memory!Next

MCSpec == /\ MCInit /\ [][MCNext]_all
          /\ WF_all(OfPage /\ Loop) /\ WF_all(OfPage /\ Callback)

\* Nobody is left with stale flags: once the page's observer is quiet and still watches its
\* root, what is stored and what was heard is what the page shows, and what was heard of a
\* fixture is what is answered of it.
FlagsAreCurrent == IF holds = "page" THEN Settled ELSE Memory!UpToDate
=============================================================================
