\* Handlers that use the observer again, change the page and change the fixtures while they are told.
SPECIFICATION MCSpec
CONSTANTS
    Nodes = {"root", "n1"}
    Handlers = {"h1", "h2"}
    Flags = {"contrast", "clean"}
    Inside = {"mutate", "unsubscribe", "disconnect", "refresh", "register", "update", "unregister"}
    MaxSubs = 2
    MaxCalls = 2
    Root = "root"
    Pages <- FewPages
    Inputs = {"wide", "narrow"}
    FlagsOf <- FlagsOfFixture
    Baseline = "wide"
    ChangesOnly = TRUE
    Observers = 2
    MaxMutations = 2
INVARIANTS FlagsAreCurrent EmitsToEvery
PROPERTIES ChangesAreRead
