\* Two compare-and-append writers and two plain ones on the in-memory sink.
SPECIFICATION FairSpec
CONSTANTS
    c1 = c1
    c2 = c2
    o1 = o1
    o2 = o2
    o3 = o3
    o4 = o4
    p1 = p1
    p2 = p2
    Foreign = Foreign
    NoOp = NoOp
    Writers = {c1, c2, p1, p2}
    CasWriters = {c1, c2}
    Ops = {o1, o2, o3, o4}
    Imports = {}
    MaxAttempts = 2
    ThirdParty = FALSE
INVARIANTS
    TypeOK
    ChainVerifies
    CasNeverRaises
    NoSilentLoss
    RetriesLostToWinners
PROPERTIES
    CallsFinish
    ImplementsAppendLog
CHECK_DEADLOCK FALSE
