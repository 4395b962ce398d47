\* A sink that raises and loses records, with raw appends in any order.
SPECIFICATION Spec
CONSTANTS
    c1 = c1
    o1 = o1
    o2 = o2
    p1 = p1
    o3 = o3
    Foreign = Foreign
    NoOp = NoOp
    Writers = {c1, p1}
    CasWriters = {c1}
    Ops = {o1, o2, o3}
    Imports = {1, 3}
    MaxAttempts = 2
    ThirdParty = TRUE
INVARIANTS
    NoSecondGenesis
CHECK_DEADLOCK FALSE
