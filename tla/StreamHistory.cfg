\* Two hosts on one stream, with denials, checkpoints and restarts.
SPECIFICATION Spec
CHECK_DEADLOCK FALSE
CONSTANTS
    Hosts = {"h1", "h2"}
    Start <- MCStart
    Ops <- MCOps
    MaxRecords = 3
    MaxCheckpoints = 2
    MaxSlots = 20
    MaxDepth = 3
    MaxNodes = 4
INVARIANTS ReplayGivesBack TamperingIsCaught
