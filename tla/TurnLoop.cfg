\* A session that waits for its answers, and a page that does not.
SPECIFICATION FairSpec
CONSTANTS
    Threads = {1, 2, 3}
    MaxTurns = 1
    Window = 2
INVARIANTS Guarded Quota HeldDecodes
PROPERTIES OnlyOverlapsLose Settles
CHECK_DEADLOCK FALSE
