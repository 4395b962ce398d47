\* Both branches move nodes.
SPECIFICATION Spec
CONSTANTS
    Starts <- Both
    Alphabets <- ChildrenOnly
    MaxEdits <- TwoEach
    MaxSlots = 20
    MaxDepth = 5
    MaxNodes = 9
INVARIANT MovesMerged
CHECK_DEADLOCK FALSE
