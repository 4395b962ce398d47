\* Dispatches, compute changes and clicks that bubble, in any order.
SPECIFICATION Spec
CONSTANTS
    Start <- Both
    Ops <- MCOps
    Values = {0, 1}
    Roots = {1, 2}
    MaxPaints = 3
    MaxSlots = 20
    MaxDepth = 3
    MaxNodes = 6
INVARIANTS PageIsLive
PROPERTIES OneAnswerPerPaint
