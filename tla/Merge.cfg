\* Edits of facets on one node and its neighbours, or of the structure: inserts,
\* removals, moves, reorders, kinds.
SPECIFICATION Spec
CONSTANTS
    Starts <- Both
    Alphabets <- FacetsOrChildren
    MaxEdits <- TwoAndOne
    MaxSlots = 20
    MaxDepth = 5
    MaxNodes = 9
INVARIANTS Transposes EditsCount KidsMerged
CHECK_DEADLOCK FALSE
