\* A diff that the engine refuses.
SPECIFICATION Spec
CONSTANTS
  Fresh <- MCFresh
  NewKinds <- MCKinds
  NewStates <- MCStates
  NewRoots <- MCRoots
  Batches <- MCBatches
  Absent <- NoNode
  Starts <- DiffStarts
  MaxDepth = 4
  MaxNodes = 8
  MaxSlots = 20
  MaxEdits = 3
INVARIANT RoundTrip
CHECK_DEADLOCK FALSE
