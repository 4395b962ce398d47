\* Every op and every gesture, on trees plain, over a limit, with an id twice.
SPECIFICATION Spec
CONSTANTS
  Fresh <- MCFresh
  NewKinds <- MCKinds
  NewStates <- MCStates
  NewRoots <- MCRoots
  Batches <- MCBatches
  Absent <- NoNode
  Starts <- MCStarts
  MaxDepth = 3
  MaxNodes = 6
  MaxSlots = 20
  MaxEdits = 2
INVARIANTS UniqueKept BatchAgrees EditsAreExact GesturesLand DiffLands
PROPERTY LimitsHold
CHECK_DEADLOCK FALSE
