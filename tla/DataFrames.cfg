\* Every gesture over a small table, two undoable edits deep, transforms between them.
SPECIFICATION Spec
CHECK_DEADLOCK FALSE
CONSTANTS
    MaxScale = 2
    StringOrder <- MCStrings
    IntMax = 1000
    Atoms <- MCAtoms
    Ratio <- MCRatio
    Dimensions <- MCDimensions
    Dims <- MCDims
    MaxExp = 3
    EvalPipeline <- EvalNamed
    Start <- MCStart
    Ops <- MCOps
    KeyField = "k"
    Capacity = 2
    MaxRows = 3
    MaxEdits = 3
    Pipelines <- MCPipelines
    Exprs <- MCExprs
    Preds <- MCPreds
    Other <- MCOther
    Decimals <- MCDecimals
    Targets <- MCTargets
    Chosen <- MCChosen
INVARIANTS HistoryGivesBack DeltasTellAll
INVARIANTS DecidedTypesHold RoundingIsCorrect VerbsAgree UnitsMeanTheSame ParametersScope
