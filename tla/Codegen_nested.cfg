CONSTANTS
    Nodes <- AllNodes
    Programs <- NestedPrograms
    MaxRuns = 1
SPECIFICATION Spec
INVARIANTS TypeOK ResIfUnique ResIfResolved BranchRouting LoopUnique
CHECK_DEADLOCK FALSE
