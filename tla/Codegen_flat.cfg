CONSTANTS
    Nodes <- AllNodes
    Programs <- FlatPrograms
    MaxRuns = 1
SPECIFICATION Spec
INVARIANTS FlagsClean CodeWellFormed LabelsUnique JumpsResolved LoopRouting
CHECK_DEADLOCK FALSE
