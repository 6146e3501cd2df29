CONSTANTS
    Nodes <- AllNodes
    Programs <- NestedPrograms
    MaxRuns = 1
SPECIFICATION Spec
INVARIANT LabelsUnique
CHECK_DEADLOCK FALSE
