CONSTANTS
    Nodes <- AllNodes
    Programs <- ShortPrograms
    MaxRuns = 2
SPECIFICATION FairSpec
INVARIANT ResultsReturned
PROPERTY Terminates
CHECK_DEADLOCK FALSE
