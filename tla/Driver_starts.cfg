CONSTANT
    Starts <- AllStarts
SPECIFICATION FairSpec
INVARIANTS StatusTells DiesOnly HistoryKept
PROPERTY Ends
CHECK_DEADLOCK FALSE
