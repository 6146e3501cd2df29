SPECIFICATION FairSpec
CONSTANTS
    Strings <- MCStrings
    Code <- MCCode
    Stride <- MCStride
    Apis = {"value", "str"}
    Calls <- MCCalls
INVARIANTS KeysOnce PathsOpen RoomLeft
PROPERTIES KeepsPromise Answers
CHECK_DEADLOCK FALSE
