CONSTANT
    Sources <- RoughTexts
SPECIFICATION FairSpec
INVARIANTS WithinSource OverrunShapes
PROPERTY Terminates
CHECK_DEADLOCK FALSE
