CONSTANT
    Sources <- NeatTexts
SPECIFICATION Spec
INVARIANTS TypeOK NothingLost AutoSemicolon LineNumbers NumberValue
CHECK_DEADLOCK FALSE
