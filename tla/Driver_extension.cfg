CONSTANT
    Starts <- Bare
SPECIFICATION Spec
INVARIANTS ExtensionTried
CHECK_DEADLOCK FALSE
