CONSTANT
    Texts <- NestedIfs
SPECIFICATION Spec
INVARIANTS PrintsBack
CHECK_DEADLOCK FALSE
