CONSTANT
    Texts <- AllTexts
SPECIFICATION Spec
INVARIANTS TypeOK PrecedenceKept BlocksBalanced WrittenBack
PROPERTIES Progress TokensKept MissingInText
CHECK_DEADLOCK FALSE
