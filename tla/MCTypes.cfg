CONSTANTS
    MaxTy = 3
SPECIFICATION TypesSpec
INVARIANTS AnnotationsSound NeverMistaken KnownIsUsed MethodCallsKept NoFalseRejection
CHECK_DEADLOCK FALSE
