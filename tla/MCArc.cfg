CONSTANTS
    N = 2
    Kinds = {"string", "struct", "Array", "fn", "enum", "Buffer", "arc"}
    MaxScopes = 2
    MaxSlots = 1
    MaxOpd = 2
    MaxRc = 2
    MaxTemps = 2
    MaxLoad = 2
SPECIFICATION Spec
INVARIANT CountsExact
CONSTRAINT Bound
CHECK_DEADLOCK FALSE
