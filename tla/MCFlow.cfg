CONSTANTS
    MaxDepth = 4
    MaxSlots = 1
    MaxTemps = 1
    MaxLoad = 3
SPECIFICATION Spec
INVARIANTS NothingLost ReleasedOnce Dominated
CONSTRAINT Bound
CHECK_DEADLOCK FALSE
