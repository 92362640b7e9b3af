SPECIFICATION FairSpec
CONSTANTS
    Conns = {1, 2, 3}
    MaxFds = 4
    Programs <- SoundPrograms
INVARIANTS ContextsBalanced LoopNeverBlocks
PROPERTIES JoinReturns
CHECK_DEADLOCK FALSE
