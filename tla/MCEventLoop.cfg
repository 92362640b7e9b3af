SPECIFICATION FairSpec
CONSTANTS
    MaxSources = 3
    MaxFds = 3
    MaxTimerFds = 3
    Programs <- SoundPrograms
INVARIANTS EntriesInStep DrainNeverBlocks OneShotOnce RepeatingStays
PROPERTIES RunReturns
