SPECIFICATION FairSpec
CONSTANTS
    Threads = {t1, t2, t3}
    Values = {a, b}
    Capacity = 2
    Drained = Drained
    NoValue = NoValue
INVARIANTS TypeOK NoLostWakeup
PROPERTIES RefinesFIFO CloseReleases
