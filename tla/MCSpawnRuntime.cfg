SPECIFICATION FairSpec
CONSTANTS
    Tasks = {t1, t2, t3}
    Main = Main
    Chans = {c}
    NoTask = NoTask
    Programs <- SoundPrograms
INVARIANTS NoUseAfterFree ShutdownFreesAll
PROPERTIES WaitsForWork WaitsReturn
