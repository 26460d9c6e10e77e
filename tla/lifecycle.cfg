CONSTANTS
    MaxConnUser = 3
    MaxConnServer = 3
    Threads = {t1, t2}
    MaxQueue = 2
    MaxLives = 2
SPECIFICATION FairLifeSpec
INVARIANTS LifeTypeOK StatusTruthful  CleanupCallsWork OnlyUnheardWaits LeftBehind
PROPERTIES StopEndsWorker 
CHECK_DEADLOCK FALSE
