CONSTANTS
    MaxConnUser = 2
    MaxConnServer = 2
    Threads = {t1}
    MaxQueue = 0
    MaxLives = 1
SPECIFICATION LifeSpec
INVARIANT AllClosed
CHECK_DEADLOCK FALSE
