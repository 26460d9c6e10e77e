CONSTANTS
    MaxConnUser = 2
    MaxConnServer = 2
    ConnPtr = {p1}
    Threads = {t1, t2}
    NoConn = NoConn
    Worker = Worker
    Nobody = Nobody
    Sides = {"server"}
    ThreadCalls = {"Close", "Connect"}
    CallbackCalls = {"Connect"}
    PerCaller = 1
    PerCallback = 1
    MaxDrift = 0
SPECIFICATION FairSpec
PROPERTIES CloseTakesEffect PassEnds CallsReturn
