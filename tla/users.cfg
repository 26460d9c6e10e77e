CONSTANTS
    MaxConnUser = 2
    MaxConnServer = 2
    ConnPtr = {p1, p2}
    Threads = {t1, t2}
    NoConn = NoConn
    Worker = Worker
    Nobody = Nobody
    Sides = {"user"}
    ThreadCalls = {"Send", "Close"}
    CallbackCalls = {"Send", "Close"}
    PerCaller = 1
    PerCallback = 1
    MaxDrift = 0
SYMMETRY Symmetry
SPECIFICATION Spec
INVARIANT NoLostWakeup
PROPERTY AppSpec
