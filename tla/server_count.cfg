CONSTANTS
    MaxConnUser = 2
    MaxConnServer = 2
    ConnPtr = {p1, p2}
    Threads = {t1}
    NoConn = NoConn
    Worker = Worker
    Nobody = Nobody
    Sides = {"server"}
    ThreadCalls = {"Connect"}
    CallbackCalls = {}
    PerCaller = 1
    PerCallback = 0
    MaxDrift = 0
SPECIFICATION Spec
INVARIANT ServerCountIsCount
