CONSTANTS
    MaxConnUser = 2
    MaxConnServer = 2
    ConnPtr = {p1, p2}
    Threads = {t1}
    NoConn = NoConn
    Worker = Worker
    Nobody = Nobody
    Sides = {"user", "server"}
    ThreadCalls = {"Close", "Connect"}
    CallbackCalls = {"Close", "Connect", "SyncConnect"}
    PerCaller = 1
    PerCallback = 1
    MaxDrift = 0
SYMMETRY Symmetry
SPECIFICATION Spec
INVARIANTS TypeOK IndexOwned MutexOwned CallbackConnLive UserCountExact
PROPERTY AppSpec
