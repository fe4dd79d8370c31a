SPECIFICATION FairSpec
CONSTANTS
    Conns = {c1, c2}
    Tasks = {k1, k2, k3, k4}
    Workers = 2
    PoolSize = 2
    NoConn = NoConn
INVARIANTS AdmissionBound OnlyLateTasksOutlive
PROPERTIES ServiceSpec RejectedForAnOrphan RequestsEnd StopCompletes
CHECK_DEADLOCK FALSE
