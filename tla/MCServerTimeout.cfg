SPECIFICATION Spec
CONSTANTS
    Conns = {c1}
    Tasks = {k1, k2}
    Workers = 1
    PoolSize = 1
    NoConn = NoConn
INVARIANT SurvivesTimeout
CHECK_DEADLOCK FALSE
