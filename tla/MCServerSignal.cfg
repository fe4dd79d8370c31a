SPECIFICATION FairSpec
CONSTANTS
    Conns = {c1}
    Tasks = {k1, k2}
    Workers = 1
    PoolSize = 1
    NoConn = NoConn
PROPERTY SigintStops
CHECK_DEADLOCK FALSE
