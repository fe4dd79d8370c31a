SPECIFICATION FairSpec
CONSTANTS
    Queries = {q1, q2, q3, bad}
    Unparsable = {bad}
    Nodes = {n1, n2, n3, n4}
    MaxSizes <- MCMaxSizes
    Elasticities <- MCElasticities
    NoNode = NoNode
    NoQuery = NoQuery
INVARIANTS NoDangling ReturnsWhatWasAsked Bounded KeepsTheRecent
PROPERTIES PrunesNoMore LockReleased
