SPECIFICATION Spec
CONSTANTS
    Letters = 4
    Triples <- MCTriples
    Bad = Bad
    Missing = Missing
    BulkSize = 2
    First <- first
    Rest <- rest
    Nil <- nil
    MaxItems = 3
    Hash <- MCHash
    All = All
    Path <- MCPath
    Group <- MCGroup
    GroupDepth <- MCGroupDepth
    PathDepth <- MCPathDepth
    NoTool = NoTool
    NoList = NoList
    Requests <- MCRequests
INVARIANTS OperandsAreAligned EdgesAreSound StacksAreThere TriplesAreDistributed DependenciesAreRight ConnectionsAreRight RejectsRightly SolutionsAreRight CountAgrees LoadsTheFile WritesWhatItReads
CHECK_DEADLOCK FALSE
