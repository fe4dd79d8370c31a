SPECIFICATION FairSpec
CONSTANTS
    MaxEntries = 4
    MaxValue = 2
    BufferSize = 2
INVARIANTS SparqlAnswerIsWhole StreamIsInOrder StreamInTimeIsWhole CountIsRight
PROPERTIES TaskEnds
CHECK_DEADLOCK FALSE
