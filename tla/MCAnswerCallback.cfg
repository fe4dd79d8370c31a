SPECIFICATION Spec
CONSTANTS
    MaxEntries = 1
    MaxValue = 1
    BufferSize = 1
INVARIANT CallbacksFindTheFrame
CHECK_DEADLOCK FALSE
