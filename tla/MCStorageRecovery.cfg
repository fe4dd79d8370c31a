SPECIFICATION Spec
CONSTANTS
    Servers = {s1}
    Loader = loader
    Batches = 1
PROPERTY SaysNoSnapshotTruly
