SPECIFICATION Spec
CONSTANTS
    Servers = {s1, s2}
    Loader = loader
    Batches = 2
SYMMETRY Symmetry
INVARIANTS ServesWhole SnapshotWhole Recoverable ServesCurrent
