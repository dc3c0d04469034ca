SPECIFICATION Spec
CONSTANTS
    Node = {n1, n2, n3}
    Value = {v1}
    None = None
    NoCmd = NoCmd
    LogBlocks = 4
    MaxTerm = 2
    MaxIndex = 0
    MaxRpc = 4
    MaxReplies = 1
    MaxRestarts = 0
    Snapshotters = {n1, n2, n3}
SYMMETRY Symmetry
INVARIANT ElectionSafety
