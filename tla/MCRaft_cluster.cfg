SPECIFICATION Spec
CONSTANTS
    Node = {n1, n2}
    Value = {v1}
    None = None
    NoCmd = NoCmd
    LogBlocks = 4
    MaxTerm = 2
    MaxIndex = 2
    MaxRpc = 1
    MaxReplies = 1
    MaxRestarts = 1
    Snapshotters = {n1, n2}
SYMMETRY Symmetry
INVARIANTS
    TypeOK
    LogsAreConsecutive
    RestoreIsExact
    
