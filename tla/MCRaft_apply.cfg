SPECIFICATION Spec
CONSTANTS
    Node = {n1, n2, n3}
    Value = {v1, v2}
    None = None
    NoCmd = NoCmd
    LogBlocks = 4
    MaxTerm = 2
    MaxIndex = 1
    MaxRpc = 2
    MaxReplies = 1
    MaxRestarts = 0
    Snapshotters = {}
SYMMETRY Symmetry
INVARIANT StateMachineSafety
CHECK_DEADLOCK FALSE
