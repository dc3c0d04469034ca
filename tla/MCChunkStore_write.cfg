SPECIFICATION Spec
CONSTANTS
    File = {fA, fB}
    Client = {c1, c2}
    Server = {s1}
    KDefaultBlockCnt = 2
    Zeros = Zeros
    NoOne = NoOne
    MaxBlocks = 1
    MaxVersion = 3
SYMMETRY Symmetry
INVARIANTS
    AcceptedMeansSameFile
CHECK_DEADLOCK FALSE
