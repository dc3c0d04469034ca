SPECIFICATION Spec
CONSTANTS
    File = {fA, fB}
    Client = {c1, c2}
    Server = {s1, s2}
    KDefaultBlockCnt = 2
    Zeros = Zeros
    NoOne = NoOne
    MaxBlocks = 2
    MaxVersion = 5
SYMMETRY Symmetry
INVARIANTS
    TypeOK
    BlocksHaveOneOwner
    InodesMatchServers
    MatchMeansSameFile
CHECK_DEADLOCK FALSE
