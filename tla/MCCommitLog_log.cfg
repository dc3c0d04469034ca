SPECIFICATION Spec
CONSTANTS
    Thread = {t1, t2}
    Dir = {d1, d2}
    LogBlockCnt = 8
    ByteSize = 256
    kMaxLogSize = 3
    MaxTxn = 2
    MaxFault = 1
    MaxRecover = 1
    NoOne = NoOne
SYMMETRY Symmetry
INVARIANTS
    TypeOK
    LogBlocksHaveOneUse
    
    SuperblockHolderRuns

    
CHECK_DEADLOCK FALSE
