SPECIFICATION Spec
CONSTANTS
    Thread = {t1}
    Dir = {d1}
    LogBlockCnt = 8
    ByteSize = 256
    kMaxLogSize = 3
    MaxTxn = 2
    MaxFault = 0
    MaxRecover = 1
    NoOne = NoOne
INVARIANTS
    AnsweredSurvives
CHECK_DEADLOCK FALSE
