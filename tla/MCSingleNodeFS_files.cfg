SPECIFICATION Spec
CONSTANTS
    NBlocks = 6
    MaxInode = 7
    BlockUnits = 2
    NDirect = 1
    NIndirect = 1
    Name = {n1, n2}
    Prefix <- PlainNames
    Number <- NoNumbers
    Value = {v1}
    Zero = Zero
    MaxSize = 3
    BufLen = 3
SYMMETRY Symmetry
INVARIANTS
    TypeOK
    BlocksHaveOneUse
PROPERTIES
    LostOnlyOnError
    ImplementsStore
CHECK_DEADLOCK FALSE
