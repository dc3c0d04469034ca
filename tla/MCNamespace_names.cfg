SPECIFICATION Spec
CONSTANTS
    Thread = {t1, t2}
    Name = {a, b}
    MaxInode = 3
    MaxBlock = 6
    Reserved = 1
    DataBlock = {6}
    NoOne = NoOne
SYMMETRY Symmetry
CONSTRAINT OneRefused
INVARIANTS
    TypeOK
    NamesHaveInodes
    OneNamePerInode
    NamesAreUnique
    CyclesNeedReuse
PROPERTY OnlyUnlinkRemovesNames
CHECK_DEADLOCK FALSE
