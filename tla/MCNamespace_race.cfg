SPECIFICATION Spec
CONSTANTS
    Thread = {t1, t2}
    Name = {a, b}
    MaxInode = 3
    MaxBlock = 6
    Reserved = 1
    DataBlock = {1}
    NoOne = NoOne
SYMMETRY Symmetry
INVARIANT BlocksHaveOneUse
CHECK_DEADLOCK FALSE
