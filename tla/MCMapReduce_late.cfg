SPECIFICATION Spec
CONSTANTS
    Worker = {w1, w2}
    mapFileCnt = 2
    MayBeLate <- Task
    MaxCrashes = 0
INVARIANT ExactlyOnce
CHECK_DEADLOCK FALSE
