SPECIFICATION FairSpec
CONSTANTS
    Worker = {w1, w2}
    mapFileCnt = 3
    MayBeLate <- Task
    MaxCrashes = 1
INVARIANTS
    TypeOK
    StagesFollowTasks
    FinishedMeansWritten
PROPERTIES
    JobEnds
    WorkersLeave
CHECK_DEADLOCK FALSE
