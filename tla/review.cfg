SPECIFICATION Spec
CONSTANTS
    q1 = q1
    q2 = q2
    j1 = j1
    j2 = j2
    Jobs <- MCTwoJobs
    NoJob = NoJob
    Requests <- MCTwoRequests
    Sources <- MCSources
    Modes <- MCOneMode
    MaxRetry = 3
    LeaseTicks = 1
    MaxRequests = 4
    MaxLost = 1
SYMMETRY ReviewSymmetry
INVARIANTS
    TypeOK
    VerdictsCarriedOut
    FinalizingHasEvent
    NeededImagesStored
PROPERTY StatusMovesAllowed
CHECK_DEADLOCK FALSE
