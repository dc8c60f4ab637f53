SPECIFICATION Spec
CONSTANTS
    w1 = w1
    w2 = w2
    j1 = j1
    j2 = j2
    q1 = q1
    Requests <- MCOneByOne
    Jobs <- MCOneJob
    Poison = Poison
    Workers <- MCWorkers
    Sources <- MCSources
    Modes <- MCOneMode
    MaxRetry = 2
    LeaseTicks = 1
    BatchSize = 2
    Prompt = TRUE
    MaxLog = 3
    MaxRebalances = 1
    MaxErrors = 1
    MaxCrashes = 1
CONSTRAINT MCOneFault
SYMMETRY WorkerSymmetry
INVARIANTS
    TypeOK
    OneTaskPerJob
    PaidRoundsCapped
    CommittedWasHandled
