SPECIFICATION Spec
CONSTANTS
    w1 = w1
    w2 = w2
    j1 = j1
    j2 = j2
    q1 = q1
    Requests <- MCOneByOne
    Jobs <- MCTwoJobs
    Poison = Poison
    Workers <- MCWorkers
    Sources <- MCSources
    Modes <- MCOneMode
    MaxRetry = 2
    LeaseTicks = 1
    BatchSize = 1
    Prompt = TRUE
    MaxLog = 2
    MaxRebalances = 0
    MaxErrors = 1
    MaxCrashes = 0
SYMMETRY WorkerSymmetry
INVARIANT NeverCommittedPastFailure
