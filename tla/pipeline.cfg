SPECIFICATION PipelineSpec
CONSTANTS
    w1 = w1
    w2 = w2
    j1 = j1
    q1 = q1
    Requests <- MCOneByOne
    Jobs <- MCOneJob
    Poison = Poison
    Workers <- MCOneWorker
    Sources <- MCSources
    Modes <- MCTwoModes
    MaxRetry = 2
    LeaseTicks = 1
    BatchSize = 1
    Prompt = TRUE
    MaxLog = 3
    MaxRebalances = 0
    MaxErrors = 1
    MaxDead = 1
    MaxCrashes = 1
INVARIANTS
    OpenJobsAreCarried
    ReviewedOutputsExist
PROPERTIES
    LifecycleRefined
