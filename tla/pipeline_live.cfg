SPECIFICATION PipelineFairSpec
CONSTANTS
    w1 = w1
    w2 = w2
    j1 = j1
    q1 = q1
    Requests <- MCOneByOne
    Jobs <- MCOneJob
    Poison = Poison
    Workers <- MCWorkers
    Sources <- MCSources
    Modes <- MCOneMode
    MaxRetry = 2
    LeaseTicks = 1
    BatchSize = 1
    Prompt = FALSE
    MaxLog = 2
    MaxRebalances = 1
    MaxErrors = 0
    MaxDead = 1
    MaxCrashes = 0
CONSTRAINT MCMovedOrDead
PROPERTY SettlesUnlessDead
