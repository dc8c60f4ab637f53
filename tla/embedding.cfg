SPECIFICATION FairSpec
CONSTANTS
    w1 = w1
    w2 = w2
    i1 = i1
    Items <- MCItems
    Malformed = Malformed
    Workers <- MCWorkers
    Nothing = Nothing
    MaxLog = 3
    MaxRebalances = 1
    MaxCrashes = 1
    MaxSendErrors = 1
    MaxCacheFaults = 1
INVARIANTS
    TypeOK
    CommittedWasAnswered
    RepeatsHaveCauses
PROPERTY EveryRequestAnswered
CHECK_DEADLOCK FALSE
