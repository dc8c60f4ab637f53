SPECIFICATION Spec
CONSTANTS
    t1 = t1
    t2 = t2
    a1 = a1
    q1 = q1
    q2 = q2
    One = 2
    Discount <- MCDiscount
    NoRequest = NoRequest
    RequestIds <- MCRequests
    MaxRows = 4
    Trainers <- MCTrainers
    Replicas <- MCReplicas
    Datasets <- MCDatasets
    Settings <- MCSettings
    MinTrain = 2
    NoFile = NoFile
    Torn = Torn
    Fallback = Fallback
    FallbackNames <- MCFallbackNames
    MaxRuns = 2
    MaxDeaths = 1
SYMMETRY TrainerSymmetry
INVARIANT TypeOK
INVARIANT StatusTellsTruth
INVARIANT SidecarsDescribeModel
INVARIANT SidecarsOfSavedModels
INVARIANT MetricsMatchMeaning
INVARIANT BaselineNotOverruled
