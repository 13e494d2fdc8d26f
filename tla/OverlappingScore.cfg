SPECIFICATION Spec
CONSTANTS
    Key = {"k1"}
    Content <- MCContent
    Hash <- MCHash
    NoHash = "none"
    MaterialHash <- MCMaterial
    Origin = {"o1"}
    Source = {"s1"}
    Proc = {"p1", "p2"}
    Profile <- MCProfile
    Evaluate <- MCEvaluate
    FaultKinds = {}
    MaxFaults = 0
    Batches <- OneJobShort
    Offered <- Scheduled
    MaxCollects = 1
CHECK_DEADLOCK FALSE
PROPERTIES NotifiedOnlyToRejected
