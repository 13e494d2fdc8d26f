SPECIFICATION Spec
CONSTANTS
    Key = {"k1"}
    Content <- MCContent
    Hash <- MCHash
    NoHash = "none"
    MaterialHash <- MCMaterial
    Origin = {"o1"}
    Source = {"s1"}
    Proc = {"p1"}
    Profile <- MCProfile
    Evaluate <- MCEvaluate
    FaultKinds = {"cancel"}
    MaxFaults = 1
    Batches <- OneJobShort
    Offered <- RunOnly
    MaxCollects = 1
CHECK_DEADLOCK FALSE
INVARIANTS DeliveredIsRecorded
