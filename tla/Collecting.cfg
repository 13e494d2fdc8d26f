SPECIFICATION Spec
CONSTANTS
    Key = {"k1", "k2", "k3"}
    Content <- MCContent
    Hash <- MCHash
    NoHash = "none"
    MaterialHash <- MCMaterial
    Origin = {"o1", "o2", "o3", "o4", "o5", "o6", "o7", "o8", "o9"}
    Source = {"s1", "s2"}
    Proc = {"p1", "p2"}
    Profile <- MCProfile
    Evaluate <- MCEvaluate
    FaultKinds = {"fetch", "save"}
    MaxFaults = 2
    Batches <- MixedBatches
    Offered <- CollectSome
    MaxCollects = 2
CHECK_DEADLOCK FALSE
INVARIANTS OneRowPerKey RowsAreCounted NothingLostSilently FailuresAlerted
