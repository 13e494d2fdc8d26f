SPECIFICATION Spec
CONSTANTS
    Key = {"k1"}
    Content <- MCContent
    Hash <- MCHash
    NoHash = "none"
    MaterialHash <- MCMaterial
    Origin = {"o1"}
    Source = {"s1"}
    Proc = {"p1", "p2"}
    Profile <- MCProfile
    Evaluate <- MCEvaluate
    FaultKinds = {"crash", "cancel", "post", "ack", "record", "mark", "score"}
    MaxFaults = 1
    Batches <- OneJob
    Offered <- Scheduled
    MaxCollects = 2
CHECK_DEADLOCK FALSE
INVARIANTS SuccessMeansDelivered NotifiedMeansDelivered UpdateFollowsFirst
PROPERTIES CollectKeepsVerdict
