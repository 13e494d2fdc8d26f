SPECIFICATION FairSpec
CONSTANTS
    Key = {"k1", "k2"}
    Content <- MCContent
    Hash <- MCHash
    NoHash = "none"
    MaterialHash <- MCMaterial
    Origin = {"o1", "o2"}
    Source = {"s1"}
    Proc = {"p1"}
    Profile <- MCProfile
    Evaluate <- MCEvaluate
    FaultKinds = {"fetch", "save", "saveRun", "list", "score", "alert", "post", "ack", "cancel"}
    MaxFaults = 1
    Batches <- TwoJobs
    Offered <- AllOptions
    MaxCollects = 3
CHECK_DEADLOCK FALSE
INVARIANTS TypeOK AckedIsRecorded NoResend SentIsEligible
PROPERTIES OkMeansAllSent NotifiedOnlyToRejected QuietCommandsStayQuiet EveryCommandEnds WorthyIsTold
