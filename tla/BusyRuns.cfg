SPECIFICATION Spec
CONSTANTS
    Key = {"k1", "k2"}
    Content = {"c1", "c2"}
    Hash = {"h1", "h2"}
    NoHash = "none"
    MaterialHash <- MCMaterial
    Origin = {"o1", "o2"}
    Source = {"s1"}
    Saver = {"w1", "w2"}
    Requests <- TwoPostings
    MaxRequests = 2
    MaxFaults = 0
CHECK_DEADLOCK FALSE
INVARIANTS NeverBusy
