----------------------------- MODULE MCSaveJobTx -----------------------------
(* Small instances of SaveJobTx for TLC. *)
EXTENDS SaveJobTx

MCMaterial == [c1 |-> "h1", c2 |-> "h2"]
Posting(k, c, o) == [kind |-> "save", key |-> k, content |-> c, sources |-> {o}]
TwoPostings == {Posting("k1", "c1", "o1"), Posting("k1", "c2", "o2"), Posting("k2", "c1", "o1")}
SavesAndMarks == TwoPostings \cup {[kind |-> "status", job |-> 1]}
=============================================================================
