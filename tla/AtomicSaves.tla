----------------------------- MODULE AtomicSaves -----------------------------
(***************************************************************************)
(* What port.JobRepository promises to its callers: SaveJob and            *)
(* UpdateStatus of several processes take effect one at a time, entirely   *)
(* or not at all, and SaveResult.Created is true for the save that made    *)
(* the row.                                                                *)
(***************************************************************************)
EXTENDS Repository

CONSTANTS
    Saver,      \* processes that write postings
    Requests    \* what they may ask for

VARIABLES
    request,   \* [Saver -> the request in progress]
    result     \* [Saver -> how its last request ended]

NoRequest == [kind |-> "none"]

Init ==
    /\ StoreInit
    /\ request = [s \in Saver |-> NoRequest]
    /\ result = [s \in Saver |-> "none"]

Ask(s, r) ==
    /\ request[s] = NoRequest
    /\ request' = [request EXCEPT ![s] = r]
    /\ result' = [result EXCEPT ![s] = "none"]
    /\ UNCHANGED storeVars

Answer(s, how) ==
    /\ request' = [request EXCEPT ![s] = NoRequest]
    /\ result' = [result EXCEPT ![s] = how]
    /\ UNCHANGED <<notifications, runs>>

Save(s) ==
    /\ request[s].kind = "save"
    /\ SaveJob(request[s].key, request[s].content, request[s].sources)
    /\ Answer(s, IF JobsWithKey(request[s].key) = {} THEN "created" ELSE "updated")

Mark(s) ==
    /\ request[s].kind = "status"
    /\ UpdateStatus(request[s].job, "notified")
    /\ Answer(s, "marked")

Fail(s) ==
    /\ request[s] # NoRequest
    /\ \E how \in {"failed", "busy"} : Answer(s, how)
    /\ UNCHANGED jobs

Next == \E s \in Saver : (\E r \in Requests : Ask(s, r)) \/ Save(s) \/ Mark(s) \/ Fail(s)

Spec == Init /\ [][Next]_<<storeVars, request, result>>
=============================================================================
