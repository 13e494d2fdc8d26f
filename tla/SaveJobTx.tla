------------------------------ MODULE SaveJobTx ------------------------------
(***************************************************************************)
(* SaveJob and UpdateStatus as they run: a deferred transaction that first *)
(* reads and then writes, and a single UPDATE, over the locks of a SQLite  *)
(* file in rollback-journal mode (the DSN of internal/platform/database    *)
(* asks for no other).  Any number of readers hold SHARED; one writer      *)
(* holds RESERVED, then PENDING, which admits no new reader, and commits   *)
(* once all others have left.                                              *)
(*                                                                         *)
(* busy_timeout makes a connection wait for a lock, except where waiting   *)
(* could not help: a transaction that has already read and finds another   *)
(* writer gets SQLITE_BUSY at once.                                        *)
(***************************************************************************)
EXTENDS Repository

CONSTANTS
    Saver,
    Requests,
    MaxRequests,    \* bound on the requests of a behaviour
    MaxFaults       \* bound on its faults: cancelled contexts, kills, timeouts

ASSUME RequestsAssumption ==
    Requests \subseteq [kind : {"save"}, key : Key, content : Content,
                        sources : (SUBSET Origin) \ {{}}]
                       \cup [kind : {"status"}, job : Nat]

ASSUME BoundsAssumption == MaxRequests \in Nat /\ MaxFaults \in Nat

VARIABLES
    request, result,
    stage,     \* [Saver -> the next statement of its request]
    lock,      \* [Saver -> its lock on the file]
    draft,     \* [Saver -> the postings as its transaction sees them]
    created,   \* [Saver -> its lookup found no row]
    asked, faults

txVars == <<stage, lock, draft, created>>
vars == <<storeVars, request, result, txVars, asked, faults>>

NoRequest == [kind |-> "none"]
Stage == {"idle", "lookup", "write", "sources", "commit"}
Lock == {"none", "shared", "reserved", "pending"}

TypeOK ==
    /\ StoreTypeOK
    /\ request \in [Saver -> Requests \cup {NoRequest}]
    /\ result \in [Saver -> {"none", "created", "updated", "marked", "failed", "busy"}]
    /\ stage \in [Saver -> Stage]
    /\ lock \in [Saver -> Lock]
    /\ draft \in [Saver -> Seq(JobRow)]
    /\ created \in [Saver -> BOOLEAN]
    /\ asked \in 0..MaxRequests
    /\ faults \in 0..MaxFaults

Init ==
    /\ StoreInit
    /\ request = [s \in Saver |-> NoRequest]
    /\ result = [s \in Saver |-> "none"]
    /\ stage = [s \in Saver |-> "idle"]
    /\ lock = [s \in Saver |-> "none"]
    /\ draft = [s \in Saver |-> <<>>]
    /\ created = [s \in Saver |-> FALSE]
    /\ asked = 0 /\ faults = 0
-----------------------------------------------------------------------------
Others(s) == Saver \ {s}
NoOtherWriter(s) == \A t \in Others(s) : lock[t] \notin {"reserved", "pending"}
NobodyPending(s) == \A t \in Others(s) : lock[t] # "pending"
Alone(s) == \A t \in Others(s) : lock[t] = "none"

At(s, st, l) == stage' = [stage EXCEPT ![s] = st] /\ lock' = [lock EXCEPT ![s] = l]

End(s, how) ==
    /\ At(s, "idle", "none")
    /\ request' = [request EXCEPT ![s] = NoRequest]
    /\ result' = [result EXCEPT ![s] = how]
    /\ draft' = [draft EXCEPT ![s] = <<>>]
    /\ created' = [created EXCEPT ![s] = FALSE]
    /\ UNCHANGED asked

\* The row of draft[s] with the request's key, or of the requested job.
Target(s) ==
    IF request[s].kind = "save"
    THEN {i \in DOMAIN draft[s] : draft[s][i].key = request[s].key}
    ELSE {request[s].job}

\* BEGIN takes no lock: the transaction is deferred.
Ask(s, r) ==
    /\ stage[s] = "idle"
    /\ asked < MaxRequests /\ asked' = asked + 1
    /\ request' = [request EXCEPT ![s] = r]
    /\ result' = [result EXCEPT ![s] = "none"]
    /\ At(s, IF r.kind = "save" THEN "lookup" ELSE "write", "none")
    /\ UNCHANGED <<storeVars, draft, created, faults>>

\* Mutation: the lookup runs outside the transaction and keeps no lock.
LookupOutsideTx(s) ==
    /\ stage[s] = "lookup"
    /\ NobodyPending(s)
    /\ At(s, "write", "none")
    /\ draft' = [draft EXCEPT ![s] = jobs]
    /\ created' = [created EXCEPT ![s] = JobsWithKey(request[s].key) = {}]
    /\ UNCHANGED <<storeVars, request, result, asked, faults>>

\* findJobByDedupKey
Lookup(s) ==
    /\ stage[s] = "lookup"
    /\ NobodyPending(s)
    /\ At(s, "write", "shared")
    /\ draft' = [draft EXCEPT ![s] = jobs]
    /\ created' = [created EXCEPT ![s] = JobsWithKey(request[s].key) = {}]
    /\ UNCHANGED <<storeVars, request, result, asked, faults>>

\* Mutation: the inserted row has no status.
NewRowWithoutStatus(r) ==
    [key |-> r.key, content |-> r.content, sources |-> {}, status |-> "", score |-> 0]

NewRow(r) ==
    [key |-> r.key, content |-> r.content, sources |-> {}, status |-> "new", score |-> 0]

\* insertJob or updateJob, inside the transaction; the sources come next.
WriteJob(s) ==
    /\ stage[s] = "write" /\ request[s].kind = "save"
    /\ NoOtherWriter(s)
    /\ At(s, "sources", "reserved")
    /\ \/ /\ created[s]
          /\ draft' = [draft EXCEPT ![s] = Append(@, NewRow(request[s]))]
       \/ /\ ~created[s]
          /\ \E i \in Target(s) :
                 draft' = [draft EXCEPT ![s][i].content = request[s].content]
    /\ UNCHANGED <<storeVars, request, result, created, asked, faults>>

\* Mutation: the statements run without a transaction around them.
InsertSourcesAfterCommit(s) ==
    /\ stage[s] = "sources"
    /\ At(s, "commit", "reserved")
    /\ jobs' = draft[s]
    /\ \E i \in Target(s) :
           draft' = [draft EXCEPT ![s][i].sources = @ \cup request[s].sources]
    /\ UNCHANGED <<notifications, runs, request, result, created, asked, faults>>

InsertSources(s) ==
    /\ stage[s] = "sources"
    /\ At(s, "commit", "reserved")
    /\ \E i \in Target(s) :
           draft' = [draft EXCEPT ![s][i].sources = @ \cup request[s].sources]
    /\ UNCHANGED <<storeVars, request, result, created, asked, faults>>

\* UpdateStatus: one statement that has read nothing before, so it waits.
WriteStatus(s) ==
    /\ stage[s] = "write" /\ request[s].kind = "status"
    /\ NoOtherWriter(s)
    /\ At(s, "commit", "reserved")
    /\ draft' = [draft EXCEPT ![s] =
                    IF request[s].job \in DOMAIN jobs
                    THEN [jobs EXCEPT ![request[s].job].status = "notified"] ELSE jobs]
    /\ UNCHANGED <<storeVars, request, result, created, asked, faults>>

\* Mutation: a writer that has read waits for the other writer.
WaitWithReadLock(s) ==
    /\ stage[s] = "write" /\ lock[s] = "shared" /\ ~NoOtherWriter(s)
    /\ faults < MaxFaults /\ faults' = faults + 1
    /\ End(s, "busy")
    /\ UNCHANGED storeVars

\* The write of a transaction that has read fails at once when another
\* connection is writing; SaveJob rolls back and returns the error.
BusyAtOnce(s) ==
    /\ stage[s] = "write" /\ lock[s] = "shared" /\ ~NoOtherWriter(s)
    /\ End(s, "busy")
    /\ UNCHANGED <<storeVars, faults>>

\* A commit that meets readers keeps new ones out and waits.
Pend(s) ==
    /\ stage[s] = "commit" /\ lock[s] = "reserved" /\ ~Alone(s)
    /\ At(s, "commit", "pending")
    /\ UNCHANGED <<storeVars, request, result, draft, created, asked, faults>>

Commit(s) ==
    /\ stage[s] = "commit" /\ Alone(s)
    /\ jobs' = draft[s]
    /\ End(s, CASE request[s].kind = "status" -> "marked"
                [] request[s].kind = "save" /\ created[s] -> "created"
                [] OTHER -> "updated")
    /\ UNCHANGED <<notifications, runs, faults>>

\* A cancelled context, a kill or the end of busy_timeout rolls back.
Abandon(s) ==
    /\ stage[s] # "idle"
    /\ faults < MaxFaults /\ faults' = faults + 1
    /\ End(s, "failed")
    /\ UNCHANGED storeVars

Step(s) ==
    \/ Lookup(s)
    \/ WriteJob(s)
    \/ InsertSources(s)
    \/ WriteStatus(s)
    \/ BusyAtOnce(s)
    \/ Pend(s)
    \/ Commit(s)

Next == \E s \in Saver : (\E r \in Requests : Ask(s, r)) \/ Step(s) \/ Abandon(s)

Spec == Init /\ [][Next]_vars

\* Waiting connections poll for the lock they need.
FairSpec == Spec /\ \A s \in Saver : WF_vars(Step(s))
-----------------------------------------------------------------------------
\* Every transaction is equivalent to one step of the promised store.
Atomic == INSTANCE AtomicSaves
    WITH Saver <- Saver, Requests <- Requests, request <- request, result <- result,
         jobs <- jobs, notifications <- notifications, runs <- runs
ImplementsAtomicSaves == Atomic!Spec

\* What a writer is about to commit differs from the committed table by its own
\* request only: nothing was committed since it looked, so no update is lost
\* and the unique index is never hit.
OthersKept(s) ==
    /\ \A i \in DOMAIN jobs \ Target(s) : draft[s][i] = jobs[i]
    /\ created[s] => JobsWithKey(request[s].key) = {}
DraftIsCurrent ==
    \A s \in Saver : lock[s] \in {"reserved", "pending"}
        => /\ Len(draft[s]) = Len(jobs) + (IF created[s] THEN 1 ELSE 0)
           /\ OthersKept(s)

\* No request waits for ever: readers and writers never block each other in a
\* circle, also without the help of busy_timeout.
EveryRequestEnds == \A s \in Saver : (stage[s] # "idle") ~> (stage[s] = "idle")

\* busy_timeout prevents SQLITE_BUSY when scheduled runs overlap
\* (database.go:42).
NeverBusy == \A s \in Saver : result[s] # "busy"
=============================================================================
