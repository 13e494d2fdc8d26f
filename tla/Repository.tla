----------------------------- MODULE Repository -----------------------------
(***************************************************************************)
(* The SQLite store that every command of the agent shares                 *)
(* (internal/repository/sqlite, migrations/).  A row id is the position of *)
(* the row in its table: ids are AUTOINCREMENT and no row is ever deleted. *)
(* The parsed text of a posting is abstracted to a member of Content, and  *)
(* its four material items to the member MaterialHash gives it.            *)
(***************************************************************************)
EXTENDS Naturals, Sequences, FiniteSets

CONSTANTS
    Key,            \* dedup keys
    Content,        \* what one version of a posting says
    Hash,           \* payload hashes
    NoHash,         \* the hash of a job that was never notified
    MaterialHash,   \* [Content -> Hash]
    Origin,         \* (source name, external id) pairs that introduce a posting
    Source          \* source names

ASSUME MaterialHashAssumption == MaterialHash \in [Content -> Hash] /\ NoHash \notin Hash

VARIABLES
    jobs,           \* job_postings joined with job_sources
    notifications,  \* one row per recorded attempt to send
    runs            \* collection_runs

storeVars == <<jobs, notifications, runs>>

JobStatus == {"new", "scored", "rejected", "notified"}
JobRow == [key : Key, content : Content, sources : SUBSET Origin,
           status : JobStatus, score : Nat]
Result == {"success", "failed"}
NotificationRow == [job : Nat, hash : Hash, result : Result]
RunRow == [source : Source, ok : BOOLEAN, new : Nat, dup : Nat]

StoreInit == jobs = <<>> /\ notifications = <<>> /\ runs = <<>>


StoreTypeOK ==
    /\ jobs \in Seq(JobRow)
    /\ notifications \in Seq(NotificationRow)
    /\ runs \in Seq(RunRow)
-----------------------------------------------------------------------------
\* The rows with this dedup key: none or one (idx_job_postings_dedup_key).
JobsWithKey(k) == {i \in DOMAIN jobs : jobs[i].key = k}

\* Mutation: a new row gets no status.
InsertJobWithoutStatus(k, c, srcs) ==
    jobs' = Append(jobs, [key |-> k, content |-> c, sources |-> srcs,
                          status |-> "", score |-> 0])

InsertJob(k, c, srcs) ==
    jobs' = Append(jobs, [key |-> k, content |-> c, sources |-> srcs,
                          status |-> "new", score |-> 0])

\* Mutation: a re-collected posting starts over as a new one.
UpdateJobResettingStatus(i, c, srcs) ==
    jobs' = [jobs EXCEPT ![i] = [jobs[i] EXCEPT !.content = c, !.sources = @ \cup srcs,
                                                !.status = "new"]]

\* An existing row takes the collected content, whatever its age, and gains
\* the introductions it did not have; its status and score stay.
UpdateJob(i, c, srcs) ==
    jobs' = [jobs EXCEPT ![i] = [jobs[i] EXCEPT !.content = c, !.sources = @ \cup srcs]]

\* Mutation: the lookup by dedup key is skipped.
SaveJobBlindly(k, c, srcs) == InsertJob(k, c, srcs)

\* The transaction of SaveJob as one step; SaveJobTx justifies it.
SaveJob(k, c, srcs) ==
    \/ JobsWithKey(k) = {} /\ InsertJob(k, c, srcs)
    \/ \E i \in JobsWithKey(k) : UpdateJob(i, c, srcs)

UpdateScore(i, score, status) ==
    jobs' = [jobs EXCEPT ![i] = [jobs[i] EXCEPT !.score = score, !.status = status]]

UpdateStatus(i, status) == jobs' = [jobs EXCEPT ![i].status = status]

SaveRun(row) == runs' = Append(runs, row)

SaveNotification(row) == notifications' = Append(notifications, row)

\* Mutation: failed attempts count as notified.
AttemptsOfAnyResult(i) == {n \in DOMAIN notifications : notifications[n].job = i}

SuccessesOf(i) ==
    {n \in DOMAIN notifications :
        notifications[n].job = i /\ notifications[n].result = "success"}

LastSuccess(n, i) == n \in SuccessesOf(i) /\ \A m \in SuccessesOf(i) : m <= n

\* The hash ListNotifiedJobs reports for a job: its last successful row's.
NotifiedHash(i) ==
    IF \E n \in DOMAIN notifications : LastSuccess(n, i)
    THEN notifications[CHOOSE n \in DOMAIN notifications : LastSuccess(n, i)].hash
    ELSE NoHash
=============================================================================
