------------------------------ MODULE ScoreJobs ------------------------------
(***************************************************************************)
(* Scorer.Score (internal/application/score_jobs.go): one ListJobs, then   *)
(* one UpdateScore per listed job, each computed from the listed row.      *)
(***************************************************************************)
EXTENDS Process

VARIABLE toScore   \* [Proc -> ids of the listed jobs not scored yet]

scoreVars == <<toScore>>

ScoreInit == toScore = [p \in Proc |-> {}]

ScoreTypeOK == toScore \in [Proc -> SUBSET Nat]
-----------------------------------------------------------------------------
\* Mutation: only the jobs that were never scored are scored.
OnlyNewJobs == {i \in DOMAIN jobs : jobs[i].status = "new"}

\* Every job is scored again, since its content may have changed.
JobsToScore == DOMAIN jobs

ListForScore(p) ==
    /\ pc[p] = "listForScore"
    /\ Succeeds(p)
    /\ toScore' = [toScore EXCEPT ![p] = JobsToScore]
    /\ \/ JobsToScore = {} /\ AfterScore(p)
       \/ JobsToScore # {} /\ ContinueWith(p, "score", jobs)
    /\ UNCHANGED storeVars

\* A failing call of Score ends the command.
ScoreError(p) ==
    /\ pc[p] \in ScorePC
    /\ Fails(p, IF pc[p] = "score" THEN "score" ELSE "list")
    /\ toScore' = [toScore EXCEPT ![p] = {}]
    /\ Exit(p, "error")
    /\ UNCHANGED storeVars

\* Mutation: every job that is not rejected becomes scored.
StatusBackToScored(row, v) == IF v.rejected THEN "rejected" ELSE "scored"

\* A notified job stays notified unless it is now rejected.
StatusAfterScore(row, v) ==
    CASE v.rejected -> "rejected"
      [] ~v.rejected /\ row.status = "notified" -> "notified"
      [] OTHER -> "scored"

ScoreOne(p) ==
    /\ pc[p] = "score"
    /\ Succeeds(p)
    /\ \E i \in toScore[p] :
          LET row == snapshot[p][i]
              v == Evaluate[row.content][opts[p].profile]
              left == toScore[p] \ {i}
          IN  /\ \A j \in toScore[p] : i <= j
              /\ UpdateScore(i, v.score, StatusAfterScore(row, v))
              /\ toScore' = [toScore EXCEPT ![p] = left]
              /\ \/ left = {} /\ AfterScore(p)
                 \/ left # {} /\ Continue(p, "score")
    /\ UNCHANGED <<notifications, runs>>

ScoreStep(p) == ListForScore(p) \/ ScoreError(p) \/ ScoreOne(p)
=============================================================================
