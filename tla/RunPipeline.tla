----------------------------- MODULE RunPipeline -----------------------------
(***************************************************************************)
(* The agent: processes that run collect, score, notify or run (the three  *)
(* of them in order, application/run_pipeline.go) over one store and one   *)
(* Slack channel, and the faults the environment may inject.               *)
(***************************************************************************)
EXTENDS CollectJobs, ScoreJobs, NotifyJobs

CONSTANTS
    Offered,        \* the options commands are started with
    MaxCollects     \* bound on the number of collections

ASSUME OfferedAssumption == Offered \subseteq Options /\ MaxCollects \in Nat

VARIABLE collects   \* collections started so far

localVars == <<coll, toScore, note>>
vars == <<storeVars, procVars, collectVars, scoreVars, notifyVars, collects>>

Init ==
    /\ StoreInit
    /\ ProcInit
    /\ CollectInit
    /\ ScoreInit
    /\ NotifyInit
    /\ collects = 0
-----------------------------------------------------------------------------
Collects(o) == o.cmd \in {"collect", "run"}

FirstPC(cmd) ==
    CASE cmd \in {"collect", "run"} -> "fetch"
      [] cmd = "score" -> "listForScore"
      [] cmd = "notify" -> "listForNotify"

Start(p, o) ==
    /\ Idle(p)
    /\ opts' = [opts EXCEPT ![p] = o]
    /\ outcome' = [outcome EXCEPT ![p] = "none"]
    /\ Goto(p, FirstPC(o.cmd))
    /\ \/ /\ Collects(o)
          /\ collects < MaxCollects
          /\ collects' = collects + 1
          /\ StartCollect(p)
       \/ /\ ~Collects(o)
          /\ UNCHANGED <<collects, coll>>
    /\ UNCHANGED <<storeVars, ctxDone, snapshot, faults, alerts, scoreVars, notifyVars>>

\* SIGKILL, power loss: the store and the channel keep what they have.
Crash(p) ==
    /\ ~Idle(p)
    /\ Fault("crash")
    /\ Exit(p, "killed")
    /\ coll' = [coll EXCEPT ![p] = NoCollect]
    /\ toScore' = [toScore EXCEPT ![p] = {}]
    /\ note' = [note EXCEPT ![p] = NoNote]
    /\ UNCHANGED <<storeVars, alerts, slack, collects>>

Work(p) ==
    /\ UNCHANGED collects
    /\ \/ CollectStep(p) /\ UNCHANGED <<scoreVars, notifyVars>>
       \/ ScoreStep(p) /\ UNCHANGED <<collectVars, notifyVars>>
       \/ NotifyStep(p) /\ UNCHANGED <<collectVars, scoreVars>>

Signal(p) ==
    /\ Cancel(p)
    /\ UNCHANGED <<storeVars, collectVars, scoreVars, notifyVars, collects>>

Next ==
    \E p \in Proc :
        \/ \E o \in Offered : Start(p, o)
        \/ Work(p)
        \/ Signal(p)
        \/ Crash(p)

Spec == Init /\ [][Next]_vars

\* A started command keeps going, and the schedule starts every command it
\* lists over and over.
FairSpec ==
    /\ Spec
    /\ \A p \in Proc : WF_vars(Work(p))
    /\ \A p \in Proc, o \in Offered : ~Collects(o) => SF_vars(Start(p, o))
-----------------------------------------------------------------------------
(* Type correctness *)

JobId == DOMAIN jobs

TypeOK ==
    /\ StoreTypeOK
    /\ ProcTypeOK
    /\ CollectTypeOK
    /\ ScoreTypeOK
    /\ NotifyTypeOK
    /\ collects \in 0..MaxCollects
-----------------------------------------------------------------------------
(* What the notifications table and the channel say of each other *)

\* The channel holds a message about job i with this material.
Delivered(i, h) ==
    \E n \in DOMAIN slack : slack[n].job = i /\ MaterialHash[slack[n].content] = h

\* A row that records a success tells the truth: the channel has the message.
\* SaveNotification and selectTargets rely on it; a false row would silence a
\* job that nobody was told about.
SuccessMeansDelivered ==
    \A n \in DOMAIN notifications :
        notifications[n].result = "success"
            => Delivered(notifications[n].job, notifications[n].hash)

\* A job is marked notified only if some version of it reached the channel,
\* however score, notify and collect of several processes interleave.
NotifiedMeansDelivered ==
    \A i \in JobId : jobs[i].status = "notified"
                        => \E n \in DOMAIN slack : slack[n].job = i

\* A message announced as an update follows an earlier message on its job:
\* port.NotifyItem.Update never presents an unseen job as already known.
UpdateFollowsFirst ==
    \A n \in DOMAIN slack : slack[n].update
        => \E m \in 1..(n - 1) : slack[m].job = slack[n].job

\* The dedup key identifies a posting: no two rows share one.
OneRowPerKey == \A i, j \in JobId : jobs[i].key = jobs[j].key => i = j

SuccessRow(m) ==
    [job |-> m.job, hash |-> MaterialHash[m.content], result |-> "success"]
Recorded(m) == \E n \in DOMAIN notifications : notifications[n] = SuccessRow(m)

\* A 2xx answer is never forgotten by an interrupted batch: the process still
\* holds the record, or the table has it (Notify's WithoutCancel).
AckedIsRecorded ==
    \A n \in DOMAIN slack : slack[n].acked =>
        \/ Recorded(slack[n])
        \/ \E p \in Proc : \E r \in DOMAIN note[p].records :
               r > note[p].done /\ note[p].records[r] = SuccessRow(slack[n])

\* Whatever reached Slack is recorded as notified once no command is running
\* (README.md:131, "even when interrupted").
DeliveredIsRecorded ==
    (\A p \in Proc : Idle(p)) => \A n \in DOMAIN slack : Recorded(slack[n])

\* Messages m < n on one job with no other in between.
Consecutive(m, n) ==
    /\ m < n /\ slack[m].job = slack[n].job
    /\ \A k \in (m + 1)..(n - 1) : slack[k].job # slack[n].job

\* Once a message was acknowledged, the next one about its job says something
\* materially different: no duplicate in the channel.
NoResend ==
    \A n \in DOMAIN slack : \A m \in 1..(n - 1) :
        Consecutive(m, n) /\ slack[m].acked
            => MaterialHash[slack[m].content] # MaterialHash[slack[n].content]

\* What the run command sends was judged by the content it sends, and passes
\* the profile: nothing goes out under the score of a former version.
SentIsEligible ==
    \A p \in Proc : pc[p] = "reply" /\ opts[p].cmd = "run" =>
        LET v == Evaluate[snapshot[p][note[p].current].content][opts[p].profile]
        IN  ~v.rejected /\ v.score >= opts[p].profile.threshold

\* The posting i of the batch of p was sent as p read it, and acknowledged.
SentAsRead(p, i) ==
    \E n \in DOMAIN slack : /\ slack[n].job = i
                            /\ slack[n].content = snapshot[p][i].content
                            /\ slack[n].acked

\* When notify ends with exit code 0, every posting it had to tell, by the rows
\* and the history it read, has reached the channel, also after failed sends and
\* interruptions: a batch that was cut short ends with an error (reportNotify).
OkMeansAllSent ==
    [][\A p \in Proc : (pc[p] \in {"persist", "mark"} /\ outcome'[p] = "ok")
          => \A i \in SelectTargets(snapshot[p], note[p].known, opts[p].profile.threshold) :
                 SentAsRead(p, i)]_vars

\* A notified job leaves that status only by being rejected (score_jobs.go).
NotifiedOnlyToRejected ==
    [][\A i \in JobId : jobs[i].status = "notified"
          => jobs'[i].status \in {"notified", "rejected"}]_vars

\* A collection changes what a posting says and never what was decided on it.
CollectKeepsVerdict ==
    [][\A i \in JobId : jobs'[i].content # jobs[i].content
          => /\ jobs'[i].status = jobs[i].status
             /\ jobs'[i].score = jobs[i].score]_vars

\* A step of the command that p runs.
Acts(p) == <<pc[p], coll[p], toScore[p], note[p]>>'
               # <<pc[p], coll[p], toScore[p], note[p]>>

\* The row of job i stays as it is, but for what score decides.
OnlyRescored(i) ==
    [jobs'[i] EXCEPT !.status = jobs[i].status, !.score = jobs[i].score] = jobs[i]

\* No step of a dry run or of a paused command sends a message or writes the
\* history.  Under a paused profile nothing is collected either: no run row, no
\* alert, no new row, and of the rows there are only status and score change,
\* since score and run judge under a paused profile too.
QuietCommandsStayQuiet ==
    [][\A p \in Proc : (~Idle(p) /\ Acts(p)) =>
          /\ opts[p].dryRun \/ ~Enabled(p) => UNCHANGED <<slack, notifications>>
          /\ ~Enabled(p) => /\ UNCHANGED <<runs, alerts>>
                            /\ Len(jobs') = Len(jobs)
                            /\ \A i \in JobId : OnlyRescored(i)]_vars
-----------------------------------------------------------------------------
(* What a collection reports *)

\* One element for each unit of the counters "new" of f.
CountedNew(f) == UNION {{x} \X (1..f[x].new) : x \in DOMAIN f}

\* Every row of the store was counted as new by exactly one run, also when a
\* save fails half way or two collections overlap.
RowsAreCounted ==
    Len(jobs) = Cardinality(CountedNew(runs)) + Cardinality(CountedNew(coll))

\* A source that is about to report success has lost no posting and no
\* introduction of its batch, merged duplicates included.
NothingLostSilently ==
    \A p \in Proc : pc[p] = "saveRun" /\ ~coll[p].err =>
        \A n \in Parsed(coll[p].batch) :
            \E i \in JobId : /\ jobs[i].key = coll[p].batch[n].key
                             /\ coll[p].batch[n].origin \in jobs[i].sources

\* Every failed run row is part of one error notification, and conversely.
FailuresAlerted ==
    (\A p \in Proc : Idle(p)) =>
        \A s \in Source :
            Cardinality({n \in DOMAIN runs : runs[n].source = s /\ ~runs[n].ok})
            = Cardinality({n \in DOMAIN alerts : s \in alerts[n]})
-----------------------------------------------------------------------------
(* What must eventually happen *)

\* Every command ends.
EveryCommandEnds == \A p \in Proc : []<>Idle(p)

Told(i) == NotifiedHash(i) = MaterialHash[jobs[i].content]
Worthy(i) ==
    \A o \in Offered : LET v == Evaluate[jobs[i].content][o.profile]
                       IN  ~v.rejected /\ v.score >= o.profile.threshold

\* A posting worth telling is told in its present version, or stops being
\* worth it: failed sends are retried by later commands.
WorthyIsTold ==
    \A i \in 1..Cardinality(Key) :
        (i \in JobId /\ Worthy(i)) ~> (i \in JobId /\ (Told(i) \/ ~Worthy(i)))
=============================================================================
