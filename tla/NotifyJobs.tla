------------------------------ MODULE NotifyJobs ------------------------------
(***************************************************************************)
(* Notifier.Notify (internal/application/notify_jobs.go) with the Slack    *)
(* notifier (internal/notifier/slack) and, for a dry run, the stdout one.  *)
(* The posts of a batch come first, then the records of all of them.       *)
(***************************************************************************)
EXTENDS Process

VARIABLES
    slack,   \* the messages of the Slack channel, oldest first
    note     \* [Proc -> locals of Notify]

notifyVars == <<slack, note>>

\* A message on the channel; acked when its sender got the 2xx answer.
Message == [job : Nat, content : Content, update : BOOLEAN, acked : BOOLEAN]

NoNote == [known |-> <<>>, items |-> {}, current |-> 0, inflight |-> 0,
           records |-> <<>>, done |-> 0, aborted |-> FALSE]

NotifyInit == slack = <<>> /\ note = [p \in Proc |-> NoNote]

NotifyTypeOK ==
    /\ slack \in Seq(Message)
    /\ note \in [Proc -> [known : Seq(Hash \cup {NoHash}), items : SUBSET Nat,
                          current : Nat, inflight : Nat,
                          records : Seq(NotificationRow), done : Nat,
                          aborted : BOOLEAN]]
-----------------------------------------------------------------------------
\* Mutation: the records alone decide, also when the batch was interrupted.
ExitByRecords(n) ==
    IF \E r \in DOMAIN n.records : n.records[r].result = "failed"
    THEN "notifyFailed" ELSE "ok"

\* reportNotify: one failed send is enough for a failing exit code.
ExitCode(n) ==
    CASE n.aborted -> "error"
      [] ~n.aborted /\ \E r \in DOMAIN n.records : n.records[r].result = "failed"
            -> "notifyFailed"
      [] OTHER -> "ok"

EndNotify(p, o) == note' = [note EXCEPT ![p] = NoNote] /\ Exit(p, o)

Paused(p) ==
    /\ pc[p] = "listForNotify"
    /\ ~Enabled(p)
    /\ NoFault
    /\ EndNotify(p, "ok")
    /\ UNCHANGED <<storeVars, slack>>

ListForNotify(p) ==
    /\ pc[p] = "listForNotify"
    /\ Enabled(p)
    /\ Succeeds(p)
    /\ ContinueWith(p, "listNotified", jobs)
    /\ UNCHANGED <<storeVars, notifyVars>>

\* A failing query of Notify ends the command.
NotifyError(p) ==
    /\ \/ pc[p] = "listForNotify" /\ Enabled(p)
       \/ pc[p] = "listNotified"
    /\ Fails(p, "list")
    /\ EndNotify(p, "error")
    /\ UNCHANGED <<storeVars, slack>>

\* Mutation: once notified, never again, whatever changes.
TargetsNeverTwice(rows, known, threshold) ==
    {i \in DOMAIN rows : /\ rows[i].status # "rejected"
                         /\ rows[i].score >= threshold
                         /\ known[i] = NoHash}

\* selectTargets: good enough, and not yet notified with this material.
SelectTargets(rows, known, threshold) ==
    {i \in DOMAIN rows : /\ rows[i].status # "rejected"
                         /\ rows[i].score >= threshold
                         /\ known[i] # MaterialHash[rows[i].content]}

\* Mutation: every command gets the Slack notifier.
SlackAlways(p) == TRUE

\* buildNotifiers: a dry run prints instead of sending.
UsesSlack(p) == ~opts[p].dryRun

ListNotified(p) ==
    /\ pc[p] = "listNotified"
    /\ Succeeds(p)
    /\ LET known == [i \in DOMAIN snapshot[p] |-> NotifiedHash(i)]
           items == SelectTargets(snapshot[p], known, opts[p].profile.threshold)
       IN  \/ /\ ~UsesSlack(p)
              /\ Continue(p, "print")
              /\ UNCHANGED note
           \/ /\ UsesSlack(p) /\ items = {}
              /\ EndNotify(p, "ok")
           \/ /\ UsesSlack(p) /\ items # {}
              /\ note' = [note EXCEPT ![p] = [NoNote EXCEPT !.known = known, !.items = items]]
              /\ Continue(p, "post")
    /\ UNCHANGED <<storeVars, slack>>

\* The stdout notifier prints everything and returns no record.
Preview(p) ==
    /\ pc[p] = "print"
    /\ NoFault
    /\ EndNotify(p, IF ctxDone[p] THEN "error" ELSE "ok")
    /\ UNCHANGED <<storeVars, slack>>

\* Best score first, the smaller id among equals (the sort is stable).
Before(p, i, j) ==
    \/ snapshot[p][i].score > snapshot[p][j].score
    \/ snapshot[p][i].score = snapshot[p][j].score /\ i < j

MessageFor(p, i) ==
    [job |-> i, content |-> snapshot[p][i].content,
     update |-> note[p].known[i] # NoHash, acked |-> FALSE]

\* The request leaves; it reaches the channel or is lost on the way.  A signal
\* that comes after the context was checked cuts it off.
Post(p) ==
    /\ pc[p] = "post"
    /\ ~ctxDone[p]
    /\ \E i \in note[p].items :
          /\ \A j \in note[p].items \ {i} : Before(p, i, j)
          /\ \/ /\ slack' = Append(slack, MessageFor(p, i))
                /\ note' = [note EXCEPT ![p].current = i, ![p].inflight = Len(slack) + 1]
                /\ NoFault
                /\ UNCHANGED ctxDone
             \/ /\ \/ Fault("post") /\ UNCHANGED ctxDone
                   \/ Fault("cancel") /\ ctxDone' = [ctxDone EXCEPT ![p] = TRUE]
                /\ note' = [note EXCEPT ![p].current = i, ![p].inflight = 0]
                /\ UNCHANGED slack
    /\ Goto(p, "reply")
    /\ UNCHANGED <<storeVars, opts, outcome, snapshot>>

\* Mutation: a batch that is interrupted loses the records it has.
AbortDroppingRecords(p) ==
    /\ pc[p] = "post"
    /\ ctxDone[p]
    /\ NoFault
    /\ EndNotify(p, "error")
    /\ UNCHANGED <<storeVars, slack>>

\* A signal between two posts: the records so far are returned with an error.
Abort(p) ==
    /\ pc[p] = "post"
    /\ ctxDone[p]
    /\ NoFault
    /\ \/ note[p].records = <<>> /\ EndNotify(p, "error")
       \/ /\ note[p].records # <<>>
          /\ note' = [note EXCEPT ![p].aborted = TRUE, ![p].items = {}]
          /\ Continue(p, "persist")
    /\ UNCHANGED <<storeVars, slack>>

\* Mutation: every attempt is recorded as a success.
ResultAlwaysSuccess(ok) == "success"

ResultOf(ok) == IF ok THEN "success" ELSE "failed"

\* The answer: a success is a delivered message whose 2xx arrived in time.  A
\* signal or a timeout while waiting makes a failure of a delivered message.
Reply(p) ==
    /\ pc[p] = "reply"
    /\ \E ok \in BOOLEAN :
          /\ \/ ok /\ note[p].inflight # 0 /\ Succeeds(p)
             \/ ~ok /\ note[p].inflight = 0 /\ NoFault
             \/ ~ok /\ note[p].inflight # 0 /\ Fails(p, "ack")
          /\ slack' = IF ok THEN [slack EXCEPT ![note[p].inflight].acked = TRUE]
                      ELSE slack
          /\ LET i == note[p].current
                 left == note[p].items \ {i}
                 rec == [job |-> i, hash |-> MaterialHash[snapshot[p][i].content],
                         result |-> ResultOf(ok)]
             IN  /\ note' = [note EXCEPT ![p].items = left, ![p].current = 0,
                               ![p].inflight = 0, ![p].records = Append(@, rec)]
                 /\ Continue(p, IF left = {} THEN "persist" ELSE "post")
    /\ UNCHANGED storeVars

\* One record is dealt with; the command ends after the last one.
NextRecord(p) ==
    LET n == [note[p] EXCEPT !.done = @ + 1]
    IN  \/ n.done = Len(n.records) /\ EndNotify(p, ExitCode(n))
        \/ /\ n.done < Len(n.records)
           /\ note' = [note EXCEPT ![p] = n]
           /\ Continue(p, "persist")

\* Mutation: whatever was attempted is marked as notified.
MarkAnyAttempt(rec) == TRUE

MarksJob(rec) == rec.result = "success"

\* Mutation: the records are written under the command's own context.
PersistUnderContext(p) ==
    /\ pc[p] = "persist"
    /\ LET rec == note[p].records[note[p].done + 1]
       IN  /\ \/ Succeeds(p) /\ SaveNotification(rec)
              \/ Fails(p, "record") /\ UNCHANGED notifications
           /\ \/ MarksJob(rec) /\ Continue(p, "mark") /\ UNCHANGED note
              \/ ~MarksJob(rec) /\ NextRecord(p)
    /\ UNCHANGED <<jobs, runs, slack>>

\* SaveNotification, without the command's context; its failure is only logged.
Persist(p) ==
    /\ pc[p] = "persist"
    /\ LET rec == note[p].records[note[p].done + 1]
       IN  /\ \/ NoFault /\ SaveNotification(rec)
              \/ Fault("record") /\ UNCHANGED notifications
           /\ \/ MarksJob(rec) /\ Continue(p, "mark") /\ UNCHANGED note
              \/ ~MarksJob(rec) /\ NextRecord(p)
    /\ UNCHANGED <<jobs, runs, slack>>

\* UpdateStatus of a sent job, whatever its status is by now.
Mark(p) ==
    /\ pc[p] = "mark"
    /\ \/ NoFault /\ UpdateStatus(note[p].records[note[p].done + 1].job, "notified")
       \/ Fault("mark") /\ UNCHANGED jobs
    /\ NextRecord(p)
    /\ UNCHANGED <<notifications, runs, slack>>

NotifyStep(p) ==
    \/ Paused(p)
    \/ ListForNotify(p)
    \/ NotifyError(p)
    \/ ListNotified(p)
    \/ Preview(p)
    \/ Post(p)
    \/ Abort(p)
    \/ Reply(p)
    \/ Persist(p)
    \/ Mark(p)
=============================================================================
