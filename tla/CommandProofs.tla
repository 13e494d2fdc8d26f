---------------------------- MODULE CommandProofs ----------------------------
(***************************************************************************)
(* Theorems about what the commands of RunPipeline promise: their exit     *)
(* code, what a dry run and a paused profile leave alone, what becomes of  *)
(* an answer of Slack and of a posting of a batch.  The theorems that need *)
(* a hypothesis on the faults or on the number of processes state it.      *)
(***************************************************************************)
EXTENDS PipelineProofs, WellFoundedInduction

\* What process p may do.
Acting(p) ==
    (\E o \in Offered : Start(p, o)) \/ Work(p) \/ Signal(p) \/ Crash(p)

LEMMA ActingKeeps ==
    ASSUME TypeInv, NEW p \in Proc, Acting(p)
    PROVE  OthersKeep(p) /\ SlackGrows /\ TypeInv'
<1>1. OthersKeep(p) /\ SlackGrows
  BY StartType, WorkType, SignalType, CrashType, StepGrows DEF Acting
<1>2. Next
  BY DEF Acting, Next
<1> QED BY <1>1, <1>2, NextType

LEMMA NextActs ==
    ASSUME Next
    PROVE  \E p \in Proc : Acting(p)
BY DEF Next, Acting

\* A signal that comes while p is posting cuts the request off.
CutOff(p) == Post(p) /\ ctxDone' = [ctxDone EXCEPT ![p] = TRUE]

\* A step leaves the context alone, or cancels it, or ends the process.
LEMMA ContextSteps ==
    ASSUME TypeInv, NEW p \in Proc, Acting(p)
    PROVE  UNCHANGED ctxDone \/ Signal(p) \/ CutOff(p) \/ \E o : Exit(p, o)
<1> DEFINE M == UNCHANGED ctxDone \/ CutOff(p) \/ \E o : Exit(p, o)
<1>1. \A l : Continue(p, l) => M
  BY DEF Continue
<1>2. \A l, rows : ContinueWith(p, l, rows) => M
  BY DEF ContinueWith
<1>3. \A o : Exit(p, o) => M
  OBVIOUS
<1>4. \A o : EndNotify(p, o) => M
  BY DEF EndNotify
<1> HIDE DEF M
<1>5. CASE CollectStep(p)
  <2>1. FetchOk(p) \/ FetchFailed(p) \/ SaveOne(p) \/ SaveFailed(p) \/ RecordRun(p) => M
    BY <1>1 DEF FetchOk, FetchFailed, SaveOne, SaveFailed, RecordRun
  <2>2. EndCollect(p) => M
    BY <1>1, <1>3 DEF EndCollect, AfterCollect
  <2> QED BY <1>5, <2>1, <2>2 DEF CollectStep, M
<1>6. CASE ScoreStep(p)
  BY <1>1, <1>2, <1>3, <1>6
     DEF ScoreStep, ListForScore, ScoreError, ScoreOne, AfterScore, M
<1>7. CASE NotifyStep(p)
  <2>1. Persist(p) \/ Mark(p) => M
    BY <1>1, <1>4 DEF Persist, Mark, NextRecord
  <2>2. Paused(p) \/ ListForNotify(p) \/ NotifyError(p) \/ ListNotified(p) \/ Preview(p) => M
    BY <1>1, <1>2, <1>4 DEF Paused, ListForNotify, NotifyError, ListNotified, Preview
  <2>3. Abort(p) \/ Reply(p) => M
    BY <1>1, <1>4 DEF Abort, Reply
  <2>4. Post(p) => M
    BY DEF Post, CutOff, M
  <2> QED BY <1>7, <2>1, <2>2, <2>3, <2>4 DEF NotifyStep, M
<1>8. CASE Crash(p) \/ \E o \in Offered : Start(p, o)
  BY <1>8 DEF Crash, Start
<1> QED BY <1>5, <1>6, <1>7, <1>8 DEF Acting, Work

LEMMA OnlySignalsCancel ==
    ASSUME TypeInv, "cancel" \notin FaultKinds, NEW p \in Proc, Acting(p),
           NEW q \in Proc, ~ctxDone[q]
    PROVE  ~Signal(p) /\ ~CutOff(p) /\ ~ctxDone'[q]
<1> USE DEF TypeInv, TypeOK, ProcTypeOK
<1>1. ~Signal(p)
  BY DEF Signal, Cancel, Fails, Fault
<1>2. ~CutOff(p)
  <2>1. Post(p) => ctxDone' = ctxDone /\ ~ctxDone[p]
    BY DEF Post, Fault
  <2> QED BY <2>1 DEF CutOff
<1> QED BY <1>1, <1>2, ContextSteps DEF Exit

\* The three ways a step treats the exit code of the process that takes it.
OutcomeStep(p) ==
    \/ ~Idle(p) /\ UNCHANGED outcome
    \/ /\ ~Idle(p)
       /\ \E o \in Outcome : /\ outcome' = [outcome EXCEPT ![p] = o]
                             /\ pc' = [pc EXCEPT ![p] = "idle"]
    \/ Idle(p) /\ outcome' = [outcome EXCEPT ![p] = "none"]

LEMMA ExitOutcome ==
    ASSUME NEW p \in Proc, ~Idle(p), NEW o \in Outcome, Exit(p, o)
    PROVE  OutcomeStep(p)
BY DEF Exit, Goto, OutcomeStep

LEMMA NextRecordOutcome ==
    ASSUME NEW p \in Proc, ~Idle(p), NextRecord(p)
    PROVE  OutcomeStep(p)
<1> DEFINE n == [note[p] EXCEPT !.done = @ + 1]
<1>1. ExitCode(n) \in Outcome
  BY DEF ExitCode, Outcome
<1>2. EndNotify(p, ExitCode(n)) \/ Continue(p, "persist")
  BY DEF NextRecord
<1> HIDE DEF n
<1> QED BY <1>1, <1>2, ExitOutcome DEF EndNotify, Continue, OutcomeStep

LEMMA StepOutcome ==
    ASSUME NEW p \in Proc, Acting(p)
    PROVE  OutcomeStep(p)
<1>1. CASE \E o \in Offered : Start(p, o)
  BY <1>1 DEF Start, OutcomeStep
<1>2. CASE Signal(p)
  BY <1>2 DEF Signal, Cancel, OutcomeStep
<1>3. CASE Crash(p)
  BY <1>3, ExitOutcome DEF Crash, Outcome
<1>4. CASE CollectStep(p)
  BY <1>4, ExitOutcome
     DEF CollectStep, FetchOk, FetchFailed, SaveOne, SaveFailed, RecordRun, EndCollect,
         AfterCollect, Continue, Outcome, OutcomeStep, Idle
<1>5. CASE ScoreStep(p)
  BY <1>5, ExitOutcome
     DEF ScoreStep, ListForScore, ScoreError, ScoreOne, AfterScore, Continue,
         ContinueWith, ScorePC, Outcome, OutcomeStep, Idle
<1>6. CASE NotifyStep(p)
  <2>1. CASE Persist(p) \/ Mark(p)
    BY <2>1, NextRecordOutcome DEF Persist, Mark, Continue, OutcomeStep, Idle
  <2>2. CASE Preview(p)
    <3>1. (IF ctxDone[p] THEN "error" ELSE "ok") \in Outcome
      BY DEF Outcome
    <3> QED BY <2>2, <3>1, ExitOutcome DEF Preview, EndNotify, Idle
  <2>3. CASE ~Persist(p) /\ ~Mark(p) /\ ~Preview(p)
    BY <1>6, <2>3, ExitOutcome
       DEF NotifyStep, Paused, ListForNotify, NotifyError, ListNotified, Post, Abort,
           Reply, EndNotify, Continue, ContinueWith, Outcome, OutcomeStep, Idle
  <2> QED BY <2>1, <2>2, <2>3
<1> QED BY <1>1, <1>2, <1>3, <1>4, <1>5, <1>6 DEF Acting, Work

\* A command that runs has no exit code yet.
NotEnded == \A p \in Proc : ~Idle(p) => outcome[p] = "none"

LEMMA NotEndedAlways == Spec => []NotEnded
<1>1. Init => NotEnded
  BY DEF Init, ProcInit, NotEnded, Idle
<1>2. TypeInv /\ NotEnded /\ [Next]_vars => NotEnded'
  <2> SUFFICES ASSUME TypeInv, NotEnded, [Next]_vars PROVE NotEnded'
    OBVIOUS
  <2>1. CASE UNCHANGED vars
    BY <2>1 DEF vars, procVars, NotEnded, Idle
  <2>2. CASE Next
    <3>1. PICK p \in Proc : Acting(p)
      BY <2>2, NextActs
    <3>2. OutcomeStep(p) /\ \A q \in Proc \ {p} : pc'[q] = pc[q]
      BY <3>1, StepOutcome, ActingKeeps DEF OthersKeep
    <3> QED BY <3>2 DEF OutcomeStep, NotEnded, Idle, TypeInv, TypeOK, ProcTypeOK
  <2> QED BY <2>1, <2>2
<1> QED BY <1>1, <1>2, InitType, NextType, PTL DEF Spec

\* The command of p ends well after its batch: its records were all successes
\* and nothing had cut the batch short.
LEMMA EndsWell ==
    ASSUME TypeInv, NotEnded, [Next]_vars, NEW p \in Proc,
           pc[p] \in {"persist", "mark"}, outcome'[p] = "ok"
    PROVE  /\ ~note[p].aborted
           /\ \A r \in DOMAIN note[p].records : note[p].records[r].result = "success"
<1>1. outcome[p] = "none" /\ outcome'[p] # outcome[p]
  BY DEF NotEnded, Idle
<1>2. PICK q \in Proc : Acting(q)
  BY <1>1, NextActs DEF vars, procVars
<1>3. q = p
  BY <1>1, <1>2, StepOutcome DEF OutcomeStep, TypeInv, TypeOK, ProcTypeOK
<1>4. Persist(p) \/ Mark(p)
  <2>1. ~\E o \in Offered : Start(p, o)
    BY DEF Start, Idle
  <2>2. ~Signal(p) /\ ~Crash(p)
    <3>1. Signal(p) => outcome' = outcome
      BY DEF Signal, Cancel
    <3>2. Crash(p) => outcome'[p] = "killed"
      BY DEF Crash, Exit, TypeInv, TypeOK, ProcTypeOK
    <3> QED BY <1>1, <3>1, <3>2
  <2>3. ~CollectStep(p) /\ ~ScoreStep(p)
    BY DEF CollectStep, FetchOk, FetchFailed, SaveOne, SaveFailed, RecordRun, EndCollect,
           ScoreStep, ListForScore, ScoreError, ScoreOne, ScorePC
  <2>4. NotifyStep(p)
    BY <1>2, <1>3, <2>1, <2>2, <2>3 DEF Acting, Work
  <2> QED BY <2>4 DEF NotifyStep, Paused, ListForNotify, NotifyError, ListNotified,
                      Preview, Post, Abort, Reply
<1> DEFINE n == [note[p] EXCEPT !.done = @ + 1]
<1>5. n.records = note[p].records /\ n.aborted = note[p].aborted
  BY DEF TypeInv, TypeOK, NotifyTypeOK
<1>6. outcome'[p] = ExitCode(n)
  <2>1. NextRecord(p)
    BY <1>1, <1>4 DEF Persist, Mark, Continue
  <2>2. EndNotify(p, ExitCode(n))
    BY <1>1, <2>1 DEF NextRecord, Continue
  <2> HIDE DEF n
  <2> QED BY <2>2 DEF EndNotify, Exit, TypeInv, TypeOK, ProcTypeOK
<1>7. \A r \in DOMAIN note[p].records : note[p].records[r] \in NotificationRow
  BY DEF TypeInv, TypeOK, NotifyTypeOK
<1>8. n.aborted \in BOOLEAN
  BY <1>5 DEF TypeInv, TypeOK, NotifyTypeOK
<1> HIDE DEF n
<1> QED BY <1>5, <1>6, <1>7, <1>8 DEF ExitCode, NotificationRow, Result
-----------------------------------------------------------------------------
(* What a command leaves alone *)

\* Only an active profile collects, asks for the history, or sends; a dry run
\* does not send.
Permitted(p) ==
    /\ pc[p] \in {"save", "saveRun", "listNotified"} => Enabled(p)
    /\ pc[p] = "fetch" /\ ~Enabled(p) => coll[p].failures = {}
    /\ pc[p] \in {"post", "reply", "persist", "mark"} => Enabled(p) /\ ~opts[p].dryRun

LEMMA CollectPermitted ==
    ASSUME TypeInv, NEW p \in Proc, Permitted(p), CollectStep(p)
    PROVE  Permitted(p)'
<1> USE DEF Continue, Exit, Goto, TypeInv, TypeOK, ProcTypeOK
<1>1. CASE ~EndCollect(p)
  <2>1. Enabled(p) /\ opts' = opts
    BY <1>1 DEF CollectStep, FetchOk, FetchFailed, SaveOne, SaveFailed, RecordRun,
                SourcesLeft, Permitted
  <2>2. pc'[p] \in {"save", "saveRun", "fetch"}
    BY <1>1 DEF CollectStep, FetchOk, FetchFailed, SaveOne, SaveFailed, RecordRun
  <2> QED BY <2>1, <2>2 DEF Permitted, Enabled
<1>2. CASE EndCollect(p)
  <2>1. pc'[p] \in {"listForScore", "idle"}
    BY <1>2 DEF EndCollect, AfterCollect
  <2> QED BY <2>1 DEF Permitted
<1> QED BY <1>1, <1>2

LEMMA NotifyPermitted ==
    ASSUME TypeInv, NEW p \in Proc, Permitted(p), NotifyStep(p)
    PROVE  Permitted(p)'
<1>1. CASE ListForNotify(p)
  <2>1. Enabled(p) /\ opts' = opts /\ pc'[p] = "listNotified"
    BY <1>1 DEF ListForNotify, ContinueWith, Goto, TypeInv, TypeOK, ProcTypeOK
  <2> QED BY <2>1 DEF Permitted, Enabled
<1>2. CASE ListNotified(p)
  <2>1. Enabled(p)
    BY <1>2 DEF ListNotified, Permitted
  <2>2. \/ pc'[p] \in {"print", "idle"}
        \/ pc'[p] = "post" /\ opts' = opts /\ UsesSlack(p)
    BY <1>2 DEF ListNotified, EndNotify, Continue, Exit, Goto, TypeInv, TypeOK, ProcTypeOK
  <2> QED BY <2>1, <2>2 DEF Permitted, Enabled, UsesSlack
<1>3. CASE Paused(p) \/ NotifyError(p) \/ Preview(p)
  <2>1. pc'[p] = "idle"
    BY <1>3 DEF Paused, NotifyError, Preview, EndNotify, Exit, Goto, TypeInv, TypeOK,
                ProcTypeOK
  <2> QED BY <2>1 DEF Permitted
<1>4. CASE Post(p) \/ Abort(p) \/ Reply(p) \/ Persist(p) \/ Mark(p)
  <2>1. Enabled(p) /\ ~opts[p].dryRun
    BY <1>4 DEF Permitted, Post, Abort, Reply, Persist, Mark
  <2>2. pc'[p] = "idle" \/ opts' = opts
    BY <1>4 DEF Post, Abort, Reply, Persist, Mark, NextRecord, EndNotify, Continue, Exit,
                Goto, TypeInv, TypeOK, ProcTypeOK
  <2> QED BY <2>1, <2>2 DEF Permitted, Enabled
<1> QED BY <1>1, <1>2, <1>3, <1>4 DEF NotifyStep

LEMMA PermittedAlways == Spec => [](\A p \in Proc : Permitted(p))
<1> DEFINE P == \A p \in Proc : Permitted(p)
<1>1. Init => P
  BY DEF Init, ProcInit, Permitted
<1>2. TypeInv /\ P /\ [Next]_vars => P'
  <2> SUFFICES ASSUME TypeInv, P, [Next]_vars, NEW q \in Proc PROVE Permitted(q)'
    OBVIOUS
  <2>1. CASE UNCHANGED vars
    BY <2>1 DEF vars, procVars, collectVars, Permitted, Enabled
  <2>2. CASE Next
    <3>1. PICK p \in Proc : Acting(p)
      BY <2>2, NextActs
    <3>2. CASE q # p
      BY <3>1, <3>2, ActingKeeps DEF OthersKeep, Permitted, Enabled
    <3>3. CASE q = p /\ (CollectStep(p) \/ NotifyStep(p))
      BY <3>3, CollectPermitted, NotifyPermitted
    <3>4. CASE q = p /\ ScoreStep(p)
      <4>1. pc'[p] \in {"idle", "score", "listForNotify"}
        BY <3>4 DEF ScoreStep, ListForScore, ScoreError, ScoreOne, AfterScore, Continue,
                    ContinueWith, Exit, Goto, TypeInv, TypeOK, ProcTypeOK
      <4> QED BY <3>4, <4>1 DEF Permitted
    <3>5. CASE q = p /\ Signal(p)
      BY <3>5 DEF Signal, Cancel, collectVars, Permitted, Enabled
    <3>6. CASE q = p /\ Crash(p)
      <4>1. pc'[p] = "idle"
        BY <3>6 DEF Crash, Exit, Goto, TypeInv, TypeOK, ProcTypeOK
      <4> QED BY <3>6, <4>1 DEF Permitted
    <3>7. ASSUME q = p, NEW o \in Offered, Start(p, o) PROVE Permitted(q)'
      <4>1. o.cmd \in Command /\ pc'[p] = FirstPC(o.cmd)
        BY <3>7, OfferedAssumption DEF Start, Goto, Options, TypeInv, TypeOK, ProcTypeOK
      <4>2. pc'[p] \in {"fetch", "listForScore", "listForNotify"}
        BY <4>1 DEF FirstPC, Command
      <4>3. pc'[p] = "fetch" => Collects(o)
        BY <4>1 DEF FirstPC, Command, Collects
      <4>4. Collects(o) => coll'[p].failures = {}
        BY <3>7 DEF Start, StartCollect, NoCollect, TypeInv, TypeOK, CollectTypeOK
      <4> QED BY <3>7, <4>2, <4>3, <4>4 DEF Permitted
    <3> QED BY <3>1, <3>2, <3>3, <3>4, <3>5, <3>6, <3>7 DEF Acting, Work
  <2> QED BY <2>1, <2>2
<1> QED BY <1>1, <1>2, InitType, NextType, PTL DEF Spec

\* A paused process touches no run row and no alert, and no row but to rescore.
Hushed == /\ UNCHANGED <<runs, alerts>> /\ Len(jobs') = Len(jobs)
          /\ \A i \in JobId : OnlyRescored(i)

LEMMA SameRowsHushed ==
    ASSUME TypeInv, UNCHANGED <<jobs, runs, alerts>>
    PROVE  Hushed
<1>1. \A i \in JobId : jobs[i] \in JobRow
  BY DEF JobId, TypeInv, TypeOK, StoreTypeOK
<1> QED BY <1>1 DEF Hushed, OnlyRescored, JobRow

LEMMA RescoreHushed ==
    ASSUME TypeInv, UNCHANGED <<runs, alerts>>, NEW k, NEW score, NEW status,
           UpdateScore(k, score, status)
    PROVE  Hushed
<1>1. jobs \in Seq(JobRow)
  BY DEF TypeInv, TypeOK, StoreTypeOK
<1>2. Len(jobs') = Len(jobs)
  BY <1>1 DEF UpdateScore
<1>3. ASSUME NEW i \in JobId PROVE OnlyRescored(i)
  <2>1. jobs[i] \in JobRow
    BY <1>1 DEF JobId
  <2>2. \/ jobs'[i] = jobs[i]
        \/ jobs'[i] = [jobs[i] EXCEPT !.score = score, !.status = status]
    BY <1>1 DEF UpdateScore, JobId
  <2> QED BY <2>1, <2>2 DEF OnlyRescored, JobRow
<1> QED BY <1>2, <1>3 DEF Hushed

\* A dry run and a command under a paused profile send nothing and leave the
\* history alone; the paused one collects nothing and touches no row but to
\* rescore it.
THEOREM QuietStaysQuiet == Spec => QuietCommandsStayQuiet
<1> DEFINE P == \A p \in Proc : Permitted(p)
           A == \A p \in Proc : (~Idle(p) /\ Acts(p)) =>
                  /\ opts[p].dryRun \/ ~Enabled(p) => UNCHANGED <<slack, notifications>>
                  /\ ~Enabled(p) => /\ UNCHANGED <<runs, alerts>>
                                    /\ Len(jobs') = Len(jobs)
                                    /\ \A i \in JobId : OnlyRescored(i)
<1>1. TypeInv /\ P /\ [Next]_vars => A
  <2> SUFFICES ASSUME TypeInv, P, [Next]_vars, NEW p \in Proc, ~Idle(p), Acts(p)
               PROVE  /\ opts[p].dryRun \/ ~Enabled(p) => UNCHANGED <<slack, notifications>>
                      /\ ~Enabled(p) => Hushed
    BY DEF Hushed
  <2>1. PICK q \in Proc : Acting(q)
    BY NextActs DEF Acts, vars, procVars, collectVars, scoreVars, notifyVars
  <2>2. q = p
    BY <2>1, ActingKeeps DEF OthersKeep, Acts
  <2>3. CASE NotifyStep(p) /\ UNCHANGED collectVars
    <3>1. \/ UNCHANGED <<slack, notifications>>
          \/ pc[p] \in {"post", "reply", "persist", "mark"}
      BY <2>3 DEF NotifyStep, Paused, ListForNotify, NotifyError, ListNotified, Preview,
                  Post, Abort, Reply, Persist, Mark, storeVars, notifyVars
    <3>2. jobs' = jobs \/ pc[p] = "mark"
      BY <2>3 DEF NotifyStep, Paused, ListForNotify, NotifyError, ListNotified, Preview,
                  Post, Abort, Reply, Persist, Mark, storeVars
    <3>3. UNCHANGED <<runs, alerts>>
      BY <2>3 DEF NotifyStep, Paused, ListForNotify, NotifyError, ListNotified, Preview,
                  Post, Abort, Reply, Persist, Mark, storeVars, collectVars
    <3> QED BY <3>1, <3>2, <3>3, SameRowsHushed DEF Permitted
  <2>4. CASE CollectStep(p) /\ UNCHANGED notifyVars
    <3>1. UNCHANGED <<slack, notifications>>
      BY <2>4 DEF CollectStep, FetchOk, FetchFailed, SaveOne, SaveFailed, RecordRun,
                  EndCollect, storeVars, notifyVars
    <3>2. ~Enabled(p) => EndCollect(p) /\ ~SourcesLeft(p) /\ coll[p].failures = {}
      BY <2>4 DEF CollectStep, FetchOk, FetchFailed, SaveOne, SaveFailed, RecordRun,
                  EndCollect, SourcesLeft, Permitted
    <3>3. ~Enabled(p) => UNCHANGED <<jobs, runs, alerts>>
      BY <3>2 DEF EndCollect, NotifyFailures, storeVars
    <3> QED BY <3>1, <3>3, SameRowsHushed
  <2>5. CASE ScoreStep(p) /\ UNCHANGED <<collectVars, notifyVars>>
    <3>1. UNCHANGED <<slack, notifications, runs, alerts>>
      BY <2>5 DEF ScoreStep, ListForScore, ScoreError, ScoreOne, storeVars, notifyVars,
                  collectVars
    <3>2. jobs' = jobs \/ \E k, score, status : UpdateScore(k, score, status)
      BY <2>5 DEF ScoreStep, ListForScore, ScoreError, ScoreOne, storeVars
    <3> QED BY <3>1, <3>2, SameRowsHushed, RescoreHushed
  <2>6. CASE Signal(p) \/ Crash(p)
    <3>1. UNCHANGED <<slack, notifications, jobs, runs, alerts>>
      BY <2>6 DEF Signal, Crash, storeVars, notifyVars, collectVars
    <3> QED BY <3>1, SameRowsHushed
  <2> QED BY <2>1, <2>2, <2>3, <2>4, <2>5, <2>6 DEF Acting, Work, Start
<1> QED BY <1>1, InitType, NextType, PermittedAlways, PTL DEF Spec, QuietCommandsStayQuiet
-----------------------------------------------------------------------------
(* What the steps of Notify do to the notes of the process that takes them *)

Sending == {"post", "reply", "persist", "mark"}

\* The fields of the notes that a batch keeps from its first message on.
SameBatch(p) ==
    /\ snapshot'[p] = snapshot[p] /\ opts'[p] = opts[p]
    /\ note'[p].known = note[p].known

LEMMA ContinueFacts ==
    ASSUME TypeInv, NEW p \in Proc, NEW l, Continue(p, l)
    PROVE  pc'[p] = l /\ opts'[p] = opts[p] /\ snapshot'[p] = snapshot[p]
BY DEF Continue, Goto, TypeInv, TypeOK, ProcTypeOK

LEMMA EndNotifyFacts ==
    ASSUME TypeInv, NEW p \in Proc, NEW o, EndNotify(p, o)
    PROVE  pc'[p] = "idle" /\ note'[p] = NoNote
BY DEF EndNotify, Exit, Goto, TypeInv, TypeOK, ProcTypeOK, NotifyTypeOK

LEMMA PostFacts ==
    ASSUME TypeInv, NEW p \in Proc, Post(p)
    PROVE  \E i \in note[p].items, k \in {0, Len(slack) + 1} :
             /\ k = 0 => slack' = slack
             /\ k # 0 => slack' = Append(slack, MessageFor(p, i))
             /\ note'[p].items = note[p].items /\ note'[p].current = i
             /\ note'[p].inflight = k /\ note'[p].records = note[p].records
             /\ note'[p].done = note[p].done /\ note'[p].aborted = note[p].aborted
             /\ pc'[p] = "reply" /\ SameBatch(p) /\ UNCHANGED storeVars
<1>1. PICK i \in note[p].items, k \in {0, Len(slack) + 1} :
        /\ note' = [note EXCEPT ![p].current = i, ![p].inflight = k]
        /\ \/ k # 0 /\ slack' = Append(slack, MessageFor(p, i))
           \/ k = 0 /\ slack' = slack
  <2>1. Len(slack) + 1 # 0
    BY DEF TypeInv, TypeOK, NotifyTypeOK
  <2> QED BY <2>1 DEF Post
<1>2. note \in [Proc -> NoteType]
  BY DEF TypeInv, TypeOK, NotifyTypeOK, NoteType
<1>3. pc'[p] = "reply" /\ opts'[p] = opts[p] /\ snapshot'[p] = snapshot[p]
  BY DEF Post, Goto, TypeInv, TypeOK, ProcTypeOK
<1>4. /\ note'[p].items = note[p].items /\ note'[p].current = i
      /\ note'[p].inflight = k /\ note'[p].records = note[p].records
      /\ note'[p].done = note[p].done /\ note'[p].known = note[p].known
      /\ note'[p].aborted = note[p].aborted
  BY <1>1, <1>2 DEF NoteType
<1> QED BY <1>1, <1>3, <1>4 DEF Post, SameBatch

\* The record that the answer ok to the message of p leaves.
RecordOf(p, ok) ==
    [job |-> note[p].current,
     hash |-> MaterialHash[snapshot[p][note[p].current].content],
     result |-> ResultOf(ok)]

LEMMA ReplyFacts ==
    ASSUME TypeInv, NEW p \in Proc, Reply(p)
    PROVE  \E ok \in BOOLEAN :
             /\ ok => note[p].inflight # 0
             /\ slack' = IF ok THEN [slack EXCEPT ![note[p].inflight].acked = TRUE] ELSE slack
             /\ note'[p].items = note[p].items \ {note[p].current}
             /\ note'[p].records = Append(note[p].records, RecordOf(p, ok))
             /\ note'[p].done = note[p].done /\ note'[p].aborted = note[p].aborted
             /\ pc'[p] \in {"persist", "post"} /\ SameBatch(p) /\ UNCHANGED storeVars
             /\ pc'[p] = "persist" => note'[p].items = {}
<1> DEFINE left == note[p].items \ {note[p].current}
           l == IF left = {} THEN "persist" ELSE "post"
<1>1. PICK ok \in BOOLEAN :
        /\ ok => note[p].inflight # 0
        /\ slack' = IF ok THEN [slack EXCEPT ![note[p].inflight].acked = TRUE] ELSE slack
        /\ note' = [note EXCEPT ![p].items = left, ![p].current = 0, ![p].inflight = 0,
                      ![p].records = Append(note[p].records, RecordOf(p, ok))]
        /\ Continue(p, l)
  BY DEF Reply, RecordOf
<1>2. note \in [Proc -> NoteType]
  BY DEF TypeInv, TypeOK, NotifyTypeOK, NoteType
<1>3. pc'[p] = l /\ opts'[p] = opts[p] /\ snapshot'[p] = snapshot[p]
  BY <1>1, ContinueFacts
<1>4. l \in {"persist", "post"} /\ (l = "persist" => left = {})
  OBVIOUS
<1>5. PICK R : R = Append(note[p].records, RecordOf(p, ok))
  OBVIOUS
<1> HIDE DEF left, l
<1>6. /\ note'[p].items = left /\ note'[p].records = R
      /\ note'[p].done = note[p].done /\ note'[p].known = note[p].known
      /\ note'[p].aborted = note[p].aborted
  BY <1>1, <1>2, <1>5 DEF NoteType
<1> QED BY <1>1, <1>3, <1>4, <1>5, <1>6 DEF Reply, SameBatch, left

LEMMA AbortFacts ==
    ASSUME TypeInv, NEW p \in Proc, Abort(p)
    PROVE  /\ UNCHANGED <<storeVars, slack>>
           /\ \/ pc'[p] = "idle" /\ note'[p] = NoNote /\ note[p].records = <<>>
              \/ /\ pc'[p] = "persist" /\ SameBatch(p) /\ note'[p].items = {}
                 /\ note'[p].records = note[p].records /\ note'[p].done = note[p].done
                 /\ note'[p].aborted
<1>1. CASE note[p].records = <<>> /\ EndNotify(p, "error")
  BY <1>1, EndNotifyFacts DEF Abort
<1>2. CASE /\ note' = [note EXCEPT ![p].aborted = TRUE, ![p].items = {}]
           /\ Continue(p, "persist")
  <2>1. note \in [Proc -> NoteType]
    BY DEF TypeInv, TypeOK, NotifyTypeOK, NoteType
  <2>2. /\ note'[p].items = {} /\ note'[p].records = note[p].records
        /\ note'[p].done = note[p].done /\ note'[p].known = note[p].known
        /\ note'[p].aborted
    BY <1>2, <2>1 DEF NoteType
  <2> QED BY <1>2, <2>2, ContinueFacts DEF Abort, SameBatch
<1> QED BY <1>1, <1>2 DEF Abort

LEMMA NextRecordFacts ==
    ASSUME TypeInv, NEW p \in Proc, NextRecord(p)
    PROVE  \/ /\ pc'[p] = "idle" /\ note'[p] = NoNote
              /\ note[p].done + 1 = Len(note[p].records)
           \/ /\ pc'[p] = "persist" /\ SameBatch(p) /\ note'[p].items = note[p].items
              /\ note'[p].records = note[p].records /\ note'[p].done = note[p].done + 1
              /\ note'[p].aborted = note[p].aborted
<1> DEFINE n == [note[p] EXCEPT !.done = note[p].done + 1]
<1>1. note \in [Proc -> NoteType] /\ note[p] \in NoteType
  BY DEF TypeInv, TypeOK, NotifyTypeOK, NoteType
<1>2. /\ n.items = note[p].items /\ n.records = note[p].records
      /\ n.done = note[p].done + 1 /\ n.known = note[p].known
      /\ n.aborted = note[p].aborted
  BY <1>1 DEF NoteType
<1>3. \/ n.done = Len(n.records) /\ EndNotify(p, ExitCode(n))
      \/ note' = [note EXCEPT ![p] = n] /\ Continue(p, "persist")
  BY DEF NextRecord
<1> HIDE DEF n
<1>4. CASE n.done = Len(n.records) /\ EndNotify(p, ExitCode(n))
  BY <1>2, <1>4, EndNotifyFacts
<1>5. CASE note' = [note EXCEPT ![p] = n] /\ Continue(p, "persist")
  <2>1. note'[p] = n
    BY <1>1, <1>5
  <2> QED BY <1>2, <1>5, <2>1, ContinueFacts DEF SameBatch
<1> QED BY <1>3, <1>4, <1>5

\* The record that persist or mark is about.
InHand(p) == note[p].records[note[p].done + 1]

LEMMA PersistFacts ==
    ASSUME TypeInv, NEW p \in Proc, Persist(p)
    PROVE  /\ UNCHANGED <<jobs, slack>>
           /\ \/ notifications' = Append(notifications, InHand(p))
              \/ Fault("record") /\ notifications' = notifications
           /\ \/ /\ InHand(p).result = "success" /\ pc'[p] = "mark"
                 /\ note'[p] = note[p] /\ SameBatch(p)
              \/ InHand(p).result # "success" /\ NextRecord(p)
BY ContinueFacts DEF Persist, InHand, SaveNotification, MarksJob, SameBatch

LEMMA ListNotifiedFacts ==
    ASSUME TypeInv, NEW p \in Proc, ListNotified(p)
    PROVE  /\ UNCHANGED <<storeVars, slack>>
           /\ \/ pc'[p] = "print" /\ note'[p] = note[p]
              \/ pc'[p] = "idle" /\ note'[p] = NoNote
              \/ /\ pc'[p] = "post" /\ snapshot'[p] = snapshot[p] /\ opts'[p] = opts[p]
                 /\ note'[p].known = [i \in DOMAIN snapshot[p] |-> NotifiedHash(i)]
                 /\ note'[p].items = SelectTargets(snapshot[p], note'[p].known,
                                                   opts[p].profile.threshold)
                 /\ note'[p].records = <<>> /\ note'[p].done = 0
<1> DEFINE known == [i \in DOMAIN snapshot[p] |-> NotifiedHash(i)]
           items == SelectTargets(snapshot[p], known, opts[p].profile.threshold)
           n == [NoNote EXCEPT !.known = known, !.items = items]
<1>1. /\ UNCHANGED <<storeVars, slack>>
      /\ \/ Continue(p, "print") /\ note' = note
         \/ EndNotify(p, "ok")
         \/ note' = [note EXCEPT ![p] = n] /\ Continue(p, "post")
  BY DEF ListNotified
<1>2. n.known = known /\ n.items = items /\ n.records = <<>> /\ n.done = 0
  BY DEF NoNote
<1> HIDE DEF n
<1>3. CASE note' = [note EXCEPT ![p] = n] /\ Continue(p, "post")
  <2>1. note'[p] = n
    BY <1>3 DEF TypeInv, TypeOK, NotifyTypeOK
  <2> QED BY <1>1, <1>2, <1>3, <2>1, ContinueFacts
<1> QED BY <1>1, <1>3, ContinueFacts, EndNotifyFacts

\* Every other step leaves the channel and the history alone, and the process
\* with no batch.
Notifies(p) == ListNotified(p) \/ Post(p) \/ Abort(p) \/ Reply(p) \/ Persist(p) \/ Mark(p)

LEMMA OtherFacts ==
    ASSUME TypeInv, NEW p \in Proc, Acting(p), ~Notifies(p), ~Signal(p)
    PROVE  /\ UNCHANGED <<slack, notifications>>
           /\ pc[p] \in Sending => Crash(p)
           /\ pc'[p] \notin Sending
           /\ note'[p] = note[p] \/ note'[p] = NoNote
<1> USE DEF Sending, TypeInv, TypeOK, ProcTypeOK, NotifyTypeOK
<1>1. CASE \E o \in Offered : Start(p, o)
  <2>1. pc'[p] \in {"fetch", "listForScore", "listForNotify"}
    BY <1>1, OfferedAssumption DEF Start, Goto, FirstPC, Options, Command
  <2> QED BY <1>1, <2>1 DEF Start, storeVars, notifyVars, Idle
<1>2. CASE Crash(p)
  BY <1>2 DEF Crash, Exit, Goto, storeVars
<1>3. CASE CollectStep(p) /\ UNCHANGED notifyVars
  <2>1. pc'[p] \in {"save", "saveRun", "fetch", "listForScore", "idle"}
    BY <1>3 DEF CollectStep, FetchOk, FetchFailed, SaveOne, SaveFailed, RecordRun,
                EndCollect, AfterCollect, Continue, Exit, Goto
  <2>2. UNCHANGED notifications /\ pc[p] \in {"fetch", "save", "saveRun"}
    BY <1>3 DEF CollectStep, FetchOk, FetchFailed, SaveOne, SaveFailed, RecordRun,
                EndCollect, storeVars
  <2> QED BY <1>3, <2>1, <2>2 DEF notifyVars
<1>4. CASE ScoreStep(p) /\ UNCHANGED notifyVars
  <2>1. pc'[p] \in {"idle", "score", "listForNotify"}
    BY <1>4 DEF ScoreStep, ListForScore, ScoreError, ScoreOne, AfterScore, Continue,
                ContinueWith, Exit, Goto
  <2>2. UNCHANGED notifications /\ pc[p] \in ScorePC
    BY <1>4 DEF ScoreStep, ListForScore, ScoreError, ScoreOne, storeVars, ScorePC
  <2> QED BY <1>4, <2>1, <2>2 DEF notifyVars, ScorePC
<1>5. CASE Paused(p) \/ NotifyError(p) \/ Preview(p)
  <2>1. /\ UNCHANGED <<storeVars, slack>> /\ \E o : EndNotify(p, o)
        /\ pc[p] \in {"listForNotify", "listNotified", "print"}
    BY <1>5 DEF Paused, NotifyError, Preview
  <2> QED BY <2>1, EndNotifyFacts DEF storeVars
<1>6. CASE ListForNotify(p)
  BY <1>6 DEF ListForNotify, ContinueWith, Goto, storeVars, notifyVars
<1> QED BY <1>1, <1>2, <1>3, <1>4, <1>5, <1>6 DEF Acting, Work, NotifyStep, Notifies
\* Where the steps outside a stage do not lead.
LEMMA Elsewhere ==
    ASSUME TypeInv, NEW p \in Proc, Acting(p), ~Signal(p)
    PROVE  /\ pc'[p] \in {"save", "saveRun"} => CollectStep(p)
           /\ pc'[p] = "score" => ListForScore(p) \/ ScoreOne(p)
           /\ pc'[p] = "listForNotify" =>
                 \/ \E o \in Offered : Start(p, o) /\ o.cmd = "notify"
                 \/ (ListForScore(p) \/ ScoreOne(p)) /\ AfterScore(p)
           /\ pc'[p] = "listNotified" => ListForNotify(p)
           /\ pc'[p] = "post" => ListNotified(p) \/ Reply(p)
           /\ pc'[p] = "reply" => Post(p)
<1> USE DEF TypeInv, TypeOK, ProcTypeOK
<1>1. CASE CollectStep(p)
  <2>1. pc'[p] \in {"save", "saveRun", "fetch", "idle", "listForScore"}
    BY <1>1 DEF CollectStep, FetchOk, FetchFailed, SaveOne, SaveFailed, RecordRun,
                EndCollect, AfterCollect, Continue, Exit, Goto
  <2> QED BY <1>1, <2>1
<1>2. CASE ScoreStep(p)
  <2>1. CASE ScoreError(p)
    BY <2>1 DEF ScoreError, Exit, Goto
  <2>2. CASE ListForScore(p) \/ ScoreOne(p)
    <3>1. AfterScore(p) \/ ContinueWith(p, "score", jobs) \/ Continue(p, "score")
      BY <2>2 DEF ListForScore, ScoreOne
    <3>2. pc'[p] \in {"idle", "listForNotify", "score"}
      BY <3>1 DEF AfterScore, Continue, ContinueWith, Exit, Goto
    <3>3. pc'[p] = "listForNotify" => AfterScore(p)
      BY <3>1 DEF Continue, ContinueWith, Goto
    <3> QED BY <2>2, <3>2, <3>3
  <2> QED BY <1>2, <2>1, <2>2 DEF ScoreStep
<1>3. CASE Notifies(p)
  <2>1. CASE Persist(p) \/ Mark(p)
    <3>1. pc'[p] \in {"idle", "persist", "mark"}
      BY <2>1, PersistFacts, NextRecordFacts DEF Mark
    <3> QED BY <3>1
  <2>2. CASE Post(p) \/ Abort(p)
    BY <2>2, PostFacts, AbortFacts
  <2>3. CASE Reply(p) \/ ListNotified(p)
    <3>1. pc'[p] \in {"persist", "post", "print", "idle"}
      BY <2>3, ReplyFacts, ListNotifiedFacts
    <3> QED BY <2>3, <3>1
  <2> QED BY <1>3, <2>1, <2>2, <2>3 DEF Notifies
<1>4. CASE Paused(p) \/ NotifyError(p) \/ Preview(p) \/ Crash(p)
  <2>1. pc'[p] = "idle"
    BY <1>4 DEF Paused, NotifyError, Preview, EndNotify, Crash, Exit, Goto
  <2> QED BY <2>1
<1>5. CASE ListForNotify(p)
  BY <1>5 DEF ListForNotify, ContinueWith, Goto
<1>6. CASE \E o \in Offered : Start(p, o)
  <2>1. PICK o \in Offered : Start(p, o)
    BY <1>6
  <2>2. o.cmd \in Command /\ pc'[p] = FirstPC(o.cmd)
    BY <2>1, OfferedAssumption DEF Start, Goto, Options
  <2> QED BY <2>1, <2>2 DEF FirstPC, Command
<1> QED BY <1>1, <1>2, <1>3, <1>4, <1>5, <1>6 DEF Acting, Work, NotifyStep, Notifies

-----------------------------------------------------------------------------
(* What becomes of an answer: when no process is killed and no record fails *)

\* A process that does not send has no notes.
NoteIdle(p) == pc[p] \notin Sending => note[p] = NoNote

\* The job that is about to be marked has its row in the history.
MarkRecorded(p) ==
    pc[p] = "mark" => \E n \in DOMAIN notifications : notifications[n] = InHand(p)

\* The table has the row, or the process p has yet to write it.
Written(row) == \E n \in DOMAIN notifications : notifications[n] = row
Held(p, row) ==
    \E r \in DOMAIN note[p].records : r > note[p].done /\ note[p].records[r] = row

AckInv ==
    /\ AckedIsRecorded
    /\ \A p \in Proc : NoteIdle(p) /\ MarkRecorded(p)

LEMMA HistoryGrows ==
    ASSUME TypeInv, NEW p \in Proc, Acting(p)
    PROVE  \/ notifications' = notifications
           \/ Persist(p) /\ notifications' = Append(notifications, InHand(p))
<1>1. CASE Notifies(p)
  BY <1>1, ListNotifiedFacts, PostFacts, AbortFacts, ReplyFacts, PersistFacts
     DEF Notifies, Mark, storeVars
<1>2. CASE Signal(p)
  BY <1>2 DEF Signal, storeVars
<1> QED BY <1>1, <1>2, OtherFacts

LEMMA WrittenStays ==
    ASSUME TypeInv, NEW p \in Proc, Acting(p), NEW row
    PROVE  Written(row) => Written(row)'
<1>1. notifications \in Seq(NotificationRow)
  BY DEF TypeInv, TypeOK, StoreTypeOK
<1>2. notifications' = notifications \/ \E r : notifications' = Append(notifications, r)
  BY HistoryGrows
<1> QED BY <1>1, <1>2 DEF Written

LEMMA NoteIdleStep ==
    ASSUME TypeInv, NEW p \in Proc, Acting(p), NoteIdle(p)
    PROVE  NoteIdle(p)'
<1>1. CASE Post(p) \/ Abort(p) \/ Reply(p) \/ ListNotified(p)
  BY <1>1, PostFacts, AbortFacts, ReplyFacts, ListNotifiedFacts
     DEF NoteIdle, Sending, ListNotified
<1>2. CASE Persist(p) \/ Mark(p)
  BY <1>2, PersistFacts, NextRecordFacts DEF NoteIdle, Sending, Mark
<1>3. CASE Signal(p)
  BY <1>3 DEF Signal, Cancel, notifyVars, NoteIdle
<1>4. CASE ~Notifies(p) /\ ~Signal(p)
  <2>1. CASE Crash(p)
    BY <2>1 DEF Crash, NoteIdle, TypeInv, TypeOK, NotifyTypeOK
  <2>2. CASE ~Crash(p)
    <3>1. /\ pc[p] \notin Sending
          /\ note'[p] = note[p] \/ note'[p] = NoNote
      BY <1>4, <2>2, OtherFacts
    <3> QED BY <3>1 DEF NoteIdle
  <2> QED BY <2>1, <2>2
<1> QED BY <1>1, <1>2, <1>3, <1>4 DEF Notifies

LEMMA MarkRecordedStep ==
    ASSUME TypeInv, "record" \notin FaultKinds, NEW p \in Proc, Acting(p), MarkRecorded(p)
    PROVE  MarkRecorded(p)'
<1>1. CASE Persist(p) /\ pc'[p] = "mark"
  <2>1. /\ notifications' = Append(notifications, InHand(p))
        /\ note'[p] = note[p]
    BY <1>1, PersistFacts, NextRecordFacts DEF Fault
  <2>2. notifications \in Seq(NotificationRow)
    BY DEF TypeInv, TypeOK, StoreTypeOK
  <2>3. Len(notifications) + 1 \in DOMAIN notifications'
    BY <2>1, <2>2
  <2>4. notifications'[Len(notifications) + 1] = InHand(p) /\ InHand(p)' = InHand(p)
    BY <2>1, <2>2 DEF InHand
  <2> QED BY <2>3, <2>4 DEF MarkRecorded
<1>2. CASE Signal(p)
  BY <1>2 DEF Signal, Cancel, storeVars, notifyVars, MarkRecorded, InHand
<1>3. CASE ~Signal(p) /\ ~Persist(p)
  <2>1. pc'[p] # "mark"
    BY <1>3, OtherFacts, PostFacts, AbortFacts, ReplyFacts, ListNotifiedFacts,
       NextRecordFacts DEF Notifies, Mark, Sending
  <2> QED BY <2>1 DEF MarkRecorded
<1>4. CASE pc'[p] # "mark"
  BY <1>4 DEF MarkRecorded
<1> QED BY <1>1, <1>2, <1>3, <1>4

\* A row that a process holds reaches the table before it is let go.
LEMMA HeldStays ==
    ASSUME TypeInv, "record" \notin FaultKinds, "crash" \notin FaultKinds,
           NEW p \in Proc, Acting(p), NoteIdle(p), MarkRecorded(p), NEW row, Held(p, row)
    PROVE  Held(p, row)' \/ Written(row)'
<1>1. PICK r \in DOMAIN note[p].records :
          r > note[p].done /\ note[p].records[r] = row
  BY DEF Held
<1>2. /\ note[p].records \in Seq(NotificationRow) /\ note[p].done \in Nat /\ r \in Nat
      /\ r <= Len(note[p].records) /\ DOMAIN note[p].records = 1..Len(note[p].records)
  BY <1>1 DEF TypeInv, TypeOK, NotifyTypeOK
<1>3. pc[p] \in Sending /\ note[p].records # <<>>
  BY <1>1 DEF NoteIdle, NoNote
<1>4. CASE /\ note'[p].records = note[p].records
           /\ note'[p].done = note[p].done
  BY <1>1, <1>4 DEF Held
<1>5. CASE Reply(p)
  <2>1. PICK rec : note'[p].records = Append(note[p].records, rec)
                   /\ note'[p].done = note[p].done
    BY <1>5, ReplyFacts
  <2>2. r \in DOMAIN note'[p].records /\ note'[p].records[r] = row
    BY <1>1, <1>2, <2>1
  <2> QED BY <1>1, <2>1, <2>2 DEF Held
<1>6. CASE Persist(p) \/ Mark(p)
  <2>1. PICK rec : rec = InHand(p)
    OBVIOUS
  <2>2. Written(rec)'
    <3>1. CASE Persist(p)
      <4>1. notifications' = Append(notifications, rec)
        BY <2>1, <3>1, PersistFacts DEF Fault
      <4>2. notifications \in Seq(NotificationRow)
        BY DEF TypeInv, TypeOK, StoreTypeOK
      <4>3. /\ Len(notifications) + 1 \in DOMAIN notifications'
            /\ notifications'[Len(notifications) + 1] = rec
        BY <4>1, <4>2
      <4> QED BY <4>3 DEF Written
    <3>2. CASE Mark(p)
      <4>1. Written(rec)
        BY <2>1, <3>2 DEF Mark, MarkRecorded, Written
      <4> QED BY <4>1, WrittenStays
    <3> QED BY <1>6, <3>1, <3>2
  <2>3. CASE r = note[p].done + 1
    BY <1>1, <2>1, <2>2, <2>3 DEF InHand
  <2>4. CASE r # note[p].done + 1
    <3>1. r > note[p].done + 1
      BY <1>1, <1>2, <2>4
    <3>2. CASE NextRecord(p)
      <4>1. /\ note'[p].records = note[p].records
            /\ note'[p].done = note[p].done + 1
        BY <1>2, <3>1, <3>2, NextRecordFacts
      <4> QED BY <1>1, <3>1, <4>1 DEF Held
    <3>3. CASE note'[p] = note[p]
      BY <1>4, <3>3
    <3> QED BY <1>6, <3>2, <3>3, PersistFacts DEF Mark
  <2> QED BY <2>3, <2>4
<1>7. CASE Signal(p)
  BY <1>4, <1>7 DEF Signal, notifyVars
<1>8. CASE Post(p) \/ Abort(p)
  BY <1>3, <1>4, <1>8, PostFacts, AbortFacts
<1>9. ~Crash(p) /\ ~ListNotified(p)
  BY <1>3 DEF Crash, Fault, ListNotified, Sending
<1> QED BY <1>3, <1>5, <1>6, <1>7, <1>8, <1>9, OtherFacts DEF Notifies

\* The messages whose answer a step brings, and those it leaves as they were.
LEMMA NewlyAcked ==
    ASSUME TypeInv, DeliveryInv, NEW p \in Proc, Acting(p),
           NEW n \in DOMAIN slack', slack'[n].acked
    PROVE  \/ n \in DOMAIN slack /\ slack[n].acked
           \/ Reply(p) /\ n \in DOMAIN slack /\ Held(p, SuccessRow(slack[n]))'
<1>1. slack \in Seq(Message)
  BY DEF TypeInv, TypeOK, NotifyTypeOK
<1>2. CASE Post(p)
  <2>1. PICK i : slack' = slack \/ slack' = Append(slack, MessageFor(p, i))
    BY <1>2, PostFacts
  <2>2. ~MessageFor(p, i).acked
    BY DEF MessageFor
  <2>3. PICK m : m = MessageFor(p, i)
    OBVIOUS
  <2> QED BY <1>1, <2>1, <2>2, <2>3
<1>3. CASE Reply(p)
  <2> DEFINE k == note[p].inflight
  <2>1. PICK ok \in BOOLEAN :
          /\ ok => k # 0
          /\ slack' = IF ok THEN [slack EXCEPT ![k].acked = TRUE] ELSE slack
          /\ note'[p].records = Append(note[p].records, RecordOf(p, ok))
          /\ note'[p].done = note[p].done
    BY <1>3, ReplyFacts
  <2>2. CASE ~ok \/ n # k
    BY <1>1, <2>1, <2>2
  <2>3. CASE ok /\ n = k
    <3>1. n \in DOMAIN slack
      BY <1>1, <2>1, <2>3
    <3>2. slack[n].job = note[p].current /\ slack[n].content = snapshot[p][note[p].current].content
      BY <1>3, <2>1, <2>3 DEF Reply, DeliveryInv, Truthful, InflightTrue
    <3>3. slack[n] \in Message /\ slack'[n] = [slack[n] EXCEPT !.acked = TRUE]
      BY <1>1, <2>1, <2>3, <3>1
    <3>4. PICK rec : rec = RecordOf(p, ok)
      OBVIOUS
    <3>5. rec = SuccessRow(slack'[n])
      <4>1. slack'[n].job = slack[n].job /\ slack'[n].content = slack[n].content
        BY <3>3 DEF Message
      <4> QED BY <2>3, <3>2, <3>4, <4>1 DEF RecordOf, SuccessRow, ResultOf
    <3>6. /\ note[p].records \in Seq(NotificationRow) /\ note[p].done = 0
      BY <1>3 DEF Reply, TypeInv, TypeOK, NotifyTypeOK, Bounds
    <3>7. /\ Len(note[p].records) + 1 \in DOMAIN note'[p].records
          /\ note'[p].records[Len(note[p].records) + 1] = rec
          /\ Len(note[p].records) + 1 > note'[p].done
      BY <2>1, <3>4, <3>6
    <3>8. Held(p, SuccessRow(slack[n]))'
      BY <3>5, <3>7 DEF Held
    <3> QED BY <1>3, <3>1, <3>8
  <2> QED BY <2>1, <2>2, <2>3
<1>4. CASE ~Post(p) /\ ~Reply(p)
  <2>1. slack' = slack
    BY <1>4, OtherFacts, AbortFacts, ListNotifiedFacts, PersistFacts
       DEF Notifies, Mark, Signal, notifyVars
  <2> QED BY <2>1
<1> QED BY <1>2, <1>3, <1>4

LEMMA AckStep ==
    ASSUME TypeInv, DeliveryInv, "record" \notin FaultKinds, "crash" \notin FaultKinds,
           AckInv, [Next]_vars
    PROVE  AckInv'
<1>1. CASE UNCHANGED vars
  BY <1>1 DEF vars, storeVars, procVars, notifyVars, AckInv, AckedIsRecorded, Recorded,
              SuccessRow, NoteIdle, MarkRecorded, InHand
<1>2. CASE Next
  <2>1. PICK p \in Proc : Acting(p)
    BY <1>2, NextActs
  <2>2. ASSUME NEW q \in Proc \ {p}, NEW row PROVE Held(q, row)' <=> Held(q, row)
    BY <2>1, ActingKeeps DEF OthersKeep, Held
  <2>3. ASSUME NEW q \in Proc PROVE NoteIdle(q)' /\ MarkRecorded(q)'
    <3>1. CASE q = p
      BY <2>1, <3>1, NoteIdleStep, MarkRecordedStep DEF AckInv
    <3>2. CASE q # p
      <4>1. pc'[q] = pc[q] /\ note'[q] = note[q]
        BY <2>1, <3>2, ActingKeeps DEF OthersKeep
      <4>2. NoteIdle(q)'
        BY <4>1 DEF AckInv, NoteIdle
      <4>3. ASSUME pc'[q] = "mark" PROVE \E n \in DOMAIN notifications' : notifications'[n] = InHand(q)'
        <5>1. PICK rec : rec = InHand(q)
          OBVIOUS
        <5>2. Written(rec)
          BY <4>1, <4>3, <5>1 DEF AckInv, MarkRecorded, Written
        <5>3. Written(rec)' /\ InHand(q)' = rec
          BY <2>1, <4>1, <5>1, <5>2, WrittenStays DEF InHand
        <5> QED BY <5>3 DEF Written
      <4> QED BY <4>2, <4>3 DEF MarkRecorded
    <3> QED BY <3>1, <3>2
  <2>4. ASSUME NEW n \in DOMAIN slack', slack'[n].acked, NEW row, row = SuccessRow(slack'[n])
        PROVE  Written(row)' \/ \E q \in Proc : Held(q, row)'
    <3>1. SlackGrows
      BY <2>1, ActingKeeps
    <3>2. CASE n \in DOMAIN slack /\ slack[n].acked
      <4>1. row = SuccessRow(slack[n])
        BY <2>4, <3>1, <3>2 DEF SlackGrows, SuccessRow
      <4>2. Written(row) \/ \E q \in Proc : Held(q, row)
        BY <3>2, <4>1 DEF AckInv, AckedIsRecorded, Recorded, Written, Held
      <4> QED BY <2>1, <2>2, <4>2, WrittenStays, HeldStays DEF AckInv
    <3>3. CASE n \in DOMAIN slack /\ Held(p, SuccessRow(slack[n]))'
      BY <2>4, <3>3
    <3> QED BY <2>1, <2>4, <3>2, <3>3, NewlyAcked
  <2>5. AckedIsRecorded'
    BY <2>4 DEF AckedIsRecorded, Recorded, Written, Held
  <2> QED BY <2>3, <2>5 DEF AckInv
<1> QED BY <1>1, <1>2

\* As long as nothing kills a process and the history can be written, every
\* acknowledged message is in the history or about to be: signals, lost
\* answers and other processes do not lose an answer.
THEOREM AcksAreRecorded ==
    ASSUME "record" \notin FaultKinds, "crash" \notin FaultKinds
    PROVE  Spec => []AckedIsRecorded
<1>1. Init => AckInv
  BY DEF Init, ProcInit, NotifyInit, AckInv, AckedIsRecorded, NoteIdle, MarkRecorded, Sending
<1>2. TypeInv /\ DeliveryInv /\ AckInv /\ [Next]_vars => AckInv'
  BY AckStep
<1>3. AckInv => AckedIsRecorded
  BY DEF AckInv
<1> QED BY <1>1, <1>2, <1>3, InitType, NextType, DeliveryAlways, PTL DEF Spec

\* A message that has no answer yet is one that a sender waits for.
Awaited(n) == \E p \in Proc : pc[p] = "reply" /\ note[p].inflight = n
AnswerInv ==
    /\ \A p \in Proc : ~ctxDone[p]
    /\ \A n \in DOMAIN slack : slack[n].acked \/ Awaited(n)

LEMMA AnswerStep ==
    ASSUME TypeInv, "crash" \notin FaultKinds, "cancel" \notin FaultKinds,
           "ack" \notin FaultKinds, AnswerInv, NEW p \in Proc, Acting(p),
           NEW n \in DOMAIN slack'
    PROVE  slack'[n].acked \/ Awaited(n)'
<1>1. slack \in Seq(Message)
  BY DEF TypeInv, TypeOK, NotifyTypeOK
<1>2. ~Signal(p) /\ ~Crash(p)
  BY DEF Signal, Cancel, Crash, Fault
<1>3. ASSUME NEW q \in Proc \ {p}, pc[q] = "reply", note[q].inflight = n PROVE Awaited(n)'
  <2>1. pc'[q] = "reply" /\ note'[q].inflight = n
    BY <1>3, ActingKeeps DEF OthersKeep
  <2> QED BY <2>1 DEF Awaited
<1>4. CASE Post(p)
  <2>1. PICK i, k : /\ k \in {0, Len(slack) + 1}
                    /\ k = 0 => slack' = slack
                    /\ k # 0 => slack' = Append(slack, MessageFor(p, i))
                    /\ note'[p].inflight = k /\ pc'[p] = "reply"
    BY <1>4, PostFacts
  <2>2. CASE n = k
    BY <2>1, <2>2 DEF Awaited
  <2>3. CASE n # k
    <3>1. n \in DOMAIN slack /\ slack'[n] = slack[n]
      BY <1>1, <2>1, <2>3
    <3>2. pc[p] # "reply"
      BY <1>4 DEF Post
    <3> QED BY <1>3, <3>1, <3>2 DEF AnswerInv, Awaited
  <2> QED BY <2>2, <2>3
<1>5. CASE Reply(p)
  <2>1. PICK k : k = note[p].inflight
    OBVIOUS
  <2>2. k \in 0..Len(slack)
    BY <1>5, <2>1 DEF Reply, TypeInv, Bounds
  <2>3. \/ k # 0 /\ slack' = [slack EXCEPT ![k].acked = TRUE]
        \/ k = 0 /\ slack' = slack
    BY <1>5, <2>1 DEF Reply, Fails, Fault, AnswerInv
  <2>4. n \in DOMAIN slack
    BY <1>1, <2>3
  <2>5. CASE n = k
    <3>1. k # 0
      BY <1>1, <2>4, <2>5
    <3>2. slack[n] \in Message /\ slack'[n] = [slack[n] EXCEPT !.acked = TRUE]
      BY <1>1, <2>3, <2>4, <2>5, <3>1
    <3> QED BY <3>2 DEF Message
  <2>6. CASE n # k
    <3>1. slack'[n] = slack[n]
      BY <1>1, <2>3, <2>4, <2>6
    <3> QED BY <1>3, <2>1, <2>4, <2>6, <3>1 DEF AnswerInv, Awaited
  <2> QED BY <2>5, <2>6
<1>6. CASE ~Post(p) /\ ~Reply(p)
  <2>1. slack' = slack
    BY <1>2, <1>6, OtherFacts, AbortFacts, ListNotifiedFacts, PersistFacts
       DEF Notifies, Mark, notifyVars
  <2>2. pc[p] # "reply"
    <3>1. Notifies(p) => pc[p] # "reply"
      BY <1>6 DEF Notifies, ListNotified, Abort, Persist, Mark
    <3>2. ~Notifies(p) => pc[p] # "reply"
      BY <1>2, OtherFacts DEF Sending
    <3> QED BY <3>1, <3>2
  <2> QED BY <1>3, <2>1, <2>2 DEF AnswerInv, Awaited
<1> QED BY <1>4, <1>5, <1>6

\* What README.md:131 promises, where it is kept: if no command is killed or
\* interrupted, no answer is lost and the history can be written, then whatever
\* is in the channel is in the history once no command runs, for any number of
\* commands that overlap and whatever else fails.
THEOREM DeliveriesAreRecorded ==
    ASSUME "crash" \notin FaultKinds, "cancel" \notin FaultKinds,
           "ack" \notin FaultKinds, "record" \notin FaultKinds
    PROVE  Spec => []DeliveredIsRecorded
<1>1. Init => AckInv /\ AnswerInv
  BY DEF Init, ProcInit, NotifyInit, AckInv, AckedIsRecorded, NoteIdle, MarkRecorded, Sending,
         AnswerInv
<1>2. TypeInv /\ DeliveryInv /\ AckInv /\ [Next]_vars => AckInv'
  BY AckStep
<1>3. TypeInv /\ AnswerInv /\ [Next]_vars => AnswerInv'
  <2>1. ASSUME TypeInv, AnswerInv, Next PROVE AnswerInv'
    <3>1. PICK p \in Proc : Acting(p)
      BY <2>1, NextActs
    <3>2. \A q \in Proc : ~ctxDone'[q]
      BY <2>1, <3>1, OnlySignalsCancel DEF AnswerInv
    <3> QED BY <2>1, <3>1, <3>2, AnswerStep DEF AnswerInv
  <2>2. ASSUME AnswerInv, UNCHANGED vars PROVE AnswerInv'
    BY <2>2 DEF AnswerInv, Awaited, vars, procVars, notifyVars
  <2> QED BY <2>1, <2>2
<1>4. AckInv /\ AnswerInv => DeliveredIsRecorded
  <2> SUFFICES ASSUME AckInv, AnswerInv, \A p \in Proc : Idle(p), NEW n \in DOMAIN slack
               PROVE  Recorded(slack[n])
    BY DEF DeliveredIsRecorded
  <2>1. slack[n].acked
    BY DEF AnswerInv, Awaited, Idle
  <2>2. \A p \in Proc : note[p].records = <<>>
    BY DEF AckInv, NoteIdle, Sending, Idle, NoNote
  <2> QED BY <2>1, <2>2 DEF AckInv, AckedIsRecorded
<1> QED BY <1>1, <1>2, <1>3, <1>4, InitType, NextType, DeliveryAlways, PTL DEF Spec
-----------------------------------------------------------------------------
(* What exit code 0 means *)

LEMMA AckedStays ==
    ASSUME TypeInv, NEW p \in Proc, Acting(p), NEW n \in DOMAIN slack, slack[n].acked
    PROVE  n \in DOMAIN slack' /\ slack'[n].acked
<1>1. slack \in Seq(Message) /\ slack[n] \in Message
  BY DEF TypeInv, TypeOK, NotifyTypeOK
<1>2. CASE Post(p)
  <2>1. PICK m : slack' = slack \/ slack' = Append(slack, m)
    BY <1>2, PostFacts
  <2> QED BY <1>1, <2>1
<1>3. CASE Reply(p)
  <2>1. PICK k : slack' = slack \/ slack' = [slack EXCEPT ![k].acked = TRUE]
    BY <1>3, ReplyFacts
  <2> QED BY <1>1, <2>1 DEF Message
<1>4. CASE ~Post(p) /\ ~Reply(p)
  <2>1. slack' = slack
    BY <1>4, OtherFacts, AbortFacts, ListNotifiedFacts, PersistFacts
       DEF Notifies, Mark, Signal, notifyVars
  <2> QED BY <2>1
<1> QED BY <1>2, <1>3, <1>4

LEMMA SentStays ==
    ASSUME TypeInv, NEW p \in Proc, Acting(p), NEW q \in Proc, snapshot'[q] = snapshot[q],
           NEW i, SentAsRead(q, i)
    PROVE  SentAsRead(q, i)'
<1>1. PICK n \in DOMAIN slack : /\ slack[n].job = i /\ slack[n].acked
                               /\ slack[n].content = snapshot[q][i].content
  BY DEF SentAsRead
<1>2. /\ n \in DOMAIN slack' /\ slack'[n].acked /\ slack'[n].job = slack[n].job
      /\ slack'[n].content = slack[n].content
  BY <1>1, AckedStays, ActingKeeps DEF SlackGrows
<1> QED BY <1>1, <1>2 DEF SentAsRead

\* The postings that the command of p has to tell, by what it read.
Chosen(p) == SelectTargets(snapshot[p], note[p].known, opts[p].profile.threshold)

\* An attempt to send posting i, which is recorded as a success only if it was.
Attempted(p, i) ==
    \E r \in DOMAIN note[p].records :
        /\ note[p].records[r].job = i
        /\ note[p].records[r].result = "success" => SentAsRead(p, i)

\* Until a signal cuts the batch short, what it has to tell still waits or was
\* attempted; when its records are written nothing waits.
Complete(p) ==
    pc[p] \in Sending /\ ~note[p].aborted =>
        /\ \A i \in Chosen(p) : i \in note[p].items \/ Attempted(p, i)
        /\ pc[p] \in {"persist", "mark"} => note[p].items = {}

\* A step that leaves the batch and its records alone.
LEMMA CompleteKept ==
    ASSUME TypeInv, NEW p \in Proc, Acting(p), NEW q \in Proc, Complete(q),
           snapshot'[q] = snapshot[q], opts'[q] = opts[q], note'[q].known = note[q].known,
           note'[q].items = note[q].items, note'[q].records = note[q].records,
           note'[q].aborted = note[q].aborted, pc[q] \in Sending,
           pc'[q] \in {"persist", "mark"} => pc[q] \in {"persist", "mark"}
    PROVE  Complete(q)'
<1>1. Chosen(q)' = Chosen(q)
  BY DEF Chosen, SelectTargets
<1>2. ASSUME NEW i, Attempted(q, i) PROVE Attempted(q, i)'
  BY <1>2, SentStays DEF Attempted
<1> QED BY <1>1, <1>2 DEF Complete

LEMMA CompleteReply ==
    ASSUME TypeInv, NEW p \in Proc, Reply(p), Acting(p), Complete(p), InflightTrue(p)
    PROVE  Complete(p)'
<1>1. PICK ok \in BOOLEAN :
        /\ ok => note[p].inflight # 0
        /\ slack' = IF ok THEN [slack EXCEPT ![note[p].inflight].acked = TRUE] ELSE slack
        /\ note'[p].items = note[p].items \ {note[p].current}
        /\ note'[p].records = Append(note[p].records, RecordOf(p, ok))
        /\ note'[p].aborted = note[p].aborted /\ SameBatch(p)
        /\ pc'[p] \in {"persist", "post"}
        /\ pc'[p] = "persist" => note'[p].items = {}
  BY ReplyFacts
<1>2. pc[p] = "reply" /\ pc[p] \in Sending
  BY DEF Reply, Sending
<1>3. Chosen(p)' = Chosen(p)
  BY <1>1 DEF Chosen, SelectTargets, SameBatch
<1>4. PICK rec : rec = RecordOf(p, ok)
  OBVIOUS
<1>5. /\ note[p].records \in Seq(NotificationRow) /\ slack \in Seq(Message)
      /\ note[p].inflight \in 0..Len(slack)
  BY <1>2 DEF TypeInv, TypeOK, NotifyTypeOK, Bounds
<1>6. ASSUME NEW i, Attempted(p, i) PROVE Attempted(p, i)'
  <2>1. PICK r \in DOMAIN note[p].records :
          /\ note[p].records[r].job = i
          /\ note[p].records[r].result = "success" => SentAsRead(p, i)
    BY <1>6 DEF Attempted
  <2>2. r \in DOMAIN note'[p].records /\ note'[p].records[r] = note[p].records[r]
    BY <1>1, <1>4, <1>5, <2>1
  <2> QED BY <1>1, <2>1, <2>2, SentStays DEF Attempted, SameBatch
<1>7. PICK j : j = note[p].current
  OBVIOUS
<1>8. Attempted(p, j)'
  <2>1. ASSUME ok PROVE SentAsRead(p, j)'
    <3>1. note[p].inflight \in DOMAIN slack
      BY <1>1, <1>5, <2>1
    <3>2. slack[note[p].inflight] \in Message
      BY <1>5, <3>1
    <3>3. PICK k : k = note[p].inflight
      OBVIOUS
    <3>4. /\ k \in DOMAIN slack' /\ slack'[k].acked
          /\ slack'[k].job = slack[k].job /\ slack'[k].content = slack[k].content
      BY <1>1, <1>5, <2>1, <3>1, <3>2, <3>3 DEF Message
    <3>5. slack[k].job = j /\ slack[k].content = snapshot[p][j].content
      BY <1>1, <1>2, <1>7, <2>1, <3>3 DEF InflightTrue
    <3> QED BY <1>1, <3>4, <3>5 DEF SentAsRead, SameBatch
  <2>2. /\ Len(note[p].records) + 1 \in DOMAIN note'[p].records
        /\ note'[p].records[Len(note[p].records) + 1] = rec
    BY <1>1, <1>4, <1>5
  <2>3. rec.job = j /\ (rec.result = "success" => ok)
    BY <1>4, <1>7 DEF RecordOf, ResultOf
  <2> QED BY <2>1, <2>2, <2>3 DEF Attempted
<1> QED BY <1>1, <1>2, <1>3, <1>6, <1>7, <1>8 DEF Complete

LEMMA CompleteStep ==
    ASSUME TypeInv, DeliveryInv, NEW p \in Proc, Acting(p), NEW q \in Proc, Complete(q)
    PROVE  Complete(q)'
<1>1. CASE q # p
  <2>1. /\ snapshot'[q] = snapshot[q] /\ opts'[q] = opts[q] /\ note'[q] = note[q]
        /\ pc'[q] = pc[q]
    BY <1>1, ActingKeeps DEF OthersKeep
  <2>2. CASE pc[q] \in Sending
    BY <2>1, <2>2, CompleteKept
  <2> QED BY <2>1, <2>2 DEF Complete
<1>2. CASE q = p /\ Signal(p)
  <2>1. /\ snapshot' = snapshot /\ opts' = opts /\ note' = note /\ pc' = pc
    BY <1>2 DEF Signal, Cancel, notifyVars
  <2>2. CASE pc[q] \in Sending
    BY <2>1, <2>2, CompleteKept
  <2> QED BY <2>1, <2>2 DEF Complete
<1>3. CASE q = p /\ ListNotified(p)
  <2>1. CASE pc'[p] = "post"
    <3>1. /\ snapshot'[p] = snapshot[p] /\ opts'[p] = opts[p]
          /\ note'[p].items = SelectTargets(snapshot[p], note'[p].known,
                                            opts[p].profile.threshold)
      BY <1>3, <2>1, ListNotifiedFacts
    <3>2. Chosen(p)' = note'[p].items
      BY <3>1 DEF Chosen, SelectTargets
    <3> QED BY <1>3, <2>1, <3>2 DEF Complete
  <2>2. CASE pc'[p] # "post"
    <3>1. pc'[p] \notin Sending
      BY <1>3, <2>2, ListNotifiedFacts DEF Sending
    <3> QED BY <1>3, <3>1 DEF Complete
  <2> QED BY <2>1, <2>2
<1>4. CASE q = p /\ Post(p)
  <2>1. /\ note'[p].items = note[p].items /\ note'[p].records = note[p].records
        /\ note'[p].aborted = note[p].aborted /\ SameBatch(p) /\ pc'[p] = "reply"
    BY <1>4, PostFacts
  <2>2. pc[p] \in Sending
    BY <1>4 DEF Post, Sending
  <2> QED BY <1>4, <2>1, <2>2, CompleteKept DEF SameBatch
<1>5. CASE q = p /\ Abort(p)
  <2>1. pc'[p] = "idle" \/ note'[p].aborted
    BY <1>5, AbortFacts
  <2> QED BY <1>5, <2>1 DEF Complete, Sending
<1>6. CASE q = p /\ Reply(p)
  BY <1>6, CompleteReply DEF DeliveryInv, Truthful
<1>7. CASE q = p /\ (Persist(p) \/ Mark(p))
  <2>1. pc[p] \in {"persist", "mark"} /\ pc[p] \in Sending
    BY <1>7 DEF Persist, Mark, Sending
  <2>2. \/ pc'[p] = "idle"
        \/ /\ SameBatch(p) /\ note'[p].items = note[p].items
           /\ note'[p].records = note[p].records /\ note'[p].aborted = note[p].aborted
    BY <1>7, PersistFacts, NextRecordFacts DEF Mark
  <2>3. CASE pc'[p] = "idle"
    BY <1>7, <2>3 DEF Complete, Sending
  <2>4. CASE pc'[p] # "idle"
    BY <1>7, <2>1, <2>2, <2>4, CompleteKept DEF SameBatch
  <2> QED BY <2>3, <2>4
<1>8. CASE q = p /\ ~Notifies(p) /\ ~Signal(p)
  <2>1. pc'[p] \notin Sending
    BY <1>8, OtherFacts
  <2> QED BY <1>8, <2>1 DEF Complete
<1> QED BY <1>1, <1>2, <1>3, <1>4, <1>5, <1>6, <1>7, <1>8 DEF Notifies

\* When notify ends with exit code 0 every posting it had to tell, by the rows
\* and the history it read, has reached the channel in that version and was
\* acknowledged, for any faults and any number of overlapping commands.
THEOREM OkIsAllSent == Spec => OkMeansAllSent
<1> DEFINE Inv == \A p \in Proc : Complete(p)
           A == \A p \in Proc : (pc[p] \in {"persist", "mark"} /\ outcome'[p] = "ok")
                  => \A i \in SelectTargets(snapshot[p], note[p].known,
                                            opts[p].profile.threshold) : SentAsRead(p, i)
<1>1. Init => Inv
  BY DEF Init, ProcInit, Complete, Sending
<1>2. TypeInv /\ DeliveryInv /\ Inv /\ [Next]_vars => Inv'
  <2>1. ASSUME TypeInv, DeliveryInv, Inv, Next PROVE Inv'
    BY <2>1, NextActs, CompleteStep
  <2>2. ASSUME Inv, UNCHANGED vars PROVE Inv'
    <3>1. UNCHANGED <<slack, note, pc, opts, snapshot>>
      BY <2>2 DEF vars, procVars, notifyVars
    <3> QED BY <2>2, <3>1 DEF Complete, Chosen, SelectTargets, Attempted, SentAsRead
  <2> QED BY <2>1, <2>2
<1>3. TypeInv /\ NotEnded /\ Inv /\ [Next]_vars => A
  <2> SUFFICES ASSUME TypeInv, NotEnded, Inv, [Next]_vars, NEW p \in Proc,
                      pc[p] \in {"persist", "mark"}, outcome'[p] = "ok", NEW i \in Chosen(p)
               PROVE  SentAsRead(p, i)
    BY DEF Chosen
  <2>1. ~note[p].aborted /\ \A r \in DOMAIN note[p].records :
                               note[p].records[r].result = "success"
    BY EndsWell
  <2>2. Complete(p) /\ pc[p] \in Sending
    BY DEF Sending
  <2>3. Attempted(p, i)
    BY <2>1, <2>2 DEF Complete
  <2> QED BY <2>1, <2>3 DEF Attempted
<1> QED BY <1>1, <1>2, <1>3, InitType, NextType, NotEndedAlways, DeliveryAlways, PTL
        DEF Spec, OkMeansAllSent
-----------------------------------------------------------------------------
(* What becomes of a posting of a batch *)

\* Some row has the key of this message and knows its introduction.
SavedFrom(raw) == \E i \in JobId : jobs[i].key = raw.key /\ raw.origin \in jobs[i].sources

\* A message that parses is saved, or one with its key still waits, as long as
\* no save failed.
BatchKept(p) ==
    pc[p] \in {"save", "saveRun"} /\ ~coll[p].err =>
        \A n \in Parsed(coll[p].batch) :
            \/ SavedFrom(coll[p].batch[n])
            \/ /\ pc[p] = "save"
               /\ \E m \in coll[p].pending : coll[p].batch[m].key = coll[p].batch[n].key

LEMMA LeastMember ==
    ASSUME NEW S \in SUBSET Nat, NEW n \in S
    PROVE  \E m \in S : \A k \in S : m <= k
<1> DEFINE R == {ss \in Nat \X Nat : ss[1] < ss[2]}
<1>1. IsWellFoundedOn(R, Nat)
  BY NatLessThanWellFounded DEF OpToRel
<1>2. \A k, m \in Nat : k < m => <<k, m>> \in R
  OBVIOUS
<1> HIDE DEF R
<1>3. PICK m \in S : \A k \in S : ~ (<<k, m>> \in R)
  BY <1>1, WFMin
<1>4. ASSUME NEW k \in S PROVE m <= k
  <2>1. ~(k < m)
    BY <1>2, <1>3
  <2> QED BY <2>1
<1> QED BY <1>4

\* Deduplication keeps a message of every key.
LEMMA DedupeKeepsKeys ==
    ASSUME NEW b \in Seq(Raw), NEW n \in Parsed(b)
    PROVE  \E m \in Dedupe(b) : b[m].key = b[n].key
<1> DEFINE S == {j \in Parsed(b) : b[j].key = b[n].key}
<1>1. S \in SUBSET Nat /\ n \in S
  BY DEF Parsed
<1>2. PICK m \in S : \A k \in S : m <= k
  BY <1>1, LeastMember
<1>3. ASSUME NEW j \in Parsed(b), j < m PROVE b[j].key # b[m].key
  <2>1. j \in Nat /\ m \in Nat
    BY DEF Parsed
  <2>2. j \notin S
    BY <1>2, <1>3, <2>1
  <2> QED BY <2>2
<1> QED BY <1>3 DEF Dedupe

\* Rows stay, with their key and with the introductions they have.
LEMMA SaveJobKeeps ==
    ASSUME StoreTypeOK, NEW k \in Key, NEW c \in Content, NEW srcs \in SUBSET Origin,
           SaveJob(k, c, srcs)
    PROVE  /\ \A i \in DOMAIN jobs :
                  /\ i \in DOMAIN jobs' /\ jobs'[i].key = jobs[i].key
                  /\ jobs[i].sources \subseteq jobs'[i].sources
           /\ \E i \in DOMAIN jobs' : jobs'[i].key = k /\ srcs \subseteq jobs'[i].sources
<1>1. jobs \in Seq(JobRow)
  BY DEF StoreTypeOK
<1>2. CASE InsertJob(k, c, srcs)
  <2>1. PICK row : row.key = k /\ row.sources = srcs /\ jobs' = Append(jobs, row)
    BY <1>2 DEF InsertJob
  <2>2. Len(jobs) + 1 \in DOMAIN jobs' /\ jobs'[Len(jobs) + 1] = row
    BY <1>1, <2>1
  <2> QED BY <1>1, <2>1, <2>2
<1>3. CASE \E i \in JobsWithKey(k) : UpdateJob(i, c, srcs)
  <2>1. PICK i \in JobsWithKey(k) : UpdateJob(i, c, srcs)
    BY <1>3
  <2> DEFINE row == [jobs[i] EXCEPT !.content = c, !.sources = @ \cup srcs]
  <2>2. jobs[i] \in JobRow /\ i \in DOMAIN jobs /\ jobs[i].key = k
    BY <1>1 DEF JobsWithKey
  <2>3. row.key = jobs[i].key /\ row.sources = jobs[i].sources \cup srcs
    BY <2>2 DEF JobRow
  <2>4. jobs' = [jobs EXCEPT ![i] = row]
    BY <2>1 DEF UpdateJob
  <2> HIDE DEF row
  <2>5. i \in DOMAIN jobs' /\ jobs'[i] = row
    BY <1>1, <2>2, <2>4
  <2> QED BY <1>1, <2>2, <2>3, <2>4, <2>5
<1> QED BY <1>2, <1>3 DEF SaveJob

LEMMA SavedStays ==
    ASSUME TypeInv, [Next]_vars, NEW raw, SavedFrom(raw)
    PROVE  SavedFrom(raw)'
<1>1. CASE jobs' = jobs
  BY <1>1 DEF SavedFrom, JobId
<1>2. ASSUME NEW p \in Proc, SaveOne(p) PROVE SavedFrom(raw)'
  <2>1. PICK k \in Key, c \in Content, srcs \in SUBSET Origin : SaveJob(k, c, srcs)
    BY <1>2, SaveOneSaves
  <2> QED BY <2>1, SaveJobKeeps DEF TypeInv, TypeOK, SavedFrom, JobId
<1>3. ASSUME NEW p \in Proc, ScoreOne(p) PROVE SavedFrom(raw)'
  BY <1>3, ScoreOneKeeps DEF RowKept, SavedFrom, JobId
<1>4. ASSUME NEW p \in Proc, Mark(p) PROVE SavedFrom(raw)'
  BY <1>4, MarkKeeps DEF RowKept, SavedFrom, JobId
<1> QED BY <1>1, <1>2, <1>3, <1>4, JobsStep

LEMMA FetchKeepsBatch ==
    ASSUME TypeInv, NEW p \in Proc, FetchOk(p)
    PROVE  BatchKept(p)'
<1>1. ThisSource(p) \in Source
  BY ThisSourceType DEF FetchOk
<1>2. PICK b \in Batches[ThisSource(p)] :
          /\ coll' = [coll EXCEPT ![p].batch = b, ![p].pending = Dedupe(b),
                        ![p].dup = Cardinality(Parsed(b)) - Cardinality(Dedupe(b))]
          /\ Continue(p, IF Dedupe(b) = {} THEN "saveRun" ELSE "save")
  BY DEF FetchOk
<1>3. b \in Seq(Raw)
  BY <1>1, CollectAssumption
<1>4. coll'[p].batch = b /\ coll'[p].pending = Dedupe(b)
  BY <1>2 DEF TypeInv, TypeOK, CollectTypeOK
<1>5. Parsed(b) # {} => pc'[p] = "save"
  BY <1>2, <1>3, ContinueFacts, DedupeKeepsKeys
<1> QED BY <1>3, <1>4, <1>5, DedupeKeepsKeys DEF BatchKept

LEMMA SaveKeepsBatch ==
    ASSUME TypeInv, NEW p \in Proc, [Next]_vars, SaveOne(p), BatchKept(p)
    PROVE  BatchKept(p)'
<1> DEFINE batch == coll[p].batch
<1>1. PICK i \in coll[p].pending :
        /\ SaveJob(batch[i].key, batch[i].content, MergedSources(batch, i))
        /\ coll' = [coll EXCEPT ![p].pending = coll[p].pending \ {i},
                      ![p].new = IF JobsWithKey(batch[i].key) = {} THEN @ + 1 ELSE @,
                      ![p].dup = IF JobsWithKey(batch[i].key) = {} THEN @ ELSE @ + 1]
        /\ Continue(p, IF coll[p].pending \ {i} = {} THEN "saveRun" ELSE "save")
  BY DEF SaveOne
<1>2. /\ coll'[p].pending = coll[p].pending \ {i}
      /\ coll'[p].batch = batch /\ coll'[p].err = coll[p].err
  BY <1>1 DEF TypeInv, TypeOK, CollectTypeOK
<1>3. coll[p].pending \ {i} # {} => pc'[p] = "save"
  BY <1>1, ContinueFacts
<1>4. batch \in Seq(Raw) /\ i \in DOMAIN batch
  BY DEF SaveOne, Bounds, CollectTypeOK, TypeInv, TypeOK
<1>5. PICK j \in DOMAIN jobs' :
        jobs'[j].key = batch[i].key /\ MergedSources(batch, i) \subseteq jobs'[j].sources
  <2>1. batch[i] \in Raw
    BY <1>4
  <2>2. batch[i].key \in Key /\ batch[i].content \in Content
    BY <2>1 DEF Raw
  <2>3. PICK srcs \in SUBSET Origin : srcs = MergedSources(batch, i)
    BY <1>4, MergedSourcesType
  <2>4. PICK k \in Key, c \in Content : k = batch[i].key /\ c = batch[i].content
    BY <2>2
  <2>5. SaveJob(k, c, srcs) /\ StoreTypeOK
    BY <1>1, <2>3, <2>4 DEF TypeInv, TypeOK
  <2>6. \E j \in DOMAIN jobs' : jobs'[j].key = k /\ srcs \subseteq jobs'[j].sources
    BY <2>5, SaveJobKeeps
  <2> QED BY <2>3, <2>4, <2>6
<1> SUFFICES ASSUME ~coll[p].err, NEW n \in Parsed(batch), ~SavedFrom(batch[n])'
             PROVE  \E m \in coll[p].pending \ {i} : batch[m].key = batch[n].key
  BY <1>2, <1>3 DEF BatchKept
<1>6. PICK raw : raw = batch[n]
  OBVIOUS
<1>7. ~SavedFrom(raw)'
  BY <1>2, <1>6
<1>8. PICK m \in coll[p].pending : batch[m].key = batch[n].key
  BY <1>6, <1>7, SavedStays DEF BatchKept, SaveOne
<1>9. m # i
  <2> SUFFICES ASSUME m = i PROVE FALSE
    OBVIOUS
  <2>1. batch[n].key = batch[i].key /\ batch[n].origin \in MergedSources(batch, i)
    BY <1>8 DEF MergedSources
  <2>2. SavedFrom(raw)'
    BY <1>5, <1>6, <2>1 DEF SavedFrom, JobId
  <2> QED BY <1>7, <2>2
<1> QED BY <1>8, <1>9

LEMMA BatchStep ==
    ASSUME TypeInv, [Next]_vars, NEW q \in Proc, BatchKept(q)
    PROVE  BatchKept(q)'
<1>1. CASE pc'[q] = pc[q] /\ coll'[q] = coll[q]
  <2> SUFFICES ASSUME pc[q] \in {"save", "saveRun"}, ~coll[q].err,
                      NEW n \in Parsed(coll[q].batch), NEW raw, raw = coll[q].batch[n],
                      SavedFrom(raw)
               PROVE  SavedFrom(raw)'
    BY <1>1 DEF BatchKept, SavedFrom
  <2> QED BY SavedStays
<1>2. CASE Next
  <2>1. PICK p \in Proc : Acting(p)
    BY <1>2, NextActs
  <2>2. CASE q # p
    BY <1>1, <2>1, <2>2, ActingKeeps DEF OthersKeep
  <2>3. CASE q = p /\ CollectStep(p)
    <3>1. CASE FetchFailed(p) \/ SaveFailed(p)
      <4>1. coll'[p].err
        BY <3>1 DEF FetchFailed, SaveFailed, TypeInv, TypeOK, CollectTypeOK
      <4> QED BY <2>3, <4>1 DEF BatchKept
    <3>2. CASE RecordRun(p) \/ EndCollect(p)
      <4>1. pc'[p] \in {"fetch", "idle", "listForScore"}
        BY <3>2 DEF RecordRun, EndCollect, AfterCollect, Continue, Exit, Goto, TypeInv,
                    TypeOK, ProcTypeOK
      <4> QED BY <2>3, <4>1 DEF BatchKept
    <3> QED BY <2>3, <3>1, <3>2, FetchKeepsBatch, SaveKeepsBatch DEF CollectStep
  <2>4. CASE q = p /\ ~CollectStep(p) /\ ~Signal(p)
    BY <2>1, <2>4, Elsewhere DEF BatchKept
  <2>5. CASE q = p /\ Signal(p)
    BY <1>1, <2>5 DEF Signal, Cancel, collectVars
  <2> QED BY <2>1, <2>2, <2>3, <2>4, <2>5
<1> QED BY <1>1, <1>2 DEF vars, procVars, collectVars

\* A source reports success only when every posting of its batch, merged
\* duplicates included, has a row that names where it came from: whatever
\* other processes collect, score or send meanwhile.
THEOREM NothingIsLost == Spec => []NothingLostSilently
<1> DEFINE B == \A p \in Proc : BatchKept(p)
<1>1. Init => B
  BY DEF Init, ProcInit, BatchKept
<1>2. TypeInv /\ B /\ [Next]_vars => B'
  BY BatchStep
<1>3. B => NothingLostSilently
  BY DEF BatchKept, NothingLostSilently, SavedFrom
<1> QED BY <1>1, <1>2, <1>3, InitType, NextType, PTL DEF Spec
-----------------------------------------------------------------------------
(* What one process alone decides: with two of them, a score may come from *)
(* a listing that another has made stale.                                  *)

Alone == \A p, q \in Proc : p = q

\* The listing that p scores from still says how each job stands.
ScoreFresh(p) ==
    pc[p] = "score" =>
        \A i \in toScore[p] : i \in JobId /\ jobs[i].status = snapshot[p][i].status

LEMMA UpdateScoreScore ==
    ASSUME StoreTypeOK, NEW i \in DOMAIN jobs, NEW score, NEW status,
           UpdateScore(i, score, status)
    PROVE  jobs'[i].score = score
<1> DEFINE row == [jobs[i] EXCEPT !.score = score, !.status = status]
<1>1. jobs[i] \in JobRow /\ jobs \in Seq(JobRow)
  BY DEF StoreTypeOK
<1>2. row.score = score
  BY <1>1 DEF JobRow
<1>3. jobs' = [jobs EXCEPT ![i] = row]
  BY DEF UpdateScore
<1> HIDE DEF row
<1> QED BY <1>1, <1>2, <1>3

\* One step of Score: what it does to the job it scores and to the others.
LEMMA ScoreOneFacts ==
    ASSUME TypeInv, NEW p \in Proc, ScoreOne(p)
    PROVE  \E i \in toScore[p] :
             LET v == Evaluate[snapshot[p][i].content][opts[p].profile]
             IN  /\ v \in Verdict
                 /\ DOMAIN jobs' = DOMAIN jobs
                 /\ \A j \in DOMAIN jobs : RowKept(j) /\ (j # i => jobs'[j] = jobs[j])
                 /\ i \in DOMAIN jobs =>
                       /\ jobs'[i].status = StatusAfterScore(snapshot[p][i], v)
                       /\ jobs'[i].score = v.score
                 /\ toScore'[p] = toScore[p] \ {i}
                 /\ \/ toScore'[p] = {} /\ AfterScore(p)
                    \/ Continue(p, "score")
<1> DEFINE v(i) == Evaluate[snapshot[p][i].content][opts[p].profile]
<1>1. PICK i \in toScore[p] :
          /\ UpdateScore(i, v(i).score, StatusAfterScore(snapshot[p][i], v(i)))
          /\ toScore' = [toScore EXCEPT ![p] = toScore[p] \ {i}]
          /\ \/ toScore[p] \ {i} = {} /\ AfterScore(p)
             \/ Continue(p, "score")
  BY DEF ScoreOne
<1>2. v(i) \in Verdict
  <2>1. i \in DOMAIN snapshot[p] /\ snapshot[p] \in Seq(JobRow) /\ opts[p] \in Options
    BY DEF ScoreOne, Bounds, TypeInv, TypeOK, ProcTypeOK
  <2>2. snapshot[p][i] \in JobRow
    BY <2>1
  <2> QED BY <2>1, <2>2, ProfileAssumption DEF JobRow, Options
<1>3. toScore'[p] = toScore[p] \ {i}
  BY <1>1 DEF TypeInv, TypeOK, ScoreTypeOK
<1>4. StoreTypeOK
  BY DEF TypeInv, TypeOK
<1>5. PICK sc, st : sc = v(i).score /\ st = StatusAfterScore(snapshot[p][i], v(i))
  OBVIOUS
<1>6. UpdateScore(i, sc, st)
  BY <1>1, <1>5
<1>7. /\ DOMAIN jobs' = DOMAIN jobs
      /\ \A j \in DOMAIN jobs : RowKept(j) /\ (j # i => jobs'[j] = jobs[j])
      /\ i \in DOMAIN jobs => jobs'[i].status = st /\ jobs'[i].score = sc
  BY <1>4, <1>6, UpdateScoreFacts, UpdateScoreScore
<1> QED BY <1>1, <1>2, <1>3, <1>5, <1>7

LEMMA ScoreFreshStep ==
    ASSUME TypeInv, Alone, [Next]_vars, NEW p \in Proc, ScoreFresh(p)
    PROVE  ScoreFresh(p)'
<1>1. CASE UNCHANGED <<jobs, pc, snapshot, toScore>>
  BY <1>1 DEF ScoreFresh, JobId
<1>2. CASE Acting(p)
  <2>1. CASE ListForScore(p)
    <3>1. CASE AfterScore(p)
      BY <2>1, <3>1, AfterScoreType, FaultsType DEF ListForScore, ScoreFresh, TypeInv, TypeOK
    <3>2. CASE ContinueWith(p, "score", jobs)
      <4>1. /\ snapshot'[p] = jobs /\ jobs' = jobs /\ toScore'[p] = DOMAIN jobs
        BY <2>1, <3>2 DEF ListForScore, ContinueWith, JobsToScore, storeVars, TypeInv,
                          TypeOK, ProcTypeOK, ScoreTypeOK
      <4> QED BY <4>1 DEF ScoreFresh, JobId
    <3> QED BY <2>1, <3>1, <3>2 DEF ListForScore
  <2>2. CASE ScoreOne(p)
    <3>1. PICK i \in toScore[p] :
            /\ DOMAIN jobs' = DOMAIN jobs
            /\ \A j \in DOMAIN jobs : j # i => jobs'[j] = jobs[j]
            /\ toScore'[p] = toScore[p] \ {i}
            /\ \/ AfterScore(p)
               \/ Continue(p, "score")
      BY <2>2, ScoreOneFacts
    <3>2. CASE Continue(p, "score")
      BY <2>2, <3>1, <3>2, ContinueFacts DEF ScoreOne, ScoreFresh, JobId
    <3>3. CASE AfterScore(p)
      BY <2>2, <3>3, AfterScoreType, FaultsType DEF ScoreOne, ScoreFresh, TypeInv, TypeOK
    <3> QED BY <3>1, <3>2, <3>3
  <2>3. CASE Signal(p)
    BY <1>1, <2>3 DEF Signal, Cancel, storeVars, scoreVars
  <2>4. CASE ~ListForScore(p) /\ ~ScoreOne(p) /\ ~Signal(p)
    <3>1. pc'[p] # "score"
      BY <1>2, <2>4, Elsewhere
    <3> QED BY <3>1 DEF ScoreFresh
  <2> QED BY <2>1, <2>2, <2>3, <2>4
<1> QED BY <1>1, <1>2, NextActs DEF Alone, vars, storeVars, procVars, scoreVars

\* A lone process moves a notified job to no status but rejected.
THEOREM NotifiedStays == ASSUME Alone PROVE Spec => NotifiedOnlyToRejected
<1> DEFINE F == \A p \in Proc : ScoreFresh(p)
           A == \A i \in JobId : jobs[i].status = "notified"
                   => jobs'[i].status \in {"notified", "rejected"}
<1>1. Init => F
  BY DEF Init, ProcInit, ScoreFresh
<1>2. TypeInv /\ F /\ [Next]_vars => F'
  BY ScoreFreshStep
<1>3. TypeInv /\ F /\ [Next]_vars => A
  <2> SUFFICES ASSUME TypeInv, F, [Next]_vars, NEW i \in JobId, jobs[i].status = "notified"
               PROVE  jobs'[i].status \in {"notified", "rejected"}
    OBVIOUS
  <2>1. ASSUME NEW p \in Proc, SaveOne(p) PROVE jobs'[i].status = "notified"
    <3>1. PICK k \in Key, c \in Content, srcs \in SUBSET Origin : SaveJob(k, c, srcs)
      BY <2>1, SaveOneSaves
    <3> QED BY <3>1, SaveJobFacts DEF TypeInv, TypeOK, JobId
  <2>2. ASSUME NEW p \in Proc, ScoreOne(p)
        PROVE  jobs'[i].status \in {"notified", "rejected"}
    <3>1. PICK j \in toScore[p], v \in Verdict :
            /\ i # j => jobs'[i] = jobs[i]
            /\ i = j => jobs'[i].status = StatusAfterScore(snapshot[p][i], v)
      BY <2>2, ScoreOneFacts DEF JobId
    <3>2. CASE i = j
      <4>1. snapshot[p][i].status = "notified"
        BY <2>2, <3>2 DEF ScoreOne, ScoreFresh
      <4> QED BY <3>1, <3>2, <4>1 DEF StatusAfterScore, Verdict
    <3> QED BY <3>1, <3>2
  <2>3. ASSUME NEW p \in Proc, Mark(p) PROVE jobs'[i].status = "notified"
    <3>1. jobs' = jobs \/ \E j : UpdateStatus(j, "notified")
      BY <2>3 DEF Mark
    <3> QED BY <3>1, UpdateStatusFacts DEF TypeInv, TypeOK, JobId
  <2> QED BY <2>1, <2>2, <2>3, JobsStep
<1> QED BY <1>1, <1>2, <1>3, InitType, NextType, PTL DEF Spec, NotifiedOnlyToRejected

\* A row whose score and status are what its content deserves.
Judged(row, f) ==
    LET v == Evaluate[row.content][f]
    IN  row.score = v.score /\ (row.status = "rejected" <=> v.rejected)

AllJudged(rows, p) == \A i \in DOMAIN rows : Judged(rows[i], opts[p].profile)

\* What the stages of the run command leave to the next one.
RunJudges(p) ==
    opts[p].cmd = "run" =>
        /\ pc[p] = "score" =>
              /\ DOMAIN snapshot[p] = JobId
              /\ \A i \in JobId :
                    /\ jobs[i].content = snapshot[p][i].content
                    /\ i \in toScore[p] \/ Judged(jobs[i], opts[p].profile)
        /\ pc[p] = "listForNotify" => AllJudged(jobs, p)
        /\ pc[p] \in {"listNotified", "post", "reply"} => AllJudged(snapshot[p], p)
        /\ pc[p] \in {"post", "reply"} =>
              \A i \in note[p].items :
                  /\ snapshot[p][i].status # "rejected"
                  /\ snapshot[p][i].score >= opts[p].profile.threshold
        /\ pc[p] = "reply" => note[p].current \in note[p].items

LEMMA AfterScoreFacts ==
    ASSUME TypeInv, NEW p \in Proc, AfterScore(p)
    PROVE  \/ pc'[p] = "idle"
           \/ pc'[p] = "listForNotify" /\ opts[p].cmd = "run" /\ opts'[p] = opts[p]
BY DEF AfterScore, ContinueWith, Exit, Goto, TypeInv, TypeOK, ProcTypeOK

LEMMA ListForScoreJudges ==
    ASSUME TypeInv, NEW p \in Proc, ListForScore(p)
    PROVE  RunJudges(p)'
<1>1. jobs' = jobs /\ toScore'[p] = DOMAIN jobs
  BY DEF ListForScore, storeVars, JobsToScore, TypeInv, TypeOK, ScoreTypeOK
<1>2. CASE JobsToScore = {} /\ AfterScore(p)
  BY <1>1, <1>2, AfterScoreFacts DEF RunJudges, AllJudged, JobsToScore
<1>3. CASE ContinueWith(p, "score", jobs)
  <2>1. pc'[p] = "score" /\ snapshot'[p] = jobs
    BY <1>3 DEF ContinueWith, Goto, TypeInv, TypeOK, ProcTypeOK
  <2> QED BY <1>1, <2>1 DEF RunJudges, JobId
<1> QED BY <1>2, <1>3 DEF ListForScore

LEMMA ScoreOneJudges ==
    ASSUME TypeInv, NEW p \in Proc, ScoreOne(p), RunJudges(p)
    PROVE  RunJudges(p)'
<1>1. PICK i \in toScore[p], v \in Verdict :
        /\ v = Evaluate[snapshot[p][i].content][opts[p].profile]
        /\ DOMAIN jobs' = DOMAIN jobs
        /\ \A j \in DOMAIN jobs : RowKept(j) /\ (j # i => jobs'[j] = jobs[j])
        /\ i \in DOMAIN jobs =>
              /\ jobs'[i].status = StatusAfterScore(snapshot[p][i], v)
              /\ jobs'[i].score = v.score
        /\ toScore'[p] = toScore[p] \ {i}
        /\ \/ toScore'[p] = {} /\ AfterScore(p)
           \/ Continue(p, "score")
  BY ScoreOneFacts
<1>2. opts'[p] = opts[p] \/ pc'[p] = "idle"
  BY <1>1, AfterScoreFacts, ContinueFacts
<1> SUFFICES ASSUME opts[p].cmd = "run", opts'[p] = opts[p] PROVE RunJudges(p)'
  BY <1>2 DEF RunJudges
<1>3. /\ DOMAIN snapshot[p] = DOMAIN jobs
      /\ \A j \in DOMAIN jobs :
            /\ jobs[j].content = snapshot[p][j].content
            /\ j \in toScore[p] \/ Judged(jobs[j], opts[p].profile)
  BY DEF ScoreOne, RunJudges, JobId
<1>4. ASSUME NEW j \in DOMAIN jobs', j \notin toScore'[p]
      PROVE  Judged(jobs'[j], opts[p].profile)
  <2>1. CASE j = i
    <3>1. jobs'[j].content = snapshot[p][i].content
      BY <1>1, <1>3, <2>1 DEF RowKept
    <3>2. jobs'[j].status = StatusAfterScore(snapshot[p][i], v) /\ jobs'[j].score = v.score
      BY <1>1, <2>1
    <3> QED BY <1>1, <3>1, <3>2 DEF Judged, StatusAfterScore, Verdict
  <2>2. CASE j # i
    BY <1>1, <1>3, <1>4, <2>2
  <2> QED BY <2>1, <2>2
<1>5. CASE Continue(p, "score")
  <2>1. pc'[p] = "score" /\ snapshot'[p] = snapshot[p]
    BY <1>5, ContinueFacts
  <2> QED BY <1>1, <1>3, <1>4, <2>1 DEF RunJudges, JobId, RowKept
<1>6. CASE toScore'[p] = {} /\ AfterScore(p)
  BY <1>4, <1>6, AfterScoreFacts DEF RunJudges, AllJudged
<1> QED BY <1>1, <1>5, <1>6

LEMMA NotifiesJudges ==
    ASSUME TypeInv, NEW p \in Proc, Notifies(p), RunJudges(p)
    PROVE  RunJudges(p)'
<1>1. CASE Post(p)
  <2>1. /\ note'[p].current \in note'[p].items /\ note'[p].items = note[p].items
        /\ pc'[p] = "reply" /\ snapshot'[p] = snapshot[p] /\ opts'[p] = opts[p]
    BY <1>1, PostFacts DEF SameBatch
  <2> QED BY <1>1, <2>1 DEF Post, RunJudges, AllJudged
<1>2. CASE Reply(p)
  <2>1. /\ note'[p].items \subseteq note[p].items /\ pc'[p] \in {"persist", "post"}
        /\ snapshot'[p] = snapshot[p] /\ opts'[p] = opts[p]
    BY <1>2, ReplyFacts DEF SameBatch
  <2> QED BY <1>2, <2>1 DEF Reply, RunJudges, AllJudged
<1>3. CASE ListNotified(p)
  <2>1. CASE pc'[p] = "post"
    <3>1. /\ snapshot'[p] = snapshot[p] /\ opts'[p] = opts[p]
          /\ note'[p].items = SelectTargets(snapshot[p], note'[p].known,
                                            opts[p].profile.threshold)
      BY <1>3, <2>1, ListNotifiedFacts
    <3>2. PICK known : note'[p].items
                          = SelectTargets(snapshot[p], known, opts[p].profile.threshold)
      BY <3>1
    <3>3. \A i \in note'[p].items :
            /\ snapshot[p][i].status # "rejected"
            /\ snapshot[p][i].score >= opts[p].profile.threshold
      BY <3>2 DEF SelectTargets
    <3>4. pc[p] = "listNotified"
      BY <1>3 DEF ListNotified
    <3> QED BY <2>1, <3>1, <3>3, <3>4 DEF RunJudges, AllJudged
  <2>2. pc'[p] \in {"post", "print", "idle"}
    BY <1>3, ListNotifiedFacts
  <2> QED BY <2>1, <2>2 DEF RunJudges
<1>4. CASE Abort(p) \/ Persist(p) \/ Mark(p)
  <2>1. pc'[p] \in {"idle", "persist", "mark"}
    BY <1>4, AbortFacts, PersistFacts, NextRecordFacts DEF Mark
  <2> QED BY <2>1 DEF RunJudges
<1> QED BY <1>1, <1>2, <1>3, <1>4 DEF Notifies

LEMMA RunJudgesStep ==
    ASSUME TypeInv, Alone, [Next]_vars, NEW p \in Proc, RunJudges(p)
    PROVE  RunJudges(p)'
<1>1. CASE UNCHANGED <<jobs, pc, opts, snapshot, toScore, note>>
  BY <1>1 DEF RunJudges, AllJudged, JobId
<1>2. CASE Acting(p)
  <2>1. CASE ListForScore(p) \/ ScoreOne(p) \/ Notifies(p)
    BY <2>1, ListForScoreJudges, ScoreOneJudges, NotifiesJudges
  <2>2. CASE Signal(p)
    BY <1>1, <2>2 DEF Signal, Cancel, storeVars, scoreVars, notifyVars
  <2>3. CASE ListForNotify(p)
    <3>1. /\ pc[p] = "listForNotify" /\ pc'[p] = "listNotified" /\ snapshot'[p] = jobs
          /\ opts' = opts
      BY <2>3 DEF ListForNotify, ContinueWith, Goto, TypeInv, TypeOK, ProcTypeOK
    <3> QED BY <3>1 DEF RunJudges, AllJudged
  <2>4. CASE \E o \in Offered : Start(p, o) /\ o.cmd = "notify"
    <3>1. opts'[p].cmd = "notify"
      BY <2>4 DEF Start, TypeInv, TypeOK, ProcTypeOK
    <3> QED BY <3>1 DEF RunJudges
  <2>5. CASE /\ ~ListForScore(p) /\ ~ScoreOne(p) /\ ~Notifies(p) /\ ~Signal(p)
             /\ ~ListForNotify(p) /\ ~\E o \in Offered : Start(p, o) /\ o.cmd = "notify"
    <3>1. pc'[p] \notin {"score", "listForNotify", "listNotified", "post", "reply"}
      BY <1>2, <2>5, Elsewhere DEF Notifies
    <3> QED BY <3>1 DEF RunJudges
  <2> QED BY <2>1, <2>2, <2>3, <2>4, <2>5
<1> QED BY <1>1, <1>2, NextActs DEF Alone, vars, storeVars, procVars, scoreVars, notifyVars

\* What a lone run command sends was judged by the very content it sends.
THEOREM SentWasEligible == ASSUME Alone PROVE Spec => []SentIsEligible
<1> DEFINE R == \A p \in Proc : RunJudges(p)
<1>1. Init => R
  BY DEF Init, ProcInit, RunJudges
<1>2. TypeInv /\ R /\ [Next]_vars => R'
  BY RunJudgesStep
<1>3. TypeInv /\ R => SentIsEligible
  <2> SUFFICES ASSUME TypeInv, R, NEW p \in Proc, pc[p] = "reply", opts[p].cmd = "run",
                      NEW v, v = Evaluate[snapshot[p][note[p].current].content][opts[p].profile]
               PROVE  ~v.rejected /\ v.score >= opts[p].profile.threshold
    BY DEF SentIsEligible
  <2>1. note[p].current \in DOMAIN snapshot[p] /\ note[p].current \in note[p].items
    BY DEF TypeInv, Bounds, RunJudges
  <2>2. Judged(snapshot[p][note[p].current], opts[p].profile)
    BY <2>1 DEF RunJudges, AllJudged
  <2> QED BY <2>1, <2>2 DEF RunJudges, Judged
<1> QED BY <1>1, <1>2, <1>3, InitType, NextType, PTL DEF Spec
-----------------------------------------------------------------------------
(* What a lone process remembers of its messages *)

LEMMA LastSuccessIsOne ==
    ASSUME TypeInv, NEW i, NEW n \in DOMAIN notifications, LastSuccess(n, i)
    PROVE  NotifiedHash(i) = notifications[n].hash
<1>1. \A m \in DOMAIN notifications : LastSuccess(m, i) => m = n
  BY DEF LastSuccess, SuccessesOf, TypeInv, TypeOK, StoreTypeOK
<1>2. (CHOOSE m \in DOMAIN notifications : LastSuccess(m, i)) = n
  BY <1>1
<1> QED BY <1>2 DEF NotifiedHash

\* A success row becomes the last one of its job; no other job is concerned.
LEMMA NotifiedHashGrows ==
    ASSUME TypeInv, TypeInv', NEW row \in NotificationRow,
           notifications' = Append(notifications, row)
    PROVE  /\ row.result = "success" => NotifiedHash(row.job)' = row.hash
           /\ \A i : (row.result = "success" => row.job # i)
                        => NotifiedHash(i)' = NotifiedHash(i)
<1>1. notifications \in Seq(NotificationRow)
  BY DEF TypeInv, TypeOK, StoreTypeOK
<1>0. PICK last : last = Len(notifications) + 1
  OBVIOUS
<1>2. /\ DOMAIN notifications' = DOMAIN notifications \cup {last}
      /\ notifications'[last] = row
      /\ \A n \in DOMAIN notifications : notifications'[n] = notifications[n]
      /\ \A n \in DOMAIN notifications : n \in Nat /\ n < last
      /\ last \in Nat
  BY <1>0, <1>1
<1>3. ASSUME row.result = "success" PROVE NotifiedHash(row.job)' = row.hash
  <2>1. LastSuccess(last, row.job)'
    BY <1>2, <1>3 DEF LastSuccess, SuccessesOf
  <2>2. \A m \in DOMAIN notifications' : LastSuccess(m, row.job)' => m = last
    BY <1>2, <2>1 DEF LastSuccess, SuccessesOf
  <2>3. (CHOOSE m \in DOMAIN notifications' : LastSuccess(m, row.job)') = last
    BY <1>2, <2>1, <2>2
  <2> QED BY <1>2, <2>1, <2>3 DEF NotifiedHash
<1>4. ASSUME NEW i, row.result = "success" => row.job # i
      PROVE  NotifiedHash(i)' = NotifiedHash(i)
  <2>1. SuccessesOf(i)' = SuccessesOf(i)
    BY <1>2, <1>4 DEF SuccessesOf
  <2>2. \A n : LastSuccess(n, i)' <=> LastSuccess(n, i)
    BY <2>1 DEF LastSuccess
  <2>3. CASE \E n \in DOMAIN notifications : LastSuccess(n, i)
    <3>1. PICK n \in DOMAIN notifications : LastSuccess(n, i)
      BY <2>3
    <3>2. NotifiedHash(i) = notifications[n].hash
      BY <3>1, LastSuccessIsOne
    <3>3. LastSuccess(n, i)' /\ n \in DOMAIN notifications'
      BY <1>2, <2>2, <3>1
    <3>4. \A m \in DOMAIN notifications' : LastSuccess(m, i)' => m = n
      BY <1>2, <3>3 DEF LastSuccess, SuccessesOf
    <3>5. (CHOOSE m \in DOMAIN notifications' : LastSuccess(m, i)') = n
      BY <3>3, <3>4
    <3>6. NotifiedHash(i)' = notifications'[n].hash
      BY <3>3, <3>5 DEF NotifiedHash
    <3> QED BY <1>2, <3>2, <3>6
  <2>4. CASE ~\E n \in DOMAIN notifications : LastSuccess(n, i)
    <3>1. ~\E n \in DOMAIN notifications' : LastSuccess(n, i)'
      BY <2>1, <2>2, <2>4 DEF LastSuccess, SuccessesOf
    <3> QED BY <2>4, <3>1 DEF NotifiedHash
  <2> QED BY <2>3, <2>4
<1> QED BY <1>3, <1>4

\* Process p has yet to record a success of job i.
Unsaved(p, i) ==
    \E r \in DOMAIN note[p].records :
        /\ r > note[p].done
        /\ note[p].records[r].job = i /\ note[p].records[r].result = "success"

\* The last thing said of job i has hash h: the history says so, or will.
Memory(p, i, h) ==
    \/ Held(p, [job |-> i, hash |-> h, result |-> "success"])
    \/ ~Unsaved(p, i) /\ NotifiedHash(i) = h

\* A batch has one message per job.
OncePerJob(p) ==
    /\ \A r, s \in DOMAIN note[p].records :
          note[p].records[r].job = note[p].records[s].job => r = s
    /\ \A r \in DOMAIN note[p].records : note[p].records[r].job \notin note[p].items

\* What the batch knows of the history still holds.
KnownNow(p) ==
    /\ pc[p] \in {"post", "reply"} =>
          \A i \in note[p].items :
              /\ note[p].known[i] = NotifiedHash(i)
              /\ note[p].known[i] # MaterialHash[snapshot[p][i].content]
    /\ pc[p] = "reply" => note[p].current \in note[p].items
    /\ pc[p] = "reply" /\ note[p].inflight # 0 =>
          note[p].inflight = Len(slack) /\ ~slack[note[p].inflight].acked
    /\ pc[p] = "mark" => NotifiedHash(InHand(p).job) = InHand(p).hash

BatchInv(p) == NoteIdle(p) /\ OncePerJob(p) /\ KnownNow(p)

LastAbout(n) == \A k \in DOMAIN slack : k > n => slack[k].job # slack[n].job

Remembers(p) ==
    \A n \in DOMAIN slack : slack[n].acked /\ LastAbout(n)
        => Memory(p, slack[n].job, MaterialHash[slack[n].content])

LEMMA BatchOther ==
    ASSUME TypeInv, "crash" \notin FaultKinds, NEW p \in Proc, Acting(p), BatchInv(p),
           ~Notifies(p), ~Signal(p)
    PROVE  BatchInv(p)' /\ note[p] = NoNote /\ note'[p] = NoNote
<1>1. ~Crash(p)
  BY DEF Crash, Fault
<1>2. pc[p] \notin Sending /\ pc'[p] \notin Sending
  BY <1>1, OtherFacts
<1>3. note[p] = NoNote /\ note'[p] = NoNote
  BY <1>2, OtherFacts DEF BatchInv, NoteIdle
<1>4. OncePerJob(p)'
  BY <1>3 DEF OncePerJob, NoNote
<1> QED BY <1>2, <1>3, <1>4 DEF BatchInv, NoteIdle, KnownNow, Sending

LEMMA BatchList ==
    ASSUME TypeInv, NEW p \in Proc, BatchInv(p), ListNotified(p)
    PROVE  /\ OncePerJob(p)' /\ KnownNow(p)'
           /\ note[p] = NoNote /\ note'[p].records = <<>>
<1>1. note[p] = NoNote
  BY DEF ListNotified, BatchInv, NoteIdle, Sending
<1>2. CASE pc'[p] = "post"
  <2>1. /\ snapshot'[p] = snapshot[p] /\ notifications' = notifications
        /\ note'[p].known = [i \in DOMAIN snapshot[p] |-> NotifiedHash(i)]
        /\ note'[p].items = SelectTargets(snapshot[p], note'[p].known,
                                          opts[p].profile.threshold)
        /\ note'[p].records = <<>>
    BY <1>2, ListNotifiedFacts DEF storeVars
  <2>2. PICK known : /\ known = note'[p].known
                     /\ note'[p].items
                          = SelectTargets(snapshot[p], known, opts[p].profile.threshold)
    BY <2>1
  <2>3. \A i \in note'[p].items : i \in DOMAIN snapshot[p]
                                  /\ known[i] # MaterialHash[snapshot[p][i].content]
    BY <2>2 DEF SelectTargets
  <2>4. ASSUME NEW i PROVE NotifiedHash(i)' = NotifiedHash(i)
    BY <2>1 DEF NotifiedHash, LastSuccess, SuccessesOf
  <2>5. \A i \in note'[p].items : known[i] = NotifiedHash(i)'
    BY <2>1, <2>2, <2>3, <2>4
  <2> QED BY <1>1, <1>2, <2>1, <2>2, <2>3, <2>5 DEF OncePerJob, KnownNow
<1>3. CASE pc'[p] # "post"
  <2>1. pc'[p] \in {"print", "idle"} /\ note'[p] = NoNote
    BY <1>1, <1>3, ListNotifiedFacts
  <2>2. OncePerJob(p)'
    BY <2>1 DEF OncePerJob, NoNote
  <2> QED BY <1>1, <2>1, <2>2 DEF KnownNow, NoNote
<1> QED BY <1>2, <1>3

LEMMA HashKept ==
    ASSUME notifications' = notifications, NEW i
    PROVE  NotifiedHash(i)' = NotifiedHash(i)
BY DEF NotifiedHash, LastSuccess, SuccessesOf

LEMMA BatchPost ==
    ASSUME TypeInv, NEW p \in Proc, BatchInv(p), Post(p)
    PROVE  OncePerJob(p)' /\ KnownNow(p)'
<1>1. PICK i \in note[p].items, k \in {0, Len(slack) + 1} :
        /\ k # 0 => slack' = Append(slack, MessageFor(p, i))
        /\ note'[p].items = note[p].items /\ note'[p].current = i
        /\ note'[p].inflight = k /\ note'[p].records = note[p].records
        /\ pc'[p] = "reply" /\ SameBatch(p) /\ UNCHANGED storeVars
  BY PostFacts
<1>2. OncePerJob(p)'
  BY <1>1 DEF BatchInv, OncePerJob
<1>3. k # 0 => k = Len(slack') /\ ~slack'[k].acked
  <2>1. PICK m : m = MessageFor(p, i)
    OBVIOUS
  <2>2. ~m.acked
    BY <2>1 DEF MessageFor
  <2>3. slack \in Seq(Message)
    BY DEF TypeInv, TypeOK, NotifyTypeOK
  <2> QED BY <1>1, <2>1, <2>2, <2>3
<1>4. \A j : NotifiedHash(j)' = NotifiedHash(j)
  BY <1>1, HashKept DEF storeVars
<1>5. \A j \in note[p].items :
        /\ note[p].known[j] = NotifiedHash(j)
        /\ note[p].known[j] # MaterialHash[snapshot[p][j].content]
  BY DEF Post, BatchInv, KnownNow
<1> QED BY <1>1, <1>2, <1>3, <1>4, <1>5 DEF KnownNow, SameBatch

LEMMA BatchReply ==
    ASSUME TypeInv, NEW p \in Proc, BatchInv(p), Reply(p)
    PROVE  OncePerJob(p)' /\ KnownNow(p)'
<1>1. PICK ok \in BOOLEAN :
        /\ note'[p].items = note[p].items \ {note[p].current}
        /\ note'[p].records = Append(note[p].records, RecordOf(p, ok))
        /\ pc'[p] \in {"persist", "post"} /\ SameBatch(p) /\ UNCHANGED storeVars
  BY ReplyFacts
<1>2. note[p].current \in note[p].items
  BY DEF Reply, BatchInv, KnownNow
<1>3. OncePerJob(p)'
  <2>1. PICK rec : rec = RecordOf(p, ok)
    OBVIOUS
  <2>2. rec.job = note[p].current
    BY <2>1 DEF RecordOf
  <2>3. note[p].records \in Seq(NotificationRow)
    BY DEF TypeInv, TypeOK, NotifyTypeOK
  <2>4. /\ DOMAIN note'[p].records = DOMAIN note[p].records \cup {Len(note[p].records) + 1}
        /\ \A r \in DOMAIN note[p].records :
              note'[p].records[r] = note[p].records[r] /\ r # Len(note[p].records) + 1
        /\ note'[p].records[Len(note[p].records) + 1] = rec
    BY <1>1, <2>1, <2>3
  <2> QED BY <1>1, <1>2, <2>2, <2>4 DEF BatchInv, OncePerJob
<1>4. \A j : NotifiedHash(j)' = NotifiedHash(j)
  BY <1>1, HashKept DEF storeVars
<1>5. \A j \in note[p].items :
        /\ note[p].known[j] = NotifiedHash(j)
        /\ note[p].known[j] # MaterialHash[snapshot[p][j].content]
  BY DEF Reply, BatchInv, KnownNow
<1> QED BY <1>1, <1>3, <1>4, <1>5 DEF KnownNow, SameBatch

LEMMA BatchRecords ==
    ASSUME TypeInv, "record" \notin FaultKinds, NEW p \in Proc, Acting(p), BatchInv(p),
           Abort(p) \/ Persist(p) \/ Mark(p)
    PROVE  OncePerJob(p)' /\ KnownNow(p)'
<1>1. /\ note'[p].records = <<>> \/ note'[p].records = note[p].records
      /\ note'[p].items \subseteq note[p].items
  BY AbortFacts, PersistFacts, NextRecordFacts DEF Mark, NoNote
<1>2. OncePerJob(p)'
  <2>1. CASE note'[p].records = <<>>
    BY <2>1 DEF OncePerJob
  <2>2. CASE note'[p].records = note[p].records
    BY <1>1, <2>2 DEF BatchInv, OncePerJob
  <2> QED BY <1>1, <2>1, <2>2
<1>3. CASE Persist(p) /\ pc'[p] = "mark"
  <2>1. PICK rec : rec = InHand(p)
    OBVIOUS
  <2>2. /\ notifications' = Append(notifications, rec) /\ rec.result = "success"
        /\ InHand(p)' = rec
    BY <1>3, <2>1, PersistFacts, NextRecordFacts DEF Fault, InHand
  <2>3. rec \in NotificationRow /\ TypeInv'
    BY <1>3, <2>1, RecordInHand, ActingKeeps DEF InHand, Persist
  <2>4. NotifiedHash(rec.job)' = rec.hash
    BY <2>2, <2>3, NotifiedHashGrows
  <2> QED BY <1>2, <1>3, <2>2, <2>4 DEF KnownNow
<1>4. CASE pc'[p] \in {"idle", "persist"}
  BY <1>2, <1>4 DEF KnownNow
<1> QED BY <1>3, <1>4, AbortFacts, PersistFacts, NextRecordFacts DEF Mark

LEMMA BatchStaysOnce ==
    ASSUME TypeInv, "record" \notin FaultKinds, "crash" \notin FaultKinds,
           NEW p \in Proc, Acting(p), BatchInv(p)
    PROVE  BatchInv(p)'
<1>1. NoteIdle(p)'
  BY NoteIdleStep DEF BatchInv
<1>2. CASE Signal(p)
  <2>1. UNCHANGED <<jobs, notifications, pc, snapshot, slack, note>>
    BY <1>2 DEF Signal, Cancel, storeVars, notifyVars
  <2>2. \A j : NotifiedHash(j)' = NotifiedHash(j)
    BY <2>1, HashKept
  <2> QED BY <1>1, <2>1, <2>2 DEF BatchInv, OncePerJob, KnownNow, InHand
<1> QED BY <1>1, <1>2, BatchOther, BatchList, BatchPost, BatchReply, BatchRecords
        DEF Notifies, BatchInv

\* A process without undone records remembers what the history says.
LEMMA MemoryWithoutRecords ==
    ASSUME NEW p \in Proc, note[p].records = <<>>, note'[p].records = <<>>,
           notifications' = notifications, NEW i, NEW h, Memory(p, i, h)
    PROVE  Memory(p, i, h)'
<1>1. ~Held(p, [job |-> i, hash |-> h, result |-> "success"]) /\ ~Unsaved(p, i)'
  BY DEF Held, Unsaved
<1> QED BY <1>1, HashKept DEF Memory

LEMMA MemoryOfReply ==
    ASSUME TypeInv, NEW p \in Proc, Reply(p), NEW i, NEW h, Memory(p, i, h),
           note[p].current # i \/ note[p].inflight = 0
    PROVE  Memory(p, i, h)'
<1>1. PICK ok \in BOOLEAN :
        /\ ok => note[p].inflight # 0
        /\ note'[p].records = Append(note[p].records, RecordOf(p, ok))
        /\ note'[p].done = note[p].done /\ UNCHANGED storeVars
  BY ReplyFacts
<1>2. PICK rec : rec = RecordOf(p, ok)
  OBVIOUS
<1>3. rec.job # i \/ rec.result # "success"
  BY <1>1, <1>2 DEF RecordOf, ResultOf
<1>4. note[p].records \in Seq(NotificationRow)
  BY DEF TypeInv, TypeOK, NotifyTypeOK
<1>5. /\ DOMAIN note'[p].records = DOMAIN note[p].records \cup {Len(note[p].records) + 1}
      /\ \A r \in DOMAIN note[p].records : note'[p].records[r] = note[p].records[r]
      /\ note'[p].records[Len(note[p].records) + 1] = rec
  BY <1>1, <1>2, <1>4
<1>6. Unsaved(p, i)' => Unsaved(p, i)
  BY <1>1, <1>3, <1>5 DEF Unsaved
<1>7. PICK row : row = [job |-> i, hash |-> h, result |-> "success"]
  OBVIOUS
<1>8. Held(p, row) => Held(p, row)'
  BY <1>1, <1>5 DEF Held
<1>9. NotifiedHash(i)' = NotifiedHash(i)
  BY <1>1, HashKept DEF storeVars
<1> QED BY <1>6, <1>7, <1>8, <1>9 DEF Memory

\* NextRecord lets go of one record: if the history has it, nothing is lost.
LEMMA MemoryOfNextRecord ==
    ASSUME TypeInv, NEW p \in Proc, NextRecord(p), OncePerJob(p), NEW i, NEW h,
           pc[p] \in {"persist", "mark"},
           InHand(p).result = "success" => NotifiedHash(InHand(p).job) = InHand(p).hash,
           NotifiedHash(i)' = NotifiedHash(i), Memory(p, i, h)
    PROVE  Memory(p, i, h)'
<1> DEFINE row == [job |-> i, hash |-> h, result |-> "success"]
<1>1. /\ note[p].records \in Seq(NotificationRow) /\ note[p].done \in Nat
      /\ DOMAIN note[p].records = 1..Len(note[p].records)
      /\ note[p].done + 1 \in DOMAIN note[p].records
  BY RecordInHand DEF TypeInv, TypeOK, NotifyTypeOK
<1>2. Unsaved(p, i)' => \E r \in DOMAIN note[p].records :
        /\ r > note[p].done + 1
        /\ note[p].records[r].job = i /\ note[p].records[r].result = "success"
  BY NextRecordFacts DEF Unsaved, NoNote
<1>3. ASSUME NEW r \in DOMAIN note[p].records, r > note[p].done + 1,
             note[p].records[r] = row
      PROVE  Held(p, row)'
  <2>1. note[p].done + 1 # Len(note[p].records)
    BY <1>1, <1>3
  <2>2. note'[p].records = note[p].records /\ note'[p].done = note[p].done + 1
    BY <2>1, NextRecordFacts
  <2> QED BY <1>3, <2>2 DEF Held
<1>4. CASE ~Unsaved(p, i) /\ NotifiedHash(i) = h
  <2>1. ~Unsaved(p, i)'
    BY <1>1, <1>2, <1>4 DEF Unsaved
  <2> QED BY <1>4, <2>1 DEF Memory
<1>5. CASE Held(p, row)
  <2>1. PICK r \in DOMAIN note[p].records : r > note[p].done /\ note[p].records[r] = row
    BY <1>5 DEF Held
  <2>2. CASE r = note[p].done + 1
    <3>1. InHand(p) = row /\ NotifiedHash(i) = h
      BY <2>1, <2>2 DEF InHand
    <3>2. ~Unsaved(p, i)'
      BY <1>1, <1>2, <2>1, <2>2 DEF OncePerJob
    <3> QED BY <3>1, <3>2 DEF Memory
  <2>3. CASE r # note[p].done + 1
    <3>1. r > note[p].done + 1
      BY <1>1, <2>1, <2>3
    <3> QED BY <1>3, <2>1, <3>1 DEF Memory
  <2> QED BY <2>2, <2>3
<1> QED BY <1>4, <1>5 DEF Memory

LEMMA MemoryOfPersist ==
    ASSUME TypeInv, TypeInv', "record" \notin FaultKinds, NEW p \in Proc, Persist(p),
           BatchInv(p), NEW i, NEW h, Memory(p, i, h)
    PROVE  Memory(p, i, h)'
<1>1. PICK rec : rec = InHand(p)
  OBVIOUS
<1>2. rec \in NotificationRow /\ notifications' = Append(notifications, rec)
  BY <1>1, RecordInHand, PersistFacts DEF InHand, Persist, Fault
<1>3. CASE rec.result = "success"
  <2>1. note'[p] = note[p]
    BY <1>1, <1>3, PersistFacts
  <2>2. CASE Held(p, [job |-> i, hash |-> h, result |-> "success"])
    BY <2>1, <2>2 DEF Held, Memory
  <2>3. CASE ~Unsaved(p, i) /\ NotifiedHash(i) = h
    <3>1. note[p].done + 1 \in DOMAIN note[p].records /\ note[p].done \in Nat
      BY RecordInHand DEF Persist, TypeInv, TypeOK, NotifyTypeOK
    <3>2. rec.job # i
      BY <1>1, <1>3, <2>3, <3>1 DEF Unsaved, InHand
    <3>3. NotifiedHash(i)' = NotifiedHash(i)
      BY <1>2, <3>2, NotifiedHashGrows
    <3>4. ~Unsaved(p, i)'
      BY <2>1, <2>3 DEF Unsaved
    <3> QED BY <2>3, <3>3, <3>4 DEF Memory
  <2> QED BY <2>2, <2>3 DEF Memory
<1>4. CASE rec.result # "success"
  <2>1. NextRecord(p) /\ NotifiedHash(i)' = NotifiedHash(i)
    BY <1>1, <1>2, <1>4, PersistFacts, NotifiedHashGrows
  <2> QED BY <1>1, <1>4, <2>1, MemoryOfNextRecord DEF Persist, BatchInv
<1> QED BY <1>3, <1>4

LEMMA MemoryStays ==
    ASSUME TypeInv, "record" \notin FaultKinds, "crash" \notin FaultKinds,
           NEW p \in Proc, Acting(p), BatchInv(p), NEW i, NEW h, Memory(p, i, h),
           Reply(p) => note[p].current # i \/ note[p].inflight = 0
    PROVE  Memory(p, i, h)'
<1>1. CASE Reply(p)
  BY <1>1, MemoryOfReply
<1>2. CASE Persist(p)
  BY <1>2, ActingKeeps, MemoryOfPersist
<1>3. CASE Mark(p)
  BY <1>3, HashKept, MemoryOfNextRecord DEF Mark, BatchInv, KnownNow
<1>4. CASE ListNotified(p)
  <2>1. note[p].records = <<>> /\ note'[p].records = <<>>
    BY <1>4, BatchList DEF NoNote
  <2> QED BY <1>4, <2>1, ListNotifiedFacts, MemoryWithoutRecords DEF storeVars
<1>5. CASE Post(p) \/ Abort(p) \/ Signal(p)
  <2>1. notifications' = notifications
    BY <1>5, PostFacts, AbortFacts DEF Signal, storeVars
  <2>2. CASE note'[p].records = note[p].records /\ note'[p].done = note[p].done
    BY <2>1, <2>2, HashKept DEF Memory, Held, Unsaved
  <2>3. CASE note[p].records = <<>> /\ note'[p].records = <<>>
    BY <2>1, <2>3, MemoryWithoutRecords
  <2> QED BY <1>5, <2>2, <2>3, PostFacts, AbortFacts DEF Signal, notifyVars, NoNote
<1>6. CASE ~Notifies(p) /\ ~Signal(p)
  <2>1. note[p] = NoNote /\ note'[p] = NoNote /\ notifications' = notifications
    BY <1>6, BatchOther, OtherFacts
  <2>2. note[p].records = <<>> /\ note'[p].records = <<>>
    BY <2>1 DEF NoNote
  <2> QED BY <2>1, <2>2, MemoryWithoutRecords
<1> QED BY <1>1, <1>2, <1>3, <1>4, <1>5, <1>6 DEF Notifies

ResendInv == NoResend /\ \A p \in Proc : BatchInv(p) /\ Remembers(p)

LEMMA RemembersStep ==
    ASSUME TypeInv, DeliveryInv, "record" \notin FaultKinds, "crash" \notin FaultKinds,
           NEW p \in Proc, Acting(p), BatchInv(p), Remembers(p)
    PROVE  Remembers(p)'
<1>1. SlackGrows /\ slack \in Seq(Message)
  BY ActingKeeps DEF TypeInv, TypeOK, NotifyTypeOK
<1> SUFFICES ASSUME NEW n \in DOMAIN slack', slack'[n].acked, LastAbout(n)'
             PROVE  Memory(p, slack[n].job, MaterialHash[slack[n].content])'
  BY DEF Remembers
<1>2. PICK i, h : i = slack'[n].job /\ h = MaterialHash[slack'[n].content]
  OBVIOUS
<1>3. CASE n \in DOMAIN slack /\ slack[n].acked
  <2>1. i = slack[n].job /\ h = MaterialHash[slack[n].content]
    BY <1>1, <1>2, <1>3 DEF SlackGrows
  <2>2. LastAbout(n)
    BY <1>1, <1>3 DEF SlackGrows, LastAbout
  <2>3. Memory(p, i, h)
    BY <1>3, <2>1, <2>2 DEF Remembers
  <2>4. ASSUME Reply(p), note[p].current = i, note[p].inflight # 0 PROVE FALSE
    <3>1. /\ note[p].inflight = Len(slack) /\ ~slack[Len(slack)].acked
          /\ slack[Len(slack)].job = i
      BY <2>4 DEF Reply, BatchInv, KnownNow, DeliveryInv, Truthful, InflightTrue
    <3>2. n # Len(slack) /\ n \in 1..Len(slack)
      BY <1>1, <1>3, <3>1
    <3>3. Len(slack) \in DOMAIN slack /\ Len(slack) > n
      BY <1>1, <3>2
    <3> QED BY <2>1, <2>2, <3>1, <3>3 DEF LastAbout
  <2>5. Memory(p, i, h)'
    BY <2>3, <2>4, MemoryStays
  <2> QED BY <1>2, <2>5 DEF Memory, Held, Unsaved, NotifiedHash, LastSuccess, SuccessesOf
<1>4. CASE Held(p, SuccessRow(slack[n]))'
  BY <1>4 DEF Memory, SuccessRow
<1> QED BY <1>3, <1>4, NewlyAcked

LEMMA NewMessageDiffers ==
    ASSUME TypeInv, NEW p \in Proc, Post(p), BatchInv(p), Remembers(p),
           NEW i \in note[p].items, slack' = Append(slack, MessageFor(p, i)),
           NEW m \in DOMAIN slack, slack[m].acked, LastAbout(m), slack[m].job = i
    PROVE  MaterialHash[slack[m].content] # MaterialHash[snapshot[p][i].content]
<1>1. Memory(p, i, MaterialHash[slack[m].content])
  BY DEF Remembers
<1>2. ~Held(p, [job |-> i, hash |-> MaterialHash[slack[m].content], result |-> "success"])
  BY DEF Held, BatchInv, OncePerJob
<1>3. NotifiedHash(i) = MaterialHash[slack[m].content]
  BY <1>1, <1>2 DEF Memory
<1> QED BY <1>3 DEF Post, BatchInv, KnownNow

LEMMA NoResendStep ==
    ASSUME TypeInv, DeliveryInv, NEW p \in Proc, Acting(p), NoResend, BatchInv(p),
           Remembers(p)
    PROVE  NoResend'
<1>1. SlackGrows /\ slack \in Seq(Message) /\ Len(slack) \in Nat
  BY ActingKeeps DEF TypeInv, TypeOK, NotifyTypeOK
<1> SUFFICES ASSUME NEW n \in DOMAIN slack', NEW m \in 1..(n - 1),
                    Consecutive(m, n)', slack'[m].acked
             PROVE  MaterialHash[slack'[m].content] # MaterialHash[slack'[n].content]
  BY DEF NoResend
<1>2. CASE n \in DOMAIN slack /\ slack[m].acked
  <2>1. m \in DOMAIN slack /\ \A k \in (m + 1)..(n - 1) : k \in DOMAIN slack
    BY <1>1, <1>2
  <2>2. Consecutive(m, n)
    BY <1>1, <1>2, <2>1 DEF SlackGrows, Consecutive
  <2>3. MaterialHash[slack[m].content] # MaterialHash[slack[n].content]
    BY <1>2, <2>2 DEF NoResend
  <2> QED BY <1>1, <1>2, <2>1, <2>3 DEF SlackGrows
<1>3. CASE Post(p)
  <2>1. PICK i \in note[p].items : slack' = slack \/ slack' = Append(slack, MessageFor(p, i))
    BY <1>3, PostFacts
  <2>2. PICK msg : msg = MessageFor(p, i)
    OBVIOUS
  <2>3. msg.job = i /\ msg.content = snapshot[p][i].content
    BY <2>2 DEF MessageFor
  <2>4. CASE n \in DOMAIN slack
    <3>1. slack'[m] = slack[m]
      BY <1>1, <2>1, <2>2, <2>4
    <3> QED BY <1>2, <2>4, <3>1
  <2>5. CASE n \notin DOMAIN slack
    <3>1. /\ n = Len(slack) + 1 /\ slack'[n] = msg /\ m \in DOMAIN slack
          /\ slack' = Append(slack, MessageFor(p, i))
          /\ \A k \in DOMAIN slack : slack'[k] = slack[k] /\ (k > m => k \in (m + 1)..(n - 1))
      BY <1>1, <2>1, <2>2, <2>5
    <3>2. slack[m].acked /\ slack[m].job = i /\ LastAbout(m)
      BY <2>3, <3>1 DEF Consecutive, LastAbout
    <3>3. MaterialHash[slack[m].content] # MaterialHash[snapshot[p][i].content]
      BY <1>3, <3>1, <3>2, NewMessageDiffers
    <3> QED BY <2>3, <3>1, <3>3
  <2> QED BY <2>4, <2>5
<1>4. CASE Reply(p)
  <2> DEFINE k == note[p].inflight
  <2>1. PICK ok \in BOOLEAN :
          /\ ok => k # 0
          /\ slack' = IF ok THEN [slack EXCEPT ![k].acked = TRUE] ELSE slack
    BY <1>4, ReplyFacts
  <2>2. ok => k = Len(slack)
    BY <1>4, <2>1 DEF Reply, BatchInv, KnownNow
  <2>3. n \in DOMAIN slack /\ m # Len(slack)
    BY <1>1, <2>1
  <2>4. slack'[m] = slack[m]
    BY <1>1, <2>1, <2>2, <2>3
  <2> QED BY <1>2, <2>3, <2>4
<1>5. CASE ~Post(p) /\ ~Reply(p)
  <2>1. slack' = slack
    BY <1>5, OtherFacts, AbortFacts, ListNotifiedFacts, PersistFacts
       DEF Notifies, Mark, Signal, notifyVars
  <2> QED BY <1>2, <2>1
<1> QED BY <1>3, <1>4, <1>5

LEMMA ResendStep ==
    ASSUME TypeInv, DeliveryInv, Alone, "record" \notin FaultKinds,
           "crash" \notin FaultKinds, ResendInv, [Next]_vars
    PROVE  ResendInv'
<1>1. CASE UNCHANGED vars
  <2>1. UNCHANGED <<notifications, pc, snapshot, slack, note>>
    BY <1>1 DEF vars, storeVars, procVars, notifyVars
  <2>2. NoResend'
    BY <2>1 DEF ResendInv, NoResend, Consecutive
  <2>3. ASSUME NEW p \in Proc PROVE BatchInv(p)' /\ Remembers(p)'
    <3>1. \A i : NotifiedHash(i)' = NotifiedHash(i)
      BY <2>1, HashKept
    <3>2. BatchInv(p)'
      BY <2>1, <3>1 DEF ResendInv, BatchInv, NoteIdle, OncePerJob, KnownNow, InHand
    <3>3. Remembers(p)'
      BY <2>1, <3>1 DEF ResendInv, Remembers, LastAbout, Memory, Held, Unsaved
    <3> QED BY <3>2, <3>3
  <2> QED BY <2>2, <2>3 DEF ResendInv
<1>2. ASSUME NEW p \in Proc, Acting(p) PROVE ResendInv'
  <2>1. NoResend' /\ BatchInv(p)' /\ Remembers(p)'
    BY <1>2, NoResendStep, BatchStaysOnce, RemembersStep DEF ResendInv
  <2>2. \A q \in Proc : q = p
    BY DEF Alone
  <2>3. PICK P : P = Proc /\ \A q \in P : q = p
    BY <2>2
  <2>4. \A q \in P : BatchInv(q)' /\ Remembers(q)'
    BY <2>1, <2>3
  <2> QED BY <2>1, <2>3, <2>4 DEF ResendInv
<1> QED BY <1>1, <1>2, NextActs

\* A lone process that is neither killed nor kept from writing its history
\* never repeats an acknowledged message: the next one about the same posting
\* says something materially different.
THEOREM NothingIsResent ==
    ASSUME Alone, "record" \notin FaultKinds, "crash" \notin FaultKinds
    PROVE  Spec => []NoResend
<1>1. Init => ResendInv
  <2> SUFFICES ASSUME Init PROVE ResendInv
    OBVIOUS
  <2>1. slack = <<>> /\ \A p \in Proc : pc[p] = "idle" /\ note[p] = NoNote
    BY DEF Init, ProcInit, NotifyInit
  <2>2. NoResend /\ \A p \in Proc : Remembers(p)
    BY <2>1 DEF NoResend, Remembers
  <2>3. \A p \in Proc : NoteIdle(p) /\ OncePerJob(p) /\ KnownNow(p)
    BY <2>1 DEF NoteIdle, OncePerJob, KnownNow, NoNote
  <2> QED BY <2>2, <2>3 DEF ResendInv, BatchInv
<1>2. TypeInv /\ DeliveryInv /\ ResendInv /\ [Next]_vars => ResendInv'
  BY ResendStep
<1>3. ResendInv => NoResend
  BY DEF ResendInv
<1> QED BY <1>1, <1>2, <1>3, InitType, NextType, DeliveryAlways, PTL DEF Spec
-----------------------------------------------------------------------------
(* Failures of sources and their notifications *)

\* A source file names no source twice, so neither does a command (config.go:199).
SourcesOnce ==
    \A o \in Offered : \A a, b \in DOMAIN o.connectors :
        o.connectors[a] = o.connectors[b] => a = b

\* The failures of p whose run row is written.
AtFault(p) == pc[p] = "saveRun" /\ coll[p].err
Untold(p) == IF AtFault(p) THEN coll[p].failures \ {ThisSource(p)} ELSE coll[p].failures

\* A collection that nothing stops: it tells of each source once, when it is
\* through with it.
Collecting(p) ==
    /\ ~ctxDone[p]
    /\ pc[p] \notin {"fetch", "save", "saveRun"} => coll[p] = NoCollect
    /\ pc[p] \in {"fetch", "save"} => ~coll[p].err
    /\ pc[p] \in {"fetch", "save", "saveRun"} => opts[p] \in Offered
    /\ Untold(p) \subseteq {opts[p].connectors[j] : j \in 1..(coll[p].src - 1)}
    /\ AtFault(p) => ThisSource(p) \in coll[p].failures

RowsFailed(s) == {r \in RunRow : r.source = s /\ ~r.ok}
ListsNaming(s) == {F \in SUBSET Source : s \in F}
Places(seq, A) == {n \in DOMAIN seq : seq[n] \in A}

\* A process that was interrupted tells nobody any more.
Due(p) == IF ctxDone[p] THEN {} ELSE Untold(p)
Holding(s) == {p \in Proc : s \in Due(p)}

LEMMA PlacesFinite ==
    ASSUME NEW T, NEW seq \in Seq(T), NEW A
    PROVE  IsFiniteSet(Places(seq, A)) /\ Cardinality(Places(seq, A)) \in Nat
<1>1. IsFiniteSet(1..Len(seq))
  BY FS_Interval
<1>2. Places(seq, A) \subseteq 1..Len(seq)
  BY DEF Places
<1> QED BY <1>1, <1>2, FS_Subset, FS_CardinalityType

LEMMA PlacesOfAppend ==
    ASSUME NEW T, NEW seq \in Seq(T), NEW x \in T, NEW A
    PROVE  Cardinality(Places(Append(seq, x), A))
             = IF x \in A THEN Cardinality(Places(seq, A)) + 1
                          ELSE Cardinality(Places(seq, A))
<1> DEFINE n == Len(seq) + 1
           more == Append(seq, x)
<1>1. /\ n \in Nat /\ n \notin DOMAIN seq
      /\ DOMAIN more = DOMAIN seq \cup {n} /\ more[n] = x
      /\ \A m \in DOMAIN seq : more[m] = seq[m]
  OBVIOUS
<1> HIDE DEF n, more
<1>2. CASE x \in A
  <2>1. Places(more, A) = Places(seq, A) \cup {n}
    BY <1>1, <1>2 DEF Places
  <2>2. n \notin Places(seq, A)
    BY <1>1 DEF Places
  <2>3. Cardinality(Places(more, A)) = Cardinality(Places(seq, A)) + 1
    BY <2>1, <2>2, PlacesFinite, FS_AddElement
  <2> QED BY <1>2, <2>3 DEF more
<1>3. CASE x \notin A
  <2>1. Places(more, A) = Places(seq, A)
    BY <1>1, <1>3 DEF Places
  <2> QED BY <1>3, <2>1 DEF more
<1> QED BY <1>2, <1>3

\* What a step may do to the failures of a process, which were U and become V.
TellsAlike(U, V) == UNCHANGED <<runs, alerts>> /\ V = U
TellsFailure(U, V) ==
    \E row \in RunRow :
        /\ ~row.ok /\ row.source \notin U
        /\ runs' = Append(runs, row) /\ UNCHANGED alerts
        /\ V = U \cup {row.source}
TellsSuccess(U, V) ==
    \E row \in RunRow : row.ok /\ runs' = Append(runs, row) /\ UNCHANGED alerts /\ V = U
Alerts(U, V) ==
    /\ UNCHANGED runs /\ V = {}
    /\ \/ U = {} /\ UNCHANGED alerts
       \/ U \in SUBSET Source /\ alerts' = Append(alerts, U)
Tells(U, V) ==
    TellsAlike(U, V) \/ TellsFailure(U, V) \/ TellsSuccess(U, V) \/ Alerts(U, V)
Forgets(V) == UNCHANGED <<runs, alerts>> /\ V = {}

\* Failures may find nobody to tell: the alert fails, or there is no webhook.
Unheard == "alert" \in FaultKinds \/ \E o \in Offered : ~o.dryRun /\ ~o.errorHook

LEMMA FetchSaveFacts ==
    ASSUME TypeInv, NEW p \in Proc, FetchOk(p) \/ SaveOne(p)
    PROVE  /\ pc[p] \in {"fetch", "save"} /\ (pc[p] = "fetch" => SourcesLeft(p))
           /\ coll'[p].src = coll[p].src /\ coll'[p].err = coll[p].err
           /\ coll'[p].failures = coll[p].failures
           /\ UNCHANGED <<runs, alerts>>
<1>1. CASE FetchOk(p)
  <2>1. pc[p] = "fetch" /\ SourcesLeft(p) /\ UNCHANGED <<runs, alerts>>
    BY <1>1 DEF FetchOk, storeVars
  <2>2. PICK b \in Batches[ThisSource(p)] :
           coll' = [coll EXCEPT ![p].batch = b, ![p].pending = Dedupe(b),
                        ![p].dup = Cardinality(Parsed(b)) - Cardinality(Dedupe(b))]
    BY <1>1 DEF FetchOk
  <2> QED BY <2>1, <2>2 DEF TypeInv, TypeOK, CollectTypeOK
<1>2. CASE SaveOne(p)
  <2>1. pc[p] = "save" /\ UNCHANGED <<runs, alerts>>
    BY <1>2 DEF SaveOne
  <2>2. PICK i \in coll[p].pending :
          LET created == JobsWithKey(coll[p].batch[i].key) = {}
          IN  coll' = [coll EXCEPT ![p].pending = coll[p].pending \ {i},
                         ![p].new = IF created THEN @ + 1 ELSE @,
                         ![p].dup = IF created THEN @ ELSE @ + 1]
    BY <1>2 DEF SaveOne
  <2> QED BY <2>1, <2>2 DEF TypeInv, TypeOK, CollectTypeOK
<1> QED BY <1>1, <1>2

LEMMA CollectingSteps ==
    ASSUME TypeInv, SourcesOnce, "saveRun" \notin FaultKinds,
           NEW p \in Proc, CollectStep(p), Collecting(p)
    PROVE  /\ Collecting(p)'
           /\ \/ Tells(Untold(p), Untold(p)')
              \/ Forgets(Untold(p)') /\ Unheard
<1> USE DEF TypeInv, TypeOK
<1>1. PICK o, src, F, err : o = opts[p] /\ src = coll[p].src /\ F = coll[p].failures
                            /\ err = coll[p].err
  OBVIOUS
<1>2. pc[p] \in {"fetch", "save", "saveRun"}
  BY DEF CollectStep, FetchOk, FetchFailed, SaveOne, SaveFailed, RecordRun, EndCollect
<1>3. src \in Nat /\ F \in SUBSET Source /\ o \in Offered /\ o.connectors \in Seq(Source)
  <2>1. o \in Options
    BY <1>1, <1>2 DEF ProcTypeOK
  <2> QED BY <1>1, <1>2, <2>1 DEF CollectTypeOK, Collecting, Options
<1>4. ASSUME FetchFailed(p) \/ SaveFailed(p) \/ RecordRun(p) \/ FetchOk(p) \/ SaveOne(p)
      PROVE  /\ src \in 1..Len(o.connectors)
             /\ ThisSource(p) = o.connectors[src] /\ ThisSource(p) \in Source
             /\ o.connectors[src] \notin {o.connectors[j] : j \in 1..(src - 1)}
  <2>1. src \in 1..Len(o.connectors)
    <3>1. CASE pc[p] = "fetch"
      <4>1. SourcesLeft(p)
        <5>1. ~SaveFailed(p) /\ ~RecordRun(p) /\ ~SaveOne(p)
          BY <3>1 DEF SaveFailed, RecordRun, SaveOne
        <5> QED BY <1>4, <3>1, <5>1, FetchSaveFacts DEF FetchFailed
      <4>2. src > 0 /\ src <= Len(o.connectors)
        BY <1>1, <3>1, <4>1 DEF SourcesLeft, Bounds
      <4> QED BY <1>3, <4>2
    <3>2. CASE pc[p] \in {"save", "saveRun"}
      BY <1>1, <3>2 DEF Bounds
    <3> QED BY <1>2, <3>1, <3>2
  <2>2. \A j \in 1..(src - 1) : j \in DOMAIN o.connectors /\ j # src
    BY <1>3, <2>1
  <2> QED BY <1>1, <1>3, <2>1, <2>2 DEF ThisSource, SourcesOnce
<1>5. CASE FetchFailed(p) \/ SaveFailed(p)
  <2>1. /\ coll'[p].src = src /\ coll'[p].err
        /\ coll'[p].failures = F \cup {ThisSource(p)}
        /\ UNCHANGED <<runs, alerts>>
    BY <1>1, <1>5 DEF FetchFailed, SaveFailed, CollectTypeOK, storeVars
  <2>2. pc'[p] = "saveRun" /\ opts'[p] = o /\ ctxDone'[p] = ctxDone[p]
    BY <1>1, <1>5 DEF FetchFailed, SaveFailed, Continue, Goto, ProcTypeOK
  <2>3. ThisSource(p)' = ThisSource(p)
    BY <1>1, <2>1, <2>2 DEF ThisSource
  <2>4. Untold(p) = F /\ F \subseteq {o.connectors[j] : j \in 1..(src - 1)}
    BY <1>1, <1>5 DEF Untold, AtFault, Collecting, FetchFailed, SaveFailed
  <2>5. Untold(p)' = F
    BY <1>4, <1>5, <2>1, <2>2, <2>3, <2>4 DEF Untold, AtFault
  <2>6. Collecting(p)'
    BY <1>1, <1>3, <2>1, <2>2, <2>3, <2>4, <2>5 DEF Collecting
  <2> QED BY <2>1, <2>4, <2>5, <2>6 DEF Tells, TellsAlike
<1>6. CASE FetchOk(p) \/ SaveOne(p)
  <2>1. /\ coll'[p].src = src /\ coll'[p].err = err /\ coll'[p].failures = F
        /\ UNCHANGED <<runs, alerts>>
    BY <1>1, <1>6, FetchSaveFacts
  <2>2. pc'[p] \in {"save", "saveRun"} /\ opts'[p] = o /\ ctxDone'[p] = ctxDone[p]
    BY <1>1, <1>6 DEF FetchOk, SaveOne, Continue, Goto, ProcTypeOK
  <2>3. ~err /\ Untold(p) = F /\ F \subseteq {o.connectors[j] : j \in 1..(src - 1)}
    <3>1. pc[p] \in {"fetch", "save"}
      BY <1>6, FetchSaveFacts
    <3> QED BY <1>1, <3>1 DEF Untold, AtFault, Collecting
  <2>4. Untold(p)' = F
    BY <2>1, <2>3 DEF Untold, AtFault
  <2>5. Collecting(p)'
    BY <1>1, <1>3, <2>1, <2>2, <2>3, <2>4 DEF Collecting, AtFault
  <2> QED BY <2>1, <2>3, <2>4, <2>5 DEF Tells, TellsAlike
<1>7. CASE RecordRun(p)
  <2>1. /\ coll'[p].src = src + 1 /\ ~coll'[p].err /\ coll'[p].failures = F
        /\ UNCHANGED alerts
    BY <1>1, <1>7 DEF RecordRun, CollectTypeOK, NoCollect
  <2>2. pc'[p] = "fetch" /\ opts'[p] = o /\ ctxDone'[p] = ctxDone[p]
    BY <1>1, <1>7 DEF RecordRun, Continue, Goto, ProcTypeOK
  <2>3. Untold(p)' = F
    BY <2>1, <2>2 DEF Untold, AtFault
  <2>4. PICK row : /\ row = RunRowOf(p) /\ row \in RunRow
                   /\ row.source = o.connectors[src] /\ (row.ok <=> ~err)
    <3>1. coll[p].new \in Nat /\ coll[p].dup \in Nat
      BY DEF CollectTypeOK
    <3>2. (~coll[p].err) \in BOOLEAN
      OBVIOUS
    <3>3. RunRowOf(p) \in RunRow
      BY <1>4, <1>7, <3>1, <3>2 DEF RunRowOf, RunRow
    <3>4. RunRowOf(p).source = o.connectors[src]
      BY <1>4, <1>7 DEF RunRowOf
    <3>5. RunRowOf(p).ok <=> ~err
      BY <1>1 DEF RunRowOf
    <3> QED BY <3>3, <3>4, <3>5
  <2>5. runs' = Append(runs, row)
    BY <1>7, <2>4 DEF RecordRun, SaveRun, Fails, Fault, Collecting
  <2>6. Untold(p) = IF err THEN F \ {row.source} ELSE F
    BY <1>1, <1>4, <1>7, <2>4 DEF Untold, AtFault, RecordRun
  <2>7. Untold(p) \subseteq {o.connectors[j] : j \in 1..(src - 1)}
    BY <1>1 DEF Collecting
  <2>8. err => row.source \in F
    BY <1>1, <1>4, <1>7, <2>4 DEF Collecting, AtFault, RecordRun
  <2>9. F \subseteq {o.connectors[j] : j \in 1..src}
    <3>1. \A j \in 1..(src - 1) : j \in 1..src
      BY <1>3
    <3>2. src \in 1..src
      BY <1>4, <1>7
    <3> QED BY <2>4, <2>6, <2>7, <3>1, <3>2
  <2>10. Collecting(p)'
    <3>1. coll'[p].src - 1 = src
      BY <1>3, <2>1
    <3> QED BY <1>1, <1>3, <2>1, <2>2, <2>3, <2>9, <3>1 DEF Collecting, AtFault
  <2>11. CASE err
    <3>1. row.source \notin Untold(p) /\ Untold(p)' = Untold(p) \cup {row.source}
      BY <2>3, <2>6, <2>8, <2>11
    <3> QED BY <2>1, <2>4, <2>5, <2>10, <2>11, <3>1 DEF Tells, TellsFailure
  <2>12. CASE ~err
    BY <2>1, <2>3, <2>4, <2>5, <2>6, <2>10, <2>12 DEF Tells, TellsSuccess
  <2> QED BY <2>11, <2>12, <1>1 DEF CollectTypeOK
<1>8. CASE EndCollect(p)
  <2>1. Untold(p) = F
    BY <1>1, <1>8 DEF Untold, AtFault, EndCollect
  <2>2. coll'[p] = NoCollect /\ UNCHANGED runs
    BY <1>8 DEF EndCollect, CollectTypeOK, storeVars
  <2>3. pc'[p] \in {"idle", "listForScore"} /\ ~ctxDone'[p]
    BY <1>8 DEF EndCollect, AfterCollect, Continue, Exit, Goto, Collecting, ProcTypeOK
  <2>4. Untold(p)' = {}
    BY <2>2, <2>3 DEF Untold, AtFault, NoCollect
  <2>5. Collecting(p)'
    BY <2>2, <2>3, <2>4 DEF Collecting, AtFault
  <2>6. \/ F = {} /\ UNCHANGED alerts
        \/ alerts' = Append(alerts, F)
        \/ UNCHANGED alerts /\ Unheard
    BY <1>1, <1>3, <1>8 DEF EndCollect, NotifyFailures, HasAlarm, Fails, Fault, Collecting,
                            Unheard
  <2> QED BY <1>3, <2>1, <2>2, <2>4, <2>5, <2>6 DEF Tells, Alerts, Forgets
<1> QED BY <1>5, <1>6, <1>7, <1>8 DEF CollectStep

LEMMA StaysOut ==
    ASSUME TypeInv, NEW p \in Proc, ScoreStep(p) \/ NotifyStep(p), ~CutOff(p),
           NEW q \in Proc, ~ctxDone[q]
    PROVE  pc'[p] \notin {"fetch", "save", "saveRun"} /\ ~ctxDone'[q]
<1> DEFINE M == pc'[p] \notin {"fetch", "save", "saveRun"} /\ ~ctxDone'[q]
<1>1. \A o : Exit(p, o) => M
  BY DEF Exit, Goto, TypeInv, TypeOK, ProcTypeOK
<1>2. \A l \in ScorePC \cup NotifyPC : Continue(p, l) => M
  BY DEF Continue, Goto, ScorePC, NotifyPC, TypeInv, TypeOK, ProcTypeOK
<1>3. \A l \in ScorePC \cup NotifyPC : \A rows : ContinueWith(p, l, rows) => M
  BY DEF ContinueWith, Goto, ScorePC, NotifyPC, TypeInv, TypeOK, ProcTypeOK
<1>4. \A l \in ScorePC \cup NotifyPC : l \notin {"fetch", "save", "saveRun"}
  BY DEF ScorePC, NotifyPC
<1>5. \A o : EndNotify(p, o) => M
  BY <1>1 DEF EndNotify
<1> HIDE DEF M
<1>6. AfterScore(p) => M
  BY <1>1, <1>3 DEF AfterScore, NotifyPC
<1>7. NextRecord(p) => M
  BY <1>2, <1>5 DEF NextRecord, NotifyPC
<1> SUFFICES M
  BY DEF M
<1>8. CASE ScoreStep(p)
  <2>1. ListForScore(p) => M
    BY <1>3, <1>6 DEF ListForScore, ScorePC
  <2>2. ScoreError(p) => M
    BY <1>1 DEF ScoreError
  <2>3. ScoreOne(p) => M
    <3>1. ScoreOne(p) => AfterScore(p) \/ Continue(p, "score")
      BY DEF ScoreOne
    <3> QED BY <1>2, <1>6, <3>1 DEF ScorePC
  <2> QED BY <1>8, <2>1, <2>2, <2>3 DEF ScoreStep
<1>9. CASE NotifyStep(p)
  <2>1. Paused(p) \/ NotifyError(p) \/ Preview(p) => M
    BY <1>5 DEF Paused, NotifyError, Preview
  <2>2. ListForNotify(p) => M
    BY <1>3 DEF ListForNotify, NotifyPC
  <2>3. ListNotified(p) => M
    BY <1>2, <1>5 DEF ListNotified, NotifyPC
  <2>4. Abort(p) => M
    BY <1>2, <1>5 DEF Abort, NotifyPC
  <2>5. Reply(p) => M
    <3>1. Reply(p) => Continue(p, "persist") \/ Continue(p, "post")
      BY DEF Reply
    <3> QED BY <1>2, <3>1 DEF NotifyPC
  <2>6. Persist(p) \/ Mark(p) => M
    <3>1. Persist(p) \/ Mark(p) => Continue(p, "mark") \/ NextRecord(p)
      BY DEF Persist, Mark
    <3> QED BY <1>2, <1>7, <3>1 DEF NotifyPC
  <2>7. Post(p) => M
    BY DEF Post, CutOff, Goto, M, TypeInv, TypeOK, ProcTypeOK
  <2> QED BY <1>9, <2>1, <2>2, <2>3, <2>4, <2>5, <2>6, <2>7 DEF NotifyStep
<1> QED BY <1>8, <1>9

LEMMA OutsideCollect ==
    ASSUME TypeInv, NEW p \in Proc, ScoreStep(p) \/ NotifyStep(p)
    PROVE  pc[p] \notin {"fetch", "save", "saveRun"} /\ UNCHANGED runs
<1>1. CASE ScoreStep(p)
  <2>1. ListForScore(p) \/ ScoreError(p)
          => pc[p] \in {"listForScore", "score"} /\ UNCHANGED runs
    BY DEF ListForScore, ScoreError, ScorePC, storeVars
  <2>2. ScoreOne(p) => pc[p] = "score" /\ UNCHANGED runs
    BY DEF ScoreOne
  <2> QED BY <1>1, <2>1, <2>2 DEF ScoreStep
<1>2. CASE NotifyStep(p)
  BY <1>2 DEF NotifyStep, Paused, ListForNotify, NotifyError, ListNotified, Preview,
              Post, Abort, Reply, Persist, Mark, storeVars
<1> QED BY <1>1, <1>2

\* Everything but a step of its collection leaves what a process holds alone.
LEMMA OthersTellAlike ==
    ASSUME TypeInv, NEW p \in Proc, Acting(p), ~CollectStep(p), Collecting(p),
           ~Crash(p), ~Signal(p), ~CutOff(p)
    PROVE  Collecting(p)' /\ Tells(Untold(p), Untold(p)')
<1> USE DEF TypeInv, TypeOK, ProcTypeOK, CollectTypeOK, Tells
<1>2. CASE \E o \in Offered : Start(p, o)
  <2>1. PICK o \in Offered : Start(p, o)
    BY <1>2
  <2>2. /\ pc'[p] \in {"fetch", "listForScore", "listForNotify"}
        /\ pc'[p] = "fetch" => Collects(o)
    BY <2>1, OfferedAssumption DEF Start, Goto, FirstPC, Options, Command, Collects
  <2>3. opts'[p] = o /\ ctxDone'[p] = ctxDone[p] /\ UNCHANGED <<runs, alerts>>
    BY <2>1 DEF Start, storeVars
  <2>4. coll[p] = NoCollect /\ pc[p] = "idle"
    BY <2>1 DEF Start, Idle, Collecting
  <2>5. CASE pc'[p] = "fetch"
    <3>1. coll'[p] = [NoCollect EXCEPT !.src = 1]
      BY <2>1, <2>2, <2>5 DEF Start, StartCollect
    <3>2. ~coll'[p].err /\ coll'[p].failures = {}
      BY <3>1 DEF NoCollect
    <3>3. Untold(p)' = {} /\ Untold(p) = {}
      BY <2>4, <2>5, <3>2 DEF Untold, AtFault, NoCollect
    <3> QED BY <2>3, <2>5, <3>2, <3>3 DEF Collecting, AtFault, TellsAlike
  <2>6. CASE pc'[p] # "fetch"
    <3>1. coll'[p] = NoCollect
      <4>1. ~Collects(o)
        BY <2>1, <2>6, OfferedAssumption DEF Start, Goto, FirstPC, Collects
      <4> QED BY <2>1, <2>4, <4>1 DEF Start
    <3>2. Untold(p)' = {} /\ Untold(p) = {}
      BY <2>2, <2>4, <2>6, <3>1 DEF Untold, AtFault, NoCollect
    <3> QED BY <2>2, <2>3, <2>6, <3>1, <3>2 DEF Collecting, AtFault, TellsAlike
  <2> QED BY <2>5, <2>6
<1>3. CASE Work(p)
  <2>1. UNCHANGED <<coll, alerts>> /\ (ScoreStep(p) \/ NotifyStep(p))
    BY <1>3 DEF Work, collectVars
  <2>2. pc[p] \notin {"fetch", "save", "saveRun"} /\ UNCHANGED runs
    BY <2>1, OutsideCollect
  <2>3. pc'[p] \notin {"fetch", "save", "saveRun"}
    BY <2>1, StaysOut DEF Collecting
  <2>4. ~ctxDone'[p]
    BY <2>1, StaysOut DEF Collecting
  <2>5. coll[p] = NoCollect /\ coll'[p] = NoCollect
    BY <2>1, <2>2 DEF Collecting
  <2>6. Untold(p)' = {} /\ Untold(p) = {}
    BY <2>2, <2>3, <2>5 DEF Untold, AtFault, NoCollect
  <2> QED BY <2>1, <2>2, <2>3, <2>4, <2>5, <2>6 DEF Collecting, AtFault, TellsAlike
<1> QED BY <1>2, <1>3 DEF Acting

\* Outside a collection nothing is left of the last one.
Resting(p) == pc[p] \notin {"fetch", "save", "saveRun"} => coll[p] = NoCollect

LEMMA RestingStays ==
    ASSUME TypeInv, NEW p \in Proc, Acting(p), Resting(p)
    PROVE  Resting(p)'
<1> USE DEF TypeInv, TypeOK, ProcTypeOK, CollectTypeOK
<1>1. CASE CollectStep(p)
  <2>1. CASE FetchOk(p) \/ SaveOne(p)
    BY <2>1 DEF FetchOk, SaveOne, Continue, Goto, Resting
  <2>2. CASE FetchFailed(p) \/ SaveFailed(p) \/ RecordRun(p)
    BY <2>2 DEF FetchFailed, SaveFailed, RecordRun, Continue, Goto, Resting
  <2>3. CASE EndCollect(p)
    BY <2>3 DEF EndCollect, Resting
  <2> QED BY <1>1, <2>1, <2>2, <2>3 DEF CollectStep
<1>2. CASE (ScoreStep(p) \/ NotifyStep(p)) /\ UNCHANGED coll
  BY <1>2, OutsideCollect DEF Resting
<1>3. CASE \E o \in Offered : Start(p, o)
  <2>1. PICK o \in Offered : Start(p, o)
    BY <1>3
  <2>2. coll[p] = NoCollect
    BY <2>1 DEF Start, Idle, Resting
  <2>3. CASE Collects(o)
    BY <2>1, <2>3, OfferedAssumption DEF Start, Goto, FirstPC, Collects, Resting
  <2>4. CASE ~Collects(o)
    BY <2>1, <2>2, <2>4 DEF Start, Resting
  <2> QED BY <2>3, <2>4
<1>4. CASE Crash(p)
  BY <1>4 DEF Crash, Resting
<1>5. CASE Signal(p)
  BY <1>5 DEF Signal, Cancel, collectVars, Resting
<1> QED BY <1>1, <1>2, <1>3, <1>4, <1>5 DEF Acting, Work, collectVars

\* A process that is or gets interrupted, or is killed, writes no row and sends
\* no alert any more.
LEMMA InterruptedSteps ==
    ASSUME TypeInv, NEW p \in Proc, Acting(p),
           ctxDone[p] \/ Crash(p) \/ Signal(p) \/ CutOff(p)
    PROVE  UNCHANGED <<runs, alerts>> /\ (ctxDone'[p] \/ pc'[p] = "idle")
<1> USE DEF TypeInv, TypeOK, ProcTypeOK
<1>1. UNCHANGED <<runs, alerts>>
  <2>1. CASE Crash(p) \/ Signal(p)
    BY <2>1 DEF Crash, Signal, storeVars, collectVars
  <2>2. CASE CollectStep(p) /\ ctxDone[p]
    <3>1. FetchOk(p) \/ FetchFailed(p) \/ SaveOne(p) \/ SaveFailed(p)
            => UNCHANGED <<runs, alerts>>
      BY DEF FetchOk, FetchFailed, SaveOne, SaveFailed, storeVars
    <3>2. RecordRun(p) => UNCHANGED <<runs, alerts>>
      BY <2>2 DEF RecordRun, Succeeds
    <3>3. EndCollect(p) => UNCHANGED <<runs, alerts>>
      BY <2>2 DEF EndCollect, NotifyFailures, Succeeds, storeVars
    <3> QED BY <2>2, <3>1, <3>2, <3>3 DEF CollectStep
  <2>3. CASE (ScoreStep(p) \/ NotifyStep(p)) /\ UNCHANGED collectVars
    BY <2>3, OutsideCollect DEF collectVars
  <2>4. CASE \E o \in Offered : Start(p, o)
    BY <2>4 DEF Start, storeVars
  <2>5. CASE CutOff(p)
    <3>1. ~CollectStep(p)
      BY <2>5 DEF CutOff, Post, CollectStep, FetchOk, FetchFailed, SaveOne, SaveFailed,
                  RecordRun, EndCollect
    <3> QED BY <2>1, <2>3, <2>4, <3>1 DEF Acting, Work
  <2> QED BY <2>1, <2>2, <2>3, <2>4, <2>5 DEF Acting, Work
<1>2. CASE Crash(p)
  BY <1>1, <1>2 DEF Crash, Exit, Goto
<1>3. CASE Signal(p)
  BY <1>1, <1>3 DEF Signal, Cancel
<1>4. CASE CutOff(p)
  BY <1>1, <1>4 DEF CutOff
<1>5. CASE ctxDone[p] /\ ~Signal(p) /\ ~CutOff(p)
  <2>1. UNCHANGED ctxDone \/ \E o : Exit(p, o)
    BY <1>5, ContextSteps
  <2> QED BY <1>1, <1>5, <2>1 DEF Exit, Goto
<1> QED BY <1>1, <1>2, <1>3, <1>4, <1>5

\* What a process is due to tell, interrupted or not.
Live(p) == Resting(p) /\ (~ctxDone[p] => Collecting(p))

LEMMA ActingTells ==
    ASSUME TypeInv, SourcesOnce, "saveRun" \notin FaultKinds, NEW p \in Proc, Acting(p), Live(p)
    PROVE  /\ Live(p)'
           /\ \/ Tells(Due(p), Due(p)')
              \/ /\ Forgets(Due(p)')
                 /\ ctxDone[p] \/ Crash(p) \/ Signal(p) \/ CutOff(p) \/ Unheard
<1>1. Resting(p)'
  BY RestingStays DEF Live
<1>2. CASE ctxDone[p] \/ Crash(p) \/ Signal(p) \/ CutOff(p)
  <2>1. UNCHANGED <<runs, alerts>> /\ (ctxDone'[p] \/ pc'[p] = "idle")
    BY <1>2, InterruptedSteps
  <2>2. CASE ctxDone'[p]
    BY <1>1, <1>2, <2>1, <2>2 DEF Live, Due, Forgets
  <2>3. CASE ~ctxDone'[p]
    <3>1. pc'[p] = "idle" /\ coll'[p] = NoCollect
      BY <1>1, <2>1, <2>3 DEF Resting
    <3>2. Untold(p)' = {}
      BY <3>1 DEF Untold, AtFault, NoCollect
    <3>3. Collecting(p)'
      BY <2>3, <3>1, <3>2 DEF Collecting, AtFault
    <3> QED BY <1>1, <1>2, <2>1, <3>2, <3>3 DEF Live, Due, Forgets
  <2> QED BY <2>2, <2>3
<1>3. CASE ~ctxDone[p] /\ ~Crash(p) /\ ~Signal(p) /\ ~CutOff(p)
  <2>1. /\ Collecting(p)'
        /\ \/ Tells(Untold(p), Untold(p)')
           \/ Forgets(Untold(p)') /\ Unheard
    BY <1>3, CollectingSteps, OthersTellAlike DEF Live
  <2>2. Due(p) = Untold(p) /\ Due(p)' = Untold(p)'
    BY <1>3, <2>1 DEF Due, Collecting
  <2> QED BY <1>1, <2>1, <2>2 DEF Live
<1> QED BY <1>2, <1>3

\* A process that does not move is due to tell what it was.
LEMMA HoldsAlike ==
    ASSUME NEW q \in Proc,
           coll'[q] = coll[q], pc'[q] = pc[q], opts'[q] = opts[q], ctxDone'[q] = ctxDone[q]
    PROVE  Due(q)' = Due(q) /\ (Live(q) => Live(q)')
<1>1. ThisSource(q)' = ThisSource(q) /\ (AtFault(q)' <=> AtFault(q))
  BY DEF ThisSource, AtFault
<1>2. Untold(q)' = Untold(q)
  BY <1>1 DEF Untold
<1> QED BY <1>1, <1>2 DEF Due, Collecting, Live, Resting

LEMMA OthersHold ==
    ASSUME TypeInv, NEW p \in Proc, Acting(p), NEW q \in Proc \ {p}
    PROVE  Due(q)' = Due(q) /\ (Live(q) => Live(q)')
<1>1. coll'[q] = coll[q] /\ pc'[q] = pc[q] /\ opts'[q] = opts[q]
  BY ActingKeeps DEF OthersKeep
<1>2. ctxDone'[q] = ctxDone[q]
  BY ContextSteps DEF Signal, Cancel, CutOff, Exit, TypeInv, TypeOK, ProcTypeOK
<1> QED BY <1>1, <1>2, HoldsAlike

LEMMA HoldingFinite ==
    ASSUME IsFiniteSet(Proc), NEW s
    PROVE  IsFiniteSet(Holding(s)) /\ Cardinality(Holding(s)) \in Nat
BY FS_Subset, FS_CardinalityType DEF Holding

\* The three counts of a source: its failed rows, the alerts that name it, and
\* the processes still due to tell of it.
RowsOf(s) == Cardinality(Places(runs, RowsFailed(s)))
AlertsOf(s) == Cardinality(Places(alerts, ListsNaming(s)))
HoldersOf(s) == Cardinality(Holding(s))

LEMMA CountsType ==
    ASSUME TypeInv, IsFiniteSet(Proc), NEW s \in Source
    PROVE  RowsOf(s) \in Nat /\ AlertsOf(s) \in Nat /\ HoldersOf(s) \in Nat
BY PlacesFinite, HoldingFinite
   DEF RowsOf, AlertsOf, HoldersOf, TypeInv, TypeOK, StoreTypeOK, CollectTypeOK

LEMMA PlacesAre ==
    ASSUME TypeInv, NEW s \in Source
    PROVE  /\ RowsOf(s) = Cardinality({n \in DOMAIN runs : runs[n].source = s /\ ~runs[n].ok})
           /\ AlertsOf(s) = Cardinality({n \in DOMAIN alerts : s \in alerts[n]})
<1>1. Places(runs, RowsFailed(s)) = {n \in DOMAIN runs : runs[n].source = s /\ ~runs[n].ok}
  BY DEF TypeInv, TypeOK, StoreTypeOK, Places, RowsFailed
<1>2. Places(alerts, ListsNaming(s)) = {n \in DOMAIN alerts : s \in alerts[n]}
  BY DEF TypeInv, TypeOK, CollectTypeOK, Places, ListsNaming
<1> QED BY <1>1, <1>2 DEF RowsOf, AlertsOf

\* Each kind of step moves the three counts together.
LEMMA BalanceMoves ==
    ASSUME TypeInv, IsFiniteSet(Proc), NEW s \in Source, NEW p \in Proc,
           \A q \in Proc \ {p} : Due(q)' = Due(q), Tells(Due(p), Due(p)')
    PROVE  \/ /\ RowsOf(s)' = RowsOf(s)
              /\ AlertsOf(s)' = AlertsOf(s) /\ HoldersOf(s)' = HoldersOf(s)
           \/ /\ RowsOf(s)' = RowsOf(s) + 1
              /\ AlertsOf(s)' = AlertsOf(s) /\ HoldersOf(s)' = HoldersOf(s) + 1
           \/ /\ RowsOf(s)' = RowsOf(s)
              /\ AlertsOf(s)' = AlertsOf(s) + 1 /\ HoldersOf(s)' = HoldersOf(s) - 1
<1> DEFINE A == RowsFailed(s)
           B == ListsNaming(s)
<1>1. runs \in Seq(RunRow) /\ alerts \in Seq(SUBSET Source)
  BY DEF TypeInv, TypeOK, StoreTypeOK, CollectTypeOK
<1>2. PICK U, V : U = Due(p) /\ V = Due(p)'
  OBVIOUS
<1>3. Tells(U, V)
  BY <1>2
<1>4. /\ s \in V => Holding(s)' = Holding(s) \cup {p}
      /\ s \notin V => Holding(s)' = Holding(s) \ {p}
      /\ p \in Holding(s) <=> s \in U
  BY <1>2 DEF Holding
<1>5. IsFiniteSet(Holding(s))
  BY HoldingFinite
<1>6. /\ RowsOf(s) = Cardinality(Places(runs, A))
      /\ RowsOf(s)' = Cardinality(Places(runs', A))
      /\ AlertsOf(s) = Cardinality(Places(alerts, B))
      /\ AlertsOf(s)' = Cardinality(Places(alerts', B))
      /\ HoldersOf(s) = Cardinality(Holding(s))
      /\ HoldersOf(s)' = Cardinality(Holding(s)')
  BY DEF RowsOf, AlertsOf, HoldersOf, Places, RowsFailed, ListsNaming
<1>7. UNCHANGED runs => RowsOf(s)' = RowsOf(s)
  BY <1>6
<1>8. UNCHANGED alerts => AlertsOf(s)' = AlertsOf(s)
  BY <1>6
<1>9. (s \in V <=> s \in U) => HoldersOf(s)' = HoldersOf(s)
  <2>1. (s \in V <=> s \in U) => Holding(s)' = Holding(s)
    BY <1>4
  <2> QED BY <1>6, <2>1
<1>10. s \in V /\ s \notin U => HoldersOf(s)' = HoldersOf(s) + 1
  BY <1>4, <1>5, <1>6, FS_AddElement
<1>11. s \notin V /\ s \in U => HoldersOf(s)' = HoldersOf(s) - 1
  BY <1>4, <1>5, <1>6, FS_RemoveElement
<1> HIDE DEF A, B
<1>12. CASE TellsAlike(U, V)
  BY <1>7, <1>8, <1>9, <1>12 DEF TellsAlike
<1>13. CASE TellsSuccess(U, V)
  <2>1. PICK row \in RunRow : /\ row.ok /\ runs' = Append(runs, row) /\ UNCHANGED alerts
                              /\ V = U
    BY <1>13 DEF TellsSuccess
  <2>2. row \notin A
    BY <2>1 DEF A, RowsFailed
  <2>3. RowsOf(s)' = RowsOf(s)
    BY <1>1, <1>6, <2>1, <2>2, PlacesOfAppend
  <2> QED BY <1>8, <1>9, <2>1, <2>3
<1>14. CASE TellsFailure(U, V)
  <2>1. PICK row \in RunRow :
          /\ ~row.ok /\ row.source \notin U
          /\ runs' = Append(runs, row) /\ UNCHANGED alerts
          /\ V = U \cup {row.source}
    BY <1>14 DEF TellsFailure
  <2>2. CASE row.source = s
    <3>1. row \in A
      BY <2>1, <2>2 DEF A, RowsFailed
    <3>2. RowsOf(s)' = RowsOf(s) + 1
      BY <1>1, <1>6, <2>1, <3>1, PlacesOfAppend
    <3> QED BY <1>8, <1>10, <2>1, <2>2, <3>2
  <2>3. CASE row.source # s
    <3>1. row \notin A
      BY <2>3 DEF A, RowsFailed
    <3>2. RowsOf(s)' = RowsOf(s)
      BY <1>1, <1>6, <2>1, <3>1, PlacesOfAppend
    <3> QED BY <1>8, <1>9, <2>1, <2>3, <3>2
  <2> QED BY <2>2, <2>3
<1>15. CASE Alerts(U, V)
  <2>1. UNCHANGED runs /\ V = {}
    BY <1>15 DEF Alerts
  <2>2. CASE U = {} /\ UNCHANGED alerts
    BY <1>7, <1>8, <1>9, <2>1, <2>2
  <2>3. CASE U \in SUBSET Source /\ alerts' = Append(alerts, U)
    <3>1. CASE s \in U
      <4>1. U \in B
        BY <2>3, <3>1 DEF B, ListsNaming
      <4>2. AlertsOf(s)' = AlertsOf(s) + 1
        BY <1>1, <1>6, <2>3, <4>1, PlacesOfAppend
      <4> QED BY <1>7, <1>11, <2>1, <3>1, <4>2
    <3>2. CASE s \notin U
      <4>1. U \notin B
        BY <3>2 DEF B, ListsNaming
      <4>2. AlertsOf(s)' = AlertsOf(s)
        BY <1>1, <1>6, <2>3, <4>1, PlacesOfAppend
      <4> QED BY <1>7, <1>9, <2>1, <3>2, <4>2
    <3> QED BY <3>1, <3>2
  <2> QED BY <1>15, <2>2, <2>3 DEF Alerts
<1> QED BY <1>3, <1>12, <1>13, <1>14, <1>15 DEF Tells

\* Who forgets leaves rows and alerts alone and holds nothing any more.
LEMMA ForgettingMoves ==
    ASSUME TypeInv, IsFiniteSet(Proc), NEW s \in Source, NEW p \in Proc,
           \A q \in Proc \ {p} : Due(q)' = Due(q), Forgets(Due(p)')
    PROVE  /\ RowsOf(s)' = RowsOf(s) /\ AlertsOf(s)' = AlertsOf(s)
           /\ HoldersOf(s)' \in Nat /\ HoldersOf(s)' <= HoldersOf(s)
<1>1. RowsOf(s)' = RowsOf(s) /\ AlertsOf(s)' = AlertsOf(s)
  BY DEF Forgets, RowsOf, AlertsOf, Places, RowsFailed, ListsNaming
<1>2. Holding(s)' \subseteq Holding(s)
  BY DEF Forgets, Holding
<1>3. IsFiniteSet(Holding(s))
  BY HoldingFinite
<1>4. /\ Cardinality(Holding(s)') <= Cardinality(Holding(s))
      /\ Cardinality(Holding(s)') \in Nat
  BY <1>2, <1>3, FS_Subset, FS_CardinalityType
<1> QED BY <1>1, <1>4 DEF HoldersOf

LEMMA InitTells ==
    ASSUME Init
    PROVE  /\ \A p \in Proc : Live(p) /\ ~ctxDone[p]
           /\ \A s \in Source : RowsOf(s) = 0 /\ AlertsOf(s) = 0 /\ HoldersOf(s) = 0
<1>1. ASSUME NEW p \in Proc PROVE Live(p) /\ ~ctxDone[p] /\ Due(p) = {}
  <2>1. pc[p] = "idle" /\ coll[p] = NoCollect /\ ~ctxDone[p]
    BY DEF Init, ProcInit, CollectInit
  <2>2. Untold(p) = {}
    BY <2>1 DEF Untold, AtFault, NoCollect
  <2> QED BY <2>1, <2>2 DEF Collecting, AtFault, Live, Resting, Due
<1>2. ASSUME NEW s \in Source PROVE RowsOf(s) = 0 /\ AlertsOf(s) = 0 /\ HoldersOf(s) = 0
  <2>1. Holding(s) = {}
    BY <1>1 DEF Holding
  <2>2. Places(runs, RowsFailed(s)) = {} /\ Places(alerts, ListsNaming(s)) = {}
    BY DEF Init, StoreInit, CollectInit, Places
  <2> QED BY <2>1, <2>2, FS_EmptySet DEF RowsOf, AlertsOf, HoldersOf
<1> QED BY <1>1, <1>2

LiveInv == \A p \in Proc : Live(p)

LEMMA LiveStays ==
    ASSUME TypeInv, SourcesOnce, "saveRun" \notin FaultKinds, LiveInv, [Next]_vars
    PROVE  LiveInv'
<1>1. CASE UNCHANGED vars
  <2>1. UNCHANGED <<pc, opts, ctxDone, coll>>
    BY <1>1 DEF vars, procVars, collectVars
  <2> QED BY <2>1, HoldsAlike DEF LiveInv
<1>2. CASE Next
  <2>1. PICK p \in Proc : Acting(p)
    BY <1>2, NextActs
  <2> QED BY <2>1, ActingTells, OthersHold DEF LiveInv
<1> QED BY <1>1, <1>2

LEMMA CountsSame ==
    ASSUME UNCHANGED vars, NEW s \in Source
    PROVE  RowsOf(s)' = RowsOf(s) /\ AlertsOf(s)' = AlertsOf(s) /\ HoldersOf(s)' = HoldersOf(s)
<1>1. UNCHANGED <<pc, opts, ctxDone, coll, alerts, runs>>
  BY DEF vars, procVars, collectVars, storeVars
<1>2. Holding(s)' = Holding(s)
  BY <1>1, HoldsAlike DEF Holding
<1> QED BY <1>1, <1>2 DEF RowsOf, AlertsOf, HoldersOf, Places, RowsFailed, ListsNaming

\* The failed rows of a source are those some alert has told of and those a
\* running collection still has to tell of.
Balanced(s) == RowsOf(s) = AlertsOf(s) + HoldersOf(s)

AlertInv ==
    /\ LiveInv
    /\ \A p \in Proc : ~ctxDone[p]
    /\ \A s \in Source : Balanced(s)

\* Whatever fails in fetching or saving is told in exactly one alert: when no
\* command runs, each source has as many failed rows as alerts that name it,
\* provided that nothing kills or interrupts a command, that rows and alerts
\* themselves can be written (both failures are only logged, collect_jobs.go),
\* and that every command has somewhere to tell its failures.
THEOREM EveryFailureIsAlerted ==
    ASSUME IsFiniteSet(Proc), SourcesOnce, "crash" \notin FaultKinds,
           "cancel" \notin FaultKinds, "saveRun" \notin FaultKinds,
           "alert" \notin FaultKinds, \A o \in Offered : o.dryRun \/ o.errorHook
    PROVE  Spec => []FailuresAlerted
<1>1. Init => AlertInv
  BY InitTells DEF AlertInv, LiveInv, Balanced
<1>2. TypeInv /\ AlertInv /\ [Next]_vars => AlertInv'
  <2>1. ASSUME TypeInv, AlertInv, Next PROVE AlertInv'
    <3>1. PICK p \in Proc : Acting(p)
      BY <2>1, NextActs
    <3>2. ~Signal(p) /\ ~CutOff(p) /\ \A q \in Proc : ~ctxDone'[q]
      BY <2>1, <3>1, OnlySignalsCancel DEF AlertInv
    <3>3. ~Crash(p)
      BY DEF Crash, Fault
    <3>4. Tells(Due(p), Due(p)') /\ \A q \in Proc \ {p} : Due(q)' = Due(q)
      BY <2>1, <3>1, <3>2, <3>3, ActingTells, OthersHold DEF AlertInv, LiveInv, Unheard
    <3>5. ASSUME NEW s \in Source PROVE Balanced(s)'
      BY <2>1, <3>4, <3>5, BalanceMoves, CountsType DEF AlertInv, Balanced
    <3> QED BY <2>1, <3>2, <3>5, LiveStays DEF AlertInv
  <2>2. ASSUME TypeInv, AlertInv, UNCHANGED vars PROVE AlertInv'
    <3>1. ctxDone' = ctxDone
      BY <2>2 DEF vars, procVars
    <3> QED BY <2>2, <3>1, CountsSame, LiveStays DEF AlertInv, Balanced
  <2> QED BY <2>1, <2>2
<1>3. TypeInv /\ AlertInv => FailuresAlerted
  <2> SUFFICES ASSUME TypeInv, AlertInv, \A p \in Proc : Idle(p), NEW s \in Source
               PROVE  Cardinality({n \in DOMAIN runs : runs[n].source = s /\ ~runs[n].ok})
                        = Cardinality({n \in DOMAIN alerts : s \in alerts[n]})
    BY DEF FailuresAlerted
  <2>1. Holding(s) = {}
    BY DEF AlertInv, LiveInv, Live, Resting, Idle, Holding, Due, Untold, AtFault, NoCollect
  <2>2. RowsOf(s) = AlertsOf(s) + HoldersOf(s) /\ HoldersOf(s) = 0
    BY <2>1, FS_EmptySet DEF AlertInv, Balanced, HoldersOf
  <2>3. RowsOf(s) = AlertsOf(s)
    BY <2>2, CountsType
  <2> QED BY <2>3, PlacesAre
<1> QED BY <1>1, <1>2, <1>3, InitType, NextType, PTL DEF Spec

\* No source is named by more alerts than it has failed rows.
AlertsAreTrue ==
    \A s \in Source : Cardinality({n \in DOMAIN alerts : s \in alerts[n]})
                        <= Cardinality({n \in DOMAIN runs : runs[n].source = s /\ ~runs[n].ok})

\* At any moment each alert that names a source stands for a failed row of its
\* own: whatever is killed, interrupted or not delivered, failures are announced
\* once or not at all, and a good collection never, if run rows can be written.
THEOREM AlertsTellOfRows ==
    ASSUME IsFiniteSet(Proc), SourcesOnce, "saveRun" \notin FaultKinds
    PROVE  Spec => []AlertsAreTrue
<1> DEFINE Covered(s) == AlertsOf(s) + HoldersOf(s) <= RowsOf(s)
           Inv == LiveInv /\ \A s \in Source : Covered(s)
<1>1. Init => Inv
  BY InitTells DEF LiveInv
<1>2. TypeInv /\ Inv /\ [Next]_vars => Inv'
  <2>1. ASSUME TypeInv, Inv, Next, NEW s \in Source PROVE Covered(s)'
    <3>1. PICK p \in Proc : Acting(p)
      BY <2>1, NextActs
    <3>2. /\ Tells(Due(p), Due(p)') \/ Forgets(Due(p)')
          /\ \A q \in Proc \ {p} : Due(q)' = Due(q)
      BY <2>1, <3>1, ActingTells, OthersHold DEF LiveInv
    <3>3. PICK f, a, h : f = RowsOf(s) /\ a = AlertsOf(s) /\ h = HoldersOf(s)
      OBVIOUS
    <3>4. PICK g, b, i : g = RowsOf(s)' /\ b = AlertsOf(s)' /\ i = HoldersOf(s)'
      OBVIOUS
    <3>5. f \in Nat /\ a \in Nat /\ h \in Nat /\ a + h <= f
      BY <2>1, <3>3, CountsType
    <3>6. \/ g = f /\ b = a /\ i = h
          \/ g = f + 1 /\ b = a /\ i = h + 1
          \/ g = f /\ b = a + 1 /\ i = h - 1
          \/ g = f /\ b = a /\ i \in Nat /\ i <= h
      BY <2>1, <3>2, <3>3, <3>4, BalanceMoves, ForgettingMoves
    <3>7. b + i <= g
      BY <3>5, <3>6
    <3> QED BY <3>4, <3>7
  <2>2. ASSUME Inv, UNCHANGED vars, NEW s \in Source PROVE Covered(s)'
    BY <2>2, CountsSame
  <2> QED BY <2>1, <2>2, LiveStays
<1>3. TypeInv /\ Inv => AlertsAreTrue
  <2> SUFFICES ASSUME TypeInv, Inv, NEW s \in Source
               PROVE  Cardinality({n \in DOMAIN alerts : s \in alerts[n]})
                        <= Cardinality({n \in DOMAIN runs : runs[n].source = s /\ ~runs[n].ok})
    BY DEF AlertsAreTrue
  <2>1. AlertsOf(s) <= RowsOf(s)
    BY CountsType
  <2> QED BY <2>1, PlacesAre
<1> QED BY <1>1, <1>2, <1>3, InitType, NextType, PTL DEF Spec
-----------------------------------------------------------------------------
(* The counters of the run rows *)

\* What f counts elsewhere than at x.
CountedBeside(f, x) == UNION {{y} \X (1..f[y].new) : y \in DOMAIN f \ {x}}

LEMMA UnitsOfOne ==
    ASSUME NEW x, NEW n \in Nat
    PROVE  IsFiniteSet({x} \X (1..n)) /\ Cardinality({x} \X (1..n)) = n
<1>1. IsFiniteSet({x}) /\ Cardinality({x}) = 1
  BY FS_Singleton
<1>2. IsFiniteSet(1..n) /\ Cardinality(1..n) = n
  BY FS_Interval
<1>3. /\ IsFiniteSet({x} \X (1..n))
      /\ Cardinality({x} \X (1..n)) = Cardinality({x}) * Cardinality(1..n)
  BY <1>1, <1>2, FS_Product
<1>4. Cardinality({x}) * Cardinality(1..n) = 1 * n
  BY <1>1, <1>2
<1>5. 1 * n = n
  OBVIOUS
<1> QED BY <1>3, <1>4, <1>5

LEMMA UnitsFinite ==
    ASSUME NEW f, NEW D, IsFiniteSet(D), \A x \in D : f[x].new \in Nat
    PROVE  IsFiniteSet(UNION {{x} \X (1..f[x].new) : x \in D})
<1> DEFINE g == [x \in D |-> {x} \X (1..f[x].new)]
           T == {{x} \X (1..f[x].new) : x \in D}
<1>1. g \in Surjection(D, T)
  BY DEF Surjection
<1>2. IsFiniteSet(T)
  <2> HIDE DEF g, T
  <2> QED BY <1>1, FS_Surjection
<1>3. ASSUME NEW t \in T PROVE IsFiniteSet(t)
  <2>1. PICK x \in D : t = {x} \X (1..f[x].new)
    OBVIOUS
  <2>2. f[x].new \in Nat
    OBVIOUS
  <2> HIDE DEF T
  <2> QED BY <2>1, <2>2, UnitsOfOne
<1> QED BY <1>2, <1>3, FS_UNION

\* A counter splits off what it counts at one place.
LEMMA CountedSplit ==
    ASSUME NEW f, IsFiniteSet(DOMAIN f), \A y \in DOMAIN f : f[y].new \in Nat,
           NEW x \in DOMAIN f
    PROVE  /\ Cardinality(CountedBeside(f, x)) \in Nat
           /\ Cardinality(CountedNew(f)) = Cardinality(CountedBeside(f, x)) + f[x].new
<1> DEFINE U == {x} \X (1..f[x].new)
           R == CountedBeside(f, x)
<1>1. IsFiniteSet(U) /\ Cardinality(U) = f[x].new
  BY UnitsOfOne
<1>2. IsFiniteSet(R)
  <2>1. IsFiniteSet(DOMAIN f \ {x})
    BY FS_Difference
  <2> QED BY <2>1, UnitsFinite DEF CountedBeside
<1>3. CountedNew(f) = R \cup U
  BY DEF CountedNew, CountedBeside
<1>4. R \cap U = {}
  BY DEF CountedBeside
<1> HIDE DEF U, R
<1>5. Cardinality(R) \in Nat /\ Cardinality(R \cap U) = 0
  BY <1>2, <1>4, FS_CardinalityType, FS_EmptySet
<1>6. Cardinality(R \cup U) = Cardinality(R) + f[x].new
  BY <1>1, <1>2, <1>5, FS_Union
<1> QED BY <1>3, <1>5, <1>6 DEF R

LEMMA CountedElsewhere ==
    ASSUME NEW f, NEW g, NEW x, DOMAIN g \ {x} = DOMAIN f \ {x},
           \A y \in DOMAIN f \ {x} : g[y].new = f[y].new
    PROVE  CountedBeside(g, x) = CountedBeside(f, x)
BY DEF CountedBeside

LEMMA RowsCount ==
    ASSUME NEW f \in Seq(RunRow), NEW y \in DOMAIN f
    PROVE  f[y].new \in Nat
<1>1. f[y] \in RunRow
  OBVIOUS
<1> QED BY <1>1 DEF RunRow

LEMMA CountedRow ==
    ASSUME NEW f \in Seq(RunRow), NEW row \in RunRow
    PROVE  Cardinality(CountedNew(Append(f, row))) = Cardinality(CountedNew(f)) + row.new
<1> DEFINE n == Len(f) + 1
           g == Append(f, row)
<1>1. /\ n \in DOMAIN g /\ g[n] = row
      /\ DOMAIN g \ {n} = DOMAIN f /\ \A y \in DOMAIN f : g[y] = f[y]
  <2>1. /\ n \in Nat /\ n \notin DOMAIN f /\ DOMAIN g = DOMAIN f \cup {n}
        /\ g[n] = row /\ \A y \in DOMAIN f : g[y] = f[y]
    OBVIOUS
  <2> HIDE DEF n, g
  <2> QED BY <2>1
<1>2. IsFiniteSet(DOMAIN g)
  BY FS_Interval
<1>3. \A y \in DOMAIN g : g[y].new \in Nat
  <2>1. g \in Seq(RunRow)
    OBVIOUS
  <2> HIDE DEF g
  <2> QED BY <2>1, RowsCount
<1> HIDE DEF n, g
<1>4. Cardinality(CountedNew(g)) = Cardinality(CountedBeside(g, n)) + g[n].new
  BY <1>1, <1>2, <1>3, CountedSplit
<1>5. CountedBeside(g, n) = CountedNew(f)
  BY <1>1 DEF CountedBeside, CountedNew
<1> QED BY <1>1, <1>4, <1>5 DEF g

\* What the run rows and the collections under way count together.
Counted == Cardinality(CountedNew(runs)) + Cardinality(CountedNew(coll))

\* Between two sources nothing is counted that no row says.
CountsFresh(p) == pc[p] \notin {"save", "saveRun"} => coll[p].new = 0

\* What a step of p does to what they count.
CountsAlike(p) == Len(jobs') = Len(jobs) /\ runs' = runs /\ coll'[p].new = coll[p].new
CountsOne(p) == Len(jobs') = Len(jobs) + 1 /\ runs' = runs /\ coll'[p].new = coll[p].new + 1
CountsIn(p) ==
    /\ Len(jobs') = Len(jobs) /\ coll'[p].new = 0
    /\ \E row \in RunRow : row.new = coll[p].new /\ runs' = Append(runs, row)
CountsLost(p) == Len(jobs') = Len(jobs) /\ runs' = runs /\ coll'[p].new = 0

LEMMA CountedMoves ==
    ASSUME TypeInv, IsFiniteSet(Proc), NEW p \in Proc, TypeInv', OthersKeep(p)
    PROVE  /\ Counted \in Nat /\ Counted' \in Nat
           /\ CountsAlike(p) => Counted' = Counted
           /\ CountsOne(p) => Counted' = Counted + 1
           /\ CountsIn(p) => Counted' = Counted
           /\ CountsLost(p) => Counted' <= Counted
<1>1. PICK f, g : f = coll /\ g = coll'
  OBVIOUS
<1>2. /\ DOMAIN f = Proc /\ DOMAIN g = Proc
      /\ \A q \in Proc : f[q].new \in Nat /\ g[q].new \in Nat
      /\ \A q \in Proc \ {p} : g[q] = f[q]
  BY <1>1 DEF TypeInv, TypeOK, CollectTypeOK, OthersKeep
<1>3. CountedBeside(g, p) = CountedBeside(f, p)
  BY <1>2, CountedElsewhere
<1>4. PICK b : b = Cardinality(CountedBeside(f, p))
  OBVIOUS
<1>5. /\ b \in Nat /\ Cardinality(CountedNew(f)) = b + f[p].new
      /\ Cardinality(CountedNew(g)) = b + g[p].new
  BY <1>2, <1>3, <1>4, CountedSplit
<1>6. PICK r, t : r = Cardinality(CountedNew(runs)) /\ t = Cardinality(CountedNew(runs'))
  OBVIOUS
<1>7. r \in Nat /\ t \in Nat
  <2>1. runs \in Seq(RunRow) /\ runs' \in Seq(RunRow)
    BY DEF TypeInv, TypeOK, StoreTypeOK
  <2>2. ASSUME NEW h \in Seq(RunRow) PROVE Cardinality(CountedNew(h)) \in Nat
    <3>1. IsFiniteSet(DOMAIN h) /\ \A n \in DOMAIN h : h[n].new \in Nat
      BY <2>2, FS_Interval, RowsCount
    <3>2. IsFiniteSet(CountedNew(h))
      BY <3>1, UnitsFinite DEF CountedNew
    <3> QED BY <3>2, FS_CardinalityType
  <2> QED BY <1>6, <2>1, <2>2
<1>8. Counted = r + (b + f[p].new)
  BY <1>1, <1>5, <1>6 DEF Counted
<1>9. Counted' = t + (b + g[p].new)
  BY <1>1, <1>5, <1>6 DEF Counted, CountedNew
<1>10. f[p].new \in Nat /\ g[p].new \in Nat
  BY <1>2
<1>11. runs' = runs => t = r
  BY <1>6
<1>12. ASSUME CountsIn(p) PROVE t = r + f[p].new /\ g[p].new = 0
  <2>1. PICK row \in RunRow : row.new = coll[p].new /\ runs' = Append(runs, row)
    BY <1>12 DEF CountsIn
  <2>2. runs \in Seq(RunRow)
    BY DEF TypeInv, TypeOK, StoreTypeOK
  <2> QED BY <1>1, <1>6, <1>12, <2>1, <2>2, CountedRow DEF CountsIn
<1>13. /\ CountsAlike(p) => t = r /\ g[p].new = f[p].new
       /\ CountsOne(p) => t = r /\ g[p].new = f[p].new + 1
       /\ CountsLost(p) => t = r /\ g[p].new = 0
  BY <1>1, <1>11 DEF CountsAlike, CountsOne, CountsLost
<1> QED BY <1>5, <1>7, <1>8, <1>9, <1>10, <1>12, <1>13

LEMMA SaveJobAdds ==
    ASSUME TypeInv, NEW k, NEW c, NEW srcs, SaveJob(k, c, srcs)
    PROVE  Len(jobs') = IF JobsWithKey(k) = {} THEN Len(jobs) + 1 ELSE Len(jobs)
<1>1. jobs \in Seq(JobRow)
  BY DEF TypeInv, TypeOK, StoreTypeOK
<1>2. CASE JobsWithKey(k) = {}
  <2>1. PICK row : jobs' = Append(jobs, row)
    BY <1>2 DEF SaveJob, InsertJob
  <2> QED BY <1>1, <1>2, <2>1
<1>3. CASE JobsWithKey(k) # {}
  <2>1. PICK i, row : jobs' = [jobs EXCEPT ![i] = row]
    BY <1>3 DEF SaveJob, UpdateJob
  <2> QED BY <1>1, <1>3, <2>1
<1> QED BY <1>2, <1>3

LEMMA CollectingCounts ==
    ASSUME TypeInv, NEW p \in Proc, CollectStep(p), CountsFresh(p)
    PROVE  /\ \/ CountsAlike(p) \/ CountsOne(p) \/ CountsIn(p)
              \/ CountsLost(p) /\ (ctxDone[p] \/ "saveRun" \in FaultKinds)
           /\ CountsFresh(p)'
<1>1. coll[p].new \in Nat
  BY DEF TypeInv, TypeOK, CollectTypeOK
<1>2. CASE FetchOk(p)
  <2>1. PICK b \in Batches[ThisSource(p)] :
          /\ coll' = [coll EXCEPT ![p].batch = b, ![p].pending = Dedupe(b),
                        ![p].dup = Cardinality(Parsed(b)) - Cardinality(Dedupe(b))]
          /\ Continue(p, IF Dedupe(b) = {} THEN "saveRun" ELSE "save")
    BY <1>2 DEF FetchOk
  <2>2. coll'[p].new = coll[p].new
    BY <2>1 DEF TypeInv, TypeOK, CollectTypeOK
  <2>3. pc'[p] \in {"save", "saveRun"}
    BY <2>1, ContinueFacts
  <2>4. jobs' = jobs /\ runs' = runs
    BY <1>2 DEF FetchOk, storeVars
  <2> QED BY <2>2, <2>3, <2>4 DEF CountsAlike, CountsFresh
<1>3. CASE FetchFailed(p) \/ SaveFailed(p)
  <2>1. coll'[p].new = coll[p].new /\ jobs' = jobs /\ runs' = runs
    BY <1>3 DEF FetchFailed, SaveFailed, TypeInv, TypeOK, CollectTypeOK, storeVars
  <2>2. pc'[p] = "saveRun"
    BY <1>3, ContinueFacts DEF FetchFailed, SaveFailed
  <2> QED BY <2>1, <2>2 DEF CountsAlike, CountsFresh
<1>4. CASE SaveOne(p)
  <2> DEFINE batch == coll[p].batch
  <2>1. PICK i \in coll[p].pending :
          /\ SaveJob(batch[i].key, batch[i].content, MergedSources(batch, i))
          /\ coll' = [coll EXCEPT ![p].pending = coll[p].pending \ {i},
                        ![p].new = IF JobsWithKey(batch[i].key) = {} THEN @ + 1 ELSE @,
                        ![p].dup = IF JobsWithKey(batch[i].key) = {} THEN @ ELSE @ + 1]
          /\ Continue(p, IF coll[p].pending \ {i} = {} THEN "saveRun" ELSE "save")
    BY <1>4 DEF SaveOne
  <2>2. coll'[p].new = IF JobsWithKey(batch[i].key) = {} THEN coll[p].new + 1 ELSE coll[p].new
    BY <2>1 DEF TypeInv, TypeOK, CollectTypeOK
  <2>3. Len(jobs') = IF JobsWithKey(batch[i].key) = {} THEN Len(jobs) + 1 ELSE Len(jobs)
    BY <2>1, SaveJobAdds
  <2>4. pc'[p] \in {"save", "saveRun"}
    BY <2>1, ContinueFacts
  <2>5. runs' = runs
    BY <1>4 DEF SaveOne
  <2> QED BY <2>2, <2>3, <2>4, <2>5 DEF CountsAlike, CountsOne, CountsFresh
<1>5. CASE RecordRun(p)
  <2>1. coll'[p].new = 0 /\ jobs' = jobs
    BY <1>5 DEF RecordRun, NoCollect, TypeInv, TypeOK, CollectTypeOK
  <2>2. PICK row : row = RunRowOf(p)
    OBVIOUS
  <2>3. \/ runs' = Append(runs, row)
        \/ runs' = runs /\ (ctxDone[p] \/ "saveRun" \in FaultKinds)
    BY <1>5, <2>2 DEF RecordRun, SaveRun, Fails, Fault
  <2>4. row.new = coll[p].new
    BY <2>2 DEF RunRowOf
  <2>5. row \in RunRow
    <3>1. coll[p].new \in Nat /\ coll[p].dup \in Nat
      BY DEF TypeInv, TypeOK, CollectTypeOK
    <3>2. ThisSource(p) \in Source /\ (~coll[p].err) \in BOOLEAN
      BY <1>5, ThisSourceType DEF RecordRun
    <3> QED BY <2>2, <3>1, <3>2 DEF RunRowOf, RunRow
  <2> QED BY <2>1, <2>3, <2>4, <2>5 DEF CountsIn, CountsLost, CountsFresh
<1>6. CASE EndCollect(p)
  <2>1. coll'[p].new = 0 /\ jobs' = jobs /\ runs' = runs
    BY <1>6 DEF EndCollect, NoCollect, TypeInv, TypeOK, CollectTypeOK, storeVars
  <2>2. coll[p].new = 0
    BY <1>6 DEF EndCollect, CountsFresh
  <2> QED BY <2>1, <2>2 DEF CountsAlike, CountsFresh
<1> QED BY <1>2, <1>3, <1>4, <1>5, <1>6 DEF CollectStep

LEMMA OtherCounts ==
    ASSUME TypeInv, NEW p \in Proc, Acting(p), ~CollectStep(p), CountsFresh(p)
    PROVE  /\ CountsAlike(p) \/ (CountsLost(p) /\ "crash" \in FaultKinds)
           /\ CountsFresh(p)'
<1>1. CASE Crash(p)
  <2>1. coll'[p].new = 0 /\ jobs' = jobs /\ runs' = runs /\ "crash" \in FaultKinds
    BY <1>1 DEF Crash, Fault, NoCollect, TypeInv, TypeOK, CollectTypeOK, storeVars
  <2> QED BY <2>1 DEF CountsLost, CountsFresh
<1>2. CASE \E o \in Offered : Start(p, o)
  <2>1. coll'[p].new = 0 /\ coll[p].new = 0
    <3>1. coll[p].new = 0
      BY <1>2 DEF Start, Idle, CountsFresh
    <3>2. coll' = coll \/ coll' = [coll EXCEPT ![p] = [NoCollect EXCEPT !.src = 1]]
      BY <1>2 DEF Start, StartCollect
    <3> QED BY <3>1, <3>2 DEF NoCollect, TypeInv, TypeOK, CollectTypeOK
  <2>2. jobs' = jobs /\ runs' = runs
    BY <1>2 DEF Start, storeVars
  <2> QED BY <2>1, <2>2 DEF CountsAlike, CountsFresh
<1>3. CASE Signal(p)
  BY <1>3 DEF Signal, Cancel, storeVars, collectVars, CountsAlike, CountsFresh
<1>4. CASE ScoreStep(p) /\ UNCHANGED coll
  <2>1. pc[p] \in {"listForScore", "score"} /\ Len(jobs') = Len(jobs) /\ runs' = runs
    <3>1. ListForScore(p) \/ ScoreError(p)
            => pc[p] \in {"listForScore", "score"} /\ jobs' = jobs /\ runs' = runs
      BY DEF ListForScore, ScoreError, ScorePC, storeVars
    <3>2. ASSUME ScoreOne(p)
          PROVE  pc[p] = "score" /\ Len(jobs') = Len(jobs) /\ runs' = runs
      <4>1. pc[p] = "score" /\ runs' = runs
        BY <3>2 DEF ScoreOne
      <4>2. PICK i, row : jobs' = [jobs EXCEPT ![i] = row]
        BY <3>2 DEF ScoreOne, UpdateScore
      <4>3. jobs \in Seq(JobRow)
        BY DEF TypeInv, TypeOK, StoreTypeOK
      <4> QED BY <4>1, <4>2, <4>3
    <3> QED BY <1>4, <3>1, <3>2 DEF ScoreStep
  <2> QED BY <1>4, <2>1 DEF CountsAlike, CountsFresh
<1>5. CASE NotifyStep(p) /\ UNCHANGED coll
  <2>1. pc[p] \notin {"save", "saveRun"} /\ runs' = runs
    BY <1>5 DEF NotifyStep, Paused, ListForNotify, NotifyError, ListNotified, Preview,
                Post, Abort, Reply, Persist, Mark, storeVars
  <2>2. Len(jobs') = Len(jobs)
    <3>1. CASE ~Mark(p)
      <4>1. jobs' = jobs
        BY <1>5, <3>1 DEF NotifyStep, Paused, ListForNotify, NotifyError, ListNotified,
                          Preview, Post, Abort, Reply, Persist, storeVars
      <4> QED BY <4>1
    <3>2. CASE Mark(p)
      <4>1. jobs' = jobs \/ \E i : jobs' = [jobs EXCEPT ![i].status = "notified"]
        BY <3>2 DEF Mark, UpdateStatus
      <4>2. jobs \in Seq(JobRow)
        BY DEF TypeInv, TypeOK, StoreTypeOK
      <4> QED BY <4>1, <4>2
    <3> QED BY <3>1, <3>2
  <2> QED BY <1>5, <2>1, <2>2 DEF CountsAlike, CountsFresh
<1> QED BY <1>1, <1>2, <1>3, <1>4, <1>5 DEF Acting, Work, collectVars

LEMMA CountsStep ==
    ASSUME TypeInv, IsFiniteSet(Proc), NEW p \in Proc, Acting(p), CountsFresh(p)
    PROVE  /\ Counted \in Nat /\ Counted' \in Nat /\ Len(jobs) \in Nat
           /\ \/ Len(jobs') = Len(jobs) /\ Counted' = Counted
              \/ Len(jobs') = Len(jobs) + 1 /\ Counted' = Counted + 1
              \/ /\ Len(jobs') = Len(jobs) /\ Counted' <= Counted
                 /\ ctxDone[p] \/ "saveRun" \in FaultKinds \/ "crash" \in FaultKinds
           /\ CountsFresh(p)'
<1>1. OthersKeep(p) /\ TypeInv'
  BY ActingKeeps
<1>2. Len(jobs) \in Nat
  BY DEF TypeInv, TypeOK, StoreTypeOK
<1>3. /\ \/ CountsAlike(p) \/ CountsOne(p) \/ CountsIn(p)
         \/ /\ CountsLost(p)
            /\ ctxDone[p] \/ "saveRun" \in FaultKinds \/ "crash" \in FaultKinds
      /\ CountsFresh(p)'
  BY CollectingCounts, OtherCounts
<1>4. /\ CountsAlike(p) \/ CountsIn(p) \/ CountsLost(p) => Len(jobs') = Len(jobs)
      /\ CountsOne(p) => Len(jobs') = Len(jobs) + 1
  BY DEF CountsAlike, CountsIn, CountsLost, CountsOne
<1> QED BY <1>1, <1>2, <1>3, <1>4, CountedMoves

\* The collections count afresh, and at first nothing is counted.
FreshInv == \A p \in Proc : CountsFresh(p)

LEMMA InitCounts ==
    ASSUME Init
    PROVE  Len(jobs) = 0 /\ Counted = 0 /\ FreshInv
<1>1. FreshInv
  BY DEF Init, ProcInit, CollectInit, NoCollect, CountsFresh, FreshInv
<1>2. CountedNew(runs) = {} /\ Len(jobs) = 0
  BY DEF Init, StoreInit, CountedNew
<1>3. CountedNew(coll) = {}
  <2>1. \A p \in DOMAIN coll : coll[p].new = 0
    BY DEF Init, CollectInit, NoCollect
  <2>2. 1..0 = {}
    OBVIOUS
  <2> QED BY <2>1, <2>2 DEF CountedNew
<1> QED BY <1>1, <1>2, <1>3, FS_EmptySet DEF Counted

LEMMA FreshStays ==
    ASSUME TypeInv, IsFiniteSet(Proc), FreshInv, [Next]_vars
    PROVE  FreshInv'
<1>1. CASE UNCHANGED vars
  BY <1>1 DEF FreshInv, CountsFresh, vars, procVars, collectVars
<1>2. CASE Next
  <2>1. PICK p \in Proc : Acting(p)
    BY <1>2, NextActs
  <2>2. OthersKeep(p) /\ CountsFresh(p)'
    BY <2>1, ActingKeeps, CountsStep DEF FreshInv
  <2>3. \A q \in Proc \ {p} : CountsFresh(q)'
    BY <2>2 DEF FreshInv, CountsFresh, OthersKeep
  <2> QED BY <2>2, <2>3 DEF FreshInv
<1> QED BY <1>1, <1>2

LEMMA CountedSame ==
    ASSUME UNCHANGED vars
    PROVE  Len(jobs') = Len(jobs) /\ Counted' = Counted
<1>1. jobs' = jobs /\ runs' = runs /\ coll' = coll
  BY DEF vars, storeVars, collectVars
<1> QED BY <1>1 DEF Counted, CountedNew

\* Each row of the store was counted as new once, by the collection that made
\* it, provided that nothing kills or interrupts a command and that run rows can
\* be written: a failing save and overlapping collections do not miscount.
THEOREM EveryRowIsCounted ==
    ASSUME IsFiniteSet(Proc), "crash" \notin FaultKinds, "cancel" \notin FaultKinds,
           "saveRun" \notin FaultKinds
    PROVE  Spec => []RowsAreCounted
<1> DEFINE Inv == FreshInv /\ Len(jobs) = Counted /\ \A p \in Proc : ~ctxDone[p]
<1>1. Init => Inv
  BY InitCounts DEF Init, ProcInit
<1>2. TypeInv /\ Inv /\ [Next]_vars => Inv'
  <2>1. ASSUME TypeInv, Inv, Next PROVE Inv'
    <3>1. PICK p \in Proc : Acting(p)
      BY <2>1, NextActs
    <3>2. \A q \in Proc : ~ctxDone'[q]
      BY <2>1, <3>1, OnlySignalsCancel
    <3>3. Len(jobs') = Counted'
      BY <2>1, <3>1, CountsStep DEF FreshInv
    <3> QED BY <2>1, <3>2, <3>3, FreshStays
  <2>2. ASSUME TypeInv, Inv, UNCHANGED vars PROVE Inv'
    <3>1. ctxDone' = ctxDone
      BY <2>2 DEF vars, procVars
    <3> QED BY <2>2, <3>1, CountedSame, FreshStays
  <2> QED BY <2>1, <2>2
<1>3. Inv => RowsAreCounted
  BY DEF RowsAreCounted, Counted
<1> QED BY <1>1, <1>2, <1>3, InitType, NextType, PTL DEF Spec

\* The run rows and the collections under way count no more than there is.
NeverOvercounted == Counted <= Len(jobs)

\* Whatever is killed, interrupted or fails, the run rows of the collections
\* never claim a posting twice or one that the store does not have: a lost row
\* or a lost process only leaves postings uncounted.
THEOREM NothingIsOvercounted ==
    ASSUME IsFiniteSet(Proc)
    PROVE  Spec => []NeverOvercounted
<1> DEFINE Inv == FreshInv /\ NeverOvercounted
<1>1. Init => Inv
  BY InitCounts DEF NeverOvercounted
<1>2. TypeInv /\ Inv /\ [Next]_vars => Inv'
  <2>1. ASSUME TypeInv, Inv, Next PROVE NeverOvercounted'
    <3>1. PICK p \in Proc : Acting(p)
      BY <2>1, NextActs
    <3>2. PICK n, c, d : n = Len(jobs') /\ c = Counted /\ d = Counted'
      OBVIOUS
    <3>3. /\ c \in Nat /\ d \in Nat /\ Len(jobs) \in Nat /\ c <= Len(jobs)
          /\ \/ n = Len(jobs) /\ d <= c
             \/ n = Len(jobs) + 1 /\ d = c + 1
      BY <2>1, <3>1, <3>2, CountsStep DEF FreshInv, NeverOvercounted
    <3>4. d <= n
      BY <3>3
    <3> QED BY <3>2, <3>4 DEF NeverOvercounted
  <2>2. ASSUME Inv, UNCHANGED vars PROVE NeverOvercounted'
    BY <2>2, CountedSame DEF NeverOvercounted
  <2> QED BY <2>1, <2>2, FreshStays
<1>3. Inv => NeverOvercounted
  OBVIOUS
<1> QED BY <1>1, <1>2, <1>3, InitType, NextType, PTL DEF Spec
=============================================================================
