------------------------------- MODULE Process -------------------------------
(***************************************************************************)
(* What every command has in common: the operating-system process that     *)
(* runs it, its options and its context (cmd/job-hunt-agent/main.go,       *)
(* internal/cli).  Nothing keeps two processes from running at once: a     *)
(* scheduled run may start while another, or a manual command, is active.  *)
(*                                                                         *)
(* A fault is anything the environment does to a process: a kill, a        *)
(* signal, a failing database call, a failing source, a lost request or a  *)
(* lost answer.  FaultKinds says which ones may happen and MaxFaults how   *)
(* many of them do.                                                        *)
(***************************************************************************)
EXTENDS Repository

CONSTANTS
    Proc,
    Profile,      \* contents of profile.yaml: [status, threshold]
    Evaluate,     \* [Content -> [Profile -> Verdict]], matching.Evaluate
    FaultKinds,
    MaxFaults     \* bound on the faults of a behaviour

SearchStatus == {"searching", "watching", "paused"}
Verdict == [rejected : BOOLEAN, score : Nat]

ASSUME ProfileAssumption ==
    /\ Profile \subseteq [status : SearchStatus, threshold : Nat]
    /\ Evaluate \in [Content -> [Profile -> Verdict]]
    /\ \A c \in Content, f \in Profile :
           Evaluate[c][f].rejected => Evaluate[c][f].score = 0

ASSUME FaultAssumption == MaxFaults \in Nat

VARIABLES
    pc,        \* [Proc -> where the process stands]
    opts,      \* [Proc -> options of the command it runs]
    ctxDone,   \* [Proc -> SIGINT or SIGTERM was received]
    outcome,   \* [Proc -> how its last command ended]
    snapshot,  \* [Proc -> the rows its last ListJobs returned]
    faults     \* faults so far

procVars == <<pc, opts, ctxDone, outcome, snapshot, faults>>

Command == {"collect", "score", "notify", "run"}
\* The connectors are those of the sources that bootstrap.New selects: all that
\* are enabled, the one named by --source, none for score and notify.  The
\* webhook for errors may be missing (SLACK_ERROR_WEBHOOK_URL).
Options == [cmd : Command, dryRun : BOOLEAN, errorHook : BOOLEAN, profile : Profile,
            connectors : Seq(Source)]
NoOptions == [cmd |-> "none"]

CollectPC == {"fetch", "save", "saveRun", "alert"}
ScorePC == {"listForScore", "score"}
NotifyPC == {"listForNotify", "listNotified", "print", "post", "reply",
             "persist", "mark"}
Outcome == {"none", "ok", "error", "notifyFailed", "killed"}

ProcInit ==
    /\ pc = [p \in Proc |-> "idle"]
    /\ opts = [p \in Proc |-> NoOptions]
    /\ ctxDone = [p \in Proc |-> FALSE]
    /\ outcome = [p \in Proc |-> "none"]
    /\ snapshot = [p \in Proc |-> <<>>]
    /\ faults = 0

ProcTypeOK ==
    /\ pc \in [Proc -> {"idle"} \cup CollectPC \cup ScorePC \cup NotifyPC]
    /\ opts \in [Proc -> Options \cup {NoOptions}]
    /\ \A p \in Proc : pc[p] # "idle" => opts[p] \in Options
    /\ ctxDone \in [Proc -> BOOLEAN]
    /\ outcome \in [Proc -> Outcome]
    /\ snapshot \in [Proc -> Seq(JobRow)]
    /\ faults \in 0..MaxFaults

Idle(p) == pc[p] = "idle"
Enabled(p) == opts[p].profile.status # "paused"
Goto(p, l) == pc' = [pc EXCEPT ![p] = l]

\* The process exits: nothing of its memory survives.
Exit(p, o) ==
    /\ Goto(p, "idle")
    /\ outcome' = [outcome EXCEPT ![p] = o]
    /\ opts' = [opts EXCEPT ![p] = NoOptions]
    /\ ctxDone' = [ctxDone EXCEPT ![p] = FALSE]
    /\ snapshot' = [snapshot EXCEPT ![p] = <<>>]

\* The process goes on, with the snapshot it has or a new one.
Continue(p, l) == Goto(p, l) /\ UNCHANGED <<opts, ctxDone, outcome, snapshot>>
ContinueWith(p, l, rows) ==
    /\ Goto(p, l)
    /\ snapshot' = [snapshot EXCEPT ![p] = rows]
    /\ UNCHANGED <<opts, ctxDone, outcome>>

\* A call that takes the context fails at once when it is done.
Fault(kind) == kind \in FaultKinds /\ faults < MaxFaults /\ faults' = faults + 1
NoFault == UNCHANGED faults
Succeeds(p) == ~ctxDone[p] /\ NoFault
Fails(p, kind) ==
    \/ ctxDone[p] /\ NoFault
    \/ ~ctxDone[p] /\ Fault(kind)

\* Where Pipeline.Run goes after a stage, and where a single command ends.
AfterCollect(p) ==
    \/ opts[p].cmd = "run" /\ Continue(p, "listForScore")
    \/ opts[p].cmd = "collect" /\ Exit(p, "ok")

AfterScore(p) ==
    \/ opts[p].cmd = "run" /\ ContinueWith(p, "listForNotify", <<>>)
    \/ opts[p].cmd = "score" /\ Exit(p, "ok")

\* signal.NotifyContext: the first signal cancels, later ones change nothing.
Cancel(p) ==
    /\ ~Idle(p) /\ ~ctxDone[p]
    /\ Fault("cancel")
    /\ ctxDone' = [ctxDone EXCEPT ![p] = TRUE]
    /\ UNCHANGED <<pc, opts, outcome, snapshot>>
=============================================================================
