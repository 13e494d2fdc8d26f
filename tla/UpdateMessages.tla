--------------------------- MODULE UpdateMessages ---------------------------
(***************************************************************************)
(* What the reader of the channel knows about one posting that is worth    *)
(* notifying.  Its source rewrites it, collect stores what normalization   *)
(* makes of the text, and notify sends it again with the lines that        *)
(* changed when it differs from the last message of the history.           *)
(*                                                                         *)
(* Several notify commands may run at once.  The rows, the history, the    *)
(* post, its answer and the record are steps apart; a post or its answer   *)
(* may get lost, the record may fail, and the command may be stopped       *)
(* anywhere.  NotifyJobs has the batches, scores and statuses that are     *)
(* left out here, and one abstract hash in place of the four items.        *)
(***************************************************************************)
EXTENDS Material

CONSTANTS
    Proc,
    Texts,          \* the texts the source may write
    MaxMessages,    \* bound on the messages of the channel
    MaxFaults       \* bound on the faults of a behaviour

ASSUME UpdateAssumption == Texts \subseteq Text /\ {MaxMessages, MaxFaults} \subseteq Nat

VARIABLES
    job,        \* the values of the stored row
    channel,    \* the messages the reader got, oldest first
    history,    \* the success rows of the notifications, oldest first
    item,       \* [Proc -> the posting notify works on, if any]
    faults,
    alone       \* history: no notify has begun while another one was at work

vars == <<job, channel, history, item, faults, alone>>

\* A message that was sent before material_fields existed, and its row.
LegacyMessage(v) == [shown |-> Snapshot(v), seen |-> 0, changes |-> {}]
LegacyRow(v) == [hash |-> MaterialHash(v), fields |-> {}, of |-> 1]

Init ==
    /\ \E t \in Texts : job = ValuesOf(t)
    /\ \/ channel = <<>> /\ history = <<>>
       \/ \E t \in Texts : /\ channel = <<LegacyMessage(ValuesOf(t))>>
                           /\ history = <<LegacyRow(ValuesOf(t))>>
    /\ item = [p \in Proc |-> {}]
    /\ faults = 0
    /\ alone = TRUE

Fault == faults < MaxFaults /\ faults' = faults + 1
NoFault == UNCHANGED faults
-----------------------------------------------------------------------------
\* A collection overwrites the row, also while notify is sending.
Collect ==
    /\ \E t \in Texts : job' = ValuesOf(t)
    /\ UNCHANGED <<channel, history, item, faults, alone>>

\* What p works on from now on, if anything.
Has(p, S) == item' = [item EXCEPT ![p] = S]

\* Notify reads the row first,
ListJob(p) ==
    /\ item[p] = {}
    /\ Has(p, {[at |-> "listed", row |-> job, seen |-> 0, sent |-> 0]})
    /\ alone' = (alone /\ \A q \in Proc : item[q] = {})
    /\ UNCHANGED <<job, channel, history, faults>>

\* Mutation: any row of the history counts, not the last one only.
SaidBefore(v) == \E k \in DOMAIN history : history[k].hash = MaterialHash(v)

\* The last row of the history is of this version.
NothingToSay(v) == history # <<>> /\ history[Len(history)].hash = MaterialHash(v)

\* and then the history, of which the last row counts; `seen' is its place.
Select(p) ==
    /\ \E i \in item[p] :
          /\ i.at = "listed"
          /\ \/ NothingToSay(i.row) /\ Has(p, {})
             \/ /\ ~NothingToSay(i.row)
                /\ Has(p, {[i EXCEPT !.at = "posting", !.seen = Len(history)]})
    /\ UNCHANGED <<job, channel, history, faults, alone>>

\* The snapshot the item carries: of no row, or of the one that was seen.
PrevFields(i) == UNION {history[k].fields : k \in DOMAIN history \cap {i.seen}}

\* What the message displays.  One that has seen a row is an update.
MessageOf(i) ==
    [shown |-> Snapshot(i.row), seen |-> i.seen,
     changes |-> {ChangedLines(s, i.row) : s \in PrevFields(i)}]

\* The request leaves; it reaches the channel or is lost on the way.
Post(p) ==
    /\ \E i \in item[p] :
          /\ i.at = "posting"
          /\ \/ /\ Len(channel) < MaxMessages
                /\ channel' = Append(channel, MessageOf(i))
                /\ Has(p, {[i EXCEPT !.at = "waiting", !.sent = Len(channel) + 1]})
                /\ NoFault
             \/ /\ Has(p, {[i EXCEPT !.at = "waiting"]})
                /\ Fault
                /\ UNCHANGED channel
    /\ UNCHANGED <<job, history, alone>>

\* Mutation: every attempt counts as a success.
AnyAttempt(i) == NoFault

\* The 2xx answer of a delivered message came in time.
Acknowledged(i) == i.sent # 0 /\ NoFault

\* The answer.  A message that was lost, or delivered with its answer lost or
\* cut off by a signal, leaves a failed row, which selectTargets never sees.
Answer(p) ==
    /\ \E i \in item[p] :
          /\ i.at = "waiting"
          /\ \/ Acknowledged(i) /\ Has(p, {[i EXCEPT !.at = "recording"]})
             \/ i.sent = 0 /\ NoFault /\ Has(p, {})
             \/ i.sent # 0 /\ Fault /\ Has(p, {})
    /\ UNCHANGED <<job, channel, history, alone>>

\* Mutation: the row of the history is made of the stored row.
RowOfJob(i) == [hash |-> MaterialHash(job), fields |-> {Snapshot(job)}, of |-> i.sent]

\* The row of the history is made of the posting that was sent.
RowOf(i) == [hash |-> MaterialHash(i.row), fields |-> {Snapshot(i.row)}, of |-> i.sent]

\* SaveNotification; its failure is only logged.
Persist(p) ==
    /\ \E i \in item[p] :
          /\ i.at = "recording"
          /\ \/ history' = Append(history, RowOf(i)) /\ NoFault
             \/ Fault /\ UNCHANGED history
    /\ Has(p, {})
    /\ UNCHANGED <<job, channel, alone>>

\* The command is killed, or a signal keeps it from sending.
Stop(p) ==
    /\ item[p] # {}
    /\ Has(p, {})
    /\ Fault
    /\ UNCHANGED <<job, channel, history, alone>>

Next ==
    \/ Collect
    \/ \E p \in Proc :
          \/ ListJob(p)
          \/ Select(p)
          \/ Post(p)
          \/ Answer(p)
          \/ Persist(p)
          \/ Stop(p)

Spec == Init /\ [][Next]_vars
-----------------------------------------------------------------------------
\* An update message names what has changed, unless the row it was compared
\* with has no snapshot (the comments on formatRate and on Remote's zero days).
UpdateShowsChange ==
    \A n \in DOMAIN channel :
        LET m == channel[n]
        IN  m.seen # 0 /\ history[m.seen].fields # {} =>
                m.changes # {} /\ \A c \in m.changes : DOMAIN c # {}

\* The labels under which two messages differ, with what each displays.
Difference(old, new) ==
    [l \in {k \in DOMAIN old.shown : old.shown[k] # new.shown[k]} |->
        <<old.shown[l], new.shown[l]>>]

\* The lines of an update are the difference between two messages the reader
\* really got: this one, and an earlier one, which the last row of the history
\* stood for when it was read.  It need not be the message just before this
\* one: that one may have lost its row, or be of another notify.
LinesAreTrue ==
    \A n \in DOMAIN channel : \A c \in channel[n].changes :
        \E m \in 1..(n - 1) : /\ history[channel[n].seen].of = m
                              /\ c = Difference(channel[m], channel[n])

\* When notify has nothing to say, the reader has got a message that shows the
\* posting as it is stored, whatever was lost and however commands overlap.
SilenceMeansTold ==
    NothingToSay(job) => \E n \in DOMAIN channel : channel[n].shown = Snapshot(job)

\* Nothing failed, no two notifies overlapped, and no message waits for its row.
Calm ==
    /\ faults = 0 /\ alone
    /\ \A p \in Proc : \A i \in item[p] : i.at \notin {"waiting", "recording"}

\* Then it is the last message that shows the posting as it is stored.  (After
\* a fault, or an overlap of two notifies, an older one may be: a delivered message
\* without a row leaves the history behind what the reader saw last.)
LastWordIsCurrent ==
    Calm /\ NothingToSay(job) => channel[Len(channel)].shown = Snapshot(job)
=============================================================================
