# job-hunt-agent in TLA+

A verification development for `job-hunt-agent`: a Go command that collects job
postings from mail and files, scores them against a profile, and notifies Slack
of the ones worth reading. The modules are translated from the code under
`src/`; TLC checks them on small instances and TLAPS proves the most important
invariants for every instance.

## 1. Inventory

| component | state it keeps | operations | talks to |
|---|---|---|---|
| process, commands (`cmd`, `internal/cli`, `internal/bootstrap`, `application/run_pipeline.go`) | options, context, exit code | `init`, `collect`, `score`, `notify`, `run`, `auth gmail` | everything below, in order |
| collect (`application/collect_jobs.go`, `deduplication`) | counters and failures of one call | `Collect`, `Dedupe` | connectors, repository, error notifier |
| score (`application/score_jobs.go`) | the rows it listed | `Score` | repository, matching |
| notify (`application/notify_jobs.go`, `notifier/*`) | the rows and history it listed, the records of a batch | `Notify`, `selectTargets`, `persist`, `post` | repository, Slack |
| repository (`repository/sqlite`) | `job_postings`, `job_sources`, `notifications`, `collection_runs` | `SaveJob`, `ListJobs`, `UpdateScore`, `UpdateStatus`, `SaveRun`, `SaveNotification`, `ListNotifiedJobs` | SQLite |
| database (`platform/database`) | the schema, `schema_migrations` | `Open`, `Migrate` | SQLite |
| matching (`matching/scorer.go`) | none | `Evaluate` | - |
| material and message (`domain/model/material.go`, `notifier/message`, `normalization`) | none | `MaterialHash`, `Snapshot`, `changedLines`, `Rate`, `Remote`, `Skills` | - |
| Gmail connector (`connector/gmail`) | ids and postings of one fetch | `Fetch` | Gmail |
| Gmail authorization (`cli/auth.go`) | one channel, one server, a goroutine per request | `waitForCode`, `runAuthGmail` | browser, Google |
| fixture connector (`connector/fixture`) | none | `Fetch` | files |
| parsers (`parser`, `parser/email`, `parser/html`, `normalization`) | none | `Extract`, `Parse`, `Build`, `DedupKey` | - |
| configuration (`config`) | none (the files are the user's) | `LoadProfile`, `LoadSources`, `Validate...`, `LoadEnv` | files, environment |
| logging | none | - | stderr |

All commands share one SQLite file and one Slack channel and nothing else.
There is no lock between commands: `docs/architecture.md` expects scheduled runs to
overlap. A command is sequential, except `auth gmail`.

What is hard here:

- **Two systems without a common transaction.** Slack first, the history
  afterwards; a kill, a signal or a lost answer comes in between.
- **Snapshots.** Score and notify list the rows once and act on them for as long
  as the posts take, at a second each; collections and other commands go on.
- **Partial failure.** Failing sources, saves, records and marks are mostly
  logged and passed over, and the counters, alerts and exit codes must still
  tell the truth.
- **Two encodings of one thing.** The hash that decides whether to send again
  and the text that shows what changed are computed apart.
- **Keys made of what a message gives.** An id, a URL or a hash of the whole body
  decides whether two messages are one posting; a layout that changes, a part that
  cannot be decoded or a line read too far changes the key or the content.
- **A mailbox read newest first, saved last-wins,** with messages that are lost on
  the way: an old mail must not have the last word.
- **One start-up for commands with different needs,** over files edited at any time.
- **SQLite's locks** under a transaction that reads before it writes, and a
  migration check outside the migration's transaction.

What makes each component correct: *collect* - one row per key, nothing lost
behind a success, every failure alerted once, verdicts untouched; *score* - a
verdict is that of the content, notified stays notified; *notify* - the history
never claims a message that was not delivered, an acknowledged message is never
forgotten or repeated, a failed one is sent later, the exit code is honest;
*repository* - each operation is one atomic step; *database* - every migration
once and in order; *matching* - bounded, complete and monotone points; *message*
- an update shows a true change, silence means the reader was told; *Gmail* -
complete up to the limit, never silently empty, always returns; *parsers* - one row
per posting, which says what the message says; *start-up* - no command refused for
another's needs, no connector that can only be silent; *authorization* - a token
only for this run's own callback, no goroutine left blocked by a late one.

`PROJECT.json` lists the hazards one by one with their lines and properties.

## 2. Modules

```
Repository            tables and operations, one step each
  Process             processes, options, contexts, faults
    CollectJobs  ScoreJobs  NotifyJobs       the three stages
      RunPipeline     commands, kills, signals, the properties
        MCPipeline        instances
        PipelineProofs    theorems: types, keys, the history
          CommandProofs   theorems: what the commands promise
  AtomicSaves         what a save promises
  SaveJobTx           SaveJob, UpdateStatus over SQLite's locks  => AtomicSaves
    MCSaveJobTx       SaveJobTxProofs
Dedup                 a batch to its postings (used by CollectJobs and Intake)
Parsing               a message to a posting
GmailFetch            gmail.Connector.Fetch
  Intake              messages, fetch, parsing, Dedup, Repository!SaveJob
    MCIntake          layouts of the agents, saved mails and pages
    IntakeProofs
Migrate               schema migration by several commands
  Startup             bootstrap.New over the user's files, then Migrate
    MCStartup         StartupProofs
Scoring               matching.Evaluate
    MCScoring         ScoringProofs
Material              values, hash, display of the material items
  UpdateMessages      rewriting source, overlapping notifies, reader
    MCUpdateMessages  UpdateMessageProofs
AuthFlow              auth gmail
    AuthFlowProofs
```

**Repository, Process, CollectJobs, ScoreJobs, NotifyJobs, RunPipeline.**
A process is idle or at one call of the outside world, and an action is one such
call: one fetch, one `SaveJob`, one `UpdateScore`, one post, the wait for its
answer, one `SaveNotification`. Everything in memory between two calls is part of
the action. `pc` names the next call; `snapshot` is what the last `ListJobs`
returned, `coll`, `toScore` and `note` are the locals of the stage. `slack` is
the channel; a message is appended when the request arrives and marked `acked`
when the sender gets a 2xx, so "delivered and recorded as failed" is a state of
the model. Row ids are positions, which AUTOINCREMENT without deletions gives.
A posting's text is a member of `Content`; `MaterialHash` and `Evaluate` are
constant functions of it, so every hash and every verdict a content may have is
covered by the proofs. A post is lost, or cut off by a signal that comes after the
context was checked; either way it leaves a failed record, as in the code. The webhook for
errors may be missing (`errorHook`): then failures are told to nobody, unless the command
is a dry run, which prints them. A command's options name the connectors it was built with, so
`collect --source` is any subset of them. Faults are counted by kind: `fetch`, `save`, `saveRun`,
`alert`, `list`, `score`, `post` (the request is lost), `ack` (the answer is),
`record`, `mark`, `cancel` (SIGINT/SIGTERM) and `crash` (SIGKILL). After `cancel` every
call under the context fails without a further fault, and `persist`, which the
code runs under `context.WithoutCancel`, does not. `RowsAreCounted` writes a sum of
counters as the number of their units (`CountedNew`), a set that a proof can split by
posting; a fold would have no facts to cite.

**AtomicSaves, SaveJobTx.** `SaveJob` statement by statement: a deferred
transaction reads under SHARED, writes under RESERVED, commits alone. The locks
are SQLite's (rollback journal, which the DSN does not change; external
knowledge, as is the rule that a reader who finds another writer gets
`SQLITE_BUSY` at once). `ImplementsAtomicSaves` is the refinement of AtomicSaves,
whose `Save` is the very `SaveJob` step the pipeline uses.

**Dedup, Parsing, GmailFetch, Intake.** A source from its messages to its rows.
GmailFetch has pages, tokens, limits and the loop over ids. Gmail may over-deliver
and send empty pages and tokens that lead nowhere. An empty page with a token ends
the listing in the code; `cut` remembers when that loses messages, and
`SuccessIsComplete` excludes it. Parsing takes a body as lines of words: labels,
colons, marks and brackets are words, an amount is a word whose value `Amount` gives,
what an expression matches is a predicate on words, and the first match is the one at the least
position, which a proof can reason about. Kept are the order in which
the code tries things (ranges before single amounts, the first label, the last
header, the first section of a heading, plain part before HTML part, the agent's layout
before that of saved mails) and the noise that makes it matter. Intake lets messages
arrive between collections, fetches them (Gmail by GmailFetch's steps, files in one
step), parses, deduplicates and saves them through `Repository!SaveJob`. Each
message carries the truth about itself (which posting it introduces, what it says of
it, whether its layout is one the program knows), and the properties compare the
rows with it.

**Migrate, Startup.** `isApplied` outside, body and version row inside a transaction;
a body that adds a column fails when run twice. Startup puts `bootstrap.New` in front:
each launch reads the files as they are at that moment, is refused with what is
missing, or builds its connectors and opens the store; the user edits profile,
sources and environment, and `init` fills in what is absent. The selected sources are a
set: nothing in start-up depends on their order.

**Scoring.** Every rule of `Evaluate`, over a posting whose items change one at
a time; a nil item is an empty set. Strings are words with a folding.

**Material, UpdateMessages.** Material is what normalization makes of a text, and the hash and
the snapshot of the result. UpdateMessages is NotifyJobs seen from one posting that is worth
telling, with the four items in place of an abstract hash: several notify commands list the row, read
the history, post, wait for the answer and write the record, each a step, while collections
overwrite the row; the request or its answer may get lost, the record may fail, and a command may stop
anywhere. A message in the channel remembers what it displays, the lines it announces and which row
of the history it was compared with; a row remembers which message it stands for. The hash is
taken to be injective. Rows older than migration 003 have no snapshot. The order of a batch, scores
and statuses are in NotifyJobs only.

**AuthFlow.** The select between channel, timer and context, and one goroutine per
callback; the exchange with Google succeeds, fails or never ends: it runs on the
default HTTP client, which has no timeout, under a context that only a signal ends
(auth.go:103), so the module has no fairness and no liveness.

## 3. Runs

| run | question | bounds |
|---|---|---|
| `Sequential` | one command at a time, any order, for ever: acknowledged messages are recorded and not repeated, `run` sends what it judged, exit 0 means that everything notify had to tell was acknowledged, dry and paused commands stay quiet, every command ends, worthy postings are told | 1 process, 2 keys, 3 collections, 1 fault of any kind but a kill and a failing record or mark |
| `Overlapping` | two processes, call by call: history, statuses and updates never run ahead of the channel | 1 key in 3 versions, 2 collections, 1 fault |
| `Collecting` | two collections of two sources: keys, counters, losses, alerts | 3 keys, batches of up to 3 with duplicates, unreadable mails and none, 2 faults |
| `Transactions` | SaveJob and UpdateStatus over locks implement AtomicSaves | 3 savers, 4 requests, 1 fault |
| `Startups` | commands start over edited files: every migration once, in order, recorded with its changes; no connector that can only be silent; a command whose own needs are met keeps opening the store | `collect --source inbox`, `run`, `notify`; 3 migrations, 2 edits among 5 source files, 2 profiles and 4 environments, 2 faults |
| `Evaluations` | bounds, completeness and monotonicity of scores | 3 profiles, 3 rates, 2 numbers of days, 2 dates, 3 spellings of 2 skills |
| `Rewriting` | do hash and display tell the same postings apart; are the lines of an update and the silence of notify true of the channel when notifies overlap and steps fail | 2 notifies, 6 texts that vary every item; 3 messages, 1 fault |
| `GmailPages` | one source, collected for ever: limit and completeness of a fetch, one row per posting, rows that say what the messages say, the newest mail's word in the end | 3 messages out of 8 mails, 4 saved mails or 3 pages, limit 2, pages of 1, 1 too many, 2 faults |
| `Callbacks` | who may yield a token, who blocks | 3 callbacks, the listener, timer, signal |

Why the bounds are enough: two processes are what a race needs (the third
saver and the third command let one wait while two race); a second version
of a posting gives every update, a third the one that excludes it; three
collections let a posting change, change back and be silent. A retry remembers
nothing but the history, so one failure followed by a success is the whole of
it; a signal is one fault that fails every later call of its command. In `GmailPages` three messages with a limit of two leave one outside the limit, and a
second page that is over-full by one would pass it; two faults let a message be lost and its retry
interrupted. In
`Rewriting` the third message is the first that may follow a pair that overtook each other, or an
update whose row was lost. In `Startups` two edits break something and mend it, in either order, after
`init` has made the store usable. Kills and
failing records are in `Overlapping` and, in any number, in the proofs: after them
an acknowledged message may be unknown to the history, so `AckedIsRecorded`
and `NoResend` are stated without them. Counters only bound the number of starts and faults and guard no other
action. `CHECK_DEADLOCK FALSE` is in the pipeline and transaction runs, where the
environment stops when its bounds are used up; the other runs check deadlock.

Assumptions about the world in Intake: names of files sort in the order in which the
files appeared; the first link of a page with a full address is its own; a posting
keeps its id or its URL; an agent's mails have a part that is text; messages arrive
between collections (one that arrives during a listing shifts Gmail's pages, and the
code sees it in the next collection). In Startup the files do not change within one
launch, and `init` is one step.

Three runs are expected to fail, each on one property that a document or a comment
states and the code does not keep (`findings` in `PROJECT.json`):

- `InterruptedPost`: a signal while Slack answers records a delivered message as
  failed (README.md:131 promises the opposite).
- `OverlappingScore`: a score overwrites notified by scored
  (score_jobs.go:49).
- `BusyRuns`: `busy_timeout` does not keep overlapping runs from
  `SQLITE_BUSY` (database.go:42).

Met while modelling, each shown by how the model had to be written and not by a run of
its own:

- `extractCrowdTech` means to keep the URL of the entry form (the comment at
  agent.go:85), but a line that begins with `https://` is a label `https` with a value,
  and the loop goes on before it comes to that branch (agent.go:59-71): the URL is never
  set.
- A mail of an agent in a new layout is to keep its subject as the title (the comment at
  agent.go:25). Gmail bodies have no header lines, so there is no subject there, and
  `email.Parse` takes the first paragraph for the header: the posting has no title
  unless a later line is labelled.
- Mails without any text that can be decoded have one body, so one hash, and share one
  untitled row. In MCIntake they introduce one posting, `blank`.

`NotifiedOnlyToRejected` holds with one command at a time (`Sequential`). So does
`NoResend`; two overlapping commands that both select a posting neither has
recorded send it twice. `SentIsEligible` is stated for `run`, which scores between
collecting and sending: a `notify` after a separate `collect` sends a changed
posting under the score of its former version.

What some properties say, and what they leave out:

- `OkMeansAllSent` looks at what notify had to do, and not at the records it made: every posting that
  `selectTargets` chooses from the rows and the history it read is in the channel in that very version,
  with an acknowledged message. It fails if an interrupted batch ends with exit code 0, whose
  records are all successes but which left postings untold.
- `QuietCommandsStayQuiet`: under a paused profile `score`, and `run` between two stages that do
  nothing, still judge the rows (score_jobs.go does not ask for the status of the search), so status and
  score may change; nothing else does.
- `LinesAreTrue` and `SilenceMeansTold` speak of some earlier message and not of the last one,
  because that is all the code gives. Deliver version 2, lose its record (a kill, a failing insert,
  an answer that came too late), let the source return to version 1: the history still ends with
  version 1 and notify is silent, while the reader's last message shows version 2. With two
  notifies the order of the records may differ from that of the messages.
  `LastWordIsCurrent` says of the last message what is true as long as nothing failed and no two notifies
  overlapped (`alone` remembers that).
- `FailuresAlerted` is about commands that have somewhere to tell their failures. `Sequential` has a
  `run` without error webhook among its commands, for the other properties.
- `EveryCommandEnds` says that no failure makes a command try for ever; its mutant is a run row that is
  written again and again until it succeeds, under a context that a signal has ended.

**Fairness.** `WF(Work(p))`: a started process is scheduled, and every call
returns (HTTP clients and SQLite have timeouts; the timeout of a post is the `ack`
fault). `SF(Start(p, o))` for commands that do not collect: the scheduler starts
each command again and again, and each start finds the process idle only now and
then. Faults and collections get no fairness and end by their bounds:
`WorthyIsTold` is a statement about an environment that fails finitely often
(once, in the run). In
SaveJobTx a held lock is released and a waiting connection proceeds or times out.
In Startup a started command goes on and is started again, but edits and faults end by
their bounds: `EveryCommandOpens` asks only that the needs of the command stay met from
some time on. In Intake `WF(Step)`: the schedule starts one collection after another,
and each request ends with the client's timeout; arrivals and faults get none. (The
refresh of the access token happens inside that request, in the transport of oauth2, on a client of
its own, which the timeout does not bound; it is external and taken to end.) AuthFlow assumes nothing.

## 4. Proofs

Each module of proofs takes the constants as arbitrary values under the named
assumptions of the modules it extends; no bound of the runs is used. TLC evaluates
every ASSUME in the runs and agreed to every property before it was proved.

**PipelineProofs** (RunPipeline).

- `TypeCorrect`: `Spec => []TypeOK`. TypeOK alone is not inductive: a process's
  snapshot must stay within the table, its pending ids within the snapshot, its
  records behind `done`, its items and in-flight message within what it listed.
  `TypeInv` adds these as `Bounds(p)`.
- `KeysUnique`, `VerdictKept`: from TypeInv, one case per action; only `SaveJob`
  appends or changes content.
- `SuccessRowsAreTrue`, `NotifiedJobsWereTold`, `UpdatesFollowMessages`: from
  `DeliveryInv`, which says of every process that what it remembers is true
  already: the history it listed (`KnownTrue`), the statuses in its snapshot
  (`SnapshotTrue`), its records (`RecordsTrue`), the message in flight
  (`InflightTrue`) and the row it is about to mark (`MarksTrue`). That is the
  argument why stale snapshots cannot make the history lie: the channel only
  grows, and so what was true of it when it was read stays true.

**CommandProofs** (RunPipeline). One invariant for each promise, each on top of `TypeInv`:

| theorem | property | hypotheses | inductive invariant |
|---|---|---|---|
| `OkIsAllSent` | `OkMeansAllSent` | | `Complete(p)`: what notify chose (`Chosen`) is still to be sent, in flight, or has a record (`Attempted`), unless the batch was interrupted; and each success record stands for an acknowledged message of the version that was read |
| `QuietStaysQuiet` | `QuietCommandsStayQuiet` | | `Permitted`: the calls a dry run or a paused profile can be at, and that a paused one has nothing to save or to tell |
| `NothingIsLost` | `NothingLostSilently` | | `BatchKept`: as long as no save has failed, each message of the batch is saved, or one with its key still waits |
| `AcksAreRecorded` | `AckedIsRecorded` | no `record` fault, no kill | `AckInv`: an acknowledged message is in the history or among the records its sender has yet to write; a job is marked only with its row in the history |
| `DeliveriesAreRecorded` | `DeliveredIsRecorded` | no `record` or `ack` fault, no kill, no signal | `AckInv`, and `AnswerInv`: a message without an answer is one that a sender waits for |
| `NothingIsResent` | `NoResend` | one process; no `record` fault, no kill | `ResendInv`: a batch has one message per job, and what it knows of the history still holds (`BatchInv`); the last acknowledged message about a job is the last the history says, or will (`Remembers`) |
| `SentWasEligible` | `SentIsEligible` | one process | `RunJudges`: rows not yet to score bear the verdict of the profile on their present text, and what is listed and selected to send bears it too |
| `NotifiedStays` | `NotifiedOnlyToRejected` | one process | `ScoreFresh`: the status the scoring stage read is still the row's |
| `EveryFailureIsAlerted` | `FailuresAlerted` | finitely many processes, each source named once, every command a dry run or with an error webhook; no kill, signal, `saveRun` or `alert` fault | `AlertInv`: for each source, failed rows are as many as alerts that name it and running collections that have yet to tell of it (`Balanced`); a collection is through with each source once (`Collecting`) |
| `AlertsTellOfRows` | `AlertsAreTrue` | finitely many processes, each source named once; no `saveRun` fault | the same counts as an inequality: who is killed, interrupted or not delivered forgets what it had to tell (`Forgets`), and writes and sends nothing more (`InterruptedSteps`) |
| `EveryRowIsCounted` | `RowsAreCounted` | finitely many processes; no kill, signal or `saveRun` fault | the property, which speaks of running collections too, and that nothing is counted between two sources (`CountsFresh`) |
| `NothingIsOvercounted` | `NeverOvercounted` | finitely many processes | the property and `CountsFresh`: a lost process or row only loses counts (`CountsLost`) |

`DeliveriesAreRecorded` is the promise of README.md:131 where it is kept, and
`InterruptedPost` shows that a signal breaks it. `AlertsAreTrue` (no source is named by more
alerts than it has failed rows) and `NeverOvercounted` (no more postings counted than there are
rows) are the halves of `FailuresAlerted` and `RowsAreCounted` that survive kills and
signals; they are stated in CommandProofs and no run lists them.

The hypotheses are where the code itself stops promising:

- One process (`Alone`): two overlapping commands break all three properties. A stale
  score overwrites `notified` (`OverlappingScore` shows it), both send what neither has
  recorded, and one sends what the other's collection has just changed.
- No `record` fault and no kill: between a post that was answered and its
  `SaveNotification` the answer is known to nobody else. If the process dies there, or the insert
  fails, the history forgets it.
- No `ack` fault and no signal while an answer is awaited: the message is then recorded as failed
  although it is in the channel.
- No `saveRun` or `alert` fault, no kill, no signal: a failure to write the row of a collection or
  to send an alert is only logged, so rows, alerts and counters then differ; counters and
  alerts then say too little and never too much.
- `SourcesOnce`: configuration refuses two sources of one name (config.go:199).
- All other faults (failed fetches, saves, lists, scores, posts, lost answers, failed
  marks) occur in any number in all twelve.

In `NothingIsLost`, Dedup keeps the first message of each key, which exists by
well-foundedness of `<` on the naturals (`LeastMember`). The counting theorems compare
finite sets of pairs and split them by the process that takes a step (`CountedSplit`).

**SaveJobTxProofs.** `TypeCorrect`, `DraftsAreCurrent` and `SavesAreAtomic`, the
refinement of AtomicSaves. `TxInv`: at most one connection holds a write lock, and a
connection that is past its lookup holds a lock that lets nobody else commit, so that the
row it read is still the row of the table (`Isolated(s)`). Then a commit is one `Save` of
AtomicSaves and every other statement a stutter.

**StartupProofs.** `MigrationsApplyOnceInOrder` and `VersionRowsAreTrue`, for any
number of migrations and commands, kills included. `MigrateInv`: bodies and version rows that are
committed are the same first migrations (`Prefix`); a command has seen every version row before
the migration it is at, and holds the write transaction exactly when it is about to record
(`Position(p)`). `NoConnectorStaysMute` needs only that
files keep their types: `bootstrap.New` checks each connector that it builds.

**IntakeProofs.** The fetch first: `FetchStaysInBounds` and `SuccessfulFetchIsComplete`, for any
limit, page size and over-delivery. The first holds of fetches that fail later, too, and says that
no id is listed and no message returned twice (`EachOnce`). `FetchInv`: the ids are the newest messages in order, as many as
Gmail sent and the limit allows, and all of them once listing is over, unless Gmail cut the list
(`Listing`); the messages read are among those asked for so far, in their order, and an empty result
means an empty list (`Getting`).

Then the way of a message into the rows, from `IntakeInv`, which adds to FetchInv: what a
message parses to is `Posting` of it (`Parses`); every key has at most one row, the row's content is
what some message with the key parses to, and each of its introductions was made by a message with
the key (`RowsInv`); while a batch is saved, what is no longer pending is in the row of its
key with its introduction (`SavingInv`). The last part is the delicate one: a later save of the
same batch must not undo an earlier one, and does not because the postings that Dedup keeps
have different keys.

- `TypeCorrect` (`TypeOK`) and `BatchesAreSaved` need no hypothesis. The latter says in the program's
  own terms what collecting a batch does: every posting of it has a row with its key and
  introduction, and the row says what the first message with that key says.
- `RowsStayPostings` (`RowsArePostings`) and `RowsAreTrue` (`RowsTellTruth`) compare the rows with what
  the messages say of themselves, and so ask of the messages what the code asks of them:
  `IdsNameMessages` (the parsers find the id a message gives itself, and it names one message),
  `KeysNamePostings` (a key belongs to one posting, and the known layouts keep it),
  `RegularIsRead` (a message in a known layout is read as it says; `RowsAreTrue` only). The three are
  hypotheses of the theorems, over the constant `Messages`, and not assumptions of the model: whether
  the parsers read the layouts of the agents, saved mails and pages so is what `GmailPages` checks,
  and TLC finds all three true of the messages in MCIntake.

**ScoringProofs.** `TypeCorrect` (the points are within 0 and 100), `IdealIsFull`,
`UnknownsCountForNothing`, `BetterStaysBetter`, for any rates, days, dates and skills.
The invariant `ScoreInv` says that the verdict is `Evaluate` of the posting; the rest is
lemmas about its parts: a share of skills is bounded, monotone and full when nothing is
missing, and the quotients of the rate and the remote days are monotone.

**AuthFlowProofs.** `TypeCorrect`, `TokensAreConsented`, `LoneCallbacksPass`, for any
number of callbacks. `AuthInv`: every result in the channel is that of a callback that carried what it
claims (`Honest`), and while the command waits, the channel holds no more than the first.

**UpdateMessageProofs** (any words, amounts, dates and texts). The lemma
`HashAgreesWithDisplay` says that two postings that normalization can produce
have one hash iff they have one display. It needs what normalization guarantees:
an amount has a type other than unknown, and days on site occur with hybrid work
only. From it `UpdatesShowChanges`, `ChangesAreTrue`, `SilenceIsInformed` and `LastWordCurrent`, for any
number of notifies, lost posts, lost answers, lost records and kills. The inductive invariant
`RewritingInv` says of each row of the history that it stands for a message of the channel and has
that message's hash and display (`RowIsTrue`); of each posting at work that what it waits for or records
is in the channel, and that it differs from the row it was compared with (`ItemIsTrue`); and of each message
that its lines are its difference from the message of that row (`MessageIsTrue`). Rows and messages
are only added, so this stays true however old the row is by the time the message arrives. `CalmInv` adds
for the last of the four that in a calm history one notify is at work at most, and the last message has
the last row or is the one this notify waits with.

**Only model-checked.**

- Liveness, and with it ENABLED, which the prover does not handle:
  `EveryCommandEnds`, `WorthyIsTold`, `EveryRequestEnds`, `EveryCommandOpens`,
  `MailboxIsMirrored`.
- What the parsers make of a particular layout (`KeysNamePostings`, `RegularIsRead`): it
  is a computation over the words of a message, which `GmailPages` does for the layouts of MCIntake.
  What holds of a text whatever it says (an amount is a number, days are days of a week, the first of
  several values counts) is proved from the positions of the matches.
- What a fold computes for every input, which needs induction over data, out of
  the prover's reach: the proofs about messages use of `Skills` only that two postings with the
  same stored values have the same hash and display.
- That `InterruptedPost`, `OverlappingScore` and `BusyRuns` refute their properties.

## 5. Not modelled

The wording of messages and logs, the YAML decoder and the summary line of `collect` have no
state of their own. Of the items of a posting, those that are read the way another one is
(place, hours, roles, contract, dates) are left out of Parsing; all that scores use are in
Scoring, all that messages use in Material. Character-level matters (widths, which
substring an expression finds, where HTML nests) stop at words and elements. Gmail's
search and the refresh of the access token are external; so is the arrival of an error
alert whose answer is lost. Left out because no input of the program reaches them: a rate with one
bound only (message.go:150 shows one, material.go:59 hashes one, but normalization sets both), and the
fallback of `Build` to the URL of the raw posting (parser.go:69; no connector sets it). A line of
more than 1 MiB ends the scan of a mail without an error (email/parser.go:70), so what follows is not read;
Parsing has no such line. In `OneRowPerKey` a save is one step; that two savers of one new key
meet SQLite's locks, and at last its UNIQUE index, is the business of SaveJobTx. Signals and kills in the middle of `init` are left out: it
writes files one by one, and a half-written file is an edit.

## 6. Plan

Done in this order: the pipeline, its proofs, the store's transactions, migration,
scoring, messages, Gmail, authorization; then connectors per command, parsing with the
whole way of a source into the store, and start-up; then the proofs of section 4. What is
left:

1. What of `NoResend` and `SentIsEligible` survives two processes: a posting is sent at most
   once per process that listed it before the first record.
2. The items of a posting that Parsing leaves out (place, hours, roles, contract, dates), if a layout
   ever reads one of them in a way of its own.
