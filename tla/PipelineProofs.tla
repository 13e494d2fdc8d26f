--------------------------- MODULE PipelineProofs ---------------------------
(***************************************************************************)
(* Theorems about RunPipeline for every number of processes, postings,     *)
(* versions, faults and collections.                                       *)
(***************************************************************************)
EXTENDS RunPipeline, FiniteSetTheorems, SequenceTheorems, TLAPS

\* What a process may rely on where it stands: its position among the
\* connectors, the rows its pending ids refer to, the record it persists.
Bounds(p) ==
    /\ pc[p] = "fetch" => coll[p].src > 0
    /\ pc[p] \in {"save", "saveRun"} => coll[p].src \in 1..Len(opts[p].connectors)
    /\ pc[p] = "save" => coll[p].pending \subseteq DOMAIN coll[p].batch
    /\ pc[p] = "score" => toScore[p] \subseteq DOMAIN snapshot[p]
    /\ pc[p] \in {"post", "reply"} =>
          /\ note[p].items \subseteq DOMAIN snapshot[p]
          /\ DOMAIN note[p].known = DOMAIN snapshot[p]
          /\ note[p].done = 0
    /\ pc[p] = "reply" =>
          /\ note[p].current \in DOMAIN snapshot[p]
          /\ note[p].inflight \in 0..Len(slack)
    /\ pc[p] \in {"persist", "mark"} => note[p].done < Len(note[p].records)

TypeInv == TypeOK /\ \A p \in Proc : Bounds(p)

\* Ways a step may change the state every process has.
LEMMA ContinueType ==
    ASSUME ProcTypeOK, faults' \in 0..MaxFaults, NEW p \in Proc, pc[p] # "idle",
           NEW l \in CollectPC \cup ScorePC \cup NotifyPC, Continue(p, l)
    PROVE  ProcTypeOK'
BY DEF ProcTypeOK, Continue, Goto

LEMMA ContinueWithType ==
    ASSUME ProcTypeOK, faults' \in 0..MaxFaults, NEW p \in Proc, pc[p] # "idle",
           NEW l \in CollectPC \cup ScorePC \cup NotifyPC,
           NEW rows \in Seq(JobRow), ContinueWith(p, l, rows)
    PROVE  ProcTypeOK'
BY DEF ProcTypeOK, ContinueWith, Goto

LEMMA ExitType ==
    ASSUME ProcTypeOK, faults' \in 0..MaxFaults, NEW p \in Proc,
           NEW o \in Outcome, Exit(p, o)
    PROVE  ProcTypeOK'
<1>1. <<>> \in Seq(JobRow)
  OBVIOUS
<1> QED BY <1>1 DEF ProcTypeOK, Exit, Goto

LEMMA FaultsType ==
    ASSUME ProcTypeOK, NEW p \in Proc, NEW kind
    PROVE  /\ NoFault => faults' \in 0..MaxFaults
           /\ Fault(kind) => faults' \in 0..MaxFaults
           /\ Succeeds(p) => faults' \in 0..MaxFaults
           /\ Fails(p, kind) => faults' \in 0..MaxFaults
BY FaultAssumption DEF ProcTypeOK, NoFault, Fault, Succeeds, Fails

LEMMA DedupeBounds ==
    ASSUME NEW b \in Seq(Raw)
    PROVE  /\ Dedupe(b) \subseteq Parsed(b)
           /\ Parsed(b) \subseteq DOMAIN b
           /\ Cardinality(Parsed(b)) - Cardinality(Dedupe(b)) \in Nat
<1>1. Dedupe(b) \subseteq Parsed(b) /\ Parsed(b) \subseteq DOMAIN b
  BY DEF Dedupe, Parsed
<1>2. IsFiniteSet(DOMAIN b)
  BY FS_Interval
<1>3. IsFiniteSet(Parsed(b)) /\ Cardinality(Dedupe(b)) <= Cardinality(Parsed(b))
  BY <1>1, <1>2, FS_Subset
<1>4. Cardinality(Parsed(b)) \in Nat /\ Cardinality(Dedupe(b)) \in Nat
  BY <1>1, <1>3, FS_Subset, FS_CardinalityType
<1> QED BY <1>1, <1>3, <1>4

\* A process that collects stands at one of its connectors.
LEMMA ThisSourceType ==
    ASSUME TypeInv, NEW p \in Proc,
           pc[p] \in {"save", "saveRun"} \/ (pc[p] = "fetch" /\ SourcesLeft(p))
    PROVE  ThisSource(p) \in Source
<1>1. coll[p].src \in 1..Len(opts[p].connectors)
  BY DEF TypeInv, TypeOK, Bounds, SourcesLeft, CollectTypeOK
<1>2. opts[p].connectors \in Seq(Source)
  <2>1. opts[p] \in Options
    BY DEF TypeInv, TypeOK, ProcTypeOK
  <2> QED BY <2>1 DEF Options
<1> QED BY <1>1, <1>2 DEF ThisSource

LEMMA FetchOkType ==
    ASSUME TypeInv, NEW p \in Proc, FetchOk(p)
    PROVE  StoreTypeOK' /\ ProcTypeOK' /\ CollectTypeOK' /\ Bounds(p)'
<1> USE DEF TypeInv, TypeOK
<1>1. ThisSource(p) \in Source
  BY ThisSourceType DEF FetchOk
<1>2. PICK b \in Batches[ThisSource(p)] :
          /\ coll' = [coll EXCEPT ![p].batch = b, ![p].pending = Dedupe(b),
                        ![p].dup = Cardinality(Parsed(b)) - Cardinality(Dedupe(b))]
          /\ Continue(p, IF Dedupe(b) = {} THEN "saveRun" ELSE "save")
  BY DEF FetchOk
<1>3. b \in Seq(Raw)
  BY <1>1, CollectAssumption
<1>4. Dedupe(b) \in SUBSET Nat
  BY <1>3, DedupeBounds
<1>5. CollectTypeOK'
  <2> DEFINE n == Cardinality(Parsed(b)) - Cardinality(Dedupe(b))
             P == Dedupe(b)
  <2>1. n \in Nat
    BY <1>3, DedupeBounds
  <2>2. coll' = [coll EXCEPT ![p].batch = b, ![p].pending = P, ![p].dup = n]
    BY <1>2
  <2>3. alerts' = alerts
    BY DEF FetchOk
  <2>4. P \in SUBSET Nat
    BY <1>4
  <2> HIDE DEF n, P
  <2>5. QED BY <1>3, <2>1, <2>2, <2>3, <2>4 DEF CollectTypeOK
<1>6. ProcTypeOK'
  BY <1>2, ContinueType, FaultsType DEF FetchOk, CollectPC
<1>7. StoreTypeOK'
  BY DEF FetchOk, storeVars, StoreTypeOK
<1>8. Bounds(p)'
  BY <1>2, <1>3, DedupeBounds DEF Bounds, FetchOk, SourcesLeft, Continue, Goto, CollectTypeOK, ProcTypeOK
<1> QED BY <1>5, <1>6, <1>7, <1>8

LEMMA FetchFailedType ==
    ASSUME TypeInv, NEW p \in Proc, FetchFailed(p)
    PROVE  StoreTypeOK' /\ ProcTypeOK' /\ CollectTypeOK' /\ Bounds(p)'
<1> USE DEF TypeInv, TypeOK
<1>1. ThisSource(p) \in Source
  BY ThisSourceType DEF FetchFailed
<1>2. StoreTypeOK' /\ CollectTypeOK'
  BY <1>1 DEF FetchFailed, storeVars, StoreTypeOK, CollectTypeOK
<1>3. ProcTypeOK'
  BY ContinueType, FaultsType DEF FetchFailed, CollectPC
<1>4. Bounds(p)'
  BY DEF Bounds, FetchFailed, SourcesLeft, Continue, Goto, CollectTypeOK, ProcTypeOK
<1> QED BY <1>2, <1>3, <1>4

LEMMA RowUpdate ==
    ASSUME NEW S, NEW s \in Seq(S), NEW i, NEW e, i \in DOMAIN s => e \in S
    PROVE  [s EXCEPT ![i] = e] \in Seq(S)
<1>1. CASE i \in DOMAIN s
  BY <1>1, ExceptSeq
<1>2. CASE i \notin DOMAIN s
  BY <1>2, [s EXCEPT ![i] = e] = s
<1> QED BY <1>1, <1>2

LEMMA SaveJobType ==
    ASSUME StoreTypeOK, NEW k \in Key, NEW c \in Content, NEW srcs \in SUBSET Origin,
           SaveJob(k, c, srcs)
    PROVE  jobs' \in Seq(JobRow)
<1>1. CASE InsertJob(k, c, srcs)
  <2>1. [key |-> k, content |-> c, sources |-> srcs, status |-> "new", score |-> 0]
           \in JobRow
    BY DEF JobRow, JobStatus
  <2> QED BY <1>1, <2>1 DEF InsertJob, StoreTypeOK
<1>2. CASE \E i \in JobsWithKey(k) : UpdateJob(i, c, srcs)
  <2>1. PICK i \in JobsWithKey(k) : UpdateJob(i, c, srcs)
    BY <1>2
  <2> DEFINE row == [jobs[i] EXCEPT !.content = c, !.sources = @ \cup srcs]
  <2>2. jobs[i] \in JobRow
    BY DEF JobsWithKey, StoreTypeOK
  <2>3. row \in JobRow
    <3>1. /\ jobs[i] \in [key : Key, content : Content, sources : SUBSET Origin,
                          status : JobStatus, score : Nat]
          /\ jobs[i].sources \cup srcs \in SUBSET Origin
      BY <2>2 DEF JobRow
    <3> QED BY <3>1 DEF JobRow
  <2>4. jobs' = [jobs EXCEPT ![i] = row]
    BY <2>1 DEF UpdateJob
  <2> HIDE DEF row
  <2> QED BY <2>3, <2>4, RowUpdate DEF StoreTypeOK
<1> QED BY <1>1, <1>2 DEF SaveJob

LEMMA MergedSourcesType ==
    ASSUME NEW b \in Seq(Raw), NEW i \in DOMAIN b
    PROVE  MergedSources(b, i) \in SUBSET Origin
<1>1. ASSUME NEW j \in DOMAIN b PROVE b[j].origin \in Origin
  <2>1. b[j] \in Raw
    OBVIOUS
  <2> QED BY <2>1 DEF Raw
<1> QED BY <1>1 DEF MergedSources, Parsed

LEMMA SaveOneType ==
    ASSUME TypeInv, NEW p \in Proc, SaveOne(p)
    PROVE  StoreTypeOK' /\ ProcTypeOK' /\ CollectTypeOK' /\ Bounds(p)'
<1> USE DEF TypeInv, TypeOK
<1>1. PICK i \in coll[p].pending :
          LET raw == coll[p].batch[i]
              created == JobsWithKey(raw.key) = {}
              left == coll[p].pending \ {i}
          IN  /\ SaveJob(raw.key, raw.content, MergedSources(coll[p].batch, i))
              /\ coll' = [coll EXCEPT ![p].pending = left,
                            ![p].new = IF created THEN @ + 1 ELSE @,
                            ![p].dup = IF created THEN @ ELSE @ + 1]
              /\ Continue(p, IF left = {} THEN "saveRun" ELSE "save")
  BY DEF SaveOne
<1>2. coll[p].batch \in Seq(Raw) /\ i \in DOMAIN coll[p].batch
  BY DEF SaveOne, Bounds, CollectTypeOK
<1>3. coll[p].batch[i] \in Raw
  BY <1>2
<1>4. MergedSources(coll[p].batch, i) \in SUBSET Origin
  BY <1>2, MergedSourcesType
<1>5. jobs' \in Seq(JobRow)
  BY <1>1, <1>3, <1>4, SaveJobType DEF Raw
<1>6. StoreTypeOK'
  BY <1>5 DEF StoreTypeOK, SaveOne
<1>7. CollectTypeOK'
  <2> DEFINE left == coll[p].pending \ {i}
             created == JobsWithKey(coll[p].batch[i].key) = {}
             new == IF created THEN coll[p].new + 1 ELSE coll[p].new
             dup == IF created THEN coll[p].dup ELSE coll[p].dup + 1
  <2>1. coll' = [coll EXCEPT ![p].pending = left, ![p].new = new, ![p].dup = dup]
    BY <1>1 DEF CollectTypeOK
  <2>2. left \in SUBSET Nat /\ new \in Nat /\ dup \in Nat
    BY DEF CollectTypeOK
  <2>3. alerts' = alerts
    BY DEF SaveOne
  <2> HIDE DEF left, new, dup
  <2> QED BY <2>1, <2>2, <2>3 DEF CollectTypeOK
<1>8. ProcTypeOK'
  BY <1>1, ContinueType, FaultsType DEF SaveOne, CollectPC
<1>9. Bounds(p)'
  <2>1. /\ coll'[p].pending = coll[p].pending \ {i}
        /\ coll'[p].src = coll[p].src
        /\ coll'[p].batch = coll[p].batch
    BY <1>1 DEF CollectTypeOK
  <2>2. pc'[p] \in {"save", "saveRun"} /\ opts' = opts
    BY <1>1 DEF Continue, Goto, ProcTypeOK
  <2> QED BY <2>1, <2>2 DEF Bounds, SaveOne
<1> QED BY <1>6, <1>7, <1>8, <1>9

LEMMA SaveFailedType ==
    ASSUME TypeInv, NEW p \in Proc, SaveFailed(p)
    PROVE  StoreTypeOK' /\ ProcTypeOK' /\ CollectTypeOK' /\ Bounds(p)'
<1> USE DEF TypeInv, TypeOK
<1>1. ThisSource(p) \in Source
  BY ThisSourceType DEF SaveFailed
<1>2. StoreTypeOK' /\ CollectTypeOK'
  BY <1>1 DEF SaveFailed, storeVars, StoreTypeOK, CollectTypeOK
<1>3. ProcTypeOK'
  BY ContinueType, FaultsType DEF SaveFailed, CollectPC
<1>4. Bounds(p)'
  BY DEF Bounds, SaveFailed, Continue, Goto, CollectTypeOK, ProcTypeOK
<1> QED BY <1>2, <1>3, <1>4

CollType == [src : Nat, batch : Seq(Raw), pending : SUBSET Nat, new : Nat,
             dup : Nat, err : BOOLEAN, failures : SUBSET Source]

LEMMA NoCollectType ==
    /\ NoCollect \in CollType
    /\ [NoCollect EXCEPT !.src = 1] \in CollType
    /\ [NoCollect EXCEPT !.src = 1].src = 1
    /\ \A n \in Nat, F \in SUBSET Source :
           [NoCollect EXCEPT !.src = n, !.failures = F] \in CollType
<1>1. <<>> \in Seq(Raw)
  OBVIOUS
<1> QED BY <1>1 DEF NoCollect, CollType

LEMMA RecordRunType ==
    ASSUME TypeInv, NEW p \in Proc, RecordRun(p)
    PROVE  StoreTypeOK' /\ ProcTypeOK' /\ CollectTypeOK' /\ Bounds(p)'
<1> USE DEF TypeInv, TypeOK
<1>1. ThisSource(p) \in Source
  BY ThisSourceType DEF RecordRun
<1>2. RunRowOf(p) \in RunRow
  BY <1>1 DEF RunRowOf, RunRow, CollectTypeOK
<1>3. StoreTypeOK'
  <2>1. runs' = Append(runs, RunRowOf(p)) \/ runs' = runs
    BY DEF RecordRun, SaveRun
  <2> QED BY <1>2, <2>1 DEF RecordRun, StoreTypeOK
<1>4. CollectTypeOK'
  <2>1. coll[p].src + 1 \in Nat /\ coll[p].failures \in SUBSET Source
    BY DEF CollectTypeOK
  <2> QED BY <2>1, NoCollectType DEF RecordRun, CollectTypeOK, CollType
<1>5. ProcTypeOK'
  BY ContinueType, FaultsType DEF RecordRun, CollectPC
<1>6. Bounds(p)'
  BY DEF Bounds, RecordRun, Continue, Goto, CollectTypeOK, ProcTypeOK, NoCollect
<1> QED BY <1>3, <1>4, <1>5, <1>6

LEMMA EndCollectType ==
    ASSUME TypeInv, NEW p \in Proc, EndCollect(p)
    PROVE  StoreTypeOK' /\ ProcTypeOK' /\ CollectTypeOK' /\ Bounds(p)'
<1> USE DEF TypeInv, TypeOK
<1>1. StoreTypeOK'
  BY DEF EndCollect, storeVars, StoreTypeOK
<1>2. CollectTypeOK'
  <2>1. NoCollect \in CollType
    BY NoCollectType
  <2>2. alerts' = alerts \/ alerts' = Append(alerts, coll[p].failures)
    BY DEF EndCollect, NotifyFailures
  <2>3. alerts' \in Seq(SUBSET Source)
    <3>1. coll[p].failures \in SUBSET Source /\ alerts \in Seq(SUBSET Source)
      BY DEF CollectTypeOK
    <3> QED BY <2>2, <3>1
  <2>4. coll' = [coll EXCEPT ![p] = NoCollect]
    BY DEF EndCollect
  <2> QED BY <2>1, <2>3, <2>4 DEF CollectTypeOK, CollType
<1>3. faults' \in 0..MaxFaults
  BY FaultsType DEF EndCollect, NotifyFailures
<1>4. ProcTypeOK'
  BY <1>3, ContinueType, ExitType DEF EndCollect, AfterCollect, ScorePC, Outcome
<1>5. Bounds(p)'
  BY DEF Bounds, EndCollect, AfterCollect, Exit, Continue, Goto, ProcTypeOK
<1> QED BY <1>1, <1>2, <1>4, <1>5

LEMMA AfterScoreType ==
    ASSUME TypeInv, NEW p \in Proc, pc[p] # "idle", faults' \in 0..MaxFaults, AfterScore(p)
    PROVE  ProcTypeOK' /\ pc'[p] \in {"idle", "listForNotify"}
<1>1. <<>> \in Seq(JobRow)
  OBVIOUS
<1>2. ProcTypeOK'
  BY <1>1, ContinueWithType, ExitType DEF AfterScore, NotifyPC, Outcome, TypeInv, TypeOK
<1>3. pc'[p] \in {"idle", "listForNotify"}
  BY DEF AfterScore, ContinueWith, Exit, Goto, ProcTypeOK, TypeInv, TypeOK
<1> QED BY <1>2, <1>3

LEMMA ListForScoreType ==
    ASSUME TypeInv, NEW p \in Proc, ListForScore(p)
    PROVE  StoreTypeOK' /\ ProcTypeOK' /\ ScoreTypeOK' /\ Bounds(p)'
<1> USE DEF TypeInv, TypeOK
<1>1. StoreTypeOK' /\ ScoreTypeOK'
  BY DEF ListForScore, storeVars, StoreTypeOK, ScoreTypeOK, JobsToScore
<1>2. faults' \in 0..MaxFaults
  BY FaultsType DEF ListForScore
<1>3. CASE JobsToScore = {} /\ AfterScore(p)
  BY <1>1, <1>2, <1>3, AfterScoreType DEF ListForScore, Bounds
<1>4. CASE ContinueWith(p, "score", jobs)
  <2>1. ProcTypeOK'
    BY <1>2, <1>4, ContinueWithType DEF ListForScore, ScorePC, StoreTypeOK
  <2>2. Bounds(p)'
    BY <1>4 DEF Bounds, ListForScore, ContinueWith, Goto, ProcTypeOK, ScoreTypeOK,
                JobsToScore
  <2> QED BY <1>1, <2>1, <2>2
<1> QED BY <1>3, <1>4 DEF ListForScore

LEMMA ScoreErrorType ==
    ASSUME TypeInv, NEW p \in Proc, ScoreError(p)
    PROVE  StoreTypeOK' /\ ProcTypeOK' /\ ScoreTypeOK' /\ Bounds(p)'
<1> USE DEF TypeInv, TypeOK
<1>1. StoreTypeOK' /\ ScoreTypeOK'
  BY DEF ScoreError, storeVars, StoreTypeOK, ScoreTypeOK
<1>2. ProcTypeOK'
  BY FaultsType, ExitType DEF ScoreError, Outcome
<1>3. Bounds(p)'
  BY DEF ScoreError, Bounds, Exit, Goto, ProcTypeOK
<1> QED BY <1>1, <1>2, <1>3

LEMMA ScoreOneType ==
    ASSUME TypeInv, NEW p \in Proc, ScoreOne(p)
    PROVE  StoreTypeOK' /\ ProcTypeOK' /\ ScoreTypeOK' /\ Bounds(p)'
<1> USE DEF TypeInv, TypeOK
<1> DEFINE v(i) == Evaluate[snapshot[p][i].content][opts[p].profile]
<1>1. PICK i \in toScore[p] :
          /\ UpdateScore(i, v(i).score, StatusAfterScore(snapshot[p][i], v(i)))
          /\ toScore' = [toScore EXCEPT ![p] = toScore[p] \ {i}]
          /\ \/ toScore[p] \ {i} = {} /\ AfterScore(p)
             \/ Continue(p, "score")
  BY DEF ScoreOne
<1>2. i \in DOMAIN snapshot[p] /\ snapshot[p] \in Seq(JobRow)
  BY DEF ScoreOne, Bounds, ProcTypeOK
<1>3. snapshot[p][i].content \in Content /\ opts[p].profile \in Profile
  <2>1. snapshot[p][i] \in JobRow
    BY <1>2
  <2>2. opts[p] \in Options
    BY DEF ScoreOne, ProcTypeOK
  <2> QED BY <2>1, <2>2 DEF JobRow, Options
<1>4. v(i) \in Verdict
  BY <1>3, ProfileAssumption
<1>5. StatusAfterScore(snapshot[p][i], v(i)) \in JobStatus
  BY <1>4 DEF StatusAfterScore, JobStatus, Verdict
<1>6. StoreTypeOK'
  <2> DEFINE row == [jobs[i] EXCEPT !.score = v(i).score,
                                    !.status = StatusAfterScore(snapshot[p][i], v(i))]
  <2>1. jobs' = [jobs EXCEPT ![i] = row]
    BY <1>1 DEF UpdateScore
  <2>2. v(i).score \in Nat
    BY <1>4 DEF Verdict
  <2>3. ASSUME i \in DOMAIN jobs PROVE row \in JobRow
    <3>1. jobs[i] \in JobRow
      BY <2>3 DEF StoreTypeOK
    <3> QED BY <3>1, <2>2, <1>5 DEF JobRow
  <2>4. UNCHANGED <<notifications, runs>>
    BY DEF ScoreOne
  <2> HIDE DEF row
  <2> QED BY <2>1, <2>3, <2>4, RowUpdate DEF StoreTypeOK
<1>7. ScoreTypeOK'
  BY <1>1 DEF ScoreTypeOK
<1>8. faults' \in 0..MaxFaults /\ pc[p] # "idle"
  BY FaultsType DEF ScoreOne
<1>9. CASE AfterScore(p)
  BY <1>6, <1>7, <1>8, <1>9, AfterScoreType DEF Bounds
<1>10. CASE Continue(p, "score")
  <2>1. ProcTypeOK'
    BY <1>8, <1>10, ContinueType DEF ScorePC
  <2>2. Bounds(p)'
    BY <1>1, <1>10 DEF Bounds, ScoreOne, Continue, Goto, ProcTypeOK, ScoreTypeOK
  <2> QED BY <1>6, <1>7, <2>1, <2>2
<1> QED BY <1>1, <1>9, <1>10

NoteType == [known : Seq(Hash \cup {NoHash}), items : SUBSET Nat, current : Nat,
             inflight : Nat, records : Seq(NotificationRow), done : Nat,
             aborted : BOOLEAN]

LEMMA NoNoteType == NoNote \in NoteType
<1>1. <<>> \in Seq(Hash \cup {NoHash}) /\ <<>> \in Seq(NotificationRow)
  OBVIOUS
<1> QED BY <1>1 DEF NoNote, NoteType

LEMMA EndNotifyType ==
    ASSUME TypeInv, NEW p \in Proc, pc[p] # "idle", faults' \in 0..MaxFaults,
           NEW o \in Outcome, EndNotify(p, o)
    PROVE  ProcTypeOK' /\ note' \in [Proc -> NoteType] /\ Bounds(p)'
<1> USE DEF TypeInv, TypeOK
<1>1. ProcTypeOK'
  BY ExitType DEF EndNotify
<1>2. note' \in [Proc -> NoteType]
  BY NoNoteType DEF EndNotify, NotifyTypeOK, NoteType
<1>3. Bounds(p)'
  BY DEF EndNotify, Exit, Goto, Bounds, ProcTypeOK
<1> QED BY <1>1, <1>2, <1>3

LEMMA PausedType ==
    ASSUME TypeInv, NEW p \in Proc, Paused(p)
    PROVE  StoreTypeOK' /\ ProcTypeOK' /\ NotifyTypeOK' /\ Bounds(p)'
<1> USE DEF TypeInv, TypeOK
<1>1. StoreTypeOK' /\ slack' = slack
  BY DEF Paused, storeVars, StoreTypeOK
<1>2. ProcTypeOK' /\ note' \in [Proc -> NoteType] /\ Bounds(p)'
  BY FaultsType, EndNotifyType DEF Paused, Outcome
<1> QED BY <1>1, <1>2 DEF NotifyTypeOK, NoteType

LEMMA ListForNotifyType ==
    ASSUME TypeInv, NEW p \in Proc, ListForNotify(p)
    PROVE  StoreTypeOK' /\ ProcTypeOK' /\ NotifyTypeOK' /\ Bounds(p)'
<1> USE DEF TypeInv, TypeOK
<1>1. StoreTypeOK' /\ NotifyTypeOK'
  BY DEF ListForNotify, storeVars, notifyVars, StoreTypeOK, NotifyTypeOK
<1>2. ProcTypeOK'
  BY FaultsType, ContinueWithType DEF ListForNotify, NotifyPC, StoreTypeOK
<1>3. Bounds(p)'
  BY DEF ListForNotify, ContinueWith, Goto, Bounds, ProcTypeOK
<1> QED BY <1>1, <1>2, <1>3

LEMMA NotifyErrorType ==
    ASSUME TypeInv, NEW p \in Proc, NotifyError(p)
    PROVE  StoreTypeOK' /\ ProcTypeOK' /\ NotifyTypeOK' /\ Bounds(p)'
<1> USE DEF TypeInv, TypeOK
<1>1. StoreTypeOK' /\ slack' = slack
  BY DEF NotifyError, storeVars, StoreTypeOK
<1>2. ProcTypeOK' /\ note' \in [Proc -> NoteType] /\ Bounds(p)'
  BY FaultsType, EndNotifyType DEF NotifyError, Outcome
<1> QED BY <1>1, <1>2 DEF NotifyTypeOK, NoteType

LEMMA NotifiedHashType ==
    ASSUME StoreTypeOK, NEW i
    PROVE  NotifiedHash(i) \in Hash \cup {NoHash}
<1>1. CASE \E n \in DOMAIN notifications : LastSuccess(n, i)
  <2> DEFINE n == CHOOSE m \in DOMAIN notifications : LastSuccess(m, i)
  <2>1. n \in DOMAIN notifications
    BY <1>1
  <2> HIDE DEF n
  <2>2. notifications[n] \in NotificationRow
    BY <2>1 DEF StoreTypeOK
  <2>3. notifications[n].hash \in Hash
    BY <2>2 DEF NotificationRow
  <2> QED BY <1>1, <2>3 DEF NotifiedHash, n
<1>2. CASE ~\E n \in DOMAIN notifications : LastSuccess(n, i)
  BY <1>2 DEF NotifiedHash
<1> QED BY <1>1, <1>2

LEMMA ListNotifiedType ==
    ASSUME TypeInv, NEW p \in Proc, ListNotified(p)
    PROVE  StoreTypeOK' /\ ProcTypeOK' /\ NotifyTypeOK' /\ Bounds(p)'
<1> USE DEF TypeInv, TypeOK
<1> DEFINE known == [i \in DOMAIN snapshot[p] |-> NotifiedHash(i)]
           items == SelectTargets(snapshot[p], known, opts[p].profile.threshold)
<1>1. StoreTypeOK' /\ slack' = slack
  BY DEF ListNotified, storeVars, StoreTypeOK
<1>2. faults' \in 0..MaxFaults /\ pc[p] = "listNotified"
  BY FaultsType DEF ListNotified
<1>3. CASE Continue(p, "print") /\ UNCHANGED note
  <2>1. ProcTypeOK'
    BY <1>2, <1>3, ContinueType DEF NotifyPC
  <2>2. Bounds(p)'
    BY <1>3 DEF Continue, Goto, Bounds, ProcTypeOK
  <2> QED BY <1>1, <1>3, <2>1, <2>2 DEF NotifyTypeOK
<1>4. CASE EndNotify(p, "ok")
  BY <1>1, <1>2, <1>4, EndNotifyType DEF NotifyTypeOK, NoteType, Outcome
<1>5. CASE /\ note' = [note EXCEPT ![p] = [NoNote EXCEPT !.known = known, !.items = items]]
           /\ Continue(p, "post")
  <2>1. snapshot[p] \in Seq(JobRow)
    BY DEF ProcTypeOK
  <2>2. known \in Seq(Hash \cup {NoHash}) /\ DOMAIN known = DOMAIN snapshot[p]
    <3>1. \A i : NotifiedHash(i) \in Hash \cup {NoHash}
      BY NotifiedHashType
    <3>2. known \in [1..Len(snapshot[p]) -> Hash \cup {NoHash}]
      BY <2>1, <3>1
    <3> QED BY <2>1, <3>2
  <2>3. items \subseteq DOMAIN snapshot[p] /\ items \in SUBSET Nat
    BY <2>1 DEF SelectTargets
  <2> DEFINE n == [NoNote EXCEPT !.known = known, !.items = items]
  <2> HIDE DEF known, items
  <2>7. /\ n \in NoteType
        /\ n.known = known /\ n.items = items /\ n.done = 0
    BY <2>2, <2>3, NoNoteType DEF NoteType, NoNote
  <2> HIDE DEF n
  <2>4. NotifyTypeOK'
    <3>1. note' = [note EXCEPT ![p] = n]
      BY <1>5 DEF n
    <3> QED BY <1>1, <3>1, <2>7 DEF NotifyTypeOK, NoteType
  <2>5. ProcTypeOK'
    BY <1>2, <1>5, ContinueType DEF NotifyPC
  <2>6. Bounds(p)'
    <3>1. note'[p] = n /\ pc'[p] = "post" /\ snapshot'[p] = snapshot[p]
      BY <1>5 DEF n, Continue, Goto, ProcTypeOK, NotifyTypeOK
    <3> QED BY <2>2, <2>3, <2>7, <3>1 DEF Bounds
  <2> QED BY <1>1, <2>4, <2>5, <2>6
<1> QED BY <1>3, <1>4, <1>5 DEF ListNotified

LEMMA PrintType ==
    ASSUME TypeInv, NEW p \in Proc, Preview(p)
    PROVE  StoreTypeOK' /\ ProcTypeOK' /\ NotifyTypeOK' /\ Bounds(p)'
<1> USE DEF TypeInv, TypeOK
<1>1. StoreTypeOK' /\ slack' = slack
  BY DEF Preview, storeVars, StoreTypeOK
<1>2. ProcTypeOK' /\ note' \in [Proc -> NoteType] /\ Bounds(p)'
  BY FaultsType, EndNotifyType DEF Preview, Outcome
<1> QED BY <1>1, <1>2 DEF NotifyTypeOK, NoteType

LEMMA PostType ==
    ASSUME TypeInv, NEW p \in Proc, Post(p)
    PROVE  StoreTypeOK' /\ ProcTypeOK' /\ NotifyTypeOK' /\ Bounds(p)'
<1> USE DEF TypeInv, TypeOK
<1>1. PICK i \in note[p].items :
        \/ /\ slack' = Append(slack, MessageFor(p, i))
           /\ note' = [note EXCEPT ![p].current = i, ![p].inflight = Len(slack) + 1]
        \/ /\ note' = [note EXCEPT ![p].current = i, ![p].inflight = 0]
           /\ slack' = slack
  BY DEF Post
<1>2. /\ i \in DOMAIN snapshot[p] /\ snapshot[p] \in Seq(JobRow)
      /\ DOMAIN note[p].known = DOMAIN snapshot[p]
  BY DEF Post, Bounds, ProcTypeOK
<1>3. i \in Nat /\ snapshot[p][i].content \in Content
  <2>1. snapshot[p][i] \in JobRow /\ i \in Nat
    BY <1>2
  <2> QED BY <2>1 DEF JobRow
<1>4. MessageFor(p, i) \in Message
  BY <1>2, <1>3 DEF MessageFor, Message
<1>5. slack \in Seq(Message) /\ Len(slack) \in Nat /\ note \in [Proc -> NoteType]
  BY DEF NotifyTypeOK, NoteType
<1> DEFINE m == MessageFor(p, i)
<1> HIDE DEF m
<1>6. PICK k \in 0..Len(slack') :
          /\ note' = [note EXCEPT ![p].current = i, ![p].inflight = k]
          /\ slack' \in Seq(Message)
  <2>1. CASE /\ slack' = Append(slack, m)
             /\ note' = [note EXCEPT ![p].current = i, ![p].inflight = Len(slack) + 1]
    <3>1. slack' \in Seq(Message) /\ Len(slack') = Len(slack) + 1
      BY <2>1, <1>4, <1>5 DEF m
    <3>2. Len(slack) + 1 \in 0..Len(slack')
      BY <3>1, <1>5
    <3> WITNESS Len(slack) + 1 \in 0..Len(slack')
    <3> QED BY <2>1, <3>1
  <2>2. CASE /\ note' = [note EXCEPT ![p].current = i, ![p].inflight = 0]
             /\ slack' = slack
    <3>1. 0 \in 0..Len(slack') /\ slack' \in Seq(Message)
      BY <2>2, <1>5
    <3> WITNESS 0 \in 0..Len(slack')
    <3> QED BY <2>2, <3>1
  <2> QED BY <1>1, <2>1, <2>2 DEF m
<1>7. k \in Nat
  BY <1>6
<1>8. NotifyTypeOK'
  BY <1>3, <1>5, <1>6, <1>7 DEF NotifyTypeOK, NoteType
<1>9. ProcTypeOK'
  <2>1. faults' \in 0..MaxFaults
    BY FaultsType DEF Post
  <2>2. ctxDone' \in [Proc -> BOOLEAN]
    BY DEF Post, ProcTypeOK
  <2> QED BY <2>1, <2>2 DEF Post, Goto, NotifyPC, ProcTypeOK
<1>10. Bounds(p)'
  <2>1. /\ note'[p].items = note[p].items /\ note'[p].known = note[p].known
        /\ note'[p].current = i /\ note'[p].inflight = k /\ note'[p].done = note[p].done
    BY <1>5, <1>6 DEF NoteType
  <2>2. pc'[p] = "reply" /\ snapshot'[p] = snapshot[p]
    BY DEF Post, Goto, ProcTypeOK
  <2> QED BY <1>2, <1>6, <2>1, <2>2 DEF Bounds, Post
<1>11. StoreTypeOK'
  BY DEF Post, storeVars, StoreTypeOK
<1> QED BY <1>8, <1>9, <1>10, <1>11

LEMMA AbortType ==
    ASSUME TypeInv, NEW p \in Proc, Abort(p)
    PROVE  StoreTypeOK' /\ ProcTypeOK' /\ NotifyTypeOK' /\ Bounds(p)'
<1> USE DEF TypeInv, TypeOK
<1>1. StoreTypeOK' /\ slack' = slack
  BY DEF Abort, storeVars, StoreTypeOK
<1>2. faults' \in 0..MaxFaults /\ pc[p] = "post"
  BY FaultsType DEF Abort
<1>3. CASE EndNotify(p, "error")
  BY <1>1, <1>2, <1>3, EndNotifyType DEF NotifyTypeOK, NoteType, Outcome
<1>4. CASE /\ note[p].records # <<>>
           /\ note' = [note EXCEPT ![p].aborted = TRUE, ![p].items = {}]
           /\ Continue(p, "persist")
  <2>0. note \in [Proc -> NoteType] /\ {} \in SUBSET Nat
    BY DEF NotifyTypeOK, NoteType
  <2>1. NotifyTypeOK'
    <3>1. note' \in [Proc -> NoteType]
      BY <1>4, <2>0 DEF NoteType
    <3> QED BY <1>1, <3>1 DEF NotifyTypeOK, NoteType
  <2>2. ProcTypeOK'
    BY <1>2, <1>4, ContinueType DEF NotifyPC
  <2>3. Bounds(p)'
    <3>1. /\ note'[p].done = note[p].done /\ note'[p].records = note[p].records
          /\ note[p].records \in Seq(NotificationRow)
      BY <1>4, <2>0 DEF NoteType
    <3>2. note[p].done = 0 /\ Len(note[p].records) > 0
      BY <1>2, <1>4, <3>1 DEF Bounds
    <3>3. pc'[p] = "persist"
      BY <1>4 DEF Continue, Goto, ProcTypeOK
    <3> QED BY <3>1, <3>2, <3>3 DEF Bounds
  <2> QED BY <1>1, <2>1, <2>2, <2>3
<1> QED BY <1>3, <1>4 DEF Abort

LEMMA NoteAfterReply ==
    ASSUME NEW f \in [Proc -> NoteType], NEW p \in Proc,
           NEW L \in SUBSET Nat, NEW R \in Seq(NotificationRow)
    PROVE  [f EXCEPT ![p].items = L, ![p].current = 0, ![p].inflight = 0,
                     ![p].records = R] \in [Proc -> NoteType]
<1> DEFINE n == [f[p] EXCEPT !.items = L, !.current = 0, !.inflight = 0, !.records = R]
<1>1. f[p] \in NoteType
  OBVIOUS
<1>2. n \in NoteType
  BY <1>1 DEF NoteType
<1>3. [f EXCEPT ![p] = n] \in [Proc -> NoteType]
  BY <1>2
<1> QED BY <1>3

LEMMA ReplyType ==
    ASSUME TypeInv, NEW p \in Proc, Reply(p)
    PROVE  StoreTypeOK' /\ ProcTypeOK' /\ NotifyTypeOK' /\ Bounds(p)'
<1> USE DEF TypeInv, TypeOK
<1> DEFINE i == note[p].current
           left == note[p].items \ {i}
           rec(ok) == [job |-> i, hash |-> MaterialHash[snapshot[p][i].content],
                       result |-> ResultOf(ok)]
           recs(ok) == Append(note[p].records, rec(ok))
<1>1. PICK ok \in BOOLEAN :
          /\ ok => note[p].inflight # 0
          /\ slack' = IF ok THEN [slack EXCEPT ![note[p].inflight].acked = TRUE] ELSE slack
          /\ note' = [note EXCEPT ![p].items = left, ![p].current = 0,
                        ![p].inflight = 0, ![p].records = recs(ok)]
          /\ Continue(p, IF left = {} THEN "persist" ELSE "post")
  BY DEF Reply
<1>2. note \in [Proc -> NoteType] /\ slack \in Seq(Message) /\ snapshot[p] \in Seq(JobRow)
  BY DEF NotifyTypeOK, NoteType, ProcTypeOK
<1>3. /\ i \in DOMAIN snapshot[p] /\ note[p].inflight \in 0..Len(slack)
      /\ note[p].items \subseteq DOMAIN snapshot[p]
      /\ DOMAIN note[p].known = DOMAIN snapshot[p] /\ note[p].done = 0
  BY DEF Reply, Bounds
<1>4. rec(ok) \in NotificationRow
  <2>1. snapshot[p][i] \in JobRow /\ i \in Nat
    BY <1>2, <1>3
  <2>2. snapshot[p][i].content \in Content
    BY <2>1 DEF JobRow
  <2>3. MaterialHash[snapshot[p][i].content] \in Hash
    BY <2>2, MaterialHashAssumption
  <2> QED BY <2>1, <2>3 DEF NotificationRow, Result, ResultOf
<1>5. recs(ok) \in Seq(NotificationRow) /\ Len(recs(ok)) > 0
  <2>1. note[p].records \in Seq(NotificationRow)
    BY <1>2 DEF NoteType
  <2> QED BY <2>1, <1>4
<1>6. left \in SUBSET Nat
  BY <1>2 DEF NoteType
<1>7. slack' \in Seq(Message)
  <2>1. CASE ok
    <3> DEFINE k == note[p].inflight
               m == [slack[k] EXCEPT !.acked = TRUE]
    <3>1. k \in DOMAIN slack
      BY <1>1, <1>2, <1>3, <2>1
    <3>2. slack[k] \in Message
      BY <1>2, <3>1
    <3>3. m \in Message
      BY <3>2 DEF Message
    <3>4. slack' = [slack EXCEPT ![k] = m]
      BY <1>1, <2>1
    <3> HIDE DEF k, m
    <3> QED BY <1>2, <3>1, <3>3, <3>4, ExceptSeq
  <2> QED BY <1>1, <1>2, <2>1
<1>8. pc'[p] = (IF left = {} THEN "persist" ELSE "post") /\ snapshot'[p] = snapshot[p]
  BY <1>1 DEF Continue, Goto, ProcTypeOK
<1>9. ProcTypeOK'
  <2>1. faults' \in 0..MaxFaults
    BY FaultsType DEF Reply
  <2> QED BY <1>1, <2>1, ContinueType DEF Reply, NotifyPC
<1>10. StoreTypeOK'
  BY DEF Reply, storeVars, StoreTypeOK
<1>11. left \subseteq DOMAIN snapshot[p]
  BY <1>3
<1> HIDE DEF left, recs, rec, i
<1>12. NotifyTypeOK'
  <2> DEFINE R == recs(ok)
  <2> HIDE DEF R
  <2>1. /\ note' = [note EXCEPT ![p].items = left, ![p].current = 0,
                      ![p].inflight = 0, ![p].records = R]
        /\ R \in Seq(NotificationRow)
    BY <1>1, <1>5 DEF R
  <2>2. note' \in [Proc -> NoteType]
    BY <1>2, <1>6, <2>1, NoteAfterReply
  <2> QED BY <1>7, <2>2 DEF NotifyTypeOK, NoteType
<1>13. /\ note'[p].items = left /\ note'[p].known = note[p].known
       /\ note'[p].records = recs(ok) /\ note'[p].done = note[p].done
  BY <1>1, <1>2 DEF NoteType
<1>14. Bounds(p)'
  BY <1>3, <1>5, <1>8, <1>11, <1>13 DEF Bounds
<1> QED BY <1>9, <1>10, <1>12, <1>14

LEMMA NextRecordType ==
    ASSUME TypeInv, NEW p \in Proc, pc[p] \in {"persist", "mark"},
           faults' \in 0..MaxFaults, NextRecord(p)
    PROVE  ProcTypeOK' /\ note' \in [Proc -> NoteType] /\ Bounds(p)'
<1> USE DEF TypeInv, TypeOK
<1> DEFINE n == [note[p] EXCEPT !.done = note[p].done + 1]
<1>1. note \in [Proc -> NoteType]
  BY DEF NotifyTypeOK, NoteType
<1>2. n \in NoteType /\ n.records = note[p].records
  <2>1. note[p] \in NoteType
    BY <1>1
  <2>2. note[p].done + 1 \in Nat
    BY <2>1 DEF NoteType
  <2> QED BY <2>1, <2>2 DEF NoteType
<1>3. CASE EndNotify(p, ExitCode(n))
  BY <1>3, EndNotifyType DEF ExitCode, Outcome
<1>4. CASE /\ n.done < Len(n.records)
           /\ note' = [note EXCEPT ![p] = n]
           /\ Continue(p, "persist")
  <2>1. ProcTypeOK'
    BY <1>4, ContinueType DEF NotifyPC
  <2>2. pc'[p] = "persist"
    BY <1>4 DEF Continue, Goto, ProcTypeOK
  <2> HIDE DEF n
  <2> QED BY <1>1, <1>2, <1>4, <2>1, <2>2 DEF Bounds
<1> QED BY <1>1, <1>3, <1>4 DEF NextRecord, NoteType

LEMMA RecordInHand ==
    ASSUME TypeInv, NEW p \in Proc, pc[p] \in {"persist", "mark"}
    PROVE  /\ note[p].done + 1 \in DOMAIN note[p].records
           /\ note[p].records[note[p].done + 1] \in NotificationRow
<1>1. /\ note[p].records \in Seq(NotificationRow) /\ note[p].done \in Nat
      /\ note[p].done < Len(note[p].records)
  BY DEF TypeInv, TypeOK, NotifyTypeOK, Bounds
<1> QED BY <1>1

LEMMA PersistType ==
    ASSUME TypeInv, NEW p \in Proc, Persist(p)
    PROVE  StoreTypeOK' /\ ProcTypeOK' /\ NotifyTypeOK' /\ Bounds(p)'
<1> USE DEF TypeInv, TypeOK
<1> DEFINE rec == note[p].records[note[p].done + 1]
<1>1. rec \in NotificationRow
  BY RecordInHand DEF Persist
<1>2. /\ notifications' = Append(notifications, rec) \/ notifications' = notifications
      /\ UNCHANGED <<jobs, runs, slack>>
  BY DEF Persist, SaveNotification
<1>3. StoreTypeOK'
  BY <1>1, <1>2 DEF StoreTypeOK
<1>4. faults' \in 0..MaxFaults /\ pc[p] = "persist"
  BY FaultsType DEF Persist
<1>5. CASE Continue(p, "mark") /\ UNCHANGED note
  <2>1. ProcTypeOK'
    BY <1>4, <1>5, ContinueType DEF NotifyPC
  <2>2. Bounds(p)'
    BY <1>4, <1>5 DEF Bounds, Continue, Goto, ProcTypeOK
  <2> QED BY <1>2, <1>3, <1>5, <2>1, <2>2 DEF NotifyTypeOK
<1>6. CASE NextRecord(p)
  BY <1>2, <1>3, <1>4, <1>6, NextRecordType DEF NotifyTypeOK, NoteType
<1> QED BY <1>5, <1>6 DEF Persist

LEMMA MarkType ==
    ASSUME TypeInv, NEW p \in Proc, Mark(p)
    PROVE  StoreTypeOK' /\ ProcTypeOK' /\ NotifyTypeOK' /\ Bounds(p)'
<1> USE DEF TypeInv, TypeOK
<1> DEFINE i == note[p].records[note[p].done + 1].job
           row == [jobs[i] EXCEPT !.status = "notified"]
<1>1. jobs' = [jobs EXCEPT ![i] = row] \/ jobs' = jobs
  BY DEF Mark, UpdateStatus
<1>2. ASSUME i \in DOMAIN jobs PROVE row \in JobRow
  <2>1. jobs[i] \in JobRow
    BY <1>2 DEF StoreTypeOK
  <2> QED BY <2>1 DEF JobRow, JobStatus
<1>3. StoreTypeOK'
  <2>1. jobs \in Seq(JobRow)
    BY DEF StoreTypeOK
  <2> HIDE DEF i, row
  <2>2. jobs' \in Seq(JobRow)
    BY <1>1, <1>2, <2>1, RowUpdate
  <2> QED BY <2>2 DEF Mark, StoreTypeOK
<1>4. faults' \in 0..MaxFaults /\ pc[p] = "mark" /\ slack' = slack
  BY FaultsType DEF Mark
<1> QED BY <1>3, <1>4, NextRecordType DEF Mark, NotifyTypeOK, NoteType

-----------------------------------------------------------------------------
(* A step of one process and the others *)

\* A step of p leaves the memory of the other processes alone.
OthersKeep(p) ==
    \A q \in Proc \ {p} :
        /\ pc'[q] = pc[q] /\ opts'[q] = opts[q] /\ snapshot'[q] = snapshot[q]
        /\ coll'[q] = coll[q] /\ toScore'[q] = toScore[q] /\ note'[q] = note[q]

\* The channel only grows, and a message never changes what it says.
SlackGrows ==
    /\ Len(slack') >= Len(slack)
    /\ \A n \in DOMAIN slack :
          /\ n \in DOMAIN slack'
          /\ slack'[n].job = slack[n].job
          /\ slack'[n].content = slack[n].content
          /\ slack'[n].update = slack[n].update

LEMMA SlackKept ==
    ASSUME TypeOK, slack' = slack
    PROVE  SlackGrows
BY DEF SlackGrows, TypeOK, NotifyTypeOK

LEMMA CollectKeeps ==
    ASSUME TypeOK, NEW p \in Proc, CollectStep(p), UNCHANGED <<scoreVars, notifyVars>>
    PROVE  OthersKeep(p)
<1> USE DEF OthersKeep, TypeOK, ProcTypeOK, CollectTypeOK, scoreVars, notifyVars,
            Continue, Exit, Goto
<1>1. CASE FetchOk(p)
  <2>1. PICK b \in Batches[ThisSource(p)], l \in {"save", "saveRun"} :
            /\ coll' = [coll EXCEPT ![p].batch = b, ![p].pending = Dedupe(b),
                          ![p].dup = Cardinality(Parsed(b)) - Cardinality(Dedupe(b))]
            /\ Continue(p, l)
    BY <1>1 DEF FetchOk
  <2> QED BY <2>1
<1>2. CASE FetchFailed(p)
  BY <1>2 DEF FetchFailed
<1>3. CASE SaveOne(p)
  <2>1. PICK i \in coll[p].pending, l \in {"save", "saveRun"} :
          LET created == JobsWithKey(coll[p].batch[i].key) = {}
          IN  /\ coll' = [coll EXCEPT ![p].pending = coll[p].pending \ {i},
                            ![p].new = IF created THEN @ + 1 ELSE @,
                            ![p].dup = IF created THEN @ ELSE @ + 1]
              /\ Continue(p, l)
    BY <1>3 DEF SaveOne
  <2> QED BY <2>1
<1>4. CASE SaveFailed(p)
  BY <1>4 DEF SaveFailed
<1>5. CASE RecordRun(p)
  BY <1>5 DEF RecordRun
<1>6. CASE EndCollect(p)
  BY <1>6 DEF EndCollect, AfterCollect
<1> QED BY <1>1, <1>2, <1>3, <1>4, <1>5, <1>6 DEF CollectStep

LEMMA ScoreKeeps ==
    ASSUME TypeOK, NEW p \in Proc, ScoreStep(p), UNCHANGED <<collectVars, notifyVars>>
    PROVE  OthersKeep(p)
<1> USE DEF OthersKeep, TypeOK, ProcTypeOK, ScoreTypeOK, collectVars, notifyVars,
            AfterScore, Continue, ContinueWith, Exit, Goto
<1>1. CASE ListForScore(p)
  BY <1>1 DEF ListForScore
<1>2. CASE ScoreError(p)
  BY <1>2 DEF ScoreError
<1>3. CASE ScoreOne(p)
  BY <1>3 DEF ScoreOne
<1> QED BY <1>1, <1>2, <1>3 DEF ScoreStep

LEMMA NextRecordKeeps ==
    ASSUME TypeOK, NEW p \in Proc, NextRecord(p), UNCHANGED <<collectVars, scoreVars>>
    PROVE  OthersKeep(p)
<1> USE DEF OthersKeep, TypeOK, ProcTypeOK, NotifyTypeOK, collectVars, scoreVars,
            EndNotify, Continue, Exit, Goto
<1> DEFINE n == [note[p] EXCEPT !.done = @ + 1]
           c == ExitCode(n)
<1> HIDE DEF n, c
<1>1. \/ EndNotify(p, c)
      \/ note' = [note EXCEPT ![p] = n] /\ Continue(p, "persist")
  BY DEF NextRecord, n, c
<1> QED BY <1>1

LEMMA NotifyKeeps ==
    ASSUME TypeOK, NEW p \in Proc, NotifyStep(p), UNCHANGED <<collectVars, scoreVars>>
    PROVE  OthersKeep(p)
<1> USE DEF OthersKeep, TypeOK, ProcTypeOK, NotifyTypeOK, collectVars, scoreVars,
            EndNotify, Continue, ContinueWith, Exit, Goto
<1>1. CASE Paused(p)
  BY <1>1 DEF Paused
<1>2. CASE ListForNotify(p)
  BY <1>2 DEF ListForNotify, notifyVars
<1>3. CASE NotifyError(p)
  BY <1>3 DEF NotifyError
<1>4. CASE ListNotified(p)
  BY <1>4 DEF ListNotified
<1>5. CASE Preview(p)
  BY <1>5 DEF Preview
<1>6. CASE Post(p)
  BY <1>6 DEF Post, Goto
<1>7. CASE Abort(p)
  BY <1>7 DEF Abort
<1>8. CASE Reply(p)
  BY <1>8 DEF Reply
<1>9. CASE Persist(p)
  BY <1>9, NextRecordKeeps DEF Persist
<1>10. CASE Mark(p)
  BY <1>10, NextRecordKeeps DEF Mark
<1> QED BY <1>1, <1>2, <1>3, <1>4, <1>5, <1>6, <1>7, <1>8, <1>9, <1>10 DEF NotifyStep

LEMMA NotifyGrows ==
    ASSUME TypeInv, NEW p \in Proc, NotifyStep(p)
    PROVE  SlackGrows
<1> USE DEF TypeInv, TypeOK
<1>1. slack \in Seq(Message)
  BY DEF NotifyTypeOK
<1>2. CASE slack' = slack
  BY <1>2, SlackKept
<1>3. CASE Post(p)
  <2>1. PICK m : slack' = Append(slack, m) \/ slack' = slack
    BY <1>3 DEF Post
  <2> QED BY <1>1, <1>2, <2>1 DEF SlackGrows
<1>4. CASE Reply(p)
  <2> DEFINE k == note[p].inflight
  <2> HIDE DEF k
  <2>1. \/ slack' = [slack EXCEPT ![k].acked = TRUE]
        \/ slack' = slack
    BY <1>4 DEF Reply, k
  <2>2. ASSUME slack' = [slack EXCEPT ![k].acked = TRUE]
        PROVE  SlackGrows
    <3>1. DOMAIN slack' = DOMAIN slack /\ Len(slack') = Len(slack)
      BY <1>1, <2>2
    <3>2. ASSUME NEW n \in DOMAIN slack
          PROVE  /\ slack'[n].job = slack[n].job
                 /\ slack'[n].content = slack[n].content
                 /\ slack'[n].update = slack[n].update
      <4>1. slack[n] \in Message
        BY <1>1
      <4> QED BY <2>2, <4>1 DEF Message
    <3> QED BY <1>1, <3>1, <3>2 DEF SlackGrows
  <2> QED BY <1>2, <2>1, <2>2
<1>5. CASE ~Post(p) /\ ~Reply(p)
  <2>1. slack' = slack
    BY <1>5 DEF NotifyStep, Paused, ListForNotify, NotifyError, ListNotified, Preview,
                Abort, Persist, Mark, notifyVars
  <2> QED BY <1>2, <2>1
<1> QED BY <1>3, <1>4, <1>5

LEMMA BoundsOfOthers ==
    ASSUME TypeInv, NEW p \in Proc, OthersKeep(p), SlackGrows,
           NEW q \in Proc \ {p}
    PROVE  Bounds(q)'
<1>1. Bounds(q) /\ note[q].inflight \in Nat /\ Len(slack) \in Nat
  BY DEF TypeInv, TypeOK, NotifyTypeOK
<1> QED BY <1>1 DEF Bounds, OthersKeep, SlackGrows

LEMMA StartType ==
    ASSUME TypeInv, NEW p \in Proc, NEW o \in Offered, Start(p, o)
    PROVE  TypeOK' /\ Bounds(p)' /\ OthersKeep(p)
<1> USE DEF TypeInv, TypeOK
<1>1. o \in Options
  BY OfferedAssumption
<1>2. FirstPC(o.cmd) \in {"fetch", "listForScore", "listForNotify"}
  BY <1>1 DEF FirstPC, Options, Command
<1>3. ProcTypeOK'
  BY <1>1, <1>2 DEF Start, Goto, ProcTypeOK, CollectPC, ScorePC, NotifyPC, Outcome
<1>4. UNCHANGED <<storeVars, snapshot, alerts, toScore, slack, note>>
  BY DEF Start, scoreVars, notifyVars
<1>5. StoreTypeOK' /\ ScoreTypeOK' /\ NotifyTypeOK'
  BY <1>4 DEF storeVars, StoreTypeOK, ScoreTypeOK, NotifyTypeOK
<1>6. CASE Collects(o) /\ collects < MaxCollects /\ collects' = collects + 1 /\ StartCollect(p)
  <2> DEFINE c == [NoCollect EXCEPT !.src = 1]
  <2>1. c \in CollType /\ c.src = 1
    BY NoCollectType
  <2>2. coll' = [coll EXCEPT ![p] = c]
    BY <1>6 DEF StartCollect
  <2> HIDE DEF c
  <2>4. CollectTypeOK' /\ coll'[p].src = 1
    BY <1>4, <2>1, <2>2 DEF CollectTypeOK, CollType
  <2>5. collects' \in 0..MaxCollects
    BY <1>6, OfferedAssumption
  <2>6. OthersKeep(p)
    BY <1>4, <2>2 DEF OthersKeep, Start, Goto, ProcTypeOK, CollectTypeOK
  <2>7. Bounds(p)'
    BY <1>2, <2>4 DEF Bounds, Start, Goto, ProcTypeOK
  <2> QED BY <1>3, <1>5, <2>4, <2>5, <2>6, <2>7
<1>7. CASE ~Collects(o) /\ UNCHANGED <<collects, coll>>
  <2>1. CollectTypeOK'
    BY <1>4, <1>7 DEF CollectTypeOK
  <2>2. OthersKeep(p)
    BY <1>4, <1>7 DEF OthersKeep, Start, Goto, ProcTypeOK
  <2>3. FirstPC(o.cmd) # "fetch"
    BY <1>1, <1>7 DEF FirstPC, Collects, Options, Command
  <2>4. Bounds(p)'
    BY <1>2, <2>3 DEF Bounds, Start, Goto, ProcTypeOK
  <2> QED BY <1>3, <1>5, <1>7, <2>1, <2>2, <2>4
<1> QED BY <1>6, <1>7 DEF Start

LEMMA CrashType ==
    ASSUME TypeInv, NEW p \in Proc, Crash(p)
    PROVE  TypeOK' /\ Bounds(p)' /\ OthersKeep(p)
<1> USE DEF TypeInv, TypeOK
<1>1. ProcTypeOK'
  BY ExitType, FaultsType DEF Crash, Outcome
<1>2. StoreTypeOK'
  BY DEF Crash, storeVars, StoreTypeOK
<1>3. CollectTypeOK' /\ ScoreTypeOK'
  BY NoCollectType DEF Crash, CollectTypeOK, ScoreTypeOK, CollType
<1>4. NotifyTypeOK'
  <2>1. note' \in [Proc -> NoteType]
    BY NoNoteType DEF Crash, NotifyTypeOK, NoteType
  <2> QED BY <2>1 DEF Crash, NotifyTypeOK, NoteType
<1>5. Bounds(p)'
  BY DEF Crash, Exit, Goto, Bounds, ProcTypeOK
<1>6. OthersKeep(p)
  BY DEF Crash, Exit, Goto, OthersKeep, ProcTypeOK, CollectTypeOK, ScoreTypeOK, NotifyTypeOK
<1> QED BY <1>1, <1>2, <1>3, <1>4, <1>5, <1>6 DEF Crash

LEMMA SignalType ==
    ASSUME TypeInv, NEW p \in Proc, Signal(p)
    PROVE  TypeOK' /\ Bounds(p)' /\ OthersKeep(p)
<1> USE DEF TypeInv, TypeOK
<1>1. ProcTypeOK'
  BY FaultsType DEF Signal, Cancel, ProcTypeOK
<1>2. StoreTypeOK' /\ CollectTypeOK' /\ ScoreTypeOK' /\ NotifyTypeOK'
  BY DEF Signal, storeVars, collectVars, scoreVars, notifyVars,
         StoreTypeOK, CollectTypeOK, ScoreTypeOK, NotifyTypeOK
<1>3. UNCHANGED <<pc, opts, snapshot, coll, toScore, slack, note, collects>>
  BY DEF Signal, Cancel, collectVars, scoreVars, notifyVars
<1>4. Bounds(p)' /\ OthersKeep(p)
  BY <1>3 DEF Bounds, OthersKeep
<1> QED BY <1>1, <1>2, <1>3, <1>4

LEMMA WorkType ==
    ASSUME TypeInv, NEW p \in Proc, Work(p)
    PROVE  TypeOK' /\ Bounds(p)' /\ OthersKeep(p)
<1>1. CASE CollectStep(p) /\ UNCHANGED <<scoreVars, notifyVars>>
  <2>1. StoreTypeOK' /\ ProcTypeOK' /\ CollectTypeOK' /\ Bounds(p)'
    BY <1>1, FetchOkType, FetchFailedType, SaveOneType, SaveFailedType, RecordRunType,
       EndCollectType DEF CollectStep
  <2>2. ScoreTypeOK' /\ NotifyTypeOK'
    BY <1>1 DEF TypeInv, TypeOK, scoreVars, notifyVars, ScoreTypeOK, NotifyTypeOK
  <2> QED BY <1>1, <2>1, <2>2, CollectKeeps DEF TypeInv, TypeOK, Work
<1>2. CASE ScoreStep(p) /\ UNCHANGED <<collectVars, notifyVars>>
  <2>1. StoreTypeOK' /\ ProcTypeOK' /\ ScoreTypeOK' /\ Bounds(p)'
    BY <1>2, ListForScoreType, ScoreErrorType, ScoreOneType DEF ScoreStep
  <2>2. CollectTypeOK' /\ NotifyTypeOK'
    BY <1>2 DEF TypeInv, TypeOK, collectVars, notifyVars, CollectTypeOK, NotifyTypeOK
  <2> QED BY <1>2, <2>1, <2>2, ScoreKeeps DEF TypeInv, TypeOK, Work
<1>3. CASE NotifyStep(p) /\ UNCHANGED <<collectVars, scoreVars>>
  <2>1. StoreTypeOK' /\ ProcTypeOK' /\ NotifyTypeOK' /\ Bounds(p)'
    BY <1>3, PausedType, ListForNotifyType, NotifyErrorType, ListNotifiedType, PrintType,
       PostType, AbortType, ReplyType, PersistType, MarkType DEF NotifyStep
  <2>2. CollectTypeOK' /\ ScoreTypeOK'
    BY <1>3 DEF TypeInv, TypeOK, collectVars, scoreVars, CollectTypeOK, ScoreTypeOK
  <2> QED BY <1>3, <2>1, <2>2, NotifyKeeps DEF TypeInv, TypeOK, Work
<1> QED BY <1>1, <1>2, <1>3 DEF Work

LEMMA StepGrows ==
    ASSUME TypeInv, NEW p \in Proc,
           (\E o \in Offered : Start(p, o)) \/ Work(p) \/ Signal(p) \/ Crash(p)
    PROVE  SlackGrows
<1>1. CASE NotifyStep(p)
  BY <1>1, NotifyGrows
<1>2. CASE ~NotifyStep(p)
  <2>1. slack' = slack
    BY <1>2 DEF Start, Work, Signal, Crash, notifyVars
  <2> QED BY <2>1, SlackKept DEF TypeInv
<1> QED BY <1>1, <1>2

LEMMA InitType == Init => TypeInv
<1> SUFFICES ASSUME Init PROVE TypeInv
  OBVIOUS
<1>1. StoreTypeOK
  <2>1. <<>> \in Seq(JobRow) /\ <<>> \in Seq(NotificationRow) /\ <<>> \in Seq(RunRow)
    OBVIOUS
  <2> QED BY <2>1 DEF Init, StoreInit, StoreTypeOK
<1>2. ProcTypeOK
  <2>1. <<>> \in Seq(JobRow)
    OBVIOUS
  <2> QED BY <2>1, FaultAssumption DEF Init, ProcInit, ProcTypeOK, Outcome
<1>3. CollectTypeOK
  <2>1. <<>> \in Seq(Raw) /\ <<>> \in Seq(SUBSET Source)
    OBVIOUS
  <2> QED BY <2>1 DEF Init, CollectInit, CollectTypeOK, NoCollect
<1>4. ScoreTypeOK
  BY DEF Init, ScoreInit, ScoreTypeOK
<1>5. NotifyTypeOK
  <2>1. <<>> \in Seq(Message)
    OBVIOUS
  <2> QED BY <2>1, NoNoteType DEF Init, NotifyInit, NotifyTypeOK, NoteType
<1>6. \A p \in Proc : Bounds(p)
  BY DEF Init, ProcInit, Bounds
<1> QED BY <1>1, <1>2, <1>3, <1>4, <1>5, <1>6, OfferedAssumption DEF Init, TypeInv, TypeOK

LEMMA NextType == TypeInv /\ [Next]_vars => TypeInv'
<1> SUFFICES ASSUME TypeInv, [Next]_vars PROVE TypeInv'
  OBVIOUS
<1>1. CASE Next
  <2>1. PICK p \in Proc :
            (\E o \in Offered : Start(p, o)) \/ Work(p) \/ Signal(p) \/ Crash(p)
    BY <1>1 DEF Next
  <2>2. TypeOK' /\ Bounds(p)' /\ OthersKeep(p)
    BY <2>1, StartType, WorkType, SignalType, CrashType
  <2>3. SlackGrows
    BY <2>1, StepGrows
  <2>4. \A q \in Proc \ {p} : Bounds(q)'
    BY <2>2, <2>3, BoundsOfOthers
  <2> QED BY <2>2, <2>4 DEF TypeInv
<1>2. CASE UNCHANGED vars
  <2>1. /\ UNCHANGED <<jobs, notifications, runs, pc, opts, ctxDone, outcome, snapshot>>
        /\ UNCHANGED <<faults, coll, alerts, toScore, slack, note, collects>>
    BY <1>2 DEF vars, storeVars, procVars, collectVars, scoreVars, notifyVars
  <2>2. TypeOK'
    BY <2>1 DEF TypeInv, TypeOK, StoreTypeOK, ProcTypeOK, CollectTypeOK, ScoreTypeOK,
                NotifyTypeOK
  <2>3. \A p \in Proc : Bounds(p)'
    BY <2>1 DEF TypeInv, Bounds
  <2> QED BY <2>2, <2>3 DEF TypeInv
<1> QED BY <1>1, <1>2

\* Every behaviour is well typed, and every process stays within the bounds it
\* relies on: no index out of range in a batch, a snapshot or a record list.
THEOREM TypeCorrect == Spec => []TypeOK
<1>1. TypeInv => TypeOK
  BY DEF TypeInv
<1> QED BY <1>1, InitType, NextType, PTL DEF Spec
-----------------------------------------------------------------------------
(* What the operations of the store do to a row *)

\* A row keeps its key, its content and its introductions.
RowKept(i) ==
    /\ jobs'[i].key = jobs[i].key
    /\ jobs'[i].content = jobs[i].content
    /\ jobs'[i].sources = jobs[i].sources

LEMMA SaveJobFacts ==
    ASSUME StoreTypeOK, NEW k \in Key, NEW c \in Content, NEW srcs \in SUBSET Origin,
           SaveJob(k, c, srcs)
    PROVE  /\ \A i \in DOMAIN jobs :
                  /\ i \in DOMAIN jobs' /\ jobs'[i].key = jobs[i].key
                  /\ jobs'[i].status = jobs[i].status
                  /\ jobs'[i].score = jobs[i].score
           /\ \A i \in DOMAIN jobs' \ DOMAIN jobs :
                  /\ i = Len(jobs) + 1 /\ jobs'[i].key = k /\ jobs'[i].status = "new"
                  /\ JobsWithKey(k) = {}
<1>1. jobs \in Seq(JobRow)
  BY DEF StoreTypeOK
<1>2. CASE JobsWithKey(k) = {} /\ InsertJob(k, c, srcs)
  <2> DEFINE row == [key |-> k, content |-> c, sources |-> srcs, status |-> "new",
                     score |-> 0]
  <2>1. row.key = k /\ row.status = "new"
    OBVIOUS
  <2>2. jobs' = Append(jobs, row)
    BY <1>2 DEF InsertJob
  <2> HIDE DEF row
  <2> QED BY <1>1, <1>2, <2>1, <2>2
<1>3. CASE \E i \in JobsWithKey(k) : UpdateJob(i, c, srcs)
  <2>1. PICK i \in JobsWithKey(k) : UpdateJob(i, c, srcs)
    BY <1>3
  <2> DEFINE row == [jobs[i] EXCEPT !.content = c, !.sources = @ \cup srcs]
  <2>2. jobs[i] \in JobRow /\ i \in DOMAIN jobs
    BY <1>1 DEF JobsWithKey
  <2>3. row.key = jobs[i].key /\ row.status = jobs[i].status /\ row.score = jobs[i].score
    BY <2>2 DEF JobRow
  <2>4. jobs' = [jobs EXCEPT ![i] = row]
    BY <2>1 DEF UpdateJob
  <2> HIDE DEF row
  <2> QED BY <1>1, <2>2, <2>3, <2>4
<1> QED BY <1>2, <1>3 DEF SaveJob

LEMMA UpdateScoreFacts ==
    ASSUME StoreTypeOK, NEW i, NEW score, NEW status, UpdateScore(i, score, status)
    PROVE  /\ DOMAIN jobs' = DOMAIN jobs
           /\ \A j \in DOMAIN jobs :
                  /\ RowKept(j)
                  /\ j # i => jobs'[j] = jobs[j]
                  /\ j = i => jobs'[j].status = status
<1> DEFINE row == [jobs[i] EXCEPT !.score = score, !.status = status]
<1>1. jobs' = [jobs EXCEPT ![i] = row] /\ jobs \in Seq(JobRow)
  BY DEF UpdateScore, StoreTypeOK
<1>2. ASSUME i \in DOMAIN jobs
      PROVE  /\ row.key = jobs[i].key /\ row.content = jobs[i].content
             /\ row.sources = jobs[i].sources /\ row.status = status
  <2>1. jobs[i] \in JobRow
    BY <1>1, <1>2
  <2> QED BY <2>1 DEF JobRow
<1> HIDE DEF row
<1> QED BY <1>1, <1>2 DEF RowKept

LEMMA UpdateStatusFacts ==
    ASSUME StoreTypeOK, NEW i, NEW status, UpdateStatus(i, status)
    PROVE  /\ DOMAIN jobs' = DOMAIN jobs
           /\ \A j \in DOMAIN jobs :
                  /\ RowKept(j)
                  /\ j # i => jobs'[j] = jobs[j]
                  /\ j = i => jobs'[j].status = status
<1> DEFINE row == [jobs[i] EXCEPT !.status = status]
<1>1. jobs' = [jobs EXCEPT ![i] = row] /\ jobs \in Seq(JobRow)
  BY DEF UpdateStatus, StoreTypeOK
<1>2. ASSUME i \in DOMAIN jobs
      PROVE  /\ row.key = jobs[i].key /\ row.content = jobs[i].content
             /\ row.sources = jobs[i].sources /\ row.status = status
  <2>1. jobs[i] \in JobRow
    BY <1>1, <1>2
  <2> QED BY <2>1 DEF JobRow
<1> HIDE DEF row
<1> QED BY <1>1, <1>2 DEF RowKept

\* SaveOne saves a posting of the batch, with the introductions of its group.
LEMMA SaveOneSaves ==
    ASSUME TypeInv, NEW p \in Proc, SaveOne(p)
    PROVE  \E k \in Key, c \in Content, srcs \in SUBSET Origin : SaveJob(k, c, srcs)
<1>1. PICK i \in coll[p].pending :
          SaveJob(coll[p].batch[i].key, coll[p].batch[i].content,
                  MergedSources(coll[p].batch, i))
  BY DEF SaveOne
<1>2. coll[p].batch \in Seq(Raw) /\ i \in DOMAIN coll[p].batch
  BY DEF SaveOne, Bounds, CollectTypeOK, TypeInv, TypeOK
<1>3. coll[p].batch[i] \in Raw
  BY <1>2
<1>4. coll[p].batch[i].key \in Key /\ coll[p].batch[i].content \in Content
  BY <1>3 DEF Raw
<1> QED BY <1>1, <1>2, <1>4, MergedSourcesType

\* The only ways a step changes the postings.
LEMMA JobsStep ==
    ASSUME TypeInv, [Next]_vars
    PROVE  \/ jobs' = jobs
           \/ \E p \in Proc : SaveOne(p)
           \/ \E p \in Proc : ScoreOne(p)
           \/ \E p \in Proc : Mark(p)
<1>1. CASE UNCHANGED vars
  BY <1>1 DEF vars, storeVars
<1>2. CASE Next
  <2>1. PICK p \in Proc :
            (\E o \in Offered : Start(p, o)) \/ Work(p) \/ Signal(p) \/ Crash(p)
    BY <1>2 DEF Next
  <2>2. CASE ~Work(p)
    BY <2>1, <2>2 DEF Start, Signal, Crash, storeVars
  <2>3. CASE CollectStep(p)
    BY <2>3 DEF CollectStep, FetchOk, FetchFailed, SaveFailed, RecordRun, EndCollect,
                storeVars
  <2>4. CASE ScoreStep(p)
    BY <2>4 DEF ScoreStep, ListForScore, ScoreError, storeVars
  <2>5. CASE NotifyStep(p)
    BY <2>5 DEF NotifyStep, Paused, ListForNotify, NotifyError, ListNotified, Preview,
                Post, Abort, Reply, Persist, storeVars
  <2> QED BY <2>1, <2>2, <2>3, <2>4, <2>5 DEF Work
<1> QED BY <1>1, <1>2

\* Marking and scoring a job leave its row's posting alone.
LEMMA ScoreOneKeeps ==
    ASSUME TypeInv, NEW p \in Proc, ScoreOne(p)
    PROVE  DOMAIN jobs' = DOMAIN jobs /\ \A i \in DOMAIN jobs : RowKept(i)
<1>1. PICK i, score, status : UpdateScore(i, score, status)
  BY DEF ScoreOne
<1> QED BY <1>1, UpdateScoreFacts DEF TypeInv, TypeOK

LEMMA MarkKeeps ==
    ASSUME TypeInv, NEW p \in Proc, Mark(p)
    PROVE  DOMAIN jobs' = DOMAIN jobs /\ \A i \in DOMAIN jobs : RowKept(i)
<1>1. (\E i, status : UpdateStatus(i, status)) \/ jobs' = jobs
  BY DEF Mark
<1> QED BY <1>1, UpdateStatusFacts DEF TypeInv, TypeOK, RowKept

\* No two rows share a dedup key, however many processes collect at once.
THEOREM KeysUnique == Spec => []OneRowPerKey
<1>1. Init => OneRowPerKey
  BY DEF Init, StoreInit, OneRowPerKey, JobId
<1>2. TypeInv /\ OneRowPerKey /\ [Next]_vars => OneRowPerKey'
  <2> SUFFICES ASSUME TypeInv, OneRowPerKey, [Next]_vars PROVE OneRowPerKey'
    OBVIOUS
  <2> USE DEF OneRowPerKey, JobId
  <2>1. CASE jobs' = jobs
    BY <2>1
  <2>2. ASSUME NEW p \in Proc, SaveOne(p) PROVE OneRowPerKey'
    <3>1. PICK k \in Key, c \in Content, srcs \in SUBSET Origin : SaveJob(k, c, srcs)
      BY <2>2, SaveOneSaves
    <3>2. /\ \A i \in DOMAIN jobs : jobs'[i].key = jobs[i].key
          /\ \A i \in DOMAIN jobs' \ DOMAIN jobs :
                  i = Len(jobs) + 1 /\ jobs'[i].key = k /\ JobsWithKey(k) = {}
      BY <3>1, SaveJobFacts DEF TypeInv, TypeOK
    <3> QED BY <3>2 DEF JobsWithKey
  <2>3. ASSUME NEW p \in Proc, ScoreOne(p) PROVE OneRowPerKey'
    BY <2>3, ScoreOneKeeps DEF RowKept
  <2>4. ASSUME NEW p \in Proc, Mark(p) PROVE OneRowPerKey'
    BY <2>4, MarkKeeps DEF RowKept
  <2> QED BY <2>1, <2>2, <2>3, <2>4, JobsStep
<1> QED BY <1>1, <1>2, InitType, NextType, PTL DEF Spec

\* A collection never touches the score or the status of a posting it updates.
THEOREM VerdictKept == Spec => CollectKeepsVerdict
<1> DEFINE A == \A i \in JobId : jobs'[i].content # jobs[i].content
                    => /\ jobs'[i].status = jobs[i].status
                       /\ jobs'[i].score = jobs[i].score
<1>1. TypeInv /\ [Next]_vars => A
  <2> SUFFICES ASSUME TypeInv, [Next]_vars PROVE A
    OBVIOUS
  <2>1. CASE jobs' = jobs
    BY <2>1
  <2>2. ASSUME NEW p \in Proc, SaveOne(p) PROVE A
    <3>1. PICK k \in Key, c \in Content, srcs \in SUBSET Origin : SaveJob(k, c, srcs)
      BY <2>2, SaveOneSaves
    <3> QED BY <3>1, SaveJobFacts DEF TypeInv, TypeOK, JobId
  <2>3. ASSUME NEW p \in Proc, ScoreOne(p) PROVE A
    BY <2>3, ScoreOneKeeps DEF RowKept, JobId
  <2>4. ASSUME NEW p \in Proc, Mark(p) PROVE A
    BY <2>4, MarkKeeps DEF RowKept, JobId
  <2> QED BY <2>1, <2>2, <2>3, <2>4, JobsStep
<1> QED BY <1>1, InitType, NextType, PTL DEF Spec, CollectKeepsVerdict
-----------------------------------------------------------------------------
(* What the table, the channel and the memory of the processes say of each *)
(* other: the three delivery invariants and what makes them inductive.     *)

Messaged(i) == \E n \in DOMAIN slack : slack[n].job = i

\* The hashes a process was told belong to jobs the channel knows.
KnownTrue(p) ==
    \A i \in DOMAIN note[p].known : note[p].known[i] # NoHash => Messaged(i)

\* The posting it reads as notified was told.
SnapshotTrue(p) ==
    \A i \in DOMAIN snapshot[p] : snapshot[p][i].status = "notified" => Messaged(i)

\* A success it has yet to record was delivered.
RecordsTrue(p) ==
    \A r \in DOMAIN note[p].records :
        note[p].records[r].result = "success"
            => Delivered(note[p].records[r].job, note[p].records[r].hash)

\* The message it waits for an answer on is the one it believes it sent.
InflightTrue(p) ==
    pc[p] = "reply" /\ note[p].inflight # 0 =>
        /\ slack[note[p].inflight].job = note[p].current
        /\ slack[note[p].inflight].content = snapshot[p][note[p].current].content

\* Only sent jobs are marked.
MarksTrue(p) == pc[p] = "mark" => note[p].records[note[p].done + 1].result = "success"

Truthful(p) ==
    KnownTrue(p) /\ SnapshotTrue(p) /\ RecordsTrue(p) /\ InflightTrue(p) /\ MarksTrue(p)

DeliveryInv ==
    /\ SuccessMeansDelivered
    /\ NotifiedMeansDelivered
    /\ UpdateFollowsFirst
    /\ \A p \in Proc : Truthful(p)

LEMMA DeliveredStays ==
    ASSUME SlackGrows, NEW i, NEW h
    PROVE  /\ Messaged(i) => Messaged(i)'
           /\ Delivered(i, h) => Delivered(i, h)'
           /\ Delivered(i, h) => Messaged(i)
BY DEF SlackGrows, Messaged, Delivered

LEMMA TruthfulOthers ==
    ASSUME TypeInv, DeliveryInv, NEW p \in Proc, OthersKeep(p), SlackGrows,
           NEW q \in Proc \ {p}
    PROVE  Truthful(q)'
<1>1. Truthful(q) /\ Bounds(q) /\ slack \in Seq(Message)
  BY DEF DeliveryInv, TypeInv, TypeOK, NotifyTypeOK
<1>2. /\ pc'[q] = pc[q] /\ snapshot'[q] = snapshot[q] /\ note'[q] = note[q]
  BY DEF OthersKeep
<1>3. KnownTrue(q)' /\ SnapshotTrue(q)' /\ RecordsTrue(q)' /\ MarksTrue(q)'
  BY <1>1, <1>2, DeliveredStays
     DEF Truthful, KnownTrue, SnapshotTrue, RecordsTrue, MarksTrue
<1>4. InflightTrue(q)'
  <2>1. pc[q] = "reply" /\ note[q].inflight # 0 => note[q].inflight \in DOMAIN slack
    BY <1>1 DEF Bounds
  <2> QED BY <1>1, <1>2, <2>1 DEF Truthful, InflightTrue, SlackGrows
<1> QED BY <1>3, <1>4 DEF Truthful

\* A process that has the notes, the channel and the snapshot of before, or
\* none, and stands at neither an answer nor a mark, stays truthful.
LEMMA TruthfulQuiet ==
    ASSUME TypeInv, DeliveryInv, NEW p \in Proc, SlackGrows,
           note'[p] = note[p] \/ note'[p] = NoNote,
           \/ snapshot'[p] = snapshot[p] \/ snapshot'[p] = <<>> \/ snapshot'[p] = jobs,
           pc'[p] \notin {"reply", "mark"}
    PROVE  Truthful(p)'
<1>1. Truthful(p)
  BY DEF DeliveryInv
<1>2. InflightTrue(p)' /\ MarksTrue(p)'
  BY DEF InflightTrue, MarksTrue
<1>3. KnownTrue(p)' /\ RecordsTrue(p)'
  <2>1. CASE note'[p] = note[p]
    BY <1>1, <2>1, DeliveredStays DEF Truthful, KnownTrue, RecordsTrue
  <2>2. CASE note'[p] = NoNote
    BY <2>2 DEF NoNote, KnownTrue, RecordsTrue
  <2> QED BY <2>1, <2>2
<1>4. SnapshotTrue(p)'
  <2>1. CASE snapshot'[p] = snapshot[p]
    BY <1>1, <2>1, DeliveredStays DEF Truthful, SnapshotTrue
  <2>2. CASE snapshot'[p] = <<>>
    BY <2>2 DEF SnapshotTrue
  <2>3. CASE snapshot'[p] = jobs
    BY <2>3, DeliveredStays
       DEF DeliveryInv, NotifiedMeansDelivered, JobId, Messaged, SnapshotTrue
  <2> QED BY <2>1, <2>2, <2>3
<1> QED BY <1>2, <1>3, <1>4 DEF Truthful

LEMMA ListNotifiedTruthful ==
    ASSUME TypeInv, DeliveryInv, NEW p \in Proc, ListNotified(p), SlackGrows
    PROVE  Truthful(p)'
<1> USE DEF TypeInv, TypeOK
<1>1. CASE Continue(p, "print") /\ UNCHANGED note
  BY <1>1, TruthfulQuiet DEF Continue, Goto, ProcTypeOK
<1>2. CASE EndNotify(p, "ok")
  BY <1>2, TruthfulQuiet DEF EndNotify, Exit, Goto, ProcTypeOK, NotifyTypeOK
<1> DEFINE known == [i \in DOMAIN snapshot[p] |-> NotifiedHash(i)]
           items == SelectTargets(snapshot[p], known, opts[p].profile.threshold)
<1>3. CASE /\ note' = [note EXCEPT ![p] = [NoNote EXCEPT !.known = known, !.items = items]]
           /\ Continue(p, "post")
  <2>1. ASSUME NEW i, NotifiedHash(i) # NoHash PROVE Messaged(i)'
    <3>1. \E n \in DOMAIN notifications : LastSuccess(n, i)
      BY <2>1 DEF NotifiedHash
    <3>2. PICK n \in DOMAIN notifications :
              notifications[n].job = i /\ notifications[n].result = "success"
      BY <3>1 DEF LastSuccess, SuccessesOf
    <3>3. Delivered(i, notifications[n].hash)
      BY <3>2 DEF DeliveryInv, SuccessMeansDelivered
    <3> QED BY <3>3, DeliveredStays
  <2> DEFINE n == [NoNote EXCEPT !.known = known, !.items = items]
  <2>2. n.known = known /\ n.records = <<>>
    BY DEF NoNote
  <2> HIDE DEF n
  <2>3. note'[p] = n
    BY <1>3 DEF n, NotifyTypeOK
  <2>4. pc'[p] = "post" /\ snapshot'[p] = snapshot[p]
    BY <1>3 DEF Continue, Goto, ProcTypeOK
  <2>5. KnownTrue(p)' /\ RecordsTrue(p)'
    BY <2>1, <2>2, <2>3 DEF KnownTrue, RecordsTrue
  <2>6. SnapshotTrue(p)' /\ InflightTrue(p)' /\ MarksTrue(p)'
    BY <2>4, DeliveredStays
       DEF DeliveryInv, Truthful, SnapshotTrue, InflightTrue, MarksTrue
  <2> QED BY <2>5, <2>6 DEF Truthful
<1> QED BY <1>1, <1>2, <1>3 DEF ListNotified

LEMMA PostTruthful ==
    ASSUME TypeInv, DeliveryInv, NEW p \in Proc, Post(p), SlackGrows
    PROVE  Truthful(p)' /\ UpdateFollowsFirst'
<1> USE DEF TypeInv, TypeOK
<1>1. PICK i \in note[p].items, k \in {0, Len(slack) + 1} :
        /\ note' = [note EXCEPT ![p].current = i, ![p].inflight = k]
        /\ \/ slack' = Append(slack, MessageFor(p, i))
           \/ k = 0 /\ slack' = slack
        /\ k # 0 => slack' = Append(slack, MessageFor(p, i))
  BY DEF Post
<1> DEFINE m == MessageFor(p, i)
<1>2. /\ m.job = i /\ m.content = snapshot[p][i].content
      /\ m.update => note[p].known[i] # NoHash
  BY DEF MessageFor
<1>3. slack \in Seq(Message) /\ note \in [Proc -> NoteType] /\ Len(slack) \in Nat
  BY DEF NotifyTypeOK, NoteType
<1>4. i \in DOMAIN note[p].known
  BY DEF Post, Bounds
<1>5. /\ note'[p].known = note[p].known /\ note'[p].records = note[p].records
      /\ note'[p].current = i /\ note'[p].inflight = k
  BY <1>1, <1>3 DEF NoteType
<1>6. pc'[p] = "reply" /\ snapshot'[p] = snapshot[p]
  BY DEF Post, Goto, ProcTypeOK
<1>7. KnownTrue(p)' /\ SnapshotTrue(p)' /\ RecordsTrue(p)' /\ MarksTrue(p)'
  BY <1>5, <1>6, DeliveredStays
     DEF DeliveryInv, Truthful, KnownTrue, SnapshotTrue, RecordsTrue, MarksTrue
<1>8. InflightTrue(p)'
  <2>1. k # 0 => slack'[k] = m
    BY <1>1, <1>3
  <2> QED BY <1>2, <1>5, <1>6, <2>1 DEF InflightTrue
<1>9. UpdateFollowsFirst'
  <2>1. CASE slack' = slack
    BY <2>1 DEF DeliveryInv, UpdateFollowsFirst
  <2>2. CASE slack' = Append(slack, m)
    <3>1. m.update => Messaged(i)
      BY <1>2, <1>4 DEF DeliveryInv, Truthful, KnownTrue
    <3> HIDE DEF m
    <3>2. /\ Len(slack') = Len(slack) + 1 /\ slack'[Len(slack) + 1] = m
          /\ \A n \in DOMAIN slack : slack'[n] = slack[n]
          /\ DOMAIN slack' = 1..(Len(slack) + 1) /\ DOMAIN slack = 1..Len(slack)
      BY <1>3, <2>2
    <3> SUFFICES ASSUME NEW n \in DOMAIN slack', slack'[n].update
                 PROVE  \E l \in 1..(n - 1) : slack'[l].job = slack'[n].job
      BY DEF UpdateFollowsFirst
    <3>3. CASE n \in DOMAIN slack
      <4>1. PICK l \in 1..(n - 1) : slack[l].job = slack[n].job
        BY <3>2, <3>3 DEF DeliveryInv, UpdateFollowsFirst
      <4>2. l \in DOMAIN slack
        BY <1>3, <3>2, <3>3
      <4> QED BY <3>2, <3>3, <4>1, <4>2
    <3>4. CASE n = Len(slack) + 1
      <4>1. PICK l \in DOMAIN slack : slack[l].job = i
        BY <3>1, <3>2, <3>4 DEF Messaged
      <4> QED BY <1>2, <1>3, <3>2, <3>4, <4>1
    <3> QED BY <1>3, <3>2, <3>3, <3>4
  <2> QED BY <1>1, <2>1, <2>2
<1> QED BY <1>7, <1>8, <1>9 DEF Truthful

LEMMA ReplyTruthful ==
    ASSUME TypeInv, DeliveryInv, NEW p \in Proc, Reply(p), SlackGrows
    PROVE  Truthful(p)'
<1> USE DEF TypeInv, TypeOK
<1>1. PICK rec, L, l :
          /\ l \in {"persist", "post"}
          /\ note' = [note EXCEPT ![p].items = L, ![p].current = 0,
                        ![p].inflight = 0, ![p].records = Append(note[p].records, rec)]
          /\ Continue(p, l)
          /\ rec.result = "success" => Delivered(rec.job, rec.hash)
  <2> DEFINE i == note[p].current
             k == note[p].inflight
             rec(ok) == [job |-> i, hash |-> MaterialHash[snapshot[p][i].content],
                         result |-> ResultOf(ok)]
             left == note[p].items \ {i}
             after == IF left = {} THEN "persist" ELSE "post"
  <2>1. PICK ok \in BOOLEAN :
            /\ ok => k # 0
            /\ note' = [note EXCEPT ![p].items = left, ![p].current = 0, ![p].inflight = 0,
                          ![p].records = Append(note[p].records, rec(ok))]
            /\ Continue(p, after)
    BY DEF Reply
  <2>2. ASSUME ok PROVE Delivered(i, MaterialHash[snapshot[p][i].content])
    <3>1. /\ slack[k].job = i /\ slack[k].content = snapshot[p][i].content
          /\ k \in 1..Len(slack)
      BY <2>1, <2>2 DEF Reply, Bounds, DeliveryInv, Truthful, InflightTrue
    <3>2. k \in DOMAIN slack
      BY <3>1 DEF NotifyTypeOK
    <3> QED BY <3>1, <3>2 DEF Delivered
  <2>3. rec(ok).result = "success" => Delivered(rec(ok).job, rec(ok).hash)
    BY <2>2 DEF ResultOf
  <2>4. after \in {"persist", "post"}
    OBVIOUS
  <2> HIDE DEF rec, left, after
  <2> QED BY <2>1, <2>3, <2>4
<1>2. note \in [Proc -> NoteType]
  BY DEF NotifyTypeOK, NoteType
<1>3. note[p].records \in Seq(NotificationRow)
  BY <1>2 DEF NoteType
<1>4. /\ note'[p].known = note[p].known
      /\ note'[p].records = Append(note[p].records, rec)
  BY <1>1, <1>2 DEF NoteType
<1>5. pc'[p] \in {"persist", "post"} /\ snapshot'[p] = snapshot[p]
  BY <1>1 DEF Continue, Goto, ProcTypeOK
<1>6. rec.result = "success" => Delivered(rec.job, rec.hash)'
  BY <1>1, DeliveredStays
<1>7. RecordsTrue(p)'
  <2> SUFFICES ASSUME NEW r \in DOMAIN note'[p].records,
                      note'[p].records[r].result = "success"
               PROVE  Delivered(note[p].records[r].job, note[p].records[r].hash)'
    BY DEF RecordsTrue
  <2>1. CASE r \in DOMAIN note[p].records
    <3>1. note'[p].records[r] = note[p].records[r]
      BY <1>3, <1>4, <2>1
    <3>2. Delivered(note[p].records[r].job, note[p].records[r].hash)
      BY <2>1, <3>1 DEF DeliveryInv, Truthful, RecordsTrue
    <3>3. PICK j, h : j = note[p].records[r].job /\ h = note[p].records[r].hash
      OBVIOUS
    <3>4. Delivered(j, h)'
      BY <3>2, <3>3, DeliveredStays
    <3> QED BY <3>1, <3>3, <3>4 DEF Delivered
  <2>2. CASE r = Len(note[p].records) + 1
    <3>1. note'[p].records[r] = rec
      BY <1>3, <1>4, <2>2
    <3> QED BY <1>6, <3>1 DEF Delivered
  <2> QED BY <1>3, <1>4, <2>1, <2>2
<1>8. KnownTrue(p)' /\ SnapshotTrue(p)'
  BY <1>4, <1>5, DeliveredStays DEF DeliveryInv, Truthful, KnownTrue, SnapshotTrue
<1>9. InflightTrue(p)' /\ MarksTrue(p)'
  BY <1>5 DEF InflightTrue, MarksTrue
<1> QED BY <1>7, <1>8, <1>9 DEF Truthful

LEMMA NextRecordTruthful ==
    ASSUME TypeInv, DeliveryInv, NEW p \in Proc, NextRecord(p), SlackGrows
    PROVE  Truthful(p)'
<1> USE DEF TypeInv, TypeOK
<1> DEFINE n == [note[p] EXCEPT !.done = @ + 1]
<1>1. CASE EndNotify(p, ExitCode(n))
  BY <1>1, TruthfulQuiet DEF EndNotify, Exit, Goto, ProcTypeOK, NotifyTypeOK
<1>2. CASE note' = [note EXCEPT ![p] = n] /\ Continue(p, "persist")
  <2>1. note[p] \in NoteType
    BY DEF NotifyTypeOK, NoteType
  <2>2. n.known = note[p].known /\ n.records = note[p].records
    BY <2>1 DEF NoteType
  <2> HIDE DEF n
  <2>3. note'[p].known = note[p].known /\ note'[p].records = note[p].records
    BY <1>2, <2>2 DEF NotifyTypeOK
  <2>4. pc'[p] = "persist" /\ snapshot'[p] = snapshot[p]
    BY <1>2 DEF Continue, Goto, ProcTypeOK
  <2> QED BY <2>3, <2>4, DeliveredStays
          DEF DeliveryInv, Truthful, KnownTrue, SnapshotTrue, RecordsTrue, InflightTrue,
              MarksTrue
<1> QED BY <1>1, <1>2 DEF NextRecord

LEMMA PersistTruthful ==
    ASSUME TypeInv, DeliveryInv, NEW p \in Proc, Persist(p), SlackGrows
    PROVE  Truthful(p)'
<1> USE DEF TypeInv, TypeOK
<1>1. CASE NextRecord(p)
  BY <1>1, NextRecordTruthful
<1>2. CASE /\ note[p].records[note[p].done + 1].result = "success"
           /\ Continue(p, "mark") /\ UNCHANGED note
  <2>1. pc'[p] = "mark" /\ snapshot'[p] = snapshot[p] /\ note' = note
    BY <1>2 DEF Continue, Goto, ProcTypeOK
  <2> QED BY <1>2, <2>1, DeliveredStays
          DEF DeliveryInv, Truthful, KnownTrue, SnapshotTrue, RecordsTrue, InflightTrue,
              MarksTrue
<1> QED BY <1>1, <1>2 DEF Persist, MarksJob

LEMMA AbortTruthful ==
    ASSUME TypeInv, DeliveryInv, NEW p \in Proc, Abort(p), SlackGrows
    PROVE  Truthful(p)'
<1> USE DEF TypeInv, TypeOK
<1>1. CASE EndNotify(p, "error")
  BY <1>1, TruthfulQuiet DEF EndNotify, Exit, Goto, ProcTypeOK, NotifyTypeOK
<1>2. CASE /\ note' = [note EXCEPT ![p].aborted = TRUE, ![p].items = {}]
           /\ Continue(p, "persist")
  <2>1. note'[p].known = note[p].known /\ note'[p].records = note[p].records
    BY <1>2 DEF NotifyTypeOK
  <2>2. pc'[p] = "persist" /\ snapshot'[p] = snapshot[p]
    BY <1>2 DEF Continue, Goto, ProcTypeOK
  <2> QED BY <2>1, <2>2, DeliveredStays
          DEF DeliveryInv, Truthful, KnownTrue, SnapshotTrue, RecordsTrue, InflightTrue,
              MarksTrue
<1> QED BY <1>1, <1>2 DEF Abort

LEMMA NotifyTruthful ==
    ASSUME TypeInv, DeliveryInv, NEW p \in Proc, NotifyStep(p), SlackGrows
    PROVE  Truthful(p)'
<1> USE DEF TypeInv, TypeOK
<1>1. CASE Paused(p) \/ NotifyError(p) \/ Preview(p)
  <2>1. \E o : EndNotify(p, o)
    BY <1>1 DEF Paused, NotifyError, Preview
  <2> QED BY <2>1, TruthfulQuiet DEF EndNotify, Exit, Goto, ProcTypeOK, NotifyTypeOK
<1>2. CASE ListForNotify(p)
  BY <1>2, TruthfulQuiet DEF ListForNotify, ContinueWith, Goto, ProcTypeOK, notifyVars
<1>3. CASE Mark(p)
  BY <1>3, NextRecordTruthful DEF Mark
<1> QED BY <1>1, <1>2, <1>3, ListNotifiedTruthful, PostTruthful, AbortTruthful,
           ReplyTruthful, PersistTruthful DEF NotifyStep

LEMMA StepTruthful ==
    ASSUME TypeInv, DeliveryInv, NEW p \in Proc, SlackGrows,
           (\E o \in Offered : Start(p, o)) \/ Work(p) \/ Signal(p) \/ Crash(p)
    PROVE  Truthful(p)'
<1> USE DEF TypeInv, TypeOK
<1>1. CASE NotifyStep(p)
  BY <1>1, NotifyTruthful
<1>2. CASE CollectStep(p) /\ UNCHANGED notifyVars
  <2>1. \/ \E l \in CollectPC \cup ScorePC : Continue(p, l)
        \/ Exit(p, "ok")
    BY <1>2 DEF CollectStep, FetchOk, FetchFailed, SaveOne, SaveFailed, RecordRun,
                EndCollect, AfterCollect, CollectPC, ScorePC
  <2>2. pc'[p] \notin {"reply", "mark"}
    BY <2>1 DEF Continue, Exit, Goto, ProcTypeOK, CollectPC, ScorePC
  <2>3. snapshot'[p] = snapshot[p] \/ snapshot'[p] = <<>>
    BY <2>1 DEF Continue, Exit, ProcTypeOK
  <2> QED BY <1>2, <2>2, <2>3, TruthfulQuiet DEF notifyVars
<1>3. CASE ScoreStep(p) /\ UNCHANGED notifyVars
  <2>1. \/ Continue(p, "score")
        \/ ContinueWith(p, "score", jobs)
        \/ ContinueWith(p, "listForNotify", <<>>)
        \/ \E o : Exit(p, o)
    BY <1>3 DEF ScoreStep, ListForScore, ScoreError, ScoreOne, AfterScore
  <2> QED BY <1>3, <2>1, TruthfulQuiet
          DEF Continue, ContinueWith, Exit, Goto, ProcTypeOK, notifyVars
<1>4. CASE \E o \in Offered : Start(p, o)
  <2>1. PICK o \in Offered : Start(p, o)
    BY <1>4
  <2>2. o.cmd \in Command
    BY OfferedAssumption DEF Options
  <2>3. pc'[p] \notin {"reply", "mark"}
    BY <2>1, <2>2 DEF Start, Goto, FirstPC, Command, ProcTypeOK
  <2> QED BY <2>1, <2>3, TruthfulQuiet DEF Start, notifyVars
<1>5. CASE Signal(p)
  <2>1. UNCHANGED <<pc, snapshot, note, slack>>
    BY <1>5 DEF Signal, Cancel, notifyVars
  <2> QED BY <2>1
          DEF DeliveryInv, Truthful, KnownTrue, SnapshotTrue, RecordsTrue, InflightTrue,
              MarksTrue, Messaged, Delivered
<1>6. CASE Crash(p)
  BY <1>6, TruthfulQuiet DEF Crash, Exit, Goto, ProcTypeOK, NotifyTypeOK
<1> QED BY <1>1, <1>2, <1>3, <1>4, <1>5, <1>6 DEF Work

LEMMA TableTruthful ==
    ASSUME TypeInv, DeliveryInv, [Next]_vars, SlackGrows
    PROVE  SuccessMeansDelivered'
<1>1. \/ notifications' = notifications
      \/ \E p \in Proc : Persist(p)
  BY DEF Next, Start, Work, Signal, Crash, CollectStep, FetchOk, FetchFailed, SaveOne,
         SaveFailed, RecordRun, EndCollect, ScoreStep, ListForScore, ScoreError, ScoreOne,
         NotifyStep, Paused, ListForNotify, NotifyError, ListNotified, Preview, Post, Abort,
         Reply, Mark, vars, storeVars
<1>2. notifications \in Seq(NotificationRow)
  BY DEF TypeInv, TypeOK, StoreTypeOK
<1>3. CASE notifications' = notifications
  BY <1>3, DeliveredStays DEF DeliveryInv, SuccessMeansDelivered
<1>4. ASSUME NEW p \in Proc, Persist(p) PROVE SuccessMeansDelivered'
  <2>1. PICK rec : /\ rec = note[p].records[note[p].done + 1]
                   /\ \/ notifications' = Append(notifications, rec)
                      \/ notifications' = notifications
    BY <1>4 DEF Persist, SaveNotification
  <2>2. rec.result = "success" => Delivered(rec.job, rec.hash)'
    BY <1>4, <2>1, RecordInHand, DeliveredStays
       DEF Persist, DeliveryInv, Truthful, RecordsTrue
  <2>3. CASE notifications' = Append(notifications, rec)
    <3> SUFFICES ASSUME NEW n \in DOMAIN notifications', NEW row, row = notifications'[n],
                        row.result = "success"
                 PROVE  Delivered(row.job, row.hash)'
      BY DEF SuccessMeansDelivered
    <3>1. CASE n \in DOMAIN notifications
      <4>1. row = notifications[n]
        BY <1>2, <2>3, <3>1
      <4> QED BY <3>1, <4>1, DeliveredStays DEF DeliveryInv, SuccessMeansDelivered
    <3>2. CASE n = Len(notifications) + 1
      BY <1>2, <2>2, <2>3, <3>2
    <3> QED BY <1>2, <2>3, <3>1, <3>2
  <2> QED BY <1>3, <2>1, <2>3
<1> QED BY <1>1, <1>3, <1>4

LEMMA StatusTruthful ==
    ASSUME TypeInv, DeliveryInv, [Next]_vars, SlackGrows
    PROVE  NotifiedMeansDelivered'
<1> USE DEF TypeInv, TypeOK
<1>1. \A i \in DOMAIN jobs : jobs[i].status = "notified" => Messaged(i)
  BY DEF DeliveryInv, NotifiedMeansDelivered, JobId, Messaged
<1> SUFFICES ASSUME NEW i \in DOMAIN jobs', jobs'[i].status = "notified"
             PROVE  Messaged(i)'
  BY DEF NotifiedMeansDelivered, JobId, Messaged
<1>2. CASE jobs' = jobs
  BY <1>1, <1>2, DeliveredStays
<1>3. ASSUME NEW p \in Proc, SaveOne(p) PROVE Messaged(i)'
  <2>1. PICK k \in Key, c \in Content, srcs \in SUBSET Origin : SaveJob(k, c, srcs)
    BY <1>3, SaveOneSaves
  <2>2. i \in DOMAIN jobs /\ jobs[i].status = "notified"
    BY <2>1, SaveJobFacts
  <2> QED BY <1>1, <2>2, DeliveredStays
<1>4. ASSUME NEW p \in Proc, ScoreOne(p) PROVE Messaged(i)'
  <2>1. PICK j, v : /\ j \in toScore[p]
                    /\ UpdateScore(j, v.score, StatusAfterScore(snapshot[p][j], v))
    BY <1>4 DEF ScoreOne
  <2>2. j \in DOMAIN snapshot[p]
    BY <1>4, <2>1 DEF ScoreOne, Bounds
  <2>3. CASE i # j
    BY <1>1, <2>1, <2>3, UpdateScoreFacts, DeliveredStays
  <2>4. CASE i = j
    <3>1. StatusAfterScore(snapshot[p][j], v) = "notified"
      BY <2>1, <2>4, UpdateScoreFacts
    <3>2. snapshot[p][j].status = "notified"
      BY <3>1 DEF StatusAfterScore
    <3> QED BY <2>2, <2>4, <3>2, DeliveredStays DEF DeliveryInv, Truthful, SnapshotTrue
  <2> QED BY <2>3, <2>4
<1>5. ASSUME NEW p \in Proc, Mark(p) PROVE Messaged(i)'
  <2>1. PICK j : /\ j = note[p].records[note[p].done + 1].job
                 /\ UpdateStatus(j, "notified") \/ jobs' = jobs
    BY <1>5 DEF Mark
  <2>2. Messaged(j)
    <3>1. /\ note[p].done + 1 \in DOMAIN note[p].records
          /\ note[p].records[note[p].done + 1].result = "success"
      BY <1>5, RecordInHand DEF Mark, DeliveryInv, Truthful, MarksTrue
    <3>2. Delivered(j, note[p].records[note[p].done + 1].hash)
      BY <2>1, <3>1 DEF DeliveryInv, Truthful, RecordsTrue
    <3> QED BY <3>2 DEF Delivered, Messaged
  <2>3. CASE UpdateStatus(j, "notified")
    <3>1. CASE i = j
      BY <2>2, <3>1, DeliveredStays
    <3>2. CASE i # j
      BY <1>1, <2>3, <3>2, UpdateStatusFacts, DeliveredStays
    <3> QED BY <3>1, <3>2
  <2> QED BY <1>2, <2>1, <2>3
<1> QED BY <1>2, <1>3, <1>4, <1>5, JobsStep

LEMMA UpdatesTruthful ==
    ASSUME TypeInv, DeliveryInv, [Next]_vars, SlackGrows
    PROVE  UpdateFollowsFirst'
<1> USE DEF TypeInv, TypeOK
<1>1. ASSUME NEW p \in Proc, Post(p) PROVE UpdateFollowsFirst'
  BY <1>1, PostTruthful
<1>2. CASE slack' = slack
  BY <1>2 DEF DeliveryInv, UpdateFollowsFirst
<1>3. ASSUME NEW p \in Proc, Reply(p) PROVE UpdateFollowsFirst'
  <2>1. Len(slack') = Len(slack) /\ DOMAIN slack' = DOMAIN slack /\ slack \in Seq(Message)
    <3>1. (\E k : slack' = [slack EXCEPT ![k].acked = TRUE]) \/ slack' = slack
      BY <1>3 DEF Reply
    <3> QED BY <3>1 DEF NotifyTypeOK
  <2> SUFFICES ASSUME NEW n \in DOMAIN slack, slack[n].update
               PROVE  \E m \in 1..(n - 1) : slack'[m].job = slack'[n].job
    BY <2>1 DEF UpdateFollowsFirst, SlackGrows
  <2>2. PICK m \in 1..(n - 1) : slack[m].job = slack[n].job
    BY DEF DeliveryInv, UpdateFollowsFirst
  <2>3. m \in DOMAIN slack
    BY <2>1
  <2> QED BY <2>2, <2>3 DEF SlackGrows
<1>4. CASE ~\E p \in Proc : Post(p) \/ Reply(p)
  <2>1. slack' = slack
    BY <1>4 DEF Next, Start, Work, Signal, Crash, NotifyStep, Paused, ListForNotify,
                NotifyError, ListNotified, Preview, Abort, Persist, Mark, vars, notifyVars
  <2> QED BY <1>2, <2>1
<1> QED BY <1>1, <1>3, <1>4

LEMMA InitTruthful == Init => DeliveryInv
BY DEF Init, StoreInit, ProcInit, NotifyInit, NoNote, DeliveryInv, SuccessMeansDelivered,
       NotifiedMeansDelivered, JobId, UpdateFollowsFirst, Truthful, KnownTrue,
       SnapshotTrue, RecordsTrue, InflightTrue, MarksTrue

LEMMA NextTruthful == TypeInv /\ DeliveryInv /\ [Next]_vars => DeliveryInv'
<1> SUFFICES ASSUME TypeInv, DeliveryInv, [Next]_vars PROVE DeliveryInv'
  OBVIOUS
<1>1. CASE Next
  <2>1. PICK p \in Proc :
            (\E o \in Offered : Start(p, o)) \/ Work(p) \/ Signal(p) \/ Crash(p)
    BY <1>1 DEF Next
  <2>2. SlackGrows
    BY <2>1, StepGrows
  <2>3. Truthful(p)' /\ OthersKeep(p)
    BY <2>1, <2>2, StepTruthful, StartType, WorkType, SignalType, CrashType
  <2>4. \A q \in Proc \ {p} : Truthful(q)'
    BY <2>2, <2>3, TruthfulOthers
  <2> QED BY <2>2, <2>3, <2>4, TableTruthful, StatusTruthful, UpdatesTruthful
          DEF DeliveryInv
<1>2. CASE UNCHANGED vars
  BY <1>2 DEF vars, storeVars, procVars, notifyVars, DeliveryInv, SuccessMeansDelivered,
              NotifiedMeansDelivered, JobId, UpdateFollowsFirst, Truthful, KnownTrue,
              SnapshotTrue, RecordsTrue, InflightTrue, MarksTrue, Messaged, Delivered
<1> QED BY <1>1, <1>2

LEMMA DeliveryAlways == Spec => []DeliveryInv
BY InitType, NextType, InitTruthful, NextTruthful, PTL DEF Spec

\* A success row of the notifications table is always true, whatever crashes,
\* signals, lost answers and overlapping processes there are.
THEOREM SuccessRowsAreTrue == Spec => []SuccessMeansDelivered
<1>1. DeliveryInv => SuccessMeansDelivered
  BY DEF DeliveryInv
<1> QED BY <1>1, DeliveryAlways, PTL

\* A posting is never marked notified unless the channel was told about it.
THEOREM NotifiedJobsWereTold == Spec => []NotifiedMeansDelivered
<1>1. DeliveryInv => NotifiedMeansDelivered
  BY DEF DeliveryInv
<1> QED BY <1>1, DeliveryAlways, PTL

\* An update never announces a posting the channel has not seen.
THEOREM UpdatesFollowMessages == Spec => []UpdateFollowsFirst
<1>1. DeliveryInv => UpdateFollowsFirst
  BY DEF DeliveryInv
<1> QED BY <1>1, DeliveryAlways, PTL
=============================================================================
