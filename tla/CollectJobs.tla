----------------------------- MODULE CollectJobs -----------------------------
(***************************************************************************)
(* Collector.Collect (internal/application/collect_jobs.go) over the       *)
(* connectors, with deduplication.Dedupe inside: per source one fetch, one *)
(* SaveJob per posting up to the first error, one run row; one error       *)
(* notification at the end.                                                *)
(***************************************************************************)
EXTENDS Process, Dedup

CONSTANT Batches   \* [Source -> what one fetch of it may return]

\* A fetched message: whether it parses, and what it parses to.
Raw == [parses : BOOLEAN, key : Key, content : Content, origin : Origin]

ASSUME CollectAssumption == Batches \in [Source -> SUBSET Seq(Raw)]

VARIABLES
    coll,    \* [Proc -> locals of Collect]
    alerts   \* the failure lists error notifications delivered

collectVars == <<coll, alerts>>

NoCollect == [src |-> 0, batch |-> <<>>, pending |-> {}, new |-> 0, dup |-> 0,
              err |-> FALSE, failures |-> {}]

CollectInit == coll = [p \in Proc |-> NoCollect] /\ alerts = <<>>

CollectTypeOK ==
    /\ coll \in [Proc -> [src : Nat, batch : Seq(Raw), pending : SUBSET Nat,
                          new : Nat, dup : Nat, err : BOOLEAN,
                          failures : SUBSET Source]]
    /\ alerts \in Seq(SUBSET Source)
-----------------------------------------------------------------------------
StartCollect(p) ==
    coll' = [coll EXCEPT ![p] = [NoCollect EXCEPT !.src = 1]]

ThisSource(p) == opts[p].connectors[coll[p].src]

\* Mutation: the status of the profile is not looked at.
SourcesLeftAlways(p) == coll[p].src <= Len(opts[p].connectors)

\* A paused profile collects nothing.
SourcesLeft(p) == Enabled(p) /\ coll[p].src <= Len(opts[p].connectors)

\* Fetch hands over to saving, or to the run row when there is nothing to save.
FetchOk(p) ==
    /\ pc[p] = "fetch"
    /\ SourcesLeft(p)
    /\ \E b \in Batches[ThisSource(p)] :
          /\ ctxDone[p] => b = <<>>
          /\ coll' = [coll EXCEPT ![p].batch = b, ![p].pending = Dedupe(b),
                        ![p].dup = Cardinality(Parsed(b)) - Cardinality(Dedupe(b))]
          /\ Continue(p, IF Dedupe(b) = {} THEN "saveRun" ELSE "save")
    /\ NoFault
    /\ UNCHANGED <<storeVars, alerts>>

FetchFailed(p) ==
    /\ pc[p] = "fetch"
    /\ SourcesLeft(p)
    /\ Fails(p, "fetch")
    /\ coll' = [coll EXCEPT ![p].err = TRUE, ![p].failures = @ \cup {ThisSource(p)}]
    /\ Continue(p, "saveRun")
    /\ UNCHANGED <<storeVars, alerts>>

First(i, S) == i \in S /\ \A j \in S : i <= j

\* The pending postings are saved in the order of the batch.
SaveOne(p) ==
    /\ pc[p] = "save"
    /\ Succeeds(p)
    /\ \E i \in coll[p].pending :
          LET raw == coll[p].batch[i]
              created == JobsWithKey(raw.key) = {}
              left == coll[p].pending \ {i}
          IN  /\ First(i, coll[p].pending)
              /\ SaveJob(raw.key, raw.content, MergedSources(coll[p].batch, i))
              /\ coll' = [coll EXCEPT ![p].pending = left,
                            ![p].new = IF created THEN @ + 1 ELSE @,
                            ![p].dup = IF created THEN @ ELSE @ + 1]
              /\ Continue(p, IF left = {} THEN "saveRun" ELSE "save")
    /\ UNCHANGED <<notifications, runs, alerts>>

\* Mutation: a failed save reaches the run row but not the error notification.
SaveFailedUnreported(p) ==
    /\ pc[p] = "save"
    /\ Fails(p, "save")
    /\ coll' = [coll EXCEPT ![p].err = TRUE, ![p].pending = {}]
    /\ Continue(p, "saveRun")
    /\ UNCHANGED <<storeVars, alerts>>

\* The first failing save ends the source: the rest of the batch is not tried.
SaveFailed(p) ==
    /\ pc[p] = "save"
    /\ Fails(p, "save")
    /\ coll' = [coll EXCEPT ![p].err = TRUE, ![p].pending = {},
                            ![p].failures = @ \cup {ThisSource(p)}]
    /\ Continue(p, "saveRun")
    /\ UNCHANGED <<storeVars, alerts>>

\* Mutation: a source whose save failed reports that nothing was saved.
RunRowOfFailureEmpty(p) ==
    [source |-> ThisSource(p), ok |-> ~coll[p].err,
     new |-> IF coll[p].err THEN 0 ELSE coll[p].new, dup |-> coll[p].dup]

\* What the run row says; a failed fetch saved nothing, a failed save some.
RunRowOf(p) ==
    [source |-> ThisSource(p), ok |-> ~coll[p].err, new |-> coll[p].new, dup |-> coll[p].dup]

\* Mutation: the run row is tried again until it is written.
RecordRunUntilWritten(p) ==
    /\ pc[p] = "saveRun"
    /\ \/ /\ Succeeds(p) /\ SaveRun(RunRowOf(p))
          /\ coll' = [coll EXCEPT ![p] = [NoCollect EXCEPT !.src = coll[p].src + 1,
                                                      !.failures = coll[p].failures]]
          /\ Continue(p, "fetch")
       \/ /\ Fails(p, "saveRun")
          /\ UNCHANGED <<runs, coll, pc, opts, ctxDone, outcome, snapshot>>
    /\ UNCHANGED <<jobs, notifications, alerts>>

\* Failing to write the run row is only logged.
RecordRun(p) ==
    /\ pc[p] = "saveRun"
    /\ \/ Succeeds(p) /\ SaveRun(RunRowOf(p))
       \/ Fails(p, "saveRun") /\ UNCHANGED runs
    /\ coll' = [coll EXCEPT ![p] = [NoCollect EXCEPT !.src = coll[p].src + 1,
                                                      !.failures = coll[p].failures]]
    /\ Continue(p, "fetch")
    /\ UNCHANGED <<jobs, notifications, alerts>>

\* buildNotifiers: a dry run prints the failures, another one has a channel for
\* them or nobody to tell.
HasAlarm(p) == opts[p].dryRun \/ opts[p].errorHook

\* notifyFailures: one message for all failures, none without; its own
\* failure is only logged.
NotifyFailures(p) ==
    \/ /\ coll[p].failures # {} /\ HasAlarm(p)
       /\ \/ Succeeds(p) /\ alerts' = Append(alerts, coll[p].failures)
          \/ Fails(p, "alert") /\ UNCHANGED alerts
    \/ /\ coll[p].failures = {} \/ ~HasAlarm(p)
       /\ NoFault
       /\ UNCHANGED alerts

EndCollect(p) ==
    /\ pc[p] = "fetch"
    /\ ~SourcesLeft(p)
    /\ NotifyFailures(p)
    /\ coll' = [coll EXCEPT ![p] = NoCollect]
    /\ AfterCollect(p)
    /\ UNCHANGED storeVars

CollectStep(p) ==
    \/ FetchOk(p)
    \/ FetchFailed(p)
    \/ SaveOne(p)
    \/ SaveFailed(p)
    \/ RecordRun(p)
    \/ EndCollect(p)
=============================================================================
