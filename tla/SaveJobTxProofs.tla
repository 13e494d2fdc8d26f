-------------------------- MODULE SaveJobTxProofs --------------------------
(***************************************************************************)
(* For every number of processes and every set of requests: SaveJob and    *)
(* UpdateStatus over the locks of SQLite are the atomic steps of           *)
(* AtomicSaves.  The argument is the one a lock manager makes: who is past *)
(* its lookup keeps a lock that lets nobody commit, so the table it has    *)
(* read is still the table it writes to.                                   *)
(***************************************************************************)
EXTENDS SaveJobTx, SequenceTheorems, TLAPS

Writer == {"reserved", "pending"}

\* The unique index on dedup_key, as a fact about the table.
OneRowPerKey == \A i, j \in DOMAIN jobs : jobs[i].key = jobs[j].key => i = j

\* rows is the table after the save r, up to its introductions srcs.
IsSaved(rows, r, new, srcs) ==
    \/ /\ new
       /\ JobsWithKey(r.key) = {}
       /\ rows = Append(jobs, [key |-> r.key, content |-> r.content, sources |-> srcs,
                               status |-> "new", score |-> 0])
    \/ /\ ~new
       /\ \E i \in JobsWithKey(r.key) :
              rows = [jobs EXCEPT ![i] = [jobs[i] EXCEPT !.content = r.content,
                                                         !.sources = @ \cup srcs]]

\* A lock belongs to a stage; only the statements of a save have read before.
Locked(s) ==
    /\ lock[s] = "shared" <=> (stage[s] = "write" /\ request[s].kind = "save")
    /\ lock[s] \in Writer <=> stage[s] \in {"sources", "commit"}

Requested(s) ==
    /\ stage[s] = "idle" <=> request[s] = NoRequest
    /\ stage[s] \in {"lookup", "sources"} => request[s].kind = "save"
    /\ created[s] => request[s].kind = "save"

\* What a transaction sees is today's table with its own statements applied.
DraftFollows(s) ==
    /\ stage[s] = "write" /\ request[s].kind = "save" =>
           draft[s] = jobs /\ (created[s] <=> JobsWithKey(request[s].key) = {})
    /\ stage[s] = "sources" => IsSaved(draft[s], request[s], created[s], {})
    /\ stage[s] = "commit" /\ request[s].kind = "save" =>
           IsSaved(draft[s], request[s], created[s], request[s].sources)
    /\ stage[s] = "commit" /\ request[s].kind = "status" =>
           draft[s] = [jobs EXCEPT ![request[s].job].status = "notified"]

OneWriter == \A s, t \in Saver : lock[s] \in Writer /\ lock[t] \in Writer => s = t

Isolated(s) == Locked(s) /\ Requested(s) /\ DraftFollows(s)

TxInv == TypeOK /\ OneRowPerKey /\ OneWriter /\ \A s \in Saver : Isolated(s)
-----------------------------------------------------------------------------
\* Rows and requests.

LEMMA ReplaceRow ==
    ASSUME NEW S, NEW q \in Seq(S), NEW i, NEW e, i \in DOMAIN q => e \in S
    PROVE  [q EXCEPT ![i] = e] \in Seq(S)
<1>1. CASE i \in DOMAIN q
  BY <1>1, ExceptSeq
<1>2. CASE i \notin DOMAIN q
  BY <1>2, [q EXCEPT ![i] = e] = q
<1> QED BY <1>1, <1>2

LEMMA RequestKinds ==
    ASSUME TypeOK, NEW s \in Saver
    PROVE  /\ request[s] = NoRequest \/ request[s].kind \in {"save", "status"}
           /\ request[s].kind = "save" =>
                  /\ request[s].key \in Key /\ request[s].content \in Content
                  /\ request[s].sources \in SUBSET Origin
           /\ request[s].kind = "status" => request[s].job \in Nat
<1>1. request[s] \in Requests \cup {NoRequest}
  BY DEF TypeOK
<1>2. CASE request[s] = NoRequest
  BY <1>2 DEF NoRequest
<1>3. CASE request[s] \in Requests
  <2>1. CASE request[s] \in [kind : {"save"}, key : Key, content : Content,
                             sources : (SUBSET Origin) \ {{}}]
    BY <2>1
  <2>2. CASE request[s] \in [kind : {"status"}, job : Nat]
    BY <2>2
  <2> QED BY <1>3, <2>1, <2>2, RequestsAssumption
<1> QED BY <1>1, <1>2, <1>3

LEMMA RequestIsSome ==
    ASSUME NEW r \in Requests
    PROVE  r # NoRequest /\ r.kind \in {"save", "status"}
<1>1. CASE r \in [kind : {"save"}, key : Key, content : Content, sources : (SUBSET Origin) \ {{}}]
  BY <1>1 DEF NoRequest
<1>2. CASE r \in [kind : {"status"}, job : Nat]
  BY <1>2 DEF NoRequest
<1> QED BY <1>1, <1>2, RequestsAssumption
-----------------------------------------------------------------------------
\* Type correctness.

LEMMA EndType ==
    ASSUME TypeOK, StoreTypeOK', faults' \in 0..MaxFaults, NEW s \in Saver,
           NEW how \in {"created", "updated", "marked", "failed", "busy"}, End(s, how)
    PROVE  TypeOK'
<1>1. <<>> \in Seq(JobRow)
  BY EmptySeq
<1> QED BY <1>1 DEF TypeOK, End, At, Stage, Lock

LEMMA AskType ==
    ASSUME TypeOK, NEW s \in Saver, NEW r \in Requests, Ask(s, r)
    PROVE  TypeOK'
<1>1. StoreTypeOK'
  BY DEF TypeOK, Ask, storeVars, StoreTypeOK
<1>2. asked' \in 0..MaxRequests
  BY BoundsAssumption DEF TypeOK, Ask
<1> QED BY <1>1, <1>2 DEF TypeOK, Ask, At, Stage, Lock

LEMMA LookupType ==
    ASSUME TypeOK, NEW s \in Saver, Lookup(s)
    PROVE  TypeOK'
<1>1. StoreTypeOK'
  BY DEF TypeOK, Lookup, storeVars, StoreTypeOK
<1>2. jobs \in Seq(JobRow)
  BY DEF TypeOK, StoreTypeOK
<1> QED BY <1>1, <1>2 DEF TypeOK, Lookup, At, Stage, Lock

\* A statement that gives the transaction new rows to see.
LEMMA DraftType ==
    ASSUME TypeOK, UNCHANGED <<storeVars, request, result, created, asked, faults>>,
           NEW s \in Saver, NEW st \in Stage, NEW l \in Lock, At(s, st, l),
           NEW rows \in Seq(JobRow), draft' = [draft EXCEPT ![s] = rows]
    PROVE  TypeOK'
<1>1. StoreTypeOK'
  BY DEF TypeOK, storeVars, StoreTypeOK
<1> QED BY <1>1 DEF TypeOK, At

LEMMA WriteJobType ==
    ASSUME TypeOK, NEW s \in Saver, WriteJob(s)
    PROVE  TypeOK'
<1>1. draft[s] \in Seq(JobRow)
  BY DEF TypeOK
<1>2. /\ request[s].key \in Key /\ request[s].content \in Content
  BY RequestKinds DEF WriteJob
<1>3. \E rows \in Seq(JobRow) : draft' = [draft EXCEPT ![s] = rows]
  <2>1. CASE created[s]
    <3>1. NewRow(request[s]) \in JobRow
      BY <1>2 DEF NewRow, JobRow, JobStatus
    <3>2. Append(draft[s], NewRow(request[s])) \in Seq(JobRow)
      BY <1>1, <3>1, AppendProperties
    <3> QED BY <2>1, <3>2 DEF WriteJob, TypeOK
  <2>2. CASE ~created[s]
    <3>1. PICK i \in Target(s) : draft' = [draft EXCEPT ![s][i].content = request[s].content]
      BY <2>2 DEF WriteJob
    <3> DEFINE row == [draft[s][i] EXCEPT !.content = request[s].content]
    <3>2. i \in DOMAIN draft[s] => row \in JobRow
      <4> SUFFICES ASSUME i \in DOMAIN draft[s] PROVE row \in JobRow
        OBVIOUS
      <4>1. draft[s][i] \in JobRow
        BY <1>1, ElementOfSeq
      <4> QED BY <1>2, <4>1 DEF JobRow
    <3>3. draft' = [draft EXCEPT ![s] = [draft[s] EXCEPT ![i] = row]]
      BY <3>1
    <3> HIDE DEF row
    <3> QED BY <1>1, <3>2, <3>3, ReplaceRow
  <2> QED BY <2>1, <2>2
<1> QED BY <1>3, DraftType DEF WriteJob, Stage, Lock

LEMMA InsertSourcesType ==
    ASSUME TypeOK, NEW s \in Saver, InsertSources(s), request[s].kind = "save"
    PROVE  TypeOK'
<1>1. draft[s] \in Seq(JobRow)
  BY DEF TypeOK
<1>2. request[s].sources \in SUBSET Origin
  BY RequestKinds
<1>3. PICK i \in Target(s) :
          draft' = [draft EXCEPT ![s][i].sources = @ \cup request[s].sources]
  BY DEF InsertSources
<1> DEFINE row == [draft[s][i] EXCEPT !.sources = @ \cup request[s].sources]
<1>4. i \in DOMAIN draft[s] => row \in JobRow
  <2> SUFFICES ASSUME i \in DOMAIN draft[s] PROVE row \in JobRow
    OBVIOUS
  <2>1. draft[s][i] \in JobRow
    BY <1>1, ElementOfSeq
  <2> QED BY <1>2, <2>1 DEF JobRow
<1>5. draft' = [draft EXCEPT ![s] = [draft[s] EXCEPT ![i] = row]]
  BY <1>3
<1> HIDE DEF row
<1>6. [draft[s] EXCEPT ![i] = row] \in Seq(JobRow)
  BY <1>1, <1>4, ReplaceRow
<1> QED BY <1>5, <1>6, DraftType DEF InsertSources, Stage, Lock

LEMMA WriteStatusType ==
    ASSUME TypeOK, NEW s \in Saver, WriteStatus(s)
    PROVE  TypeOK'
<1>1. jobs \in Seq(JobRow)
  BY DEF TypeOK, StoreTypeOK
<1> DEFINE i == request[s].job
           row == [jobs[i] EXCEPT !.status = "notified"]
           rows == IF i \in DOMAIN jobs THEN [jobs EXCEPT ![i] = row] ELSE jobs
<1>2. i \in DOMAIN jobs => row \in JobRow
  <2> SUFFICES ASSUME i \in DOMAIN jobs PROVE row \in JobRow
    OBVIOUS
  <2>1. jobs[i] \in JobRow
    BY <1>1, ElementOfSeq
  <2> QED BY <2>1 DEF JobRow, JobStatus
<1>3. draft' = [draft EXCEPT ![s] = rows]
  BY DEF WriteStatus
<1> HIDE DEF row
<1>4. rows \in Seq(JobRow)
  BY <1>1, <1>2, ReplaceRow
<1> HIDE DEF rows
<1> QED BY <1>3, <1>4, DraftType DEF WriteStatus, Stage, Lock

LEMMA StepType ==
    ASSUME TypeOK, NEW s \in Saver, Requested(s),
           (\E r \in Requests : Ask(s, r)) \/ Step(s) \/ Abandon(s)
    PROVE  TypeOK'
<1>1. CASE \E r \in Requests : Ask(s, r)
  BY <1>1, AskType
<1>2. CASE Lookup(s)
  BY <1>2, LookupType
<1>3. CASE WriteJob(s)
  BY <1>3, WriteJobType
<1>4. CASE InsertSources(s)
  BY <1>4, InsertSourcesType DEF InsertSources, Requested
<1>5. CASE WriteStatus(s)
  BY <1>5, WriteStatusType
<1>6. CASE BusyAtOnce(s)
  <2>1. StoreTypeOK' /\ faults' \in 0..MaxFaults
    BY <1>6 DEF TypeOK, BusyAtOnce, storeVars, StoreTypeOK
  <2> QED BY <1>6, <2>1, EndType DEF BusyAtOnce
<1>7. CASE Pend(s)
  BY <1>7 DEF TypeOK, Pend, At, Stage, Lock, storeVars, StoreTypeOK
<1>8. CASE Commit(s)
  <2>1. StoreTypeOK' /\ faults' \in 0..MaxFaults
    BY <1>8 DEF TypeOK, Commit, StoreTypeOK
  <2>2. \E how \in {"created", "updated", "marked"} : End(s, how)
    BY <1>8 DEF Commit
  <2> QED BY <2>1, <2>2, EndType
<1>9. CASE Abandon(s)
  <2>1. StoreTypeOK' /\ faults' \in 0..MaxFaults
    BY <1>9, BoundsAssumption DEF TypeOK, Abandon, storeVars, StoreTypeOK
  <2> QED BY <1>9, <2>1, EndType DEF Abandon
<1> QED BY <1>1, <1>2, <1>3, <1>4, <1>5, <1>6, <1>7, <1>8, <1>9 DEF Step
-----------------------------------------------------------------------------
\* Isolation.

\* A step that leaves the table alone says nothing to the other processes.
LEMMA OthersIsolated ==
    ASSUME TypeOK, NEW s \in Saver, NEW t \in Saver, t # s, Isolated(t), jobs' = jobs,
           /\ request'[t] = request[t] /\ stage'[t] = stage[t] /\ lock'[t] = lock[t]
           /\ draft'[t] = draft[t] /\ created'[t] = created[t]
    PROVE  Isolated(t)'
<1>1. Locked(t)' /\ Requested(t)'
  BY DEF Isolated, Locked, Requested, Writer
<1>2. IsSaved(draft[t], request[t], created[t], {}) => IsSaved(draft[t], request[t], created[t], {})'
  BY DEF IsSaved, JobsWithKey
<1>3. IsSaved(draft[t], request[t], created[t], request[t].sources)
        => IsSaved(draft[t], request[t], created[t], request[t].sources)'
  BY DEF IsSaved, JobsWithKey
<1>4. JobsWithKey(request[t].key)' = JobsWithKey(request[t].key)
  BY DEF JobsWithKey
<1>5. DraftFollows(t)'
  BY <1>2, <1>3, <1>4 DEF Isolated, DraftFollows
<1> QED BY <1>1, <1>5 DEF Isolated

\* A process without a lock on the file has seen nothing of the table.
LEMMA UnlockedIsolated ==
    ASSUME NEW t \in Saver, Isolated(t), lock[t] = "none",
           /\ request'[t] = request[t] /\ stage'[t] = stage[t] /\ lock'[t] = lock[t]
           /\ created'[t] = created[t]
    PROVE  Isolated(t)'
BY DEF Isolated, Locked, Requested, DraftFollows, Writer

LEMMA EndIsolated ==
    ASSUME TypeOK, NEW s \in Saver, NEW how, End(s, how)
    PROVE  /\ Isolated(s)'
           /\ lock'[s] = "none"
           /\ \A t \in Saver : t # s =>
                  /\ request'[t] = request[t] /\ stage'[t] = stage[t] /\ lock'[t] = lock[t]
                  /\ draft'[t] = draft[t] /\ created'[t] = created[t]
BY DEF End, At, TypeOK, Isolated, Locked, Requested, DraftFollows, NoRequest, Writer

LEMMA AskIsolated ==
    ASSUME TypeOK, NEW s \in Saver, Isolated(s), NEW r \in Requests, Ask(s, r)
    PROVE  Isolated(s)' /\ lock'[s] \notin Writer
<1>1. r # NoRequest /\ r.kind \in {"save", "status"}
  BY RequestIsSome
<1>2. ~created[s]
  BY DEF Isolated, Requested, Ask, NoRequest
<1>3. /\ request'[s] = r /\ created'[s] = created[s] /\ lock'[s] = "none"
      /\ stage'[s] = IF r.kind = "save" THEN "lookup" ELSE "write"
  BY DEF Ask, At, TypeOK
<1> QED BY <1>1, <1>2, <1>3 DEF Isolated, Locked, Requested, DraftFollows, Writer

LEMMA LookupIsolated ==
    ASSUME TypeOK, NEW s \in Saver, Isolated(s), Lookup(s)
    PROVE  Isolated(s)' /\ lock'[s] \notin Writer
BY DEF Lookup, At, TypeOK, Isolated, Locked, Requested, DraftFollows, Writer, JobsWithKey,
       storeVars, NoRequest

\* The row the transaction has written is the only one it aims at.
LEMMA TargetOfInsert ==
    ASSUME TypeOK, NEW s \in Saver, request[s].kind = "save", NEW srcs,
           JobsWithKey(request[s].key) = {},
           draft[s] = Append(jobs, [key |-> request[s].key, content |-> request[s].content,
                                    sources |-> srcs, status |-> "new", score |-> 0])
    PROVE  Target(s) = {Len(jobs) + 1}
<1>1. jobs \in Seq(JobRow)
  BY DEF TypeOK, StoreTypeOK
<1>2. DOMAIN draft[s] = 1..(Len(jobs) + 1) /\ DOMAIN jobs = 1..Len(jobs) /\ Len(jobs) \in Nat
  BY <1>1
<1>3. draft[s][Len(jobs) + 1].key = request[s].key
  BY <1>1
<1>4. \A i \in 1..Len(jobs) : draft[s][i].key # request[s].key
  BY <1>1 DEF JobsWithKey
<1> QED BY <1>2, <1>3, <1>4 DEF Target

LEMMA TargetOfUpdate ==
    ASSUME TypeOK, OneRowPerKey, NEW s \in Saver, request[s].kind = "save",
           NEW i \in JobsWithKey(request[s].key), NEW row, row.key = request[s].key,
           draft[s] = [jobs EXCEPT ![i] = row]
    PROVE  Target(s) = {i}
<1>1. jobs \in Seq(JobRow) /\ i \in DOMAIN jobs /\ jobs[i].key = request[s].key
  BY DEF TypeOK, StoreTypeOK, JobsWithKey
<1>2. DOMAIN draft[s] = DOMAIN jobs /\ draft[s][i] = row
  BY <1>1
<1>3. \A j \in DOMAIN jobs : j # i => draft[s][j] = jobs[j]
  BY <1>1
<1> QED BY <1>1, <1>2, <1>3 DEF Target, OneRowPerKey

LEMMA ReplaceLast ==
    ASSUME NEW S, NEW q \in Seq(S), NEW old \in S, NEW new \in S
    PROVE  [Append(q, old) EXCEPT ![Len(q) + 1] = new] = Append(q, new)
<1> DEFINE a == [Append(q, old) EXCEPT ![Len(q) + 1] = new]
           b == Append(q, new)
<1>1. /\ Len(q) \in Nat /\ Append(q, old) \in Seq(S) /\ Len(Append(q, old)) = Len(q) + 1
      /\ Len(q) + 1 \in DOMAIN Append(q, old)
  BY AppendProperties
<1>2. a \in Seq(S) /\ Len(a) = Len(q) + 1
  BY <1>1, ExceptSeq
<1>3. b \in Seq(S) /\ Len(b) = Len(q) + 1
  BY AppendProperties
<1>4. \A i \in 1..Len(a) : a[i] = b[i]
  <2>1. \A i \in 1..(Len(q) + 1) : a[i] = IF i = Len(q) + 1 THEN new ELSE Append(q, old)[i]
    <3> DEFINE c == Append(q, old)
    <3>1. DOMAIN c = 1..(Len(q) + 1) /\ a = [c EXCEPT ![Len(q) + 1] = new]
      BY <1>1
    <3> HIDE DEF a, c
    <3>2. \A i \in 1..(Len(q) + 1) : a[i] = IF i = Len(q) + 1 THEN new ELSE c[i]
      BY <3>1
    <3> QED BY <3>2 DEF c
  <2>2. \A i \in 1..Len(q) : Append(q, old)[i] = q[i] /\ b[i] = q[i]
    BY AppendProperties
  <2>3. b[Len(q) + 1] = new
    BY AppendProperties
  <2> HIDE DEF a, b
  <2> QED BY <1>1, <1>2, <2>1, <2>2, <2>3
<1> HIDE DEF a, b
<1>5. a = b
  BY <1>2, <1>3, <1>4, SeqEqual
<1> QED BY <1>5 DEF a, b

LEMMA WriteJobIsolated ==
    ASSUME TypeOK, OneRowPerKey, NEW s \in Saver, Isolated(s), WriteJob(s)
    PROVE  Isolated(s)'
<1>1. /\ request'[s] = request[s] /\ created'[s] = created[s] /\ jobs' = jobs
      /\ stage'[s] = "sources" /\ lock'[s] = "reserved" /\ request[s].kind = "save"
  BY DEF WriteJob, At, TypeOK, storeVars
<1>2. /\ draft[s] = jobs /\ (created[s] <=> JobsWithKey(request[s].key) = {})
  BY DEF WriteJob, Isolated, DraftFollows
<1>3. IsSaved(draft'[s], request[s], created[s], {})
  <2>1. CASE created[s]
    <3>1. draft' = [draft EXCEPT ![s] = Append(draft[s], NewRow(request[s]))]
      BY <2>1 DEF WriteJob
    <3>2. draft'[s] = Append(jobs, NewRow(request[s]))
      BY <1>2, <3>1 DEF TypeOK
    <3> QED BY <1>2, <2>1, <3>2 DEF IsSaved, NewRow
  <2>2. CASE ~created[s]
    <3>1. PICK i \in Target(s) : draft' = [draft EXCEPT ![s][i].content = request[s].content]
      BY <2>2 DEF WriteJob
    <3>2. i \in JobsWithKey(request[s].key)
      BY <1>1, <1>2, <3>1 DEF Target, JobsWithKey
    <3>3. jobs[i] \in JobRow
      BY <3>2, ElementOfSeq DEF JobsWithKey, TypeOK, StoreTypeOK
    <3>4. [jobs[i] EXCEPT !.content = request[s].content]
            = [jobs[i] EXCEPT !.content = request[s].content, !.sources = @ \cup {}]
      BY <3>3 DEF JobRow
    <3>5. draft'[s] = [jobs EXCEPT ![i] = [jobs[i] EXCEPT !.content = request[s].content]]
      BY <1>2, <3>1 DEF TypeOK
    <3>6. draft'[s] = [jobs EXCEPT ![i] = [jobs[i] EXCEPT !.content = request[s].content,
                                                          !.sources = @ \cup {}]]
      BY <3>4, <3>5
    <3> QED BY <2>2, <3>2, <3>6 DEF IsSaved
  <2> QED BY <2>1, <2>2
<1>4. IsSaved(draft[s], request[s], created[s], {})'
  <2>1. JobsWithKey(request[s].key)' = JobsWithKey(request[s].key)
    BY <1>1 DEF JobsWithKey
  <2> QED BY <1>1, <1>3, <2>1 DEF IsSaved
<1> QED BY <1>1, <1>4 DEF Isolated, Locked, Requested, DraftFollows, Writer, NoRequest

LEMMA InsertSourcesIsolated ==
    ASSUME TypeOK, OneRowPerKey, NEW s \in Saver, Isolated(s), InsertSources(s)
    PROVE  Isolated(s)'
<1>1. /\ request'[s] = request[s] /\ created'[s] = created[s] /\ jobs' = jobs
      /\ stage'[s] = "commit" /\ lock'[s] = "reserved" /\ request[s].kind = "save"
  BY DEF InsertSources, At, TypeOK, storeVars, Isolated, Requested
<1> DEFINE r == request[s]
           srcs == request[s].sources
<1>2. IsSaved(draft[s], r, created[s], {})
  BY DEF InsertSources, Isolated, DraftFollows
<1>3. PICK i \in Target(s) : draft' = [draft EXCEPT ![s][i].sources = @ \cup srcs]
  BY DEF InsertSources
<1>4. draft'[s] = [draft[s] EXCEPT ![i] = [draft[s][i] EXCEPT !.sources = @ \cup srcs]]
  BY <1>3 DEF TypeOK
<1>5. jobs \in Seq(JobRow)
  BY DEF TypeOK, StoreTypeOK
<1>6. IsSaved(draft'[s], r, created[s], srcs)
  <2>1. CASE created[s]
    <3>1. /\ JobsWithKey(r.key) = {}
          /\ draft[s] = Append(jobs, [key |-> r.key, content |-> r.content, sources |-> {},
                                      status |-> "new", score |-> 0])
      BY <1>2, <2>1 DEF IsSaved
    <3>2. i = Len(jobs) + 1
      BY <1>1, <1>3, <3>1, TargetOfInsert
    <3>3. draft[s][i] = [key |-> r.key, content |-> r.content, sources |-> {},
                         status |-> "new", score |-> 0]
      BY <1>5, <3>1, <3>2
    <3>4. [draft[s][i] EXCEPT !.sources = @ \cup srcs]
            = [key |-> r.key, content |-> r.content, sources |-> srcs,
               status |-> "new", score |-> 0]
      BY <3>3
    <3> DEFINE old == [key |-> r.key, content |-> r.content, sources |-> {},
                       status |-> "new", score |-> 0]
               row == [key |-> r.key, content |-> r.content, sources |-> srcs,
                       status |-> "new", score |-> 0]
    <3>5. draft'[s] = [Append(jobs, old) EXCEPT ![Len(jobs) + 1] = row]
      BY <1>4, <3>1, <3>2, <3>4
    <3>6. old \in JobRow /\ row \in JobRow
      BY <1>1, RequestKinds DEF JobRow, JobStatus
    <3> HIDE DEF old, row
    <3>7. [Append(jobs, old) EXCEPT ![Len(jobs) + 1] = row] = Append(jobs, row)
      BY <1>5, <3>6, ReplaceLast
    <3> USE DEF row
    <3> QED BY <2>1, <3>1, <3>5, <3>7 DEF IsSaved
  <2>2. CASE ~created[s]
    <3>1. PICK j \in JobsWithKey(r.key) :
              draft[s] = [jobs EXCEPT ![j] = [jobs[j] EXCEPT !.content = r.content,
                                                             !.sources = @ \cup {}]]
      BY <1>2, <2>2 DEF IsSaved
    <3>2. j \in DOMAIN jobs /\ jobs[j].key = r.key
      BY DEF JobsWithKey
    <3>3. jobs[j] \in JobRow
      BY <1>5, <3>2, ElementOfSeq
    <3>4. i = j
      <4> DEFINE half == [jobs[j] EXCEPT !.content = r.content, !.sources = @ \cup {}]
      <4>1. half.key = r.key
        BY <3>2, <3>3 DEF JobRow
      <4>2. draft[s] = [jobs EXCEPT ![j] = half]
        BY <3>1
      <4> HIDE DEF half
      <4> QED BY <1>1, <1>3, <4>1, <4>2, TargetOfUpdate
    <3>5. draft[s][j] = [jobs[j] EXCEPT !.content = r.content, !.sources = @ \cup {}]
      BY <3>1, <3>2
    <3>6. [draft[s][j] EXCEPT !.sources = @ \cup srcs]
            = [jobs[j] EXCEPT !.content = r.content, !.sources = @ \cup srcs]
      BY <3>3, <3>5 DEF JobRow
    <3> DEFINE half == [jobs[j] EXCEPT !.content = r.content, !.sources = @ \cup {}]
               row == [jobs[j] EXCEPT !.content = r.content, !.sources = @ \cup srcs]
    <3>7. draft'[s] = [[jobs EXCEPT ![j] = half] EXCEPT ![j] = row]
      BY <1>4, <3>1, <3>4, <3>6
    <3> HIDE DEF half, row
    <3>8. draft'[s] = [jobs EXCEPT ![j] = row]
      BY <3>2, <3>7
    <3> USE DEF row
    <3> QED BY <2>2, <3>8 DEF IsSaved
  <2> QED BY <2>1, <2>2
<1>7. IsSaved(draft[s], request[s], created[s], request[s].sources)'
  <2>1. JobsWithKey(request[s].key)' = JobsWithKey(request[s].key)
    BY <1>1 DEF JobsWithKey
  <2> QED BY <1>1, <1>6, <2>1 DEF IsSaved
<1> QED BY <1>1, <1>7 DEF Isolated, Locked, Requested, DraftFollows, Writer, NoRequest

LEMMA WriteStatusIsolated ==
    ASSUME TypeOK, NEW s \in Saver, Isolated(s), WriteStatus(s)
    PROVE  Isolated(s)'
<1>1. /\ request'[s] = request[s] /\ created'[s] = created[s] /\ jobs' = jobs
      /\ stage'[s] = "commit" /\ lock'[s] = "reserved" /\ request[s].kind = "status"
  BY DEF WriteStatus, At, TypeOK, storeVars
<1> DEFINE i == request[s].job
           row == [jobs[i] EXCEPT !.status = "notified"]
<1>2. draft'[s] = IF i \in DOMAIN jobs THEN [jobs EXCEPT ![i] = row] ELSE jobs
  BY DEF WriteStatus, TypeOK
<1>3. i \notin DOMAIN jobs => [jobs EXCEPT ![i] = row] = jobs
  BY DEF TypeOK, StoreTypeOK
<1>4. draft'[s] = [jobs EXCEPT ![i] = row]
  BY <1>2, <1>3
<1>5. draft'[s] = [jobs' EXCEPT ![request'[s].job].status = "notified"]
  BY <1>1, <1>4
<1> QED BY <1>1, <1>5 DEF Isolated, Locked, Requested, DraftFollows, Writer, NoRequest

LEMMA PendIsolated ==
    ASSUME TypeOK, NEW s \in Saver, Isolated(s), Pend(s)
    PROVE  Isolated(s)'
<1>1. /\ request'[s] = request[s] /\ created'[s] = created[s] /\ jobs' = jobs
      /\ draft'[s] = draft[s] /\ stage[s] = "commit"
      /\ stage'[s] = "commit" /\ lock'[s] = "pending" /\ lock[s] \in Writer
  BY DEF Pend, At, TypeOK, storeVars, Writer
<1>2. IsSaved(draft[s], request[s], created[s], request[s].sources)
        => IsSaved(draft[s], request[s], created[s], request[s].sources)'
  <2>1. JobsWithKey(request[s].key)' = JobsWithKey(request[s].key)
    BY <1>1 DEF JobsWithKey
  <2> QED BY <1>1, <2>1 DEF IsSaved
<1> QED BY <1>1, <1>2 DEF Isolated, Locked, Requested, DraftFollows, Writer, NoRequest
-----------------------------------------------------------------------------
\* Every other process keeps what it has, when a step of s leaves the table alone.
LEMMA QuietStep ==
    ASSUME TxInv, NEW s \in Saver, TypeOK', jobs' = jobs, Isolated(s)',
           \A t \in Saver : t # s =>
               /\ request'[t] = request[t] /\ stage'[t] = stage[t] /\ lock'[t] = lock[t]
               /\ draft'[t] = draft[t] /\ created'[t] = created[t],
           lock'[s] \in Writer => lock[s] \in Writer \/ NoOtherWriter(s)
    PROVE  TxInv'
<1>1. \A t \in Saver : Isolated(t)'
  BY OthersIsolated DEF TxInv
<1>2. OneRowPerKey'
  BY DEF TxInv, OneRowPerKey
<1>3. OneWriter'
  BY DEF TxInv, OneWriter, NoOtherWriter, Others, Writer
<1> QED BY <1>1, <1>2, <1>3 DEF TxInv

\* The committed table: the row of the request is there once, with every other
\* row as it was.
LEMMA CommittedKeys ==
    ASSUME TxInv, NEW s \in Saver, Commit(s)
    PROVE  OneRowPerKey'
<1>1. jobs \in Seq(JobRow) /\ OneRowPerKey /\ Isolated(s) /\ jobs' = draft[s]
  BY DEF TxInv, TypeOK, StoreTypeOK, Commit
<1>2. stage[s] = "commit" /\ request[s].kind \in {"save", "status"}
  BY <1>1, RequestKinds DEF Commit, TxInv, Isolated, Requested
<1> DEFINE r == request[s]
<1>3. CASE r.kind = "save" /\ created[s]
  <2>1. /\ JobsWithKey(r.key) = {}
        /\ draft[s] = Append(jobs, [key |-> r.key, content |-> r.content,
                                    sources |-> r.sources, status |-> "new", score |-> 0])
    BY <1>1, <1>2, <1>3 DEF Isolated, DraftFollows, IsSaved
  <2> DEFINE row == [key |-> r.key, content |-> r.content, sources |-> r.sources,
                     status |-> "new", score |-> 0]
  <2>2. row.key = r.key
    OBVIOUS
  <2>3. jobs' = Append(jobs, row)
    BY <1>1, <2>1
  <2> HIDE DEF row
  <2>4. /\ Len(jobs) \in Nat /\ DOMAIN jobs = 1..Len(jobs)
        /\ DOMAIN jobs' = 1..(Len(jobs) + 1)
        /\ \A i \in 1..Len(jobs) : jobs'[i] = jobs[i]
        /\ jobs'[Len(jobs) + 1] = row
    BY <1>1, <2>3
  <2> QED BY <1>1, <2>1, <2>2, <2>4 DEF OneRowPerKey, JobsWithKey
<1>4. CASE r.kind = "save" /\ ~created[s]
  <2>1. PICK i \in JobsWithKey(r.key) :
            draft[s] = [jobs EXCEPT ![i] = [jobs[i] EXCEPT !.content = r.content,
                                                           !.sources = @ \cup r.sources]]
    BY <1>1, <1>2, <1>4 DEF Isolated, DraftFollows, IsSaved
  <2>2. i \in DOMAIN jobs /\ jobs[i] \in JobRow
    BY <1>1, ElementOfSeq DEF JobsWithKey
  <2>3. DOMAIN jobs' = DOMAIN jobs /\ \A j \in DOMAIN jobs : jobs'[j].key = jobs[j].key
    BY <1>1, <2>1, <2>2 DEF JobRow
  <2> QED BY <1>1, <2>3 DEF OneRowPerKey
<1>5. CASE r.kind = "status"
  <2>1. draft[s] = [jobs EXCEPT ![r.job] = [jobs[r.job] EXCEPT !.status = "notified"]]
    BY <1>1, <1>2, <1>5 DEF Isolated, DraftFollows
  <2>2. \A j \in DOMAIN jobs : jobs[j] \in JobRow
    BY <1>1, ElementOfSeq
  <2>3. DOMAIN jobs' = DOMAIN jobs /\ \A j \in DOMAIN jobs : jobs'[j].key = jobs[j].key
    BY <1>1, <2>1, <2>2 DEF JobRow
  <2> QED BY <1>1, <2>3 DEF OneRowPerKey
<1> QED BY <1>2, <1>3, <1>4, <1>5

\* Nobody who has read the table is there when it changes.
LEMMA CommitKeeps ==
    ASSUME TxInv, NEW s \in Saver, TypeOK', Commit(s)
    PROVE  TxInv'
<1>1. PICK how : End(s, how)
  BY DEF Commit
<1>2. /\ Isolated(s)' /\ lock'[s] = "none"
      /\ \A t \in Saver : t # s =>
             /\ request'[t] = request[t] /\ stage'[t] = stage[t] /\ lock'[t] = lock[t]
             /\ created'[t] = created[t]
  BY <1>1, EndIsolated DEF TxInv
<1>3. \A t \in Saver : t # s => lock[t] = "none"
  BY DEF Commit, Alone, Others
<1>4. \A t \in Saver : Isolated(t)'
  BY <1>2, <1>3, UnlockedIsolated DEF TxInv
<1>5. OneWriter'
  BY <1>2, <1>3 DEF OneWriter, Writer
<1> QED BY <1>4, <1>5, CommittedKeys DEF TxInv

LEMMA InitTx == Init => TxInv
<1> SUFFICES ASSUME Init PROVE TxInv
  OBVIOUS
<1>1. <<>> \in Seq(JobRow) /\ <<>> \in Seq(NotificationRow) /\ <<>> \in Seq(RunRow)
  BY EmptySeq
<1>2. TypeOK
  BY <1>1, BoundsAssumption DEF Init, StoreInit, TypeOK, StoreTypeOK, Stage, Lock
<1>3. OneRowPerKey
  BY DEF Init, StoreInit, OneRowPerKey
<1>4. OneWriter
  BY DEF Init, OneWriter, Writer
<1>5. \A s \in Saver : Isolated(s)
  BY DEF Init, Isolated, Locked, Requested, DraftFollows, NoRequest, Writer
<1> QED BY <1>2, <1>3, <1>4, <1>5 DEF TxInv

LEMMA StepTx ==
    ASSUME TxInv, NEW s \in Saver, (\E r \in Requests : Ask(s, r)) \/ Step(s) \/ Abandon(s)
    PROVE  TxInv'
<1>1. TypeOK /\ OneRowPerKey /\ Isolated(s) /\ Requested(s)
  BY DEF TxInv, Isolated
<1>2. TypeOK'
  BY <1>1, StepType
<1>3. CASE \E r \in Requests : Ask(s, r)
  <2>1. /\ Isolated(s)' /\ lock'[s] \notin Writer /\ jobs' = jobs
    BY <1>1, <1>3, AskIsolated DEF Ask, storeVars
  <2> QED BY <1>2, <1>3, <2>1, QuietStep DEF Ask, At, TxInv, TypeOK
<1>4. CASE Lookup(s)
  <2>1. /\ Isolated(s)' /\ lock'[s] \notin Writer /\ jobs' = jobs
    BY <1>1, <1>4, LookupIsolated DEF Lookup, storeVars
  <2> QED BY <1>2, <1>4, <2>1, QuietStep DEF Lookup, At, TxInv, TypeOK
<1>5. CASE WriteJob(s)
  <2>1. Isolated(s)' /\ jobs' = jobs /\ NoOtherWriter(s)
    BY <1>1, <1>5, WriteJobIsolated DEF WriteJob, storeVars
  <2>2. \E rows : draft' = [draft EXCEPT ![s] = rows]
    BY <1>5 DEF WriteJob
  <2> QED BY <1>2, <1>5, <2>1, <2>2, QuietStep DEF WriteJob, At, TxInv, TypeOK
<1>6. CASE InsertSources(s)
  <2>1. Isolated(s)' /\ jobs' = jobs /\ lock[s] \in Writer
    BY <1>1, <1>6, InsertSourcesIsolated DEF InsertSources, storeVars, Isolated, Locked
  <2>2. \E rows : draft' = [draft EXCEPT ![s] = rows]
    BY <1>6 DEF InsertSources
  <2> QED BY <1>2, <1>6, <2>1, <2>2, QuietStep DEF InsertSources, At, TxInv, TypeOK
<1>7. CASE WriteStatus(s)
  <2>1. Isolated(s)' /\ jobs' = jobs /\ NoOtherWriter(s)
    BY <1>1, <1>7, WriteStatusIsolated DEF WriteStatus, storeVars
  <2>2. \E rows : draft' = [draft EXCEPT ![s] = rows]
    BY <1>7 DEF WriteStatus
  <2> QED BY <1>2, <1>7, <2>1, <2>2, QuietStep DEF WriteStatus, At, TxInv, TypeOK
<1>8. CASE BusyAtOnce(s) \/ Abandon(s)
  <2>1. (\E how : End(s, how)) /\ jobs' = jobs
    BY <1>8 DEF BusyAtOnce, Abandon, storeVars
  <2>2. /\ Isolated(s)' /\ lock'[s] \notin Writer
        /\ \A t \in Saver : t # s =>
               /\ request'[t] = request[t] /\ stage'[t] = stage[t] /\ lock'[t] = lock[t]
               /\ draft'[t] = draft[t] /\ created'[t] = created[t]
    BY <1>1, <2>1, EndIsolated DEF Writer
  <2> QED BY <1>2, <2>1, <2>2, QuietStep
<1>9. CASE Pend(s)
  <2>1. Isolated(s)' /\ jobs' = jobs /\ lock[s] \in Writer
    BY <1>1, <1>9, PendIsolated DEF Pend, storeVars, Writer
  <2> QED BY <1>2, <1>9, <2>1, QuietStep DEF Pend, At, TxInv, TypeOK
<1>10. CASE Commit(s)
  BY <1>2, <1>10, CommitKeeps
<1> QED BY <1>3, <1>4, <1>5, <1>6, <1>7, <1>8, <1>9, <1>10 DEF Step

LEMMA NextTx == TxInv /\ [Next]_vars => TxInv'
<1> SUFFICES ASSUME TxInv, [Next]_vars PROVE TxInv'
  OBVIOUS
<1>1. CASE Next
  BY <1>1, StepTx DEF Next
<1>2. CASE UNCHANGED vars
  <2>1. UNCHANGED <<jobs, notifications, runs, request, result, stage, lock, draft, created,
                    asked, faults>>
    BY <1>2 DEF vars, storeVars, txVars
  <2>2. TypeOK' /\ OneRowPerKey' /\ OneWriter'
    BY <2>1 DEF TxInv, TypeOK, StoreTypeOK, OneRowPerKey, OneWriter
  <2>3. \A s \in Saver : Isolated(s)'
    <3> SUFFICES ASSUME NEW s \in Saver PROVE Isolated(s)'
      OBVIOUS
    <3>1. Isolated(s)
      BY DEF TxInv
    <3> QED BY <2>1, <3>1 DEF Isolated, Locked, Requested, DraftFollows, IsSaved, JobsWithKey
  <2> QED BY <2>2, <2>3 DEF TxInv
<1> QED BY <1>1, <1>2

LEMMA TxAlways == Spec => []TxInv
BY InitTx, NextTx, PTL DEF Spec

\* Every variable keeps its type: a transaction's view of the table is a table
\* of well-formed rows at each of its statements (repository.go:60).
THEOREM TypeCorrect == Spec => []TypeOK
<1>1. TxInv => TypeOK
  BY DEF TxInv
<1> QED BY <1>1, TxAlways, PTL

LEMMA CurrentDraft == TxInv => DraftIsCurrent
<1> SUFFICES ASSUME TxInv, NEW s \in Saver, lock[s] \in {"reserved", "pending"}
             PROVE  /\ Len(draft[s]) = Len(jobs) + (IF created[s] THEN 1 ELSE 0)
                    /\ OthersKept(s)
  BY DEF DraftIsCurrent
<1>1. /\ TypeOK /\ OneRowPerKey /\ Isolated(s) /\ jobs \in Seq(JobRow)
  BY DEF TxInv, TypeOK, StoreTypeOK
<1>2. stage[s] \in {"sources", "commit"} /\ request[s].kind \in {"save", "status"}
  BY <1>1, RequestKinds DEF Isolated, Locked, Requested, Writer
<1> DEFINE r == request[s]
<1>3. CASE r.kind = "save"
  <2>1. \E srcs : IsSaved(draft[s], r, created[s], srcs)
    BY <1>1, <1>2, <1>3 DEF Isolated, DraftFollows
  <2>2. CASE created[s]
    <3>1. PICK srcs : /\ JobsWithKey(r.key) = {}
                      /\ draft[s] = Append(jobs, [key |-> r.key, content |-> r.content,
                                     sources |-> srcs, status |-> "new", score |-> 0])
      BY <2>1, <2>2 DEF IsSaved
    <3>2. Target(s) = {Len(jobs) + 1}
      BY <1>1, <1>3, <3>1, TargetOfInsert
    <3> QED BY <1>1, <2>2, <3>1, <3>2 DEF OthersKept
  <2>3. CASE ~created[s]
    <3>0. PICK srcs : IsSaved(draft[s], r, created[s], srcs)
      BY <2>1
    <3>1. PICK i \in JobsWithKey(r.key) :
              draft[s] = [jobs EXCEPT ![i] = [jobs[i] EXCEPT !.content = r.content,
                                                             !.sources = @ \cup srcs]]
      BY <2>3, <3>0 DEF IsSaved
    <3> DEFINE row == [jobs[i] EXCEPT !.content = r.content, !.sources = @ \cup srcs]
    <3>2. i \in DOMAIN jobs /\ jobs[i] \in JobRow /\ jobs[i].key = r.key
      BY <1>1, ElementOfSeq DEF JobsWithKey
    <3>3. row.key = r.key
      BY <3>2 DEF JobRow
    <3>4. draft[s] = [jobs EXCEPT ![i] = row]
      BY <3>1
    <3> HIDE DEF row
    <3>5. Target(s) = {i}
      BY <1>1, <1>3, <3>3, <3>4, TargetOfUpdate
    <3> QED BY <1>1, <2>3, <3>2, <3>4, <3>5 DEF OthersKept
  <2> QED BY <2>2, <2>3
<1>4. CASE r.kind = "status"
  <2>1. draft[s] = [jobs EXCEPT ![r.job] = [jobs[r.job] EXCEPT !.status = "notified"]]
    BY <1>1, <1>2, <1>4 DEF Isolated, DraftFollows, Requested
  <2>2. Target(s) = {r.job} /\ ~created[s]
    BY <1>1, <1>4 DEF Target, Isolated, Requested
  <2> QED BY <1>1, <2>1, <2>2 DEF OthersKept
<1> QED BY <1>2, <1>3, <1>4

\* What a writer is about to commit is the committed table with its own request
\* applied: no other process's row is overwritten with an older one, and an
\* insertion never meets a row with its key (repository.go:60-105).
THEOREM DraftsAreCurrent == Spec => []DraftIsCurrent
BY CurrentDraft, TxAlways, PTL
-----------------------------------------------------------------------------
\* Refinement: the commit is the atomic step, the rest is invisible.

LEMMA CommitIsAtomic ==
    ASSUME TxInv, NEW s \in Saver, Commit(s)
    PROVE  Atomic!Save(s) \/ Atomic!Mark(s)
<1>1. /\ TypeOK /\ Isolated(s) /\ jobs' = draft[s] /\ UNCHANGED <<notifications, runs>>
      /\ stage[s] = "commit" /\ request[s].kind \in {"save", "status"}
  BY RequestKinds DEF TxInv, Commit, Isolated, Requested
<1> DEFINE r == request[s]
<1>2. CASE r.kind = "status"
  <2>1. End(s, "marked")
    BY <1>2 DEF Commit
  <2>2. Atomic!Answer(s, "marked")
    BY <1>1, <2>1 DEF End, Atomic!Answer, NoRequest, Atomic!NoRequest
  <2>3. Atomic!UpdateStatus(r.job, "notified")
    BY <1>1, <1>2 DEF Isolated, DraftFollows, Atomic!UpdateStatus
  <2> QED BY <1>2, <2>2, <2>3 DEF Atomic!Mark
<1>3. CASE r.kind = "save"
  <2> DEFINE how == IF created[s] THEN "created" ELSE "updated"
  <2>1. End(s, how)
    BY <1>3 DEF Commit
  <2>2. Atomic!Answer(s, how)
    BY <1>1, <2>1 DEF End, Atomic!Answer, NoRequest, Atomic!NoRequest
  <2>3. IsSaved(jobs', r, created[s], r.sources)
    BY <1>1, <1>3 DEF Isolated, DraftFollows
  <2>4. created[s] <=> JobsWithKey(r.key) = {}
    BY <2>3 DEF IsSaved
  <2>5. Atomic!SaveJob(r.key, r.content, r.sources)
    <3>1. CASE created[s]
      BY <2>3, <3>1 DEF IsSaved, JobsWithKey, Atomic!SaveJob, Atomic!JobsWithKey,
                        Atomic!InsertJob
    <3>2. CASE ~created[s]
      BY <2>3, <3>2 DEF IsSaved, JobsWithKey, Atomic!SaveJob, Atomic!JobsWithKey,
                        Atomic!UpdateJob
    <3> QED BY <3>1, <3>2
  <2>6. how = IF Atomic!JobsWithKey(r.key) = {} THEN "created" ELSE "updated"
    BY <2>4 DEF JobsWithKey, Atomic!JobsWithKey
  <2> HIDE DEF how
  <2> QED BY <1>3, <2>2, <2>5, <2>6 DEF Atomic!Save
<1> QED BY <1>1, <1>2, <1>3

LEMMA StepIsAtomic ==
    ASSUME TxInv, NEW s \in Saver, (\E r \in Requests : Ask(s, r)) \/ Step(s) \/ Abandon(s)
    PROVE  Atomic!Next \/ UNCHANGED <<jobs, notifications, runs, request, result>>
<1>1. CASE \E r \in Requests : Ask(s, r)
  <2>1. PICK r \in Requests : Ask(s, r)
    BY <1>1
  <2>2. request[s] = NoRequest
    BY <2>1 DEF TxInv, Isolated, Requested, Ask
  <2>3. Atomic!Ask(s, r)
    BY <2>1, <2>2 DEF Ask, Atomic!Ask, storeVars, Atomic!storeVars, NoRequest, Atomic!NoRequest
  <2> QED BY <2>3 DEF Atomic!Next
<1>2. CASE Lookup(s) \/ WriteJob(s) \/ InsertSources(s) \/ WriteStatus(s) \/ Pend(s)
  BY <1>2 DEF Lookup, WriteJob, InsertSources, WriteStatus, Pend, storeVars
<1>3. CASE BusyAtOnce(s) \/ Abandon(s)
  <2>1. stage[s] # "idle" /\ UNCHANGED storeVars /\ (End(s, "busy") \/ End(s, "failed"))
    BY <1>3 DEF BusyAtOnce, Abandon
  <2>2. request[s] # NoRequest
    BY <2>1 DEF TxInv, Isolated, Requested
  <2>3. Atomic!Fail(s)
    BY <2>1, <2>2 DEF End, Atomic!Fail, Atomic!Answer, storeVars, NoRequest, Atomic!NoRequest
  <2> QED BY <2>3 DEF Atomic!Next
<1>4. CASE Commit(s)
  BY <1>4, CommitIsAtomic DEF Atomic!Next
<1> QED BY <1>1, <1>2, <1>3, <1>4 DEF Step

LEMMA InitIsAtomic == Init => Atomic!Init
BY DEF Init, Atomic!Init, StoreInit, Atomic!StoreInit, NoRequest, Atomic!NoRequest

LEMMA NextIsAtomic ==
    TxInv /\ [Next]_vars => [Atomic!Next]_<<Atomic!storeVars, request, result>>
<1> SUFFICES ASSUME TxInv, [Next]_vars
             PROVE  [Atomic!Next]_<<Atomic!storeVars, request, result>>
  OBVIOUS
<1>1. CASE Next
  BY <1>1, StepIsAtomic DEF Next, Atomic!storeVars
<1>2. CASE UNCHANGED vars
  BY <1>2 DEF vars, storeVars, Atomic!storeVars
<1> QED BY <1>1, <1>2

\* The promise of port.JobRepository: however the statements of several
\* processes interleave, whoever is cancelled or told SQLITE_BUSY, every save
\* and every status update takes effect as a whole in one step, or not at all.
THEOREM SavesAreAtomic == Spec => ImplementsAtomicSaves
BY TxAlways, InitIsAtomic, NextIsAtomic, PTL DEF Spec, ImplementsAtomicSaves, Atomic!Spec
=============================================================================
