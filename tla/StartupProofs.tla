---------------------------- MODULE StartupProofs ----------------------------
(***************************************************************************)
(* For every number of commands, every list of migrations and every file   *)
(* the user may write: commands that open the store at once leave it with  *)
(* each migration applied once and in order, and a command that got as far *)
(* as the store has connectors that can answer.                            *)
(***************************************************************************)
EXTENDS Startup, SequenceTheorems, TLAPS

\* The committed bodies are the first migrations, and so are the version rows.
Prefix ==
    /\ \A n \in DOMAIN schema : schema[n] = n
    /\ recorded = DOMAIN schema

\* What a command may rely on where it stands: it has seen every version row
\* before the migration it is at, and it is in the transaction that has written
\* exactly when it is about to record.
Position(p) ==
    /\ pc[p] = "record" <=> writer = p
    /\ pc[p] \in {"check", "begin", "record", "open"} => 1..(at[p] - 1) \subseteq recorded
    /\ pc[p] \in {"begin", "record"} => at[p] <= Len(Versions)
    /\ pc[p] = "open" => at[p] = Len(Versions) + 1

MigrateInv == StoreTypeOK /\ Prefix /\ \A p \in Proc : Position(p)
-----------------------------------------------------------------------------
\* A step by p that moves nothing of the others.
LEMMA OthersStay ==
    ASSUME NEW p \in Proc, NEW q \in Proc, q # p, Position(q),
           pc'[q] = pc[q], at'[q] = at[q], recorded \subseteq recorded',
           writer' = q <=> writer = q
    PROVE  Position(q)'
BY DEF Position

LEMMA OpenStoreKeeps ==
    ASSUME MigrateInv, NEW p \in Proc, OpenStore(p)
    PROVE  MigrateInv'
<1>1. StoreTypeOK'
  BY MigrateAssumption DEF MigrateInv, StoreTypeOK, OpenStore, Goto, PC
<1>2. Position(p)'
  BY <1>1, MigrateAssumption DEF MigrateInv, StoreTypeOK, Position, OpenStore, Goto, Resting
<1>3. \A q \in Proc : q # p => Position(q)'
  BY OthersStay DEF MigrateInv, StoreTypeOK, OpenStore, Goto
<1> QED BY <1>1, <1>2, <1>3 DEF MigrateInv, Prefix, OpenStore

LEMMA CheckKeeps ==
    ASSUME MigrateInv, NEW p \in Proc, Check(p)
    PROVE  MigrateInv'
<1>1. StoreTypeOK'
  <2>1. /\ at[p] \in 1..Len(Versions) /\ Len(Versions) \in Nat
    BY MigrateAssumption DEF MigrateInv, StoreTypeOK, Check
  <2>2. at' \in [Proc -> 1..(Len(Versions) + 1)]
    <3>1. at[p] + 1 \in 1..(Len(Versions) + 1)
      BY <2>1
    <3> QED BY <3>1 DEF MigrateInv, StoreTypeOK, Check
  <2> QED BY <2>2 DEF MigrateInv, StoreTypeOK, Check, Goto, PC
<1>2. Position(p)'
  <2>1. /\ at[p] \in 1..Len(Versions) /\ Len(Versions) \in Nat /\ Position(p)
        /\ writer # p /\ recorded' = recorded /\ writer' = writer
    BY MigrateAssumption DEF MigrateInv, StoreTypeOK, Position, Check
  <2>2. CASE at[p] \in recorded
    <3>1. at'[p] = at[p] + 1 /\ pc'[p] = "check"
      BY <2>2 DEF Check, MigrateInv, StoreTypeOK
    <3>2. 1..at[p] \subseteq recorded
      BY <2>1, <2>2 DEF Check, Position
    <3> QED BY <2>1, <3>1, <3>2 DEF Position
  <2>3. CASE at[p] \notin recorded
    <3>1. at'[p] = at[p] /\ pc'[p] = "begin"
      BY <2>3 DEF Check, Goto, MigrateInv, StoreTypeOK
    <3> QED BY <2>1, <3>1 DEF Position, Check
  <2> QED BY <2>2, <2>3
<1>3. \A q \in Proc : q # p => Position(q)'
  BY OthersStay DEF MigrateInv, StoreTypeOK, Check, Goto
<1> QED BY <1>1, <1>2, <1>3 DEF MigrateInv, Prefix, Check

LEMMA OpenedKeeps ==
    ASSUME MigrateInv, NEW p \in Proc, Opened(p)
    PROVE  MigrateInv'
<1>1. StoreTypeOK'
  BY DEF MigrateInv, StoreTypeOK, Opened, Goto, PC
<1>2. Position(p)'
  BY <1>1, MigrateAssumption DEF MigrateInv, StoreTypeOK, Position, Opened, Goto
<1>3. \A q \in Proc : q # p => Position(q)'
  BY OthersStay DEF MigrateInv, StoreTypeOK, Opened, Goto
<1> QED BY <1>1, <1>2, <1>3 DEF MigrateInv, Prefix, Opened

LEMMA RunBodyKeeps ==
    ASSUME MigrateInv, NEW p \in Proc, RunBody(p)
    PROVE  MigrateInv'
<1>1. StoreTypeOK'
  BY DEF MigrateInv, StoreTypeOK, RunBody, Goto, PC
<1>2. Position(p)'
  BY MigrateAssumption DEF MigrateInv, StoreTypeOK, Position, RunBody, Goto
<1>3. \A q \in Proc : q # p => Position(q)'
  BY OthersStay, MigrateAssumption DEF MigrateInv, StoreTypeOK, RunBody, Goto
<1> QED BY <1>1, <1>2, <1>3 DEF MigrateInv, Prefix, RunBody

\* Who records has seen all earlier rows and not its own: it is next in order.
LEMMA RecordKeeps ==
    ASSUME MigrateInv, NEW p \in Proc, Record(p)
    PROVE  MigrateInv'
<1>1. /\ schema \in Seq(DOMAIN Versions) /\ recorded = 1..Len(schema) /\ Len(schema) \in Nat
      /\ Len(Versions) \in Nat /\ DOMAIN Versions = 1..Len(Versions)
      /\ at[p] \in 1..Len(Versions) /\ writer = p /\ writer' = NoProc
      /\ 1..(at[p] - 1) \subseteq recorded
  BY MigrateAssumption DEF MigrateInv, StoreTypeOK, Prefix, Position, Record
<1>2. \A q \in Proc : q # p => writer # q /\ writer' # q
  BY <1>1, MigrateAssumption
<1>3. CASE at[p] \notin recorded
  <2>1. /\ schema' = Append(schema, at[p]) /\ recorded' = recorded \cup {at[p]}
        /\ at' = [at EXCEPT ![p] = @ + 1] /\ Goto(p, "check") /\ UNCHANGED faults
    BY <1>3 DEF Record
  <2>2. at[p] = Len(schema) + 1
    <3>1. at[p] = 1 \/ at[p] - 1 \in 1..(at[p] - 1)
      BY <1>1
    <3>2. at[p] - 1 <= Len(schema)
      BY <1>1, <3>1
    <3> QED BY <1>1, <1>3, <3>2
  <2>3. schema' \in Seq(DOMAIN Versions) /\ Len(schema') = Len(schema) + 1
    BY <1>1, <2>1, AppendProperties
  <2>4. StoreTypeOK'
    BY <1>1, <2>1, <2>3 DEF MigrateInv, StoreTypeOK, Goto, PC
  <2>5. Prefix'
    <3>1. DOMAIN schema' = 1..(Len(schema) + 1) /\ recorded' = 1..(Len(schema) + 1)
      BY <1>1, <2>1, <2>2, <2>3
    <3>2. \A n \in 1..Len(schema) : schema'[n] = schema[n] /\ schema[n] = n
      BY <1>1, <2>1 DEF MigrateInv, Prefix
    <3>3. schema'[Len(schema) + 1] = Len(schema) + 1
      BY <1>1, <2>1, <2>2
    <3> QED BY <1>1, <3>1, <3>2, <3>3 DEF Prefix
  <2>6. Position(p)'
    BY <1>1, <2>1, MigrateAssumption DEF MigrateInv, StoreTypeOK, Position, Goto
  <2>7. \A q \in Proc : q # p => Position(q)'
    BY <1>2, <2>1, OthersStay DEF MigrateInv, StoreTypeOK, Goto
  <2> QED BY <2>4, <2>5, <2>6, <2>7 DEF MigrateInv
<1>4. CASE at[p] \in recorded
  <2>1. Goto(p, "failed") /\ UNCHANGED <<schema, recorded, at, faults>>
    BY <1>4 DEF Record
  <2>2. StoreTypeOK'
    BY <1>1, <2>1 DEF MigrateInv, StoreTypeOK, Goto, PC
  <2>3. Position(p)'
    BY <1>1, <2>1, MigrateAssumption DEF MigrateInv, StoreTypeOK, Position, Goto
  <2>4. \A q \in Proc : q # p => Position(q)'
    BY <1>2, <2>1, OthersStay DEF MigrateInv, StoreTypeOK, Goto
  <2> QED BY <2>1, <2>2, <2>3, <2>4 DEF MigrateInv, Prefix
<1> QED BY <1>3, <1>4

LEMMA FailKeeps ==
    ASSUME MigrateInv, NEW p \in Proc, Fail(p)
    PROVE  MigrateInv'
<1>1. StoreTypeOK'
  BY MigrateAssumption DEF MigrateInv, StoreTypeOK, Fail, Goto, PC
<1>2. Position(p)'
  BY MigrateAssumption DEF MigrateInv, StoreTypeOK, Position, Fail, Goto
<1>3. \A q \in Proc : q # p => Position(q)'
  BY OthersStay, MigrateAssumption DEF MigrateInv, StoreTypeOK, Fail, Goto
<1> QED BY <1>1, <1>2, <1>3 DEF MigrateInv, Prefix, Fail

LEMMA RefuseKeeps ==
    ASSUME MigrateInv, NEW p \in Proc, Refuse(p)
    PROVE  MigrateInv'
<1>1. StoreTypeOK'
  BY DEF MigrateInv, StoreTypeOK, Refuse, Goto, PC
<1>2. Position(p)'
  BY DEF MigrateInv, StoreTypeOK, Position, Refuse, Goto, Resting
<1>3. \A q \in Proc : q # p => Position(q)'
  BY OthersStay DEF MigrateInv, StoreTypeOK, Refuse, Goto
<1> QED BY <1>1, <1>2, <1>3 DEF MigrateInv, Prefix, Refuse

LEMMA InitMigrate == StoreInit => MigrateInv
<1> SUFFICES ASSUME StoreInit PROVE MigrateInv
  OBVIOUS
<1>1. <<>> \in Seq(DOMAIN Versions) /\ Len(Versions) \in Nat
  BY EmptySeq, MigrateAssumption
<1>2. StoreTypeOK
  BY <1>1, MigrateAssumption DEF StoreInit, StoreTypeOK, PC
<1> QED BY <1>2, MigrateAssumption DEF StoreInit, MigrateInv, Prefix, Position

LEMMA NextMigrate == MigrateInv /\ [Next]_vars => MigrateInv'
<1> SUFFICES ASSUME MigrateInv, [Next]_vars PROVE MigrateInv'
  OBVIOUS
<1>1. CASE UNCHANGED storeVars
  BY <1>1 DEF storeVars, MigrateInv, StoreTypeOK, Prefix, Position
<1>2. ASSUME NEW p \in Proc, Start(p) PROVE MigrateInv'
  BY <1>2, OpenStoreKeeps, RefuseKeeps DEF Start, Launch
<1>3. ASSUME NEW p \in Proc, Migrates(p) PROVE MigrateInv'
  BY <1>3, CheckKeeps, OpenedKeeps, RunBodyKeeps, RecordKeeps DEF Migrates, Step
<1>4. ASSUME NEW p \in Proc, Fails(p) PROVE MigrateInv'
  BY <1>4, FailKeeps DEF Fails
<1> QED BY <1>1, <1>2, <1>3, <1>4 DEF Next, Edit, InitFiles, vars

LEMMA MigrateAlways == Spec => []MigrateInv
BY InitMigrate, NextMigrate, PTL DEF Spec, Init

\* However many commands start at once and wherever they are killed, each
\* migration is committed once and in the order of the files, and a command that
\* has opened the store finds them all (database.Migrate, database.go:70).
THEOREM MigrationsApplyOnceInOrder == Spec => []AppliedOnceInOrder
<1>1. MigrateInv => AppliedOnceInOrder
  <2> SUFFICES ASSUME MigrateInv, NEW p \in Proc, pc[p] = "open"
               PROVE  DOMAIN schema = DOMAIN Versions
    BY DEF MigrateInv, Prefix, AppliedOnceInOrder
  <2>1. /\ DOMAIN Versions = 1..Len(Versions) /\ Len(Versions) \in Nat
        /\ DOMAIN schema = 1..Len(schema) /\ Len(schema) \in Nat
    BY MigrateAssumption DEF MigrateInv, StoreTypeOK
  <2>2. 1..Len(Versions) \subseteq 1..Len(schema)
    BY <2>1 DEF MigrateInv, Prefix, Position
  <2>3. \A n \in 1..Len(schema) : n \in 1..Len(Versions)
    BY <2>1, ElementOfSeq DEF MigrateInv, Prefix, StoreTypeOK
  <2> QED BY <2>1, <2>2, <2>3
<1> QED BY <1>1, MigrateAlways, PTL

\* A version row and its migration come and go together: no kill between the
\* two leaves one without the other (applyMigration's transaction).
THEOREM VersionRowsAreTrue == Spec => []RecordedIsApplied
<1>1. MigrateInv => RecordedIsApplied
  BY DEF MigrateInv, Prefix, RecordedIsApplied
<1> QED BY <1>1, MigrateAlways, PTL
-----------------------------------------------------------------------------
\* The files and the connectors.

NoSecrets == [webhook |-> FALSE, google |-> {}]

FilesTyped ==
    /\ config \in [profile : {"absent", "malformed", "invalid", "valid"},
                   sources : Seq(SourceEntry), env : Environments \cup {NoSecrets}]
    /\ DOMAIN connectors = Proc
    /\ NoConnectorIsMute

\* Validation and the defaults together: what a valid entry is built into answers.
LEMMA ValidEntryAnswers ==
    ASSUME NEW ss \in Seq(SourceEntry), ValidSources(ss), NEW i \in DOMAIN ss
    PROVE  LET c == Connector(ss[i])
           IN  IF c.type = "gmail"
               THEN /\ c.newerThan \in NewerThan /\ c.maxResults > 0
                    /\ \E k \in DOMAIN c.senders : c.senders[k] # ""
               ELSE c.path # ""
<1> DEFINE s == ss[i]
           c == Connector(s)
<1>1. s \in SourceEntry
  BY ElementOfSeq
<1>2. \/ s.type \in {"fixture_email", "fixture_html"} /\ s.path # ""
      \/ s.type = "gmail" /\ ValidGmail(s)
  BY DEF ValidSources
<1>3. /\ c.type = s.type /\ c.path = s.path /\ c.senders = s.senders
      /\ c.newerThan = IF s.newerThan = "" THEN "30d" ELSE s.newerThan
      /\ c.maxResults = IF s.maxResults <= 0 THEN 100 ELSE s.maxResults
  BY <1>1 DEF Connector, SourceEntry
<1> HIDE DEF c, s
<1>4. ASSUME s.type = "gmail"
      PROVE  /\ c.newerThan \in NewerThan /\ c.maxResults > 0
             /\ \E k \in DOMAIN c.senders : c.senders[k] # ""
  <2>1. ValidGmail(s)
    BY <1>2, <1>4
  <2>2. c.newerThan \in NewerThan
    BY <1>3, <2>1 DEF ValidGmail, NewerThan
  <2>3. c.maxResults > 0
    <3>1. s.maxResults \in Int
      BY <1>1 DEF SourceEntry
    <3>2. CASE s.maxResults <= 0
      <4>1. c.maxResults = 100
        BY <1>3, <3>2
      <4> QED BY <4>1
    <3>3. CASE ~(s.maxResults <= 0)
      <4>1. c.maxResults = s.maxResults
        BY <1>3, <3>3
      <4> QED BY <3>1, <3>3, <4>1
    <3> QED BY <3>2, <3>3
  <2>4. s.senders \in Seq(STRING) /\ s.senders # <<>>
    BY <1>1, <2>1 DEF SourceEntry, ValidGmail
  <2>5. 1 \in DOMAIN s.senders
    BY <2>4, EmptySeq, LenProperties
  <2>6. s.senders[1] # ""
    BY <2>1, <2>5 DEF ValidGmail
  <2> QED BY <1>3, <2>2, <2>3, <2>5, <2>6
<1>5. s.type # "gmail" => c.path # ""
  BY <1>2, <1>3
<1>6. IF c.type = "gmail"
      THEN /\ c.newerThan \in NewerThan /\ c.maxResults > 0
           /\ \E k \in DOMAIN c.senders : c.senders[k] # ""
      ELSE c.path # ""
  BY <1>3, <1>4, <1>5
<1> QED BY <1>6 DEF c, s

LEMMA NextFiles == FilesTyped /\ [Next]_vars => FilesTyped'
<1> SUFFICES ASSUME FilesTyped, [Next]_vars PROVE FilesTyped'
  OBVIOUS
<1>1. CASE Edit \/ InitFiles
  <2> DEFINE Config == [profile : {"absent", "malformed", "invalid", "valid"},
                        sources : Seq(SourceEntry), env : Environments \cup {NoSecrets}]
  <2>1. config \in Config
    BY DEF FilesTyped
  <2>2. config' \in Config
    BY <1>1, <2>1, StartupAssumption DEF Edit, InitFiles
  <2> QED BY <1>1, <2>2 DEF Edit, InitFiles, FilesTyped, NoConnectorIsMute
<1>2. ASSUME NEW p \in Proc, Launch(p) PROVE FilesTyped'
  <2>1. /\ connectors' = [connectors EXCEPT ![p] = Connectors(Command[p])]
        /\ UNCHANGED config /\ ValidSources(config.sources)
    BY <1>2 DEF Launch, Builds, LoadsFiles
  <2>2. ASSUME NEW c \in Connectors(Command[p])
        PROVE  IF c.type = "gmail"
               THEN /\ c.newerThan \in NewerThan /\ c.maxResults > 0
                    /\ \E k \in DOMAIN c.senders : c.senders[k] # ""
               ELSE c.path # ""
    <3>1. PICK i \in DOMAIN config.sources : c = Connector(config.sources[i])
      BY <2>2 DEF Connectors, Selected
    <3> QED BY <2>1, <3>1, ValidEntryAnswers DEF FilesTyped
  <2> QED BY <2>1, <2>2 DEF FilesTyped, NoConnectorIsMute
<1>3. ASSUME NEW p \in Proc, Refuse(p) PROVE FilesTyped'
  BY <1>3 DEF Refuse, FilesTyped, NoConnectorIsMute
<1>4. CASE UNCHANGED <<config, connectors>>
  BY <1>4 DEF FilesTyped, NoConnectorIsMute
<1> QED BY <1>1, <1>2, <1>3, <1>4 DEF Next, vars, Start, Migrates, Fails

\* A command that opened the store will not come back with nothing and no
\* error: whatever was edited since, each of its connectors reads a named
\* directory or asks Gmail something Gmail can answer (validateGmailSource,
\* config.go:229).
THEOREM NoConnectorStaysMute == Spec => []NoConnectorIsMute
<1>1. Init => FilesTyped
  <2> SUFFICES ASSUME Init PROVE FilesTyped
    OBVIOUS
  <2>1. <<>> \in Seq(SourceEntry)
    BY EmptySeq
  <2> QED BY <2>1 DEF Init, FilesTyped, NoConnectorIsMute, NoSecrets
<1>2. FilesTyped => NoConnectorIsMute
  BY DEF FilesTyped
<1> QED BY <1>1, <1>2, NextFiles, PTL DEF Spec
=============================================================================
