------------------------------- MODULE Migrate -------------------------------
(***************************************************************************)
(* database.Migrate: every command brings the schema up to date when it    *)
(* opens the store, so two commands may do it at once.  The check whether  *)
(* a migration was applied and the transaction that applies it are         *)
(* separate.  A migration's body either may be run twice (001 creates if   *)
(* not exists) or may not (002 and 003 add a column).                      *)
(***************************************************************************)
EXTENDS Naturals, Sequences, FiniteSets

CONSTANTS
    Proc,
    Versions,     \* the migrations, in the order of their file names
    Repeatable,   \* those whose body may run again
    MaxFaults     \* bound on the kills and failing calls of a behaviour

NoProc == "nobody"

ASSUME MigrateAssumption ==
    /\ NoProc \notin Proc
    /\ Versions \in Seq(STRING)
    /\ Repeatable \subseteq DOMAIN Versions
    /\ \A i, j \in DOMAIN Versions : Versions[i] = Versions[j] => i = j
    /\ MaxFaults \in Nat

VARIABLES
    schema,     \* the committed migration bodies, in the order of their commits
    recorded,   \* the rows of schema_migrations
    writer,     \* the process whose transaction has written, or NoProc
    pc,         \* [Proc -> the next statement]
    at,         \* [Proc -> the migration it is at]
    faults

storeVars == <<schema, recorded, writer, pc, at, faults>>

PC == {"closed", "refused", "check", "begin", "record", "open", "failed"}

StoreTypeOK ==
    /\ schema \in Seq(DOMAIN Versions)
    /\ recorded \subseteq DOMAIN Versions
    /\ writer \in Proc \cup {NoProc}
    /\ pc \in [Proc -> PC]
    /\ at \in [Proc -> 1..(Len(Versions) + 1)]
    /\ faults \in 0..MaxFaults

StoreInit ==
    /\ schema = <<>> /\ recorded = {} /\ writer = NoProc
    /\ pc = [p \in Proc |-> "closed"]
    /\ at = [p \in Proc |-> 1]
    /\ faults = 0

Goto(p, l) == pc' = [pc EXCEPT ![p] = l]

\* The bodies as the transaction of p sees them.
Ran(v) == v \in {schema[n] : n \in DOMAIN schema}

\* A command that is not in the middle of opening the store
Resting(p) == pc[p] \in {"closed", "refused", "open", "failed"}

\* Open, with the first statement of Migrate
OpenStore(p) ==
    /\ Resting(p)
    /\ Goto(p, "check")
    /\ at' = [at EXCEPT ![p] = 1]
    /\ UNCHANGED <<schema, recorded, writer, faults>>

\* isApplied, outside the transaction
Check(p) ==
    /\ pc[p] = "check" /\ at[p] <= Len(Versions)
    /\ \/ /\ at[p] \in recorded
          /\ at' = [at EXCEPT ![p] = @ + 1]
          /\ UNCHANGED pc
       \/ /\ at[p] \notin recorded
          /\ Goto(p, "begin") /\ UNCHANGED at
    /\ UNCHANGED <<schema, recorded, writer, faults>>

Opened(p) ==
    /\ pc[p] = "check" /\ at[p] > Len(Versions)
    /\ Goto(p, "open")
    /\ UNCHANGED <<schema, recorded, writer, at, faults>>

\* The body runs in a transaction and waits for another writer to finish.  A
\* body that may not run twice fails if it was committed meanwhile.
RunBody(p) ==
    /\ pc[p] = "begin" /\ writer = NoProc
    /\ \/ /\ Ran(at[p]) => at[p] \in Repeatable
          /\ writer' = p
          /\ Goto(p, "record")
       \/ /\ Ran(at[p]) /\ at[p] \notin Repeatable
          /\ Goto(p, "failed")
          /\ UNCHANGED writer
    /\ UNCHANGED <<schema, recorded, at, faults>>

\* Mutation: the body is committed before the version row.
RecordLater(p) ==
    /\ pc[p] = "record"
    /\ writer' = NoProc
    /\ schema' = Append(schema, at[p])
    /\ \/ recorded' = recorded \cup {at[p]} /\ at' = [at EXCEPT ![p] = @ + 1] /\ Goto(p, "check")
       \/ UNCHANGED <<recorded, at>> /\ Goto(p, "failed")
    /\ UNCHANGED faults

\* Mutation: INSERT OR IGNORE instead of INSERT.
RecordOrIgnore(p) ==
    /\ pc[p] = "record"
    /\ writer' = NoProc
    /\ schema' = Append(schema, at[p])
    /\ recorded' = recorded \cup {at[p]}
    /\ at' = [at EXCEPT ![p] = @ + 1]
    /\ Goto(p, "check")
    /\ UNCHANGED faults

\* The version row and the body are committed together; the primary key of
\* schema_migrations refuses a second row and rolls the body back.
Record(p) ==
    /\ pc[p] = "record"
    /\ writer' = NoProc
    /\ \/ /\ at[p] \notin recorded
          /\ schema' = Append(schema, at[p])
          /\ recorded' = recorded \cup {at[p]}
          /\ at' = [at EXCEPT ![p] = @ + 1]
          /\ Goto(p, "check")
       \/ /\ at[p] \in recorded
          /\ Goto(p, "failed")
          /\ UNCHANGED <<schema, recorded, at>>
    /\ UNCHANGED faults

\* A kill or a failing statement: the open transaction is rolled back.
Fail(p) ==
    /\ pc[p] \in {"check", "begin", "record"}
    /\ faults < MaxFaults /\ faults' = faults + 1
    /\ Goto(p, "failed")
    /\ writer' = IF writer = p THEN NoProc ELSE writer
    /\ UNCHANGED <<schema, recorded, at>>

Step(p) == Check(p) \/ Opened(p) \/ RunBody(p) \/ Record(p)
-----------------------------------------------------------------------------
\* No migration is applied twice, and each in its order, however many commands
\* start at once and wherever they are killed (Migrate's comment); a command that
\* opened the store finds them all applied.
AppliedOnceInOrder ==
    /\ \A n \in DOMAIN schema : schema[n] = n
    /\ \A p \in Proc : pc[p] = "open" => DOMAIN schema = DOMAIN Versions

\* A version row and its migration come and go together.
RecordedIsApplied == recorded = {schema[n] : n \in DOMAIN schema}
=============================================================================
