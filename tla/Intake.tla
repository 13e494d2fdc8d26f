-------------------------------- MODULE Intake --------------------------------
(***************************************************************************)
(* One source from its messages to the rows of job_postings: fetch, parse, *)
(* deduplicate, save, in one collection after the other.  The source is    *)
(* the Gmail mailbox, or a directory of saved mails or pages.              *)
(*                                                                         *)
(* A message is a record of what the program reads (sender, parts) and of  *)
(* what it has to find out: the id the message gives itself, the posting   *)
(* it introduces, what it says of that posting, and whether its layout is  *)
(* a regular one, with the id or URL by which the posting is recognised.   *)
(* Messages arrive between collections: one that arrives during a listing  *)
(* is like one that comes after it.                                        *)
(***************************************************************************)
EXTENDS GmailFetch, Parsing, Dedup, FiniteSets

CONSTANTS
    Messages,    \* the messages that can arrive
    MaxMessages  \* bound: messages of a behaviour

ASSUME IntakeAssumption ==
    /\ \A m \in Messages :
         /\ m.source \in {"gmail", "emails", "pages"}
         /\ m.parts # <<>> /\ m.regular \in BOOLEAN
    /\ MaxMessages \in Nat

VARIABLES
    source,     \* the kind of the source
    parsed,     \* what toJobPosting makes of each message of the mailbox
    rows,       \* job_postings
    pending     \* the messages of the batch that are yet to be saved

vars == <<mailbox, pc, fetchVars, faults, source, parsed, rows, pending>>

Store == INSTANCE Repository
    WITH jobs <- rows, notifications <- <<>>, runs <- <<>>, Key <- {}, Content <- {},
         Hash <- {}, NoHash <- "none", MaterialHash <- <<>>, Origin <- {}, Source <- {}

Init ==
    /\ source \in {m.source : m \in Messages}
    /\ mailbox = <<>> /\ parsed = <<>> /\ rows = <<>> /\ pending = {}
    /\ pc = "idle" /\ faults = 0
    /\ ids = <<>> /\ jobs = <<>>
    /\ listed = 0 /\ got = 0
    /\ cut = FALSE /\ canceled = FALSE

\* toRawJob, and what the other connectors make of the file with this number
RawJob(m, n) ==
    [format |-> IF m.source = "pages" THEN "html" ELSE "email",
     source |-> m.source, external |-> <<"number", n>>, sender |-> m.sender,
     body |-> IF m.source = "gmail" THEN MailBody(m.parts) ELSE m.parts[1].lines]

\* The parsers keep no state: what they make of a message is settled here.
Arrive ==
    /\ pc = "idle" /\ Len(mailbox) < MaxMessages
    /\ \E m \in Messages :
         /\ m.source = source
         /\ mailbox' = Append(mailbox, m)
         /\ parsed' = Append(parsed, ToJobPosting(RawJob(m, Mails + 1)))
    /\ UNCHANGED <<pc, fetchVars, faults, source, rows, pending>>
-----------------------------------------------------------------------------
(* The fetched messages, by their number in the mailbox: for Gmail a       *)
(* position counts from the newest, files are read in the order of names.  *)

Number(i) == IF source = "gmail" THEN Mails + 1 - i ELSE i

Batch == [i \in DOMAIN jobs |-> parsed[Number(jobs[i])]]

Begin ==
    /\ pc = "idle" /\ source = "gmail" /\ pc' = "list"
    /\ UNCHANGED <<mailbox, fetchVars, faults, source, parsed, rows, pending>>

\* The connector for files reads all of them, and the files are the mailbox.
ReadFiles ==
    /\ pc = "idle" /\ source # "gmail" /\ pc' = "ok"
    /\ jobs' = [i \in 1..Mails |-> i]
    /\ UNCHANGED <<mailbox, ids, listed, cut, got, canceled, faults, source, parsed, rows, pending>>

FetchGmail == FetchStep /\ UNCHANGED <<source, parsed, rows, pending>>

\* All that was fetched is parsed and deduplicated before the first save.
Parse ==
    /\ pc = "ok" /\ pc' = "saving"
    /\ pending' = Dedupe(Batch)
    /\ UNCHANGED <<mailbox, fetchVars, faults, source, parsed, rows>>

Save ==
    /\ pc = "saving" /\ ~canceled
    /\ \E i \in pending :
         /\ \A j \in pending : i <= j
         /\ Store!SaveJob(Batch[i].key, Batch[i].content, MergedSources(Batch, i))
         /\ pending' = pending \ {i}
    /\ UNCHANGED <<mailbox, pc, fetchVars, faults, source, parsed>>

Leave ==
    /\ pc' = "idle" /\ pending' = {} /\ Fresh
    /\ UNCHANGED <<mailbox, source, parsed, rows>>

\* The collection of the source is over; a failing save ends it as well.
Finish ==
    /\ pc = "error" \/ (pc = "saving" /\ pending = {})
    /\ Leave /\ UNCHANGED faults

SaveFails ==
    /\ pc = "saving" /\ pending # {}
    /\ Leave /\ Fails

\* A kill, also in place of files that cannot be read: both leave the rows as
\* they are.
Kill == pc # "idle" /\ Leave /\ Fault

Signal == Cancel /\ UNCHANGED <<source, parsed, rows, pending>>

Step == Begin \/ ReadFiles \/ FetchGmail \/ Parse \/ Save \/ SaveFails \/ Finish

Next == Arrive \/ Step \/ Signal \/ Kill

Spec == Init /\ [][Next]_vars

\* The schedule starts one collection after the other, each goes on, and every
\* request ends at the latest with the client's timeout.
FairSpec == Spec /\ WF_vars(Step)
-----------------------------------------------------------------------------
TypeOK ==
    /\ FetchTypeOK
    /\ mailbox \in Seq(Messages) /\ Mails <= MaxMessages
    /\ \A n \in DOMAIN mailbox : mailbox[n].source = source
    /\ \A r \in DOMAIN rows :
         /\ rows[r].content.rate \in Seq(Nat) /\ rows[r].content.days \in Seq(1..7)
         /\ rows[r].status = "new" /\ rows[r].sources # {}
    /\ pending \subseteq DOMAIN jobs

\* The fetch keeps its promise, under arrivals, faults and restarts.
SuccessIsComplete == pc \in {"ok", "saving"} /\ source = "gmail" => FetchIsComplete

\* The introduction of a posting by a message, under the id it gives itself if any.
Introduction(n) ==
    <<source, IF mailbox[n].id = <<>> THEN <<"number", n>> ELSE mailbox[n].id>>

Introduces(r, n) == Introduction(n) \in rows[r].sources

\* No row mixes two postings, and regular messages on one posting meet in one
\* row (the comment on DedupKey), whichever of them were collected when.
RowsArePostings ==
    \A r, t \in DOMAIN rows : \A n, k \in DOMAIN mailbox :
        LET same == mailbox[n].posting = mailbox[k].posting
        IN  Introduces(r, n) /\ Introduces(t, k) =>
                /\ r = t => same
                /\ same /\ mailbox[n].regular /\ mailbox[k].regular => r = t

\* Once a collection has saved its batch, the row of every posting in it says
\* what the first of its messages says and keeps all its introductions.
RowsTellTruth ==
    pc = "saving" /\ pending = {} =>
        \A i \in DOMAIN jobs :
            LET n == Number(jobs[i])
                Same(j) == mailbox[Number(jobs[j])].posting = mailbox[n].posting
            IN  mailbox[n].regular =>
                  \E r \in DOMAIN rows :
                     /\ Introduces(r, n)
                     /\ (\A j \in 1..(i - 1) : ~Same(j)) =>
                            rows[r].content = mailbox[n].says

\* In the end the row of a posting says what the newest regular mail on it says,
\* if that is among the newest max_results: a newer mail wins inside a batch and
\* over what earlier collections saved, and what faults kept out or left behind
\* is made up for.
MailboxIsMirrored ==
    <>[](source = "gmail" =>
            \A n \in DOMAIN mailbox :
                /\ Mails - n < MaxResults /\ mailbox[n].regular
                /\ \A k \in (n + 1)..Mails : mailbox[k].posting # mailbox[n].posting
                => \E r \in DOMAIN rows :
                      Introduces(r, n) /\ rows[r].content = mailbox[n].says)
=============================================================================
