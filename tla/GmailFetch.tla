---------------------------- MODULE GmailFetch ----------------------------
(***************************************************************************)
(* gmail.Connector.Fetch: the pages of messages.list up to maxResults,     *)
(* then one messages.get for each id.  Gmail lists the newest message      *)
(* first; an id is the position in that list when the listing begins.      *)
(*                                                                         *)
(* Gmail is external: it may send more messages than were asked for and a  *)
(* token although nothing is left, but it gives a token as long as         *)
(* something is.  A request that fails, a signal, and an empty page in the *)
(* middle of a listing are faults.                                         *)
(***************************************************************************)
EXTENDS Naturals, Sequences, SequencesExt

CONSTANTS
    MaxResults,     \* max_results of the source
    MaxPageSize,    \* what messages.list returns at most when asked
    MaxOver,        \* bound: messages a page has beyond what was asked for
    MaxFaults       \* bound: faults of a behaviour

ASSUME FetchAssumption ==
    {MaxResults, MaxPageSize, MaxOver, MaxFaults} \subseteq Nat /\ MaxPageSize > 0

VARIABLES
    mailbox,    \* the messages that match the query, in the order of their arrival
    pc,         \* "list", "listing", "get", "getting", "ok", "error", or outside a fetch
    ids,        \* the ids listed so far
    listed,     \* what the page token stands for: the messages Gmail has sent
    cut,        \* an empty page ended the listing although more was to come
    got,        \* the number of ids asked for
    jobs,       \* the ids whose message was read
    canceled,   \* the context is canceled
    faults

fetchVars == <<ids, listed, cut, got, jobs, canceled>>

\* What a fetch begins with, and what is left when its caller is done.
Fresh ==
    /\ ids' = <<>> /\ jobs' = <<>>
    /\ listed' = 0 /\ got' = 0
    /\ cut' = FALSE /\ canceled' = FALSE

Mails == Len(mailbox)
Fault == faults < MaxFaults /\ faults' = faults + 1

\* A call under a canceled context fails by itself.
Fails == IF canceled THEN UNCHANGED faults ELSE Fault

Cancel ==
    /\ pc # "idle" /\ ~canceled
    /\ canceled' = TRUE
    /\ Fault
    /\ UNCHANGED <<mailbox, pc, ids, listed, cut, got, jobs>>
-----------------------------------------------------------------------------
(* listMessageIDs *)

Remaining == MaxResults - Len(ids)
PageSize == IF Remaining < MaxPageSize THEN Remaining ELSE MaxPageSize

\* The checks before a request: the context, then whether anything is missing.
ListCheck ==
    /\ pc = "list"
    /\ pc' = CASE canceled -> "error"
               [] ~canceled /\ Len(ids) >= MaxResults -> "get"
               [] OTHER -> "listing"
    /\ UNCHANGED <<mailbox, ids, listed, cut, got, jobs, canceled, faults>>

\* Mutation: the number of messages sent is not cut.
KeepAll(page) == page

\* The messages of a page that still fit.
Keep(page) == SubSeq(page, 1, IF Len(page) < Remaining THEN Len(page) ELSE Remaining)

\* Mutation: only the token decides.
ContinuesWithToken(page, more) == more

\* Another request follows a page with messages and a token.
Continues(page, more) == more /\ page # <<>>

\* Mutation: the token of the page is not sent back.
TokenNotKept(page) == listed

\* The token leads past the page.
TokenAfter(page) == listed + Len(page)

\* A page of n messages, and whether it has a token.
ListPage ==
    /\ pc = "listing"
    /\ \E n \in 0..(Mails - listed), more \in BOOLEAN :
         LET page == [i \in 1..n |-> listed + i]
         IN  /\ n <= PageSize + MaxOver
             /\ listed + n < Mails => more
             /\ ids' = ids \o Keep(page)
             /\ listed' = TokenAfter(page)
             /\ pc' = IF Continues(page, more) THEN "list" ELSE "get"
             /\ IF n = 0 /\ listed < Mails
                THEN cut' = TRUE /\ Fault ELSE UNCHANGED <<cut, faults>>
    /\ UNCHANGED <<mailbox, got, jobs, canceled>>

\* No answer within the timeout, a status other than 200, a body that cannot be
\* read: the source fails.
ListFails ==
    /\ pc = "listing" /\ pc' = "error"
    /\ Fails
    /\ UNCHANGED <<mailbox, ids, listed, cut, got, jobs, canceled>>
-----------------------------------------------------------------------------
(* The loop of Fetch *)

\* All ids failed: the source failed.
Result == IF ids # <<>> /\ jobs = <<>> THEN "error" ELSE "ok"

GetCheck ==
    /\ pc = "get"
    /\ pc' = CASE got = Len(ids) -> Result
               [] got < Len(ids) /\ canceled -> "error"
               [] OTHER -> "getting"
    /\ UNCHANGED <<mailbox, ids, listed, cut, got, jobs, canceled, faults>>

GetMessage ==
    /\ pc = "getting" /\ pc' = "get"
    /\ got' = got + 1
    /\ jobs' = Append(jobs, ids[got + 1])
    /\ UNCHANGED <<mailbox, ids, listed, cut, canceled, faults>>

\* A message that cannot be read is left out.
GetFails ==
    /\ pc = "getting" /\ pc' = "get"
    /\ Fails
    /\ got' = got + 1
    /\ UNCHANGED <<mailbox, ids, listed, cut, jobs, canceled>>

FetchStep == ListCheck \/ ListPage \/ ListFails \/ GetCheck \/ GetMessage \/ GetFails
-----------------------------------------------------------------------------
\* Whatever Gmail sends, no more ids are kept than the source allows.
FetchTypeOK ==
    /\ pc \in {"list", "listing", "get", "getting", "ok", "error", "idle", "saving"}
    /\ listed \in 0..Mails
    /\ ids \in Seq(1..Mails) /\ Len(ids) <= MaxResults
    /\ got \in 0..Len(ids) /\ jobs \in Seq(1..Mails)
    /\ {cut, canceled} \subseteq BOOLEAN
    /\ faults \in 0..MaxFaults

\* A fetch that succeeds asked for the newest messages up to max_results, each
\* once and in Gmail's order, unless Gmail cut the list with an empty page; and
\* what it returns is the ones that could be read, in that order, and is empty
\* only if none were listed (the comment on the last check of Fetch).
FetchIsComplete ==
    /\ ids = [i \in 1..Len(ids) |-> i]
    /\ ~cut => Len(ids) = IF Mails < MaxResults THEN Mails ELSE MaxResults
    /\ got = Len(ids)
    /\ jobs = <<>> => ids = <<>>
    /\ \A i \in 1..Len(jobs) : \A k \in 1..(i - 1) : jobs[k] < jobs[i]
=============================================================================
