---------------------------- MODULE IntakeProofs ----------------------------
(***************************************************************************)
(* For every mailbox, every limit and page size, and any pages Gmail may   *)
(* send: a fetch that succeeds has asked for the newest messages, each     *)
(* once, and what it returned ends up in the rows, through arrivals        *)
(* between collections, faults and kills.                                  *)
(***************************************************************************)
EXTENDS Intake, SequenceTheorems, WellFoundedInduction, TLAPS

Smaller(a, b) == IF a < b THEN a ELSE b

\* The ids are the newest messages, as many as Gmail sent and the source allows.
Listing ==
    /\ ids = [i \in 1..Len(ids) |-> i]
    /\ Len(ids) = Smaller(listed, MaxResults)
    /\ pc = "listing" => Len(ids) < MaxResults
    /\ pc \in {"list", "listing"} => got = 0 /\ jobs = <<>>
    /\ pc \in {"get", "getting", "ok", "saving"} /\ ~cut => Len(ids) = Smaller(Mails, MaxResults)

\* The messages read so far are some of those asked for, in their order.
Getting ==
    /\ \A i \in DOMAIN jobs : jobs[i] <= got
    /\ \A i \in DOMAIN jobs : \A k \in 1..(i - 1) : jobs[k] < jobs[i]
    /\ pc = "getting" => got < Len(ids)
    /\ pc \in {"ok", "saving"} => got = Len(ids) /\ (jobs = <<>> => ids = <<>>)

Fetching == {"list", "listing", "get", "getting", "ok", "saving", "error"}

FetchInv ==
    /\ FetchTypeOK /\ mailbox \in Seq(Messages)
    /\ pc = "idle" => /\ ids = <<>> /\ jobs = <<>> /\ listed = 0 /\ got = 0
                      /\ cut = FALSE /\ canceled = FALSE
    /\ source = "gmail" /\ pc \in Fetching => Listing /\ Getting
    /\ source # "gmail" => pc \in {"idle", "ok", "saving"}

\* No message is asked for or returned twice.
EachOnce ==
    \A s \in {ids, jobs} : \A i, k \in DOMAIN s : s[i] = s[k] => i = k
-----------------------------------------------------------------------------
LEMMA FreshKeeps ==
    ASSUME FetchInv, pc' = "idle", Fresh, UNCHANGED <<mailbox, source>>,
           faults' \in 0..MaxFaults
    PROVE  FetchInv'
<1>1. <<>> \in Seq(1..Mails) /\ Len(<<>>) = 0
  BY EmptySeq
<1>2. FetchTypeOK'
  <2>1. Mails' = Mails /\ Mails \in Nat /\ MaxResults \in Nat
    BY FetchAssumption DEF Mails, FetchInv
  <2>2. ids' \in Seq(1..Mails') /\ jobs' \in Seq(1..Mails') /\ Len(ids') = 0
    BY <1>1, <2>1 DEF Fresh
  <2>3. /\ listed' \in 0..Mails' /\ got' \in 0..Len(ids') /\ Len(ids') <= MaxResults
    BY <2>1, <2>2 DEF Fresh
  <2>4. cut' \in BOOLEAN /\ canceled' \in BOOLEAN
    BY DEF Fresh
  <2> QED BY <2>2, <2>3, <2>4 DEF FetchTypeOK
<1> QED BY <1>2 DEF FetchInv, Fresh, Fetching

\* A step that only changes where the fetch stands.
LEMMA ListCheckKeeps ==
    ASSUME FetchInv, ListCheck, UNCHANGED source
    PROVE  FetchInv'
<1>1. FetchTypeOK'
  BY DEF FetchInv, FetchTypeOK, ListCheck, Mails
<1>2. source = "gmail" /\ Listing /\ Getting
  BY DEF FetchInv, ListCheck, Fetching
<1>3. /\ Len(ids) \in Nat /\ MaxResults \in Nat /\ listed \in 0..Mails /\ Mails \in Nat
      /\ Len(ids) <= MaxResults
  BY FetchAssumption DEF FetchInv, FetchTypeOK, Mails
<1>4. Listing'
  <2>1. /\ pc = "list" /\ UNCHANGED <<ids, listed, cut, got, jobs>> /\ Mails' = Mails
        /\ pc' \in {"error", "get", "listing"}
        /\ pc' = "get" => Len(ids) >= MaxResults
        /\ pc' = "listing" => ~(Len(ids) >= MaxResults)
    BY DEF ListCheck, Mails
  <2> QED BY <1>2, <1>3, <2>1 DEF Listing, Smaller
<1>5. Getting'
  BY <1>2, <1>3 DEF Getting, ListCheck
<1>6. pc' # "idle" /\ source' = "gmail"
  BY <1>2 DEF ListCheck
<1> QED BY <1>1, <1>4, <1>5, <1>6 DEF FetchInv, ListCheck

LEMMA PrefixOf ==
    ASSUME NEW S, NEW q \in Seq(S), NEW k \in 0..Len(q)
    PROVE  /\ SubSeq(q, 1, k) \in Seq(S) /\ Len(SubSeq(q, 1, k)) = k
           /\ \A i \in 1..k : SubSeq(q, 1, k)[i] = q[i]
<1>1. k \in Int /\ k <= Len(q) /\ Len(q) \in Nat /\ \A i \in 1..k : q[i] \in S
  BY ElementOfSeq
<1>2. SubSeq(q, 1, k) \in Seq(S)
  BY <1>1, SubSeqProperties
<1>3. Len(SubSeq(q, 1, k)) = k
  BY <1>1
<1>4. \A i \in 1..k : SubSeq(q, 1, k)[i] = q[i]
  BY <1>1
<1> QED BY <1>2, <1>3, <1>4

LEMMA ListPageKeeps ==
    ASSUME FetchInv, ListPage, UNCHANGED source
    PROVE  FetchInv'
<1>1. source = "gmail" /\ Listing /\ Getting /\ pc = "listing"
  BY DEF FetchInv, ListPage, Fetching
<1>2. /\ ids \in Seq(1..Mails) /\ Len(ids) \in Nat /\ MaxResults \in Nat
      /\ listed \in 0..Mails /\ Mails \in Nat /\ Len(ids) < MaxResults
      /\ listed = Len(ids) /\ got = 0 /\ jobs = <<>> /\ Mails' = Mails
  <2>1. Mails \in Nat
    BY DEF FetchInv, Mails
  <2> QED BY <1>1, <2>1, FetchAssumption DEF FetchInv, FetchTypeOK, Listing, Smaller, ListPage, Mails
<1>3. PICK n \in 0..(Mails - listed), more \in BOOLEAN :
        LET page == [i \in 1..n |-> listed + i]
        IN  /\ listed + n < Mails => more
            /\ ids' = ids \o Keep(page)
            /\ listed' = TokenAfter(page)
            /\ pc' = IF Continues(page, more) THEN "list" ELSE "get"
            /\ IF n = 0 /\ listed < Mails
               THEN cut' = TRUE /\ Fault ELSE UNCHANGED <<cut, faults>>
  BY DEF ListPage
<1> DEFINE page == [i \in 1..n |-> listed + i]
           k == Smaller(n, MaxResults - Len(ids))
<1>4. page \in Seq(1..Mails) /\ Len(page) = n /\ \A i \in 1..n : page[i] = listed + i
  BY <1>2
<1>5. k \in 0..n
  BY <1>2 DEF Smaller
<1>6. Keep(page) = SubSeq(page, 1, k)
  BY <1>4 DEF Keep, Remaining, Smaller
<1>7. /\ Keep(page) \in Seq(1..Mails) /\ Len(Keep(page)) = k
      /\ \A i \in 1..k : Keep(page)[i] = listed + i
  <2>1. k \in 0..Len(page)
    BY <1>4, <1>5
  <2> HIDE DEF page, k
  <2>2. /\ SubSeq(page, 1, k) \in Seq(1..Mails) /\ Len(SubSeq(page, 1, k)) = k
        /\ \A i \in 1..k : SubSeq(page, 1, k)[i] = page[i]
    BY <1>4, <2>1, PrefixOf
  <2> QED BY <1>4, <1>5, <1>6, <2>2
<1>8. page = <<>> => n = 0
  BY <1>4
<1>9. /\ ids' = ids \o Keep(page) /\ listed' = listed + n
      /\ pc' = IF Continues(page, more) THEN "list" ELSE "get"
      /\ listed + n < Mails => more
      /\ IF n = 0 /\ listed < Mails
         THEN cut' = TRUE /\ Fault ELSE UNCHANGED <<cut, faults>>
  BY <1>3, <1>4 DEF TokenAfter
<1> HIDE DEF page
<1> DEFINE kept == Keep(page)
<1> HIDE DEF k, kept
<1>10. /\ ids' \in Seq(1..Mails) /\ Len(ids') = Len(ids) + k
       /\ \A i \in 1..Len(ids') : ids'[i] = i
  <2>1. /\ ids' \in Seq(1..Mails) /\ Len(ids') = Len(ids) + k
    <3>1. ids' = ids \o kept /\ kept \in Seq(1..Mails) /\ Len(kept) = k
      BY <1>7, <1>9 DEF kept
    <3> QED BY <1>2, <3>1, ConcatProperties
  <2>2. \A i \in 1..Len(ids) : ids'[i] = ids[i] /\ ids[i] = i
    BY <1>1, <1>2, <1>7, <1>9 DEF Listing
  <2>3. \A i \in 1..k : ids'[Len(ids) + i] = Len(ids) + i
    BY <1>2, <1>5, <1>7, <1>9
  <2>4. ASSUME NEW i \in 1..Len(ids'), i > Len(ids) PROVE ids'[i] = i
    <3>1. i - Len(ids) \in 1..k
      BY <1>2, <1>5, <2>1, <2>4
    <3>2. ids'[Len(ids) + (i - Len(ids))] = Len(ids) + (i - Len(ids))
      BY <2>3, <3>1
    <3> QED BY <1>2, <2>1, <3>2
  <2> QED BY <1>2, <1>5, <2>1, <2>2, <2>4
<1>11. Len(ids') = Smaller(listed', MaxResults)
  BY <1>2, <1>5, <1>9, <1>10 DEF Smaller, k
<1>12. pc' = "get" /\ ~cut' => listed' = Mails
  BY <1>2, <1>8, <1>9 DEF Continues, FetchInv, FetchTypeOK
<1>13. Listing'
  <2>1. ids' = [i \in 1..Len(ids') |-> i]
    BY <1>10, IsASeq
  <2>2. got' = 0 /\ jobs' = <<>>
    BY <1>2 DEF ListPage
  <2>3. pc' \in {"list", "get"}
    BY <1>9
  <2> QED BY <1>2, <1>11, <1>12, <2>1, <2>2, <2>3 DEF Listing
<1>14. Getting'
  BY <1>2, <1>9 DEF Getting, ListPage
<1>15. FetchTypeOK'
  <2>1. Len(ids') <= MaxResults /\ listed' \in 0..Mails
    BY <1>2, <1>9, <1>10 DEF Smaller, k
  <2>2. faults' \in 0..MaxFaults /\ cut' \in BOOLEAN
    <3>1. faults \in 0..MaxFaults /\ MaxFaults \in Nat /\ cut \in BOOLEAN
      BY FetchAssumption DEF FetchInv, FetchTypeOK
    <3>2. \/ cut' = TRUE /\ faults < MaxFaults /\ faults' = faults + 1
          \/ cut' = cut /\ faults' = faults
      BY <1>9 DEF Fault
    <3>3. faults' \in 0..MaxFaults
      BY <3>1, <3>2
    <3>4. cut' \in BOOLEAN
      BY <3>1, <3>2
    <3> QED BY <3>3, <3>4
  <2>3. got' \in 0..Len(ids') /\ jobs' \in Seq(1..Mails)
    BY <1>2, <1>10, EmptySeq DEF ListPage, FetchInv, FetchTypeOK
  <2> QED BY <1>2, <1>9, <1>10, <2>1, <2>2, <2>3 DEF FetchInv, FetchTypeOK, ListPage
<1>16. pc' # "idle" /\ source' = "gmail" /\ mailbox' = mailbox
  BY <1>1, <1>9 DEF ListPage
<1> QED BY <1>13, <1>14, <1>15, <1>16 DEF FetchInv

\* What a step of the fetch may do to the counter of faults.
LEMMA FaultsType ==
    ASSUME FetchInv, UNCHANGED faults \/ Fault \/ Fails
    PROVE  faults' \in 0..MaxFaults
BY FetchAssumption DEF FetchInv, FetchTypeOK, Fault, Fails

\* A step that leaves the ids, the messages and the mailbox as they are.
LEMMA SameFetch ==
    ASSUME FetchInv, UNCHANGED <<mailbox, ids, listed, cut, got, jobs, source>>,
           faults' \in 0..MaxFaults, canceled' \in BOOLEAN,
           pc' \in {"list", "listing", "get", "getting", "ok", "error", "idle", "saving"},
           pc' = pc \/ pc' = "error" \/ (pc = "ok" /\ pc' = "saving"),
           pc # "idle", source # "gmail" => pc' \in {"ok", "saving"}
    PROVE  FetchInv'
<1>1. FetchTypeOK'
  BY DEF FetchInv, FetchTypeOK, Mails
<1>2. source = "gmail" /\ pc' \in Fetching => Listing' /\ Getting'
  <2> SUFFICES ASSUME source = "gmail", pc' \in Fetching PROVE Listing' /\ Getting'
    OBVIOUS
  <2>1. Listing /\ Getting /\ Mails' = Mails
    BY DEF FetchInv, FetchTypeOK, Fetching, Mails
  <2>2. pc' = pc \/ pc' = "error" \/ (pc = "ok" /\ pc' = "saving")
    OBVIOUS
  <2> QED BY <2>1, <2>2 DEF Listing, Getting
<1> QED BY <1>1, <1>2 DEF FetchInv

LEMMA GetCheckKeeps ==
    ASSUME FetchInv, GetCheck, UNCHANGED source
    PROVE  FetchInv'
<1>1. source = "gmail" /\ Listing /\ Getting
  BY DEF FetchInv, GetCheck, Fetching
<1>2. /\ got \in 0..Len(ids) /\ Len(ids) \in Nat /\ Mails' = Mails
      /\ pc = "get" /\ UNCHANGED <<mailbox, ids, listed, cut, got, jobs, canceled, faults>>
      /\ pc' = CASE got = Len(ids) -> Result
                 [] got < Len(ids) /\ canceled -> "error"
                 [] OTHER -> "getting"
  BY DEF FetchInv, FetchTypeOK, GetCheck, Mails
<1>3. CASE got = Len(ids)
  <2>1. pc' \in {"ok", "error"} /\ (pc' = "ok" /\ jobs = <<>> => ids = <<>>)
    BY <1>2, <1>3 DEF Result
  <2>2. FetchTypeOK'
    BY <1>2, <2>1 DEF FetchInv, FetchTypeOK
  <2>3. Listing' /\ Getting'
    BY <1>1, <1>2, <1>3, <2>1 DEF Listing, Getting
  <2> QED BY <1>1, <1>2, <2>1, <2>2, <2>3 DEF FetchInv
<1>4. CASE got < Len(ids)
  <2>1. pc' \in {"getting", "error"}
    BY <1>2, <1>4
  <2>2. FetchTypeOK'
    BY <1>2, <2>1 DEF FetchInv, FetchTypeOK
  <2>3. Listing' /\ Getting'
    BY <1>1, <1>2, <1>4, <2>1 DEF Listing, Getting
  <2> QED BY <1>1, <1>2, <2>1, <2>2, <2>3 DEF FetchInv
<1> QED BY <1>2, <1>3, <1>4

\* The next message is asked for, and read or left out.
LEMMA GetKeeps ==
    ASSUME FetchInv, GetMessage \/ GetFails, UNCHANGED source
    PROVE  FetchInv'
<1>1. source = "gmail" /\ Listing /\ Getting
  BY DEF FetchInv, GetMessage, GetFails, Fetching
<1>2. /\ got \in Nat /\ got < Len(ids) /\ Len(ids) \in Nat /\ ids \in Seq(1..Mails)
      /\ jobs \in Seq(1..Mails) /\ Mails' = Mails
      /\ ids[got + 1] = got + 1 /\ ids[got + 1] \in 1..Mails
  <2>1. /\ got \in Nat /\ got < Len(ids) /\ Len(ids) \in Nat /\ ids \in Seq(1..Mails)
        /\ jobs \in Seq(1..Mails) /\ Mails' = Mails
    BY <1>1 DEF FetchInv, FetchTypeOK, Getting, GetMessage, GetFails, Mails
  <2>2. got + 1 \in 1..Len(ids)
    BY <2>1
  <2> QED BY <1>1, <2>1, <2>2, ElementOfSeq DEF Listing
<1>3. /\ pc' = "get" /\ got' = got + 1 /\ UNCHANGED <<mailbox, ids, listed, cut, canceled>>
      /\ jobs' = jobs \/ jobs' = Append(jobs, got + 1)
  BY <1>2 DEF GetMessage, GetFails
<1>4. faults' \in 0..MaxFaults
  BY FaultsType DEF GetMessage, GetFails
<1>5. jobs' \in Seq(1..Mails)
  BY <1>2, <1>3, AppendProperties
<1>6. FetchTypeOK'
  <2>1. got' \in 0..Len(ids')
    BY <1>2, <1>3
  <2> QED BY <1>2, <1>3, <1>4, <1>5, <2>1 DEF FetchInv, FetchTypeOK
<1>7. Listing'
  BY <1>1, <1>2, <1>3 DEF Listing, GetMessage, GetFails
<1>8. Getting'
  <2>1. \A i \in DOMAIN jobs : jobs[i] <= got /\ jobs[i] \in Nat
    <3>1. \A i \in DOMAIN jobs : jobs[i] \in 1..Mails
      <4>1. jobs \in Seq(1..Mails)
        BY <1>2
      <4>2. Mails \in Nat
        BY DEF FetchInv, Mails
      <4> QED BY <4>1, <4>2
    <3>2. \A x \in 1..Mails : x \in Nat
      BY DEF FetchInv, Mails
    <3> QED BY <1>1, <3>1, <3>2 DEF Getting
  <2>2. CASE jobs' = jobs
    <3>1. \A i \in DOMAIN jobs : jobs[i] <= got + 1
      BY <1>2, <2>1
    <3> QED BY <1>1, <1>3, <2>2, <3>1 DEF Getting
  <2>3. CASE jobs' = Append(jobs, got + 1)
    <3>1. /\ Len(jobs) \in Nat /\ DOMAIN jobs = 1..Len(jobs)
          /\ DOMAIN jobs' = 1..(Len(jobs) + 1) /\ jobs'[Len(jobs) + 1] = got + 1
          /\ \A i \in 1..Len(jobs) : jobs'[i] = jobs[i]
      BY <1>2, <2>3
    <3>2. \A i \in 1..Len(jobs) : jobs[i] <= got /\ jobs[i] \in Nat
      BY <2>1, <3>1
    <3>3. \A i \in DOMAIN jobs' : jobs'[i] <= got'
      BY <1>2, <1>3, <3>1, <3>2
    <3>4. ASSUME NEW i \in DOMAIN jobs', NEW k \in 1..(i - 1) PROVE jobs'[k] < jobs'[i]
      <4>1. k \in 1..Len(jobs) /\ i \in 1..(Len(jobs) + 1)
        BY <3>1
      <4>2. CASE i = Len(jobs) + 1
        BY <1>2, <3>1, <3>2, <4>1, <4>2
      <4>3. CASE i # Len(jobs) + 1
        <5>1. i \in 1..Len(jobs)
          BY <3>1, <4>1, <4>3
        <5> QED BY <1>1, <3>1, <4>1, <5>1 DEF Getting
      <4> QED BY <4>2, <4>3
    <3> QED BY <1>3, <3>3, <3>4 DEF Getting
  <2> QED BY <1>3, <2>2, <2>3
<1> QED BY <1>1, <1>3, <1>6, <1>7, <1>8 DEF FetchInv

LEMMA ArriveKeeps ==
    ASSUME FetchInv, Arrive
    PROVE  FetchInv'
<1>1. PICK m \in Messages : mailbox' = Append(mailbox, m)
  BY DEF Arrive
<1>2. /\ mailbox' \in Seq(Messages) /\ Mails \in Nat /\ Mails' = Mails + 1
      /\ pc = "idle" /\ pc' = "idle" /\ UNCHANGED <<fetchVars, faults, source>>
  BY <1>1, AppendProperties DEF FetchInv, Mails, Arrive
<1>3. <<>> \in Seq(1..Mails') /\ Len(<<>>) = 0
  BY EmptySeq
<1>4. FetchTypeOK'
  <2>1. ids' = <<>> /\ jobs' = <<>> /\ listed' = 0 /\ got' = 0 /\ cut' = FALSE /\ canceled' = FALSE
    BY <1>2 DEF FetchInv, fetchVars
  <2>2. ids' \in Seq(1..Mails') /\ jobs' \in Seq(1..Mails') /\ Len(ids') = 0
    BY <1>3, <2>1
  <2>3. listed' \in 0..Mails' /\ got' \in 0..Len(ids') /\ Len(ids') <= MaxResults
    BY <1>2, <2>1, <2>2, FetchAssumption
  <2>4. faults' \in 0..MaxFaults
    BY <1>2 DEF FetchInv, FetchTypeOK
  <2> QED BY <1>2, <2>1, <2>2, <2>3, <2>4 DEF FetchTypeOK
<1> QED BY <1>2, <1>4 DEF FetchInv, fetchVars, Fetching

LEMMA BeginKeeps ==
    ASSUME FetchInv, Begin
    PROVE  FetchInv'
<1>1. /\ pc = "idle" /\ pc' = "list" /\ source = "gmail" /\ Mails' = Mails /\ Mails \in Nat
      /\ UNCHANGED <<mailbox, ids, listed, cut, got, jobs, canceled, faults, source>>
      /\ ids = <<>> /\ jobs = <<>> /\ listed = 0 /\ got = 0
  BY DEF FetchInv, Begin, fetchVars, Mails
<1>2. FetchTypeOK'
  BY <1>1 DEF FetchInv, FetchTypeOK
<1>3. Len(ids) = 0 /\ ids = [i \in 1..Len(ids) |-> i] /\ MaxResults \in Nat
  BY <1>1, FetchAssumption
<1>4. Listing'
  BY <1>1, <1>3 DEF Listing, Smaller
<1>5. Getting'
  BY <1>1 DEF Getting
<1> QED BY <1>1, <1>2, <1>4, <1>5 DEF FetchInv

LEMMA ReadFilesKeeps ==
    ASSUME FetchInv, ReadFiles
    PROVE  FetchInv'
<1>1. /\ pc = "idle" /\ pc' = "ok" /\ source # "gmail" /\ Mails' = Mails /\ Mails \in Nat
      /\ UNCHANGED <<mailbox, ids, listed, cut, got, canceled, faults, source>>
      /\ jobs' = [i \in 1..Mails |-> i]
  BY DEF FetchInv, ReadFiles, Mails
<1>2. jobs' \in Seq(1..Mails)
  BY <1>1
<1>3. FetchTypeOK'
  BY <1>1, <1>2 DEF FetchInv, FetchTypeOK
<1> QED BY <1>1, <1>3 DEF FetchInv

LEMMA InitFetch == Init => FetchInv
<1> SUFFICES ASSUME Init PROVE FetchInv
  OBVIOUS
<1>1. <<>> \in Seq(1..Mails) /\ Len(<<>>) = 0 /\ <<>> \in Seq(Messages)
  BY EmptySeq
<1>2. Mails = 0 /\ {MaxResults, MaxFaults} \subseteq Nat
  BY <1>1, FetchAssumption DEF Init, Mails
<1>3. listed \in 0..Mails /\ ids \in Seq(1..Mails) /\ Len(ids) = 0 /\ jobs \in Seq(1..Mails)
  BY <1>1, <1>2 DEF Init
<1>4. got \in 0..Len(ids) /\ Len(ids) <= MaxResults /\ faults \in 0..MaxFaults
  BY <1>2, <1>3 DEF Init
<1>5. FetchTypeOK
  BY <1>3, <1>4 DEF Init, FetchTypeOK
<1> QED BY <1>1, <1>5 DEF Init, FetchInv, Fetching

LEMMA NextFetch == FetchInv /\ [Next]_vars => FetchInv'
<1> SUFFICES ASSUME FetchInv, [Next]_vars PROVE FetchInv'
  OBVIOUS
<1> USE DEF fetchVars
<1>1. CASE Arrive
  BY <1>1, ArriveKeeps
<1>2. CASE Begin
  BY <1>2, BeginKeeps
<1>3. CASE ReadFiles
  BY <1>3, ReadFilesKeeps
<1>4. CASE FetchGmail
  <2>1. CASE ListCheck
    BY <1>4, <2>1, ListCheckKeeps DEF FetchGmail
  <2>2. CASE ListPage
    BY <1>4, <2>2, ListPageKeeps DEF FetchGmail
  <2>3. CASE ListFails
    <3>1. faults' \in 0..MaxFaults /\ pc = "listing" /\ pc' = "error" /\ source = "gmail"
      BY <2>3, FaultsType DEF ListFails, FetchInv
    <3>2. canceled' \in BOOLEAN
      BY <2>3 DEF ListFails, FetchInv, FetchTypeOK
    <3> QED BY <1>4, <2>3, <3>1, <3>2, SameFetch DEF FetchGmail, ListFails
  <2>4. CASE GetCheck
    BY <1>4, <2>4, GetCheckKeeps DEF FetchGmail
  <2>5. CASE GetMessage \/ GetFails
    BY <1>4, <2>5, GetKeeps DEF FetchGmail
  <2> QED BY <1>4, <2>1, <2>2, <2>3, <2>4, <2>5 DEF FetchGmail, FetchStep
<1>5. CASE Parse \/ Save
  <2>1. faults' \in 0..MaxFaults /\ canceled' \in BOOLEAN
    BY <1>5 DEF Parse, Save, FetchInv, FetchTypeOK
  <2> QED BY <1>5, <2>1, SameFetch DEF Parse, Save, FetchInv
<1>6. CASE SaveFails \/ Finish \/ Kill
  <2>1. faults' \in 0..MaxFaults
    BY <1>6, FaultsType DEF SaveFails, Finish, Kill
  <2> QED BY <1>6, <2>1, FreshKeeps DEF SaveFails, Finish, Kill, Leave
<1>7. CASE Signal
  <2>1. faults' \in 0..MaxFaults
    BY <1>7, FaultsType DEF Signal, Cancel
  <2> QED BY <1>7, <2>1, SameFetch DEF Signal, Cancel, FetchInv, FetchTypeOK
<1>8. CASE UNCHANGED vars
  <2>1. UNCHANGED <<mailbox, pc, ids, listed, cut, got, jobs, canceled, faults, source>>
    BY <1>8 DEF vars
  <2> QED BY <2>1 DEF FetchInv, FetchTypeOK, Listing, Getting, Mails
<1> QED BY <1>1, <1>2, <1>3, <1>4, <1>5, <1>6, <1>7, <1>8 DEF Next, Step

LEMMA FetchAlways == Spec => []FetchInv
BY InitFetch, NextFetch, PTL DEF Spec

\* Whatever pages Gmail sends, the fetch keeps no more ids than the source
\* allows, asks for no id it does not have and for none twice, and returns
\* messages that exist, each once; also in a fetch that fails later
\* (listMessageIDs, connector.go:148, and the loop of Fetch).
THEOREM FetchStaysInBounds == Spec => [](FetchTypeOK /\ (source = "gmail" => EachOnce))
<1>1. FetchInv => FetchTypeOK
  BY DEF FetchInv
<1>2. FetchInv => (source = "gmail" => EachOnce)
  <2> SUFFICES ASSUME FetchInv, source = "gmail" PROVE EachOnce
    OBVIOUS
  <2>1. CASE pc = "idle"
    BY <2>1 DEF FetchInv, EachOnce
  <2>2. CASE pc # "idle"
    <3>1. Listing /\ Getting
      BY <2>2 DEF FetchInv, FetchTypeOK, Fetching
    <3>2. \A i, k \in DOMAIN ids : ids[i] = ids[k] => i = k
      BY <3>1 DEF Listing
    <3>3. /\ Len(jobs) \in Nat /\ DOMAIN jobs = 1..Len(jobs)
          /\ \A i \in DOMAIN jobs : jobs[i] \in 1..Mails
      <4>1. jobs \in Seq(1..Mails)
        BY DEF FetchInv, FetchTypeOK
      <4>2. Len(jobs) \in Nat /\ DOMAIN jobs = 1..Len(jobs)
        BY <4>1
      <4> QED BY <4>1, <4>2, ElementOfSeq
    <3>4. Mails \in Nat
      BY DEF FetchInv, Mails
    <3>5. ASSUME NEW i \in DOMAIN jobs, NEW k \in DOMAIN jobs, k < i PROVE jobs[k] # jobs[i]
      <4>1. k \in 1..(i - 1)
        BY <3>3, <3>5
      <4>2. jobs[k] < jobs[i] /\ jobs[k] \in Nat /\ jobs[i] \in Nat
        BY <3>1, <3>3, <3>4, <4>1 DEF Getting
      <4> QED BY <4>2
    <3>6. \A i, k \in DOMAIN jobs : jobs[i] = jobs[k] => i = k
      BY <3>3, <3>5
    <3> QED BY <3>2, <3>6 DEF EachOnce
  <2> QED BY <2>1, <2>2
<1> QED BY <1>1, <1>2, FetchAlways, PTL

\* A fetch that succeeds has asked for the newest messages up to max_results,
\* each once and in order, unless Gmail itself cut the list; it returns those
\* that could be read, and nothing only if there was nothing (connector.go:103).
THEOREM SuccessfulFetchIsComplete == Spec => []SuccessIsComplete
<1>1. FetchInv => SuccessIsComplete
  <2> SUFFICES ASSUME FetchInv, pc \in {"ok", "saving"}, source = "gmail"
               PROVE  FetchIsComplete
    BY DEF SuccessIsComplete
  <2>1. Listing /\ Getting /\ jobs \in Seq(1..Mails)
    BY DEF FetchInv, Fetching, FetchTypeOK
  <2>2. \A i \in 1..Len(jobs) : \A k \in 1..(i - 1) : jobs[k] < jobs[i]
    BY <2>1 DEF Getting
  <2> QED BY <2>1, <2>2 DEF Listing, Getting, Smaller, FetchIsComplete
<1> QED BY <1>1, FetchAlways, PTL
-----------------------------------------------------------------------------
(* What the parsers make of a message, whatever its number.                *)

LEMMA LeastMember ==
    ASSUME NEW S \in SUBSET Nat, NEW n \in S
    PROVE  \E m \in S : \A k \in S : m <= k
<1> DEFINE R == {ss \in Nat \X Nat : ss[1] < ss[2]}
<1>1. IsWellFoundedOn(R, Nat)
  BY NatLessThanWellFounded DEF OpToRel
<1>2. \A k, m \in Nat : k < m => <<k, m>> \in R
  OBVIOUS
<1> HIDE DEF R
<1>3. PICK m \in S : \A k \in S : ~ (<<k, m>> \in R)
  BY <1>1, WFMin
<1>4. ASSUME NEW k \in S PROVE m <= k
  <2>1. ~(k < m)
    BY <1>2, <1>3
  <2> QED BY <2>1
<1> QED BY <1>4

\* The least of some positions is one of them, and not 0.
LEMMA LeastPosition ==
    ASSUME NEW l, NEW I, I \subseteq 1..l, I # {}
    PROVE  Min(I) \in I /\ Min(I) # 0 /\ \A i \in I : Min(I) <= i
<1>1. I \in SUBSET Nat /\ 0 \notin I
  OBVIOUS
<1>2. PICK n \in I : TRUE
  OBVIOUS
<1>3. \E m \in I : \A k \in I : m <= k
  BY <1>1, <1>2, LeastMember
<1> QED BY <1>1, <1>3 DEF Min

LEMMA FirstTextIs ==
    ASSUME NEW texts
    PROVE  FirstText(texts) = <<>> \/ \E i \in 1..Len(texts) : FirstText(texts) = texts[i]
<1> DEFINE I == {i \in 1..Len(texts) : texts[i] # <<>>}
<1>1. I = {} => FirstText(texts) = <<>>
  BY DEF FirstText, SelectInSeq
<1>2. I # {} => FirstText(texts) = texts[Min(I)] /\ Min(I) \in I
  <2> SUFFICES ASSUME I # {} PROVE FirstText(texts) = texts[Min(I)] /\ Min(I) \in I
    OBVIOUS
  <2>1. Min(I) \in I /\ Min(I) # 0
    BY LeastPosition
  <2> QED BY <2>1 DEF FirstText, SelectInSeq
<1> QED BY <1>1, <1>2

\* Of two texts the second counts only if the first is empty.
LEMMA FirstOfTwo ==
    ASSUME NEW a, NEW b
    PROVE  FirstText(<<a, b>>) = IF a # <<>> THEN a ELSE b
<1> DEFINE I == {i \in 1..2 : <<a, b>>[i] # <<>>}
<1>0. FirstText(<<a, b>>) = IF I = {} THEN <<>> ELSE <<a, b>>[Min(I)]
  <2>1. I # {} => Min(I) # 0
    BY LeastPosition
  <2>2. Len(<<a, b>>) = 2
    OBVIOUS
  <2> QED BY <2>1, <2>2 DEF FirstText, SelectInSeq
<1>1. I = (IF a # <<>> THEN {1} ELSE {}) \cup (IF b # <<>> THEN {2} ELSE {})
  OBVIOUS
<1>2. I # {} => Min(I) \in I /\ \A i \in I : Min(I) <= i
  BY LeastPosition
<1> HIDE DEF I
<1>3. CASE a # <<>>
  <2>1. 1 \in I /\ Min(I) \in {1, 2} /\ Min(I) <= 1
    BY <1>1, <1>2, <1>3
  <2>2. Min(I) = 1
    BY <2>1
  <2> QED BY <1>0, <1>3, <2>1, <2>2
<1>4. CASE a = <<>> /\ b # <<>>
  <2>1. I = {2} /\ Min(I) = 2
    BY <1>1, <1>2, <1>4
  <2> QED BY <1>0, <1>4, <2>1
<1>5. CASE a = <<>> /\ b = <<>>
  BY <1>0, <1>1, <1>5
<1> QED BY <1>3, <1>4, <1>5

LEMMA AmountsType ==
    ASSUME NEW t, NEW unit, NEW range
    PROVE  Amounts(t, unit, range) \in Seq(Nat)
<1> DEFINE I == {i \in 1..Len(t) : /\ t[i] \in DOMAIN Amount
                                   /\ Amount[t[i]].unit = unit /\ Amount[t[i]].range = range}
<1>1. <<>> \in Seq(Nat)
  BY EmptySeq
<1>2. CASE I = {}
  BY <1>1, <1>2 DEF Amounts, SelectInSeq
<1>3. CASE I # {}
  <2>1. Min(I) \in I /\ Min(I) # 0
    BY <1>3, LeastPosition
  <2>2. Amounts(t, unit, range) = <<Amount[t[Min(I)]].lo, Amount[t[Min(I)]].hi>>
    BY <1>3, <2>1 DEF Amounts, SelectInSeq
  <2>3. Amount[t[Min(I)]].lo \in Nat /\ Amount[t[Min(I)]].hi \in Nat
    <3> DEFINE w == t[Min(I)]
    <3>1. w \in DOMAIN Amount
      BY <2>1
    <3> HIDE DEF w
    <3> QED BY <3>1, ParsingAssumption DEF w
  <2> QED BY <2>2, <2>3
<1> QED BY <1>2, <1>3

LEMMA RateType ==
    ASSUME NEW t
    PROVE  Rate(t) \in Seq(Nat)
<1> DEFINE texts == <<Amounts(t, "man", TRUE), Amounts(t, "man", FALSE),
                      Amounts(t, "yen", TRUE), Amounts(t, "yen", FALSE)>>
<1>1. Len(texts) = 4 /\ \A i \in 1..4 : texts[i] \in Seq(Nat)
  <2>1. \A unit, range : Amounts(t, unit, range) \in Seq(Nat)
    BY AmountsType
  <2>2. /\ texts[1] = Amounts(t, "man", TRUE) /\ texts[2] = Amounts(t, "man", FALSE)
        /\ texts[3] = Amounts(t, "yen", TRUE) /\ texts[4] = Amounts(t, "yen", FALSE)
        /\ Len(texts) = 4 /\ 1..4 = {1, 2, 3, 4}
    OBVIOUS
  <2> HIDE DEF texts
  <2> QED BY <2>1, <2>2
<1>2. Rate(t) = FirstText(texts)
  BY DEF Rate
<1>3. <<>> \in Seq(Nat)
  BY EmptySeq
<1> HIDE DEF texts
<1> QED BY <1>1, <1>2, <1>3, FirstTextIs

LEMMA DaysOfType ==
    ASSUME NEW t, NEW week
    PROVE  DaysOf(t, week) \in Seq(1..7)
<1> DEFINE I == {i \in 1..Len(t) : /\ t[i] \in DOMAIN DaysIn /\ DaysIn[t[i]].week = week
                                   /\ DaysIn[t[i]].lo \in 1..7
                                   /\ DaysIn[t[i]].hi \in DaysIn[t[i]].lo..7}
<1>1. <<>> \in Seq(1..7)
  BY EmptySeq
<1>2. CASE I = {}
  BY <1>1, <1>2 DEF DaysOf, SelectInSeq
<1>3. CASE I # {}
  <2>1. Min(I) \in I /\ Min(I) # 0
    BY <1>3, LeastPosition
  <2>2. DaysOf(t, week) = <<DaysIn[t[Min(I)]].lo, DaysIn[t[Min(I)]].hi>>
    BY <1>3, <2>1 DEF DaysOf, SelectInSeq
  <2>3. DaysIn[t[Min(I)]].lo \in 1..7 /\ DaysIn[t[Min(I)]].hi \in 1..7
    <3> DEFINE low == DaysIn[t[Min(I)]].lo
               high == DaysIn[t[Min(I)]].hi
    <3>1. low \in 1..7 /\ high \in low..7
      BY <2>1
    <3> HIDE DEF low, high
    <3>2. high \in 1..7
      BY <3>1
    <3> QED BY <3>1, <3>2 DEF low, high
  <2> DEFINE low == DaysIn[t[Min(I)]].lo
             high == DaysIn[t[Min(I)]].hi
  <2> HIDE DEF low, high
  <2>4. low \in 1..7 /\ high \in 1..7 /\ DaysOf(t, week) = <<low, high>>
    BY <2>2, <2>3 DEF low, high
  <2>5. <<low, high>> \in Seq(1..7)
    BY <2>4
  <2> QED BY <2>4, <2>5
<1> QED BY <1>2, <1>3

LEMMA WorkDaysType ==
    ASSUME NEW t
    PROVE  WorkDays(t) \in Seq(1..7)
<1> DEFINE texts == <<DaysOf(t, TRUE), DaysOf(t, FALSE)>>
<1>1. Len(texts) = 2 /\ \A i \in 1..2 : texts[i] \in Seq(1..7)
  <2>1. \A week : DaysOf(t, week) \in Seq(1..7)
    BY DaysOfType
  <2>2. /\ texts[1] = DaysOf(t, TRUE) /\ texts[2] = DaysOf(t, FALSE)
        /\ Len(texts) = 2 /\ 1..2 = {1, 2}
    OBVIOUS
  <2> HIDE DEF texts
  <2> QED BY <2>1, <2>2
<1>2. WorkDays(t) = FirstText(texts)
  BY DEF WorkDays
<1>3. <<>> \in Seq(1..7)
  BY EmptySeq
<1> HIDE DEF texts
<1> QED BY <1>1, <1>2, <1>3, FirstTextIs
-----------------------------------------------------------------------------
(* Postings *)

\* What a message becomes, but for the number it is fetched under.
Posting(m) == ToJobPosting(RawJob(m, 0))

Origins == {ToJobPosting(RawJob(m, n)).origin : m \in Messages, n \in Nat}

LEMMA BuildFacts ==
    ASSUME NEW from, NEW external, NEW body, NEW f
    PROVE  LET p == Build(from, external, body, f)
           IN  /\ p.parses /\ p.origin = <<from, external>>
               /\ p.key = DedupKey(from, f.job_id, f.url, ContentHash(f.title, f.company, body))
               /\ p.content = [title |-> f.title, rate |-> Rate(f.rate),
                               days |-> WorkDays(f.work_days),
                               required |-> Skills(f.required_skills),
                               preferred |-> Skills(f.preferred_skills)]
               /\ p.content.rate \in Seq(Nat) /\ p.content.days \in Seq(1..7)
BY RateType, WorkDaysType DEF Build

\* The number is no part of the key, and no part of what a posting says.
LEMMA PostingFacts ==
    ASSUME NEW m \in Messages, NEW n
    PROVE  LET p == ToJobPosting(RawJob(m, n))
               given == HeaderValue(RawJob(m, 0).body, "MessageID")
           IN  /\ p.parses /\ p.key = Posting(m).key /\ p.content = Posting(m).content
               /\ p.content.rate \in Seq(Nat) /\ p.content.days \in Seq(1..7)
               /\ p.origin = <<m.source, IF m.source = "pages" \/ given = <<>>
                                         THEN <<"number", n>> ELSE given>>
<1> DEFINE raw == RawJob(m, n)
           given == HeaderValue(RawJob(m, 0).body, "MessageID")
           body == RawJob(m, 0).body
           sender == FirstText(<<raw.sender, HeaderValue(body, "From")>>)
           agent == Extract(sender, body)
           mailFields == IF agent # {} THEN CHOOSE f \in agent : TRUE ELSE ParseMail(body)
           fields == IF m.source = "pages" THEN ParsePage(body) ELSE mailFields
           external == IF m.source = "pages" \/ given = <<>> THEN <<"number", n>> ELSE given
           first == IF m.source = "pages" \/ given = <<>> THEN <<"number", 0>> ELSE given
<1>1. /\ raw.format = (IF m.source = "pages" THEN "html" ELSE "email")
      /\ raw.source = m.source /\ raw.external = <<"number", n>> /\ raw.body = body
      /\ raw.sender = m.sender
      /\ RawJob(m, 0).format = raw.format /\ RawJob(m, 0).source = m.source
      /\ RawJob(m, 0).external = <<"number", 0>> /\ RawJob(m, 0).sender = m.sender
  BY DEF RawJob
<1>2. ToJobPosting(raw) = Build(m.source, external, body, fields)
  <2>1. CASE m.source = "pages"
    <3>1. raw.format = "html" /\ external = <<"number", n>> /\ fields = ParsePage(body)
      BY <1>1, <2>1
    <3> HIDE DEF raw, external, fields, body
    <3> QED BY <1>1, <3>1 DEF ToJobPosting
  <2>2. CASE m.source # "pages"
    <3>1. raw.format = "email" /\ fields = mailFields
      BY <1>1, <2>2
    <3>2. FirstText(<<HeaderValue(raw.body, "MessageID"), raw.external>>) = external
      BY <1>1, <2>2, FirstOfTwo
    <3>3. ToJobPosting(raw) =
            Build(raw.source,
                  FirstText(<<HeaderValue(raw.body, "MessageID"), raw.external>>), raw.body,
                  mailFields)
      <4> HIDE DEF raw, external, body
      <4> QED BY <1>1, <3>1 DEF ToJobPosting
    <3> HIDE DEF raw, external, body, fields, mailFields
    <3> QED BY <1>1, <3>1, <3>2, <3>3
  <2> QED BY <2>1, <2>2
<1>3. Posting(m) = Build(m.source, first, body, fields)
  <2> DEFINE raw0 == RawJob(m, 0)
  <2>1. CASE m.source = "pages"
    <3>1. raw0.format = "html" /\ first = <<"number", 0>> /\ fields = ParsePage(body)
      BY <1>1, <2>1
    <3>2. raw0.body = body
      OBVIOUS
    <3>3. Posting(m) = ToJobPosting(raw0)
      BY DEF Posting
    <3> HIDE DEF raw0, first, fields, body
    <3> QED BY <1>1, <3>1, <3>2, <3>3 DEF ToJobPosting, raw0
  <2>2. CASE m.source # "pages"
    <3>1. raw0.format = "email" /\ fields = mailFields
      BY <1>1, <2>2
    <3>2. FirstText(<<HeaderValue(raw0.body, "MessageID"), raw0.external>>) = first
      BY <1>1, <2>2, FirstOfTwo
    <3>3. raw0.sender = raw.sender /\ raw0.body = body /\ raw0.source = m.source
      BY <1>1
    <3>4. Posting(m) = ToJobPosting(raw0)
      BY DEF Posting
    <3>5. ToJobPosting(raw0) =
            Build(raw0.source,
                  FirstText(<<HeaderValue(raw0.body, "MessageID"), raw0.external>>), raw0.body,
                  mailFields)
      <4> HIDE DEF raw0, raw, body
      <4> QED BY <3>1, <3>3 DEF ToJobPosting
    <3> HIDE DEF raw0, first, body, fields, mailFields
    <3> QED BY <3>1, <3>2, <3>3, <3>4, <3>5
  <2> QED BY <2>1, <2>2
<1>4. given = HeaderValue(body, "MessageID")
  OBVIOUS
<1> HIDE DEF raw, body, fields, external, first
<1>5. /\ ToJobPosting(raw).parses /\ ToJobPosting(raw).key = Posting(m).key
      /\ ToJobPosting(raw).content = Posting(m).content
      /\ ToJobPosting(raw).content.rate \in Seq(Nat)
      /\ ToJobPosting(raw).content.days \in Seq(1..7)
      /\ ToJobPosting(raw).origin = <<m.source, external>>
  <2> DEFINE p == Build(m.source, external, body, fields)
             q == Build(m.source, first, body, fields)
             key == DedupKey(m.source, fields.job_id, fields.url,
                             ContentHash(fields.title, fields.company, body))
             content == [title |-> fields.title, rate |-> Rate(fields.rate),
                         days |-> WorkDays(fields.work_days),
                         required |-> Skills(fields.required_skills),
                         preferred |-> Skills(fields.preferred_skills)]
  <2>1. /\ p.parses /\ p.origin = <<m.source, external>> /\ p.key = key /\ p.content = content
        /\ p.content.rate \in Seq(Nat) /\ p.content.days \in Seq(1..7)
    BY BuildFacts
  <2>2. q.key = key /\ q.content = content
    BY BuildFacts
  <2> HIDE DEF p, q, key, content
  <2>3. ToJobPosting(raw) = p /\ Posting(m) = q
    BY <1>2, <1>3 DEF p, q
  <2> QED BY <2>1, <2>2, <2>3
<1> QED BY <1>5 DEF raw, external
-----------------------------------------------------------------------------
(* The rows and the batch that is being saved *)

Keys == {Posting(m).key : m \in Messages}
Contents == {Posting(m).content : m \in Messages}
Row == [key : Keys, content : Contents,
        sources : SUBSET Origins, status : {"new"}, score : {0}]

BoxInv == Mails <= MaxMessages /\ \A n \in DOMAIN mailbox : mailbox[n].source = source

Parses == parsed = [n \in 1..Mails |-> ToJobPosting(RawJob(mailbox[n], n))]

\* A key has one row, and what introduces the posting of a row are messages
\* with its key.
RowsInv ==
    /\ rows \in Seq(Row)
    /\ \A r, t \in DOMAIN rows : rows[r].key = rows[t].key => r = t
    /\ \A r \in DOMAIN rows :
         /\ rows[r].sources # {}
         /\ \A o \in rows[r].sources :
              \E n \in 1..Mails : parsed[n].origin = o /\ parsed[n].key = rows[r].key

\* The row that a posting of the batch is saved to.
Holds(r, i) ==
    /\ rows[r].key = Batch[i].key
    /\ rows[r].content = Batch[i].content
    /\ MergedSources(Batch, i) \subseteq rows[r].sources

\* What is no longer pending is saved, and nothing that is saved later undoes it.
SavingInv ==
    /\ pc # "saving" => pending = {}
    /\ pc = "saving" =>
         /\ pending \subseteq Dedupe(Batch)
         /\ \A i \in Dedupe(Batch) \ pending : \E r \in DOMAIN rows : Holds(r, i)

IntakeInv == FetchInv /\ BoxInv /\ Parses /\ RowsInv /\ SavingInv

LEMMA ParsedFacts ==
    ASSUME mailbox \in Seq(Messages), Parses, NEW n \in 1..Mails
    PROVE  /\ mailbox[n] \in Messages
           /\ parsed[n] = ToJobPosting(RawJob(mailbox[n], n))
           /\ parsed[n].parses
           /\ parsed[n].key = Posting(mailbox[n]).key
           /\ parsed[n].content = Posting(mailbox[n]).content
           /\ parsed[n].origin \in Origins
<1>1. mailbox[n] \in Messages
  BY DEF Mails
<1>2. parsed[n] = ToJobPosting(RawJob(mailbox[n], n))
  BY DEF Parses
<1>3. n \in Nat
  OBVIOUS
<1>4. parsed[n].origin \in Origins
  BY <1>1, <1>2, <1>3 DEF Origins
<1>5. LET p == ToJobPosting(RawJob(mailbox[n], n))
      IN  /\ p.parses /\ p.key = Posting(mailbox[n]).key
          /\ p.content = Posting(mailbox[n]).content
  BY <1>1, PostingFacts
<1> QED BY <1>1, <1>2, <1>4, <1>5

LEMMA BatchFacts ==
    ASSUME FetchInv, Parses
    PROVE  /\ DOMAIN Batch = DOMAIN jobs /\ DOMAIN jobs = 1..Len(jobs) /\ Len(jobs) \in Nat
           /\ \A i \in DOMAIN jobs :
                /\ Number(jobs[i]) \in 1..Mails
                /\ Batch[i] = parsed[Number(jobs[i])]
           /\ Parsed(Batch) = DOMAIN jobs
<1>1. /\ jobs \in Seq(1..Mails) /\ Mails \in Nat /\ mailbox \in Seq(Messages)
      /\ DOMAIN jobs = 1..Len(jobs) /\ Len(jobs) \in Nat
  BY DEF FetchInv, FetchTypeOK, Mails
<1>2. DOMAIN Batch = DOMAIN jobs /\ \A i \in DOMAIN jobs : Batch[i] = parsed[Number(jobs[i])]
  BY DEF Batch
<1>3. \A i \in DOMAIN jobs : Number(jobs[i]) \in 1..Mails
  <2> SUFFICES ASSUME NEW i \in DOMAIN jobs PROVE Number(jobs[i]) \in 1..Mails
    OBVIOUS
  <2>1. jobs[i] \in 1..Mails
    BY <1>1
  <2> QED BY <1>1, <2>1 DEF Number
<1>4. \A i \in DOMAIN jobs : Batch[i].parses
  BY <1>1, <1>2, <1>3, ParsedFacts
<1> QED BY <1>1, <1>2, <1>3, <1>4 DEF Parsed

\* One row has the key: with the new content, all that introduced the posting
\* before, and all that does now.
SavedTo(r, k, c, srcs) ==
    /\ rows'[r].key = k /\ rows'[r].content = c
    /\ \A t \in DOMAIN rows' \ {r} : t \in DOMAIN rows /\ rows'[t] = rows[t]
    /\ \/ /\ r \in DOMAIN rows /\ rows[r].key = k
          /\ rows'[r].sources = rows[r].sources \cup srcs
       \/ /\ r \notin DOMAIN rows /\ rows'[r].sources = srcs
          /\ \A t \in DOMAIN rows : rows[t].key # k

LEMMA SaveJobFacts ==
    ASSUME rows \in Seq(Row), NEW k \in Keys, NEW c \in Contents, NEW srcs \in SUBSET Origins,
           Store!SaveJob(k, c, srcs)
    PROVE  /\ rows' \in Seq(Row) /\ DOMAIN rows \subseteq DOMAIN rows'
           /\ \E r \in DOMAIN rows' : SavedTo(r, k, c, srcs)
<1>1. CASE Store!JobsWithKey(k) = {} /\ Store!InsertJob(k, c, srcs)
  <2> DEFINE row == [key |-> k, content |-> c, sources |-> srcs, status |-> "new", score |-> 0]
             r == Len(rows) + 1
  <2>1. row \in Row /\ row.key = k /\ row.content = c /\ row.sources = srcs
    BY DEF Row
  <2>2. rows' = Append(rows, row)
    BY <1>1 DEF Store!InsertJob
  <2>3. \A t \in DOMAIN rows : rows[t].key # k
    BY <1>1 DEF Store!JobsWithKey
  <2> HIDE DEF row
  <2>4. /\ rows' \in Seq(Row) /\ DOMAIN rows' = DOMAIN rows \cup {r}
        /\ r \notin DOMAIN rows /\ rows'[r] = row
        /\ \A t \in DOMAIN rows : rows'[t] = rows[t]
    BY <2>1, <2>2, AppendProperties
  <2> HIDE DEF r
  <2> QED BY <2>1, <2>3, <2>4 DEF SavedTo
<1>2. CASE \E i \in Store!JobsWithKey(k) : Store!UpdateJob(i, c, srcs)
  <2>1. PICK i \in DOMAIN rows : rows[i].key = k /\ Store!UpdateJob(i, c, srcs)
    BY <1>2 DEF Store!JobsWithKey
  <2> DEFINE row == [rows[i] EXCEPT !.content = c, !.sources = @ \cup srcs]
  <2>2. rows[i] \in Row
    BY <2>1
  <2>3. /\ row \in Row /\ row.key = k /\ row.content = c
        /\ row.sources = rows[i].sources \cup srcs
    BY <2>1, <2>2 DEF Row
  <2>4. rows' = [rows EXCEPT ![i] = row]
    BY <2>1 DEF Store!UpdateJob
  <2> HIDE DEF row
  <2>5. /\ rows' \in Seq(Row) /\ DOMAIN rows' = DOMAIN rows /\ rows'[i] = row
        /\ \A t \in DOMAIN rows \ {i} : rows'[t] = rows[t]
    BY <2>1, <2>3, <2>4, ExceptSeq
  <2> QED BY <2>1, <2>3, <2>5 DEF SavedTo
<1> QED BY <1>1, <1>2 DEF Store!SaveJob

\* What is merged into one posting comes from messages with its key.
LEMMA MergedFacts ==
    ASSUME FetchInv, Parses, NEW i \in DOMAIN jobs
    PROVE  /\ Batch[i].key \in Keys
           /\ Batch[i].content \in Contents
           /\ MergedSources(Batch, i) \in SUBSET Origins /\ MergedSources(Batch, i) # {}
           /\ \A o \in MergedSources(Batch, i) :
                \E n \in 1..Mails : parsed[n].origin = o /\ parsed[n].key = Batch[i].key
<1>1. mailbox \in Seq(Messages)
  BY DEF FetchInv
<1>2. \A j \in DOMAIN jobs : Number(jobs[j]) \in 1..Mails /\ Batch[j] = parsed[Number(jobs[j])]
  BY BatchFacts
<1>3. /\ Batch[i].key \in Keys
      /\ Batch[i].content \in Contents
  <2>1. /\ mailbox[Number(jobs[i])] \in Messages
        /\ Batch[i].key = Posting(mailbox[Number(jobs[i])]).key
        /\ Batch[i].content = Posting(mailbox[Number(jobs[i])]).content
    BY <1>1, <1>2, ParsedFacts
  <2> QED BY <2>1 DEF Keys, Contents
<1>4. ASSUME NEW o \in MergedSources(Batch, i)
      PROVE  /\ o \in Origins
             /\ \E n \in 1..Mails : parsed[n].origin = o /\ parsed[n].key = Batch[i].key
  <2>1. PICK j \in Parsed(Batch) : Batch[j].key = Batch[i].key /\ o = Batch[j].origin
    BY DEF MergedSources
  <2>2. j \in DOMAIN jobs
    BY BatchFacts, <2>1
  <2>3. Number(jobs[j]) \in 1..Mails /\ parsed[Number(jobs[j])].origin = o
        /\ parsed[Number(jobs[j])].key = Batch[i].key
    BY <1>2, <2>1, <2>2
  <2>4. parsed[Number(jobs[j])].origin \in Origins
    BY <1>1, <2>3, ParsedFacts
  <2> QED BY <2>3, <2>4
<1>5. Batch[i].origin \in MergedSources(Batch, i)
  BY BatchFacts DEF MergedSources
<1> QED BY <1>3, <1>4, <1>5

LEMMA SaveKeeps ==
    ASSUME IntakeInv, Save
    PROVE  RowsInv' /\ SavingInv'
<1>1. PICK i \in pending :
        /\ Store!SaveJob(Batch[i].key, Batch[i].content, MergedSources(Batch, i))
        /\ pending' = pending \ {i}
  BY DEF Save
<1>2. /\ pc = "saving" /\ pc' = "saving" /\ Batch' = Batch /\ parsed' = parsed /\ Mails' = Mails
      /\ mailbox' = mailbox
  BY DEF Save, fetchVars, Batch, Number, Mails
<1>3. i \in Dedupe(Batch) /\ i \in DOMAIN jobs
  BY <1>1, <1>2, BatchFacts DEF IntakeInv, SavingInv, Dedupe
<1>0. PICK k, c, srcs :
        k = Batch[i].key /\ c = Batch[i].content /\ srcs = MergedSources(Batch, i)
  OBVIOUS
<1>4. /\ k \in Keys /\ c \in Contents
      /\ srcs \in SUBSET Origins /\ srcs # {}
      /\ \A o \in srcs : \E n \in 1..Mails : parsed[n].origin = o /\ parsed[n].key = k
  BY <1>0, <1>3, MergedFacts DEF IntakeInv
<1>5. Store!SaveJob(k, c, srcs)
  BY <1>0, <1>1
<1>6. /\ rows' \in Seq(Row) /\ DOMAIN rows \subseteq DOMAIN rows'
      /\ \E r \in DOMAIN rows' : SavedTo(r, k, c, srcs)
  <2>1. rows \in Seq(Row)
    BY DEF IntakeInv, RowsInv
  <2>2. /\ k \in Keys /\ c \in Contents
        /\ srcs \in SUBSET Origins
    BY <1>4
  <2> QED BY <1>5, <2>1, <2>2, SaveJobFacts
<1>7. PICK r \in DOMAIN rows' :
        /\ rows'[r].key = k /\ rows'[r].content = c
        /\ \A t \in DOMAIN rows' \ {r} : t \in DOMAIN rows /\ rows'[t] = rows[t]
        /\ \/ /\ r \in DOMAIN rows /\ rows[r].key = k
              /\ rows'[r].sources = rows[r].sources \cup srcs
           \/ /\ r \notin DOMAIN rows /\ rows'[r].sources = srcs
              /\ \A t \in DOMAIN rows : rows[t].key # k
  BY <1>6 DEF SavedTo
<1>8. RowsInv'
  <2>1. \A s, t \in DOMAIN rows' : rows'[s].key = rows'[t].key => s = t
    BY <1>7 DEF IntakeInv, RowsInv
  <2>2. ASSUME NEW t \in DOMAIN rows'
        PROVE  /\ rows'[t].sources # {}
               /\ \A o \in rows'[t].sources :
                    \E n \in 1..Mails : parsed[n].origin = o /\ parsed[n].key = rows'[t].key
    <3>1. CASE t # r
      <4>1. t \in DOMAIN rows /\ rows'[t] = rows[t]
        BY <1>7, <3>1
      <4> QED BY <4>1 DEF IntakeInv, RowsInv
    <3>2. CASE t = r /\ r \in DOMAIN rows
      <4>1. rows'[r].sources = rows[r].sources \cup srcs /\ rows[r].key = k /\ rows'[r].key = k
        BY <1>7, <3>2
      <4>2. /\ rows[r].sources # {}
            /\ \A o \in rows[r].sources :
                 \E n \in 1..Mails : parsed[n].origin = o /\ parsed[n].key = rows[r].key
        BY <3>2 DEF IntakeInv, RowsInv
      <4> QED BY <1>4, <3>2, <4>1, <4>2
    <3>3. CASE t = r /\ r \notin DOMAIN rows
      <4>1. rows'[r].sources = srcs /\ rows'[r].key = k
        BY <1>7, <3>3
      <4> QED BY <1>4, <3>3, <4>1
    <3> QED BY <3>1, <3>2, <3>3
  <2> QED BY <1>2, <1>6, <2>1, <2>2 DEF RowsInv
<1>9. SavingInv'
  <2>1. pending' \subseteq Dedupe(Batch)
    BY <1>1, <1>2 DEF IntakeInv, SavingInv
  <2>2. ASSUME NEW j \in Dedupe(Batch) \ pending' PROVE \E t \in DOMAIN rows' : Holds(t, j)'
    <3>1. CASE j = i
      <4>1. /\ rows'[r].key = Batch[j].key /\ rows'[r].content = Batch[j].content
            /\ MergedSources(Batch, j) \subseteq rows'[r].sources
        BY <1>0, <1>7, <3>1
      <4> QED BY <1>2, <4>1 DEF Holds
    <3>2. CASE j # i
      <4>1. j \in Dedupe(Batch) \ pending
        BY <1>1, <3>2
      <4>2. PICK t \in DOMAIN rows : Holds(t, j)
        BY <1>2, <4>1 DEF IntakeInv, SavingInv
      <4>3. Batch[j].key # Batch[i].key
        <5>1. i \in Nat /\ j \in Nat /\ i \in Parsed(Batch) /\ j \in Parsed(Batch)
          BY <1>3, <4>1, BatchFacts DEF Dedupe, IntakeInv
        <5>2. i < j \/ j < i
          BY <3>2, <5>1
        <5> QED BY <1>3, <4>1, <5>1, <5>2 DEF Dedupe
      <4>4. t # r
        <5>1. rows[t].key = Batch[j].key
          BY <4>2 DEF Holds
        <5> QED BY <1>0, <1>7, <4>3, <5>1
      <4>5. t \in DOMAIN rows' /\ rows'[t] = rows[t]
        BY <1>6, <1>7, <4>4
      <4> QED BY <1>2, <4>2, <4>5 DEF Holds
    <3> QED BY <3>1, <3>2
  <2> QED BY <1>2, <2>1, <2>2 DEF SavingInv
<1> QED BY <1>8, <1>9

LEMMA ArriveKeepsRows ==
    ASSUME IntakeInv, Arrive
    PROVE  BoxInv' /\ Parses' /\ RowsInv' /\ SavingInv'
<1>1. PICK m \in Messages :
        /\ m.source = source /\ mailbox' = Append(mailbox, m)
        /\ parsed' = Append(parsed, ToJobPosting(RawJob(m, Mails + 1)))
  BY DEF Arrive
<1>2. /\ pc = "idle" /\ Mails < MaxMessages /\ UNCHANGED <<pc, source, rows, pending>>
      /\ mailbox \in Seq(Messages) /\ Mails \in Nat /\ MaxMessages \in Nat
  BY IntakeAssumption DEF Arrive, Mails, IntakeInv, FetchInv
<1>3. /\ Mails' = Mails + 1 /\ mailbox'[Mails + 1] = m /\ DOMAIN mailbox = 1..Mails
      /\ DOMAIN mailbox' = 1..(Mails + 1)
      /\ \A n \in 1..Mails : mailbox'[n] = mailbox[n]
  BY <1>1, <1>2, AppendProperties DEF Mails
<1>4. BoxInv'
  <2>1. Mails' <= MaxMessages
    BY <1>2, <1>3
  <2>2. ASSUME NEW n \in DOMAIN mailbox' PROVE mailbox'[n].source = source'
    <3>1. n = Mails + 1 \/ n \in 1..Mails
      BY <1>2, <1>3
    <3> QED BY <1>1, <1>2, <1>3, <3>1 DEF BoxInv, IntakeInv
  <2> QED BY <2>1, <2>2, IntakeAssumption DEF BoxInv
<1>5. /\ parsed' = [n \in 1..(Mails + 1) |-> ToJobPosting(RawJob(mailbox'[n], n))]
      /\ \A n \in 1..Mails : parsed'[n] = parsed[n]
  <2> DEFINE x == ToJobPosting(RawJob(m, Mails + 1))
             made(n) == ToJobPosting(RawJob(mailbox[n], n))
             S == {made(n) : n \in 1..Mails}
  <2>1. parsed = [n \in 1..Mails |-> made(n)]
    BY DEF IntakeInv, Parses
  <2>2. \A n \in 1..Mails : made(n) = ToJobPosting(RawJob(mailbox'[n], n))
    BY <1>3
  <2>3. x = ToJobPosting(RawJob(mailbox'[Mails + 1], Mails + 1))
    BY <1>3
  <2> HIDE DEF made, x
  <2>4. parsed \in Seq(S) /\ Len(parsed) = Mails
    BY <1>2, <2>1
  <2>5. parsed' = Append(parsed, x)
    BY <1>1 DEF x
  <2> HIDE DEF S
  <2>6. /\ DOMAIN parsed' = 1..(Mails + 1) /\ parsed'[Mails + 1] = x
        /\ \A n \in 1..Mails : parsed'[n] = parsed[n]
        /\ parsed' = [n \in DOMAIN parsed' |-> parsed'[n]]
    <3>1. /\ Len(Append(parsed, x)) = Mails + 1 /\ Append(parsed, x)[Mails + 1] = x
          /\ \A n \in 1..Mails : Append(parsed, x)[n] = parsed[n]
          /\ Append(parsed, x) \in Seq(S \cup {x})
      BY <1>2, <2>4, AppendProperties
    <3> DEFINE q == Append(parsed, x)
    <3> HIDE DEF q
    <3>2. DOMAIN q = 1..(Mails + 1) /\ q = [n \in DOMAIN q |-> q[n]]
      <4>1. q \in Seq(S \cup {x}) /\ Len(q) = Mails + 1
        BY <3>1 DEF q
      <4>2. DOMAIN q = 1..Len(q) /\ q = [n \in 1..Len(q) |-> q[n]]
        BY <4>1
      <4> QED BY <4>1, <4>2
    <3>3. parsed' = q
      BY <2>5 DEF q
    <3> QED BY <3>1, <3>2, <3>3 DEF q
  <2>7. \A n \in 1..(Mails + 1) : parsed'[n] = ToJobPosting(RawJob(mailbox'[n], n))
    <3> SUFFICES ASSUME NEW n \in 1..(Mails + 1)
                 PROVE  parsed'[n] = ToJobPosting(RawJob(mailbox'[n], n))
      OBVIOUS
    <3>1. CASE n \in 1..Mails
      BY <2>1, <2>2, <2>6, <3>1
    <3>2. CASE n = Mails + 1
      BY <2>3, <2>6, <3>2
    <3> QED BY <1>2, <3>1, <3>2
  <2> QED BY <2>6, <2>7
<1>6. Parses'
  BY <1>3, <1>5 DEF Parses
<1>7. RowsInv'
  <2>1. ASSUME NEW r \in DOMAIN rows, NEW o \in rows[r].sources
        PROVE  \E n \in 1..Mails' : parsed'[n].origin = o /\ parsed'[n].key = rows[r].key
    <3>1. PICK n \in 1..Mails : parsed[n].origin = o /\ parsed[n].key = rows[r].key
      BY DEF IntakeInv, RowsInv
    <3>2. n \in 1..(Mails + 1) /\ parsed'[n] = parsed[n]
      <4>1. n \in 1..(Mails + 1)
        BY <1>2
      <4> QED BY <1>5, <4>1
    <3> QED BY <1>3, <3>1, <3>2
  <2> QED BY <1>2, <2>1 DEF RowsInv, IntakeInv
<1>8. SavingInv'
  BY <1>2 DEF SavingInv, IntakeInv
<1> QED BY <1>4, <1>6, <1>7, <1>8

\* The other steps save nothing: they leave the batch, begin it or end it.
LEMMA QuietStepKeepsRows ==
    ASSUME IntakeInv, UNCHANGED <<mailbox, source, parsed, rows>>,
           \/ pc' # "saving" /\ pending' = {}
           \/ pc' = "saving" /\ pending' = Dedupe(Batch) /\ jobs' = jobs
           \/ pc' = pc /\ pending' = pending /\ jobs' = jobs
    PROVE  BoxInv' /\ Parses' /\ RowsInv' /\ SavingInv'
<1>1. BoxInv' /\ Parses' /\ RowsInv'
  BY DEF IntakeInv, BoxInv, Parses, RowsInv, Mails
<1>2. CASE pc' # "saving" /\ pending' = {}
  BY <1>1, <1>2 DEF SavingInv
<1>3. CASE pc' = "saving" /\ pending' = Dedupe(Batch) /\ jobs' = jobs
  <2>1. Batch' = Batch
    BY <1>3 DEF Batch, Number, Mails
  <2> QED BY <1>1, <1>3, <2>1 DEF SavingInv
<1>4. CASE pc' = pc /\ pending' = pending /\ jobs' = jobs
  <2>1. Batch' = Batch
    BY <1>4 DEF Batch, Number, Mails
  <2>2. \A r, i : Holds(r, i)' <=> Holds(r, i)
    BY <2>1 DEF Holds
  <2> QED BY <1>1, <1>4, <2>1, <2>2 DEF SavingInv, IntakeInv
<1> QED BY <1>2, <1>3, <1>4

LEMMA NextKeepsRows ==
    ASSUME IntakeInv, [Next]_vars
    PROVE  BoxInv' /\ Parses' /\ RowsInv' /\ SavingInv'
<1> USE DEF fetchVars
<1>0. pc # "saving" => pending = {}
  BY DEF IntakeInv, SavingInv
<1>1. CASE Arrive
  BY <1>1, ArriveKeepsRows
<1>2. CASE Begin \/ ReadFiles
  BY <1>0, <1>2, QuietStepKeepsRows DEF Begin, ReadFiles
<1>3. CASE FetchGmail
  <2>1. pc # "saving" /\ pc' # "saving" /\ mailbox' = mailbox
    BY <1>3 DEF FetchGmail, FetchStep, ListCheck, ListPage, ListFails, GetCheck, GetMessage,
                GetFails, Result
  <2> QED BY <1>0, <1>3, <2>1, QuietStepKeepsRows DEF FetchGmail
<1>4. CASE Parse
  BY <1>4, QuietStepKeepsRows DEF Parse
<1>5. CASE Save
  <2>1. UNCHANGED <<mailbox, source, parsed>>
    BY <1>5 DEF Save
  <2>2. BoxInv' /\ Parses'
    BY <2>1 DEF IntakeInv, BoxInv, Parses, Mails
  <2> QED BY <1>5, <2>2, SaveKeeps
<1>6. CASE SaveFails \/ Finish \/ Kill
  <2>1. pc' = "idle" /\ pending' = {} /\ UNCHANGED <<mailbox, source, parsed, rows>>
    BY <1>6 DEF SaveFails, Finish, Kill, Leave
  <2> QED BY <2>1, QuietStepKeepsRows
<1>7. CASE Signal
  BY <1>7, QuietStepKeepsRows DEF Signal, Cancel
<1>8. CASE UNCHANGED vars
  BY <1>8, QuietStepKeepsRows DEF vars
<1> QED BY <1>1, <1>2, <1>3, <1>4, <1>5, <1>6, <1>7, <1>8 DEF Next, Step

LEMMA IntakeAlways == Spec => []IntakeInv
<1>1. Init => IntakeInv
  <2> SUFFICES ASSUME Init PROVE IntakeInv
    OBVIOUS
  <2>1. Mails = 0 /\ <<>> \in Seq(Row) /\ DOMAIN <<>> = {} /\ MaxMessages \in Nat
    BY EmptySeq, IntakeAssumption DEF Init, Mails
  <2>2. BoxInv
    BY <2>1 DEF Init, BoxInv
  <2>3. Parses
    <3>1. parsed = <<>> /\ 1..Mails = {}
      BY <2>1 DEF Init
    <3> QED BY <3>1 DEF Parses
  <2>4. RowsInv
    BY <2>1 DEF Init, RowsInv
  <2>5. SavingInv
    BY DEF Init, SavingInv
  <2> QED BY <2>2, <2>3, <2>4, <2>5, InitFetch DEF IntakeInv
<1>2. IntakeInv /\ [Next]_vars => IntakeInv'
  <2> SUFFICES ASSUME IntakeInv, [Next]_vars PROVE IntakeInv'
    OBVIOUS
  <2>1. FetchInv'
    BY NextFetch DEF IntakeInv
  <2> QED BY <2>1, NextKeepsRows DEF IntakeInv
<1> QED BY <1>1, <1>2, PTL DEF Spec
-----------------------------------------------------------------------------
(* What is asked of the messages, and what the rows then say.  The parsers *)
(* keep these promises to the layouts of the runs; any other messages that *)
(* the parsers can read are covered by the theorems.                       *)

\* The parsers find the id that a message gives itself; the id names one
\* message and is not like the number of a message without an id.
IdsNameMessages ==
    \A m \in Messages :
        /\ m.id = IF m.source = "pages" THEN <<>>
                  ELSE HeaderValue(RawJob(m, 0).body, "MessageID")
        /\ \A n \in Nat : m.id # <<"number", n>>
        /\ \A k \in Messages : m.source = k.source /\ m.id = k.id /\ m.id # <<>> => m = k

\* A key belongs to one posting, and a posting keeps its key (its id or URL) in
\* the layouts that are known.
KeysNamePostings ==
    \A m, k \in Messages : m.source = k.source =>
        LET same == m.posting = k.posting
            meet == Posting(m).key = Posting(k).key
        IN  /\ meet => same
            /\ same /\ m.regular /\ k.regular => meet

\* A message in a known layout is read as it says.
RegularIsRead == \A m \in Messages : m.regular => Posting(m).content = m.says

LEMMA OriginIsIntroduction ==
    ASSUME IdsNameMessages, mailbox \in Seq(Messages), BoxInv, Parses, NEW n \in 1..Mails
    PROVE  parsed[n].origin = Introduction(n)
<1> DEFINE m == mailbox[n]
           given == HeaderValue(RawJob(m, 0).body, "MessageID")
<1>1. m \in Messages /\ parsed[n] = ToJobPosting(RawJob(m, n))
  BY ParsedFacts
<1>2. m.source = source
  BY DEF BoxInv, Mails
<1>3. ToJobPosting(RawJob(m, n)).origin
        = <<m.source, IF m.source = "pages" \/ given = <<>> THEN <<"number", n>> ELSE given>>
  BY <1>1, PostingFacts
<1>4. m.id = IF m.source = "pages" THEN <<>> ELSE given
  BY <1>1 DEF IdsNameMessages
<1>5. Introduction(n) = <<source, IF m.id = <<>> THEN <<"number", n>> ELSE m.id>>
  BY DEF Introduction
<1> HIDE DEF m, given
<1> QED BY <1>1, <1>2, <1>3, <1>4, <1>5

LEMMA IntroductionIsOne ==
    ASSUME IdsNameMessages, mailbox \in Seq(Messages), BoxInv,
           NEW n \in 1..Mails, NEW k \in 1..Mails, Introduction(n) = Introduction(k)
    PROVE  n = k \/ mailbox[n] = mailbox[k]
<1> DEFINE m == mailbox[n]
           o == mailbox[k]
<1>1. m \in Messages /\ o \in Messages /\ m.source = o.source /\ n \in Nat /\ k \in Nat
  BY DEF BoxInv, Mails
<1>2. (IF m.id = <<>> THEN <<"number", n>> ELSE m.id)
        = (IF o.id = <<>> THEN <<"number", k>> ELSE o.id)
  BY DEF Introduction
<1> HIDE DEF m, o
<1>3. m.id # <<"number", k>> /\ o.id # <<"number", n>>
  BY <1>1 DEF IdsNameMessages
<1>4. CASE m.id = <<>> /\ o.id = <<>>
  <2>1. <<"number", n>> = <<"number", k>>
    BY <1>2, <1>4
  <2> QED BY <2>1
<1>5. CASE m.id # <<>> /\ o.id # <<>>
  <2>1. m.id = o.id
    BY <1>2, <1>5
  <2>2. m = o
    BY <1>1, <1>5, <2>1 DEF IdsNameMessages
  <2> QED BY <2>2 DEF m, o
<1> QED BY <1>2, <1>3, <1>4, <1>5

\* A row that names a message as an introduction has its key.
LEMMA IntroducedKey ==
    ASSUME IdsNameMessages, IntakeInv, NEW r \in DOMAIN rows, NEW n \in 1..Mails,
           Introduces(r, n)
    PROVE  rows[r].key = Posting(mailbox[n]).key
<1>1. mailbox \in Seq(Messages)
  BY DEF IntakeInv, FetchInv
<1>2. PICK k \in 1..Mails : parsed[k].origin = Introduction(n) /\ parsed[k].key = rows[r].key
  BY DEF Introduces, IntakeInv, RowsInv
<1>3. Introduction(k) = Introduction(n)
  BY <1>1, <1>2, OriginIsIntroduction DEF IntakeInv
<1>4. mailbox[k] = mailbox[n]
  BY <1>1, <1>3, IntroductionIsOne DEF IntakeInv
<1>5. parsed[k].key = Posting(mailbox[k]).key
  BY <1>1, ParsedFacts DEF IntakeInv
<1> QED BY <1>2, <1>4, <1>5

\* The mailbox and the rows keep their types: amounts are numbers and days are
\* days of a week whatever a text says, every pending posting was fetched,
\* and a row has always an introduction (normalizer.go:97, repository.go:43).
THEOREM TypeCorrect == Spec => []TypeOK
<1>1. IntakeInv => TypeOK
  <2> SUFFICES ASSUME IntakeInv PROVE TypeOK
    OBVIOUS
  <2>1. FetchTypeOK /\ mailbox \in Seq(Messages) /\ Mails <= MaxMessages
    BY DEF IntakeInv, FetchInv, BoxInv
  <2>2. \A n \in DOMAIN mailbox : mailbox[n].source = source
    BY DEF IntakeInv, BoxInv
  <2>3. ASSUME NEW r \in DOMAIN rows
        PROVE  /\ rows[r].content.rate \in Seq(Nat) /\ rows[r].content.days \in Seq(1..7)
               /\ rows[r].status = "new" /\ rows[r].sources # {}
    <3>1. rows \in Seq(Row) /\ rows[r].sources # {}
      BY DEF IntakeInv, RowsInv
    <3>2. rows[r] \in Row
      BY <3>1
    <3>3. PICK m \in Messages : rows[r].content = Posting(m).content
      BY <3>2 DEF Row, Contents
    <3>4. Posting(m).content.rate \in Seq(Nat) /\ Posting(m).content.days \in Seq(1..7)
      BY PostingFacts
    <3> QED BY <3>1, <3>2, <3>3, <3>4 DEF Row
  <2>4. pending \subseteq DOMAIN jobs
    BY BatchFacts DEF IntakeInv, SavingInv, Dedupe
  <2> QED BY <2>1, <2>2, <2>3, <2>4 DEF TypeOK
<1> QED BY <1>1, IntakeAlways, PTL

\* No row mixes two postings, and the regular messages on one posting meet in
\* one row, in whatever collections and after whatever failures they were saved
\* (the comment on DedupKey, parser.go:88; SaveJob, repository.go:43).
THEOREM RowsStayPostings ==
    ASSUME IdsNameMessages, KeysNamePostings
    PROVE  Spec => []RowsArePostings
<1>1. IntakeInv => RowsArePostings
  <2> SUFFICES ASSUME IntakeInv, NEW r \in DOMAIN rows, NEW t \in DOMAIN rows,
                      NEW n \in DOMAIN mailbox, NEW k \in DOMAIN mailbox,
                      Introduces(r, n), Introduces(t, k)
               PROVE  LET same == mailbox[n].posting = mailbox[k].posting
                      IN  /\ r = t => same
                          /\ same /\ mailbox[n].regular /\ mailbox[k].regular => r = t
    BY DEF RowsArePostings
  <2>1. /\ n \in 1..Mails /\ k \in 1..Mails /\ mailbox[n] \in Messages /\ mailbox[k] \in Messages
        /\ mailbox[n].source = mailbox[k].source
    BY DEF IntakeInv, FetchInv, BoxInv, Mails
  <2>2. rows[r].key = Posting(mailbox[n]).key /\ rows[t].key = Posting(mailbox[k]).key
    BY <2>1, IntroducedKey
  <2>3. rows[r].key = rows[t].key => r = t
    BY DEF IntakeInv, RowsInv
  <2> QED BY <2>1, <2>2, <2>3 DEF KeysNamePostings
<1> QED BY <1>1, IntakeAlways, PTL

\* Every posting of a batch that is through has a row with its introduction,
\* and the row says what the first message with its key says.
BatchIsSaved ==
    pc = "saving" /\ pending = {} =>
        \A i \in DOMAIN jobs :
            \E r \in DOMAIN rows :
                /\ rows[r].key = Batch[i].key /\ Batch[i].origin \in rows[r].sources
                /\ (\A j \in 1..(i - 1) : Batch[j].key # Batch[i].key)
                       => rows[r].content = Batch[i].content

LEMMA SavedBatch == IntakeInv => BatchIsSaved
<1> SUFFICES ASSUME IntakeInv, pc = "saving", pending = {}, NEW i \in DOMAIN jobs
             PROVE  \E r \in DOMAIN rows :
                      /\ rows[r].key = Batch[i].key /\ Batch[i].origin \in rows[r].sources
                      /\ (\A j \in 1..(i - 1) : Batch[j].key # Batch[i].key)
                             => rows[r].content = Batch[i].content
  BY DEF BatchIsSaved
<1> DEFINE S == {j \in DOMAIN jobs : Batch[j].key = Batch[i].key}
<1>1. /\ Parsed(Batch) = DOMAIN jobs /\ DOMAIN jobs = 1..Len(jobs) /\ Len(jobs) \in Nat
  BY BatchFacts DEF IntakeInv
<1>2. S \in SUBSET Nat /\ i \in S
  BY <1>1
<1> HIDE DEF S
<1>3. PICK j \in S : \A k \in S : j <= k
  BY <1>2, LeastMember
<1>4. j \in DOMAIN jobs /\ Batch[j].key = Batch[i].key /\ j \in Nat /\ i \in Nat /\ j <= i
  BY <1>2, <1>3 DEF S
<1>5. j \in Dedupe(Batch)
  <2>1. \A k \in Parsed(Batch) : k < j => Batch[k].key # Batch[j].key
    BY <1>1, <1>3, <1>4 DEF S
  <2> QED BY <1>1, <1>4, <2>1 DEF Dedupe
<1>6. PICK r \in DOMAIN rows : Holds(r, j)
  BY <1>5 DEF IntakeInv, SavingInv
<1>7. rows[r].key = Batch[i].key /\ Batch[i].origin \in rows[r].sources
  <2>1. Batch[i].origin \in MergedSources(Batch, j)
    BY <1>1, <1>4 DEF MergedSources
  <2> QED BY <1>4, <1>6, <2>1 DEF Holds
<1>8. ASSUME \A k \in 1..(i - 1) : Batch[k].key # Batch[i].key
      PROVE  rows[r].content = Batch[i].content
  <2>1. j = i
    <3>1. j \in 1..Len(jobs)
      BY <1>1, <1>4
    <3>2. ~ (j < i)
      BY <1>4, <1>8, <3>1
    <3> QED BY <1>4, <3>2
  <2> QED BY <1>6, <2>1 DEF Holds
<1> QED BY <1>7, <1>8

\* A collection that has saved its batch has lost no posting of it, merged ones
\* included, whatever the parsers made of the messages (CollectJobs.Run).
THEOREM BatchesAreSaved == Spec => []BatchIsSaved
BY SavedBatch, IntakeAlways, PTL

\* Then the rows say what the messages say, if the parsers read them well.
THEOREM RowsAreTrue ==
    ASSUME IdsNameMessages, KeysNamePostings, RegularIsRead
    PROVE  Spec => []RowsTellTruth
<1>1. IntakeInv => RowsTellTruth
  <2> SUFFICES ASSUME IntakeInv, pc = "saving", pending = {}, NEW i \in DOMAIN jobs,
                      mailbox[Number(jobs[i])].regular
               PROVE  LET n == Number(jobs[i])
                      IN  \E r \in DOMAIN rows :
                            /\ Introduces(r, n)
                            /\ (\A j \in 1..(i - 1) :
                                  mailbox[Number(jobs[j])].posting # mailbox[n].posting)
                                 => rows[r].content = mailbox[n].says
    BY DEF RowsTellTruth
  <2> DEFINE n == Number(jobs[i])
  <2>1. PICK r \in DOMAIN rows :
          /\ rows[r].key = Batch[i].key /\ Batch[i].origin \in rows[r].sources
          /\ (\A j \in 1..(i - 1) : Batch[j].key # Batch[i].key)
                 => rows[r].content = Batch[i].content
    BY SavedBatch DEF BatchIsSaved
  <2>2. /\ \A j \in DOMAIN jobs : /\ Number(jobs[j]) \in 1..Mails
                                  /\ Batch[j] = parsed[Number(jobs[j])]
        /\ DOMAIN jobs = 1..Len(jobs) /\ Len(jobs) \in Nat
    BY BatchFacts DEF IntakeInv
  <2>3. mailbox \in Seq(Messages) /\ Parses /\ BoxInv
    BY DEF IntakeInv, FetchInv
  <2>4. /\ Batch[i].origin = Introduction(n)
        /\ mailbox[n] \in Messages /\ Batch[i].content = Posting(mailbox[n]).content
    BY <2>2, <2>3, OriginIsIntroduction, ParsedFacts
  <2>5. Introduces(r, n)
    BY <2>1, <2>4 DEF Introduces
  <2>6. ASSUME \A j \in 1..(i - 1) : mailbox[Number(jobs[j])].posting # mailbox[n].posting
        PROVE  rows[r].content = mailbox[n].says
    <3>1. ASSUME NEW j \in 1..(i - 1) PROVE Batch[j].key # Batch[i].key
      <4>1. j \in DOMAIN jobs
        BY <2>2
      <4>2. /\ mailbox[Number(jobs[j])] \in Messages
            /\ Batch[j].key = Posting(mailbox[Number(jobs[j])]).key
            /\ Batch[i].key = Posting(mailbox[n]).key
        BY <2>2, <2>3, <4>1, ParsedFacts
      <4>3. mailbox[Number(jobs[j])].source = mailbox[n].source
        BY <2>2, <2>3, <4>1 DEF BoxInv, Mails
      <4> QED BY <2>4, <2>6, <4>2, <4>3 DEF KeysNamePostings
    <3>2. rows[r].content = Batch[i].content
      BY <2>1, <3>1
    <3> QED BY <2>4, <3>2 DEF RegularIsRead
  <2> QED BY <2>5, <2>6
<1> QED BY <1>1, IntakeAlways, PTL
=============================================================================
