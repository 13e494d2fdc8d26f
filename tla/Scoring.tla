------------------------------- MODULE Scoring -------------------------------
(***************************************************************************)
(* matching.Evaluate: what a profile makes of a posting.  An item that may *)
(* be missing (nil) is a set of at most one value.  A skill or a role is   *)
(* an element of Word, of which Fold says what trimming and lower-casing   *)
(* leave; the words of title and summary that a keyword may hit are a set, *)
(* and so are the reasons given, one label per rule.                       *)
(*                                                                         *)
(* The posting under evaluation changes the way collections change it: one *)
(* item at a time is learnt, lost or replaced, and it is evaluated again.  *)
(***************************************************************************)
EXTENDS Naturals, Sequences, FiniteSets, SequencesExt

CONSTANTS
    Word,       \* skill and role names as they are written
    Role,       \* those of them that postings give as roles
    Fold,       \* [Word -> what is compared]
    Rates, Days, Dates,      \* the numbers that occur
    Keyword, Contract,
    Profiles    \* the profiles that occur

RateType == {"monthly", "hourly", "unknown"}
RemoteType == {"full_remote", "hybrid", "onsite", "unknown"}
Maybe(S) == {{}} \cup {{x} : x \in S}
WorkDays == {d \in Days \X Days : d[1] <= d[2]}

Posting == [rateType : RateType, rateMax : Maybe(Rates),
            remote : RemoteType, onsiteDays : Maybe(Days),
            skills : SUBSET Word, roles : SUBSET Word,
            start : Maybe(Dates), workDays : Maybe(WorkDays),
            words : SUBSET Keyword, contract : Maybe(Contract)]

\* 0 stands for a number the profile does not set.
ProfileType == [minimumRate : Nat, targetRate : Nat, remoteRequired : BOOLEAN,
                maxOnsiteDays : Nat, skills : Seq(Word), roles : Seq(Word),
                available : Maybe(Dates), workDays : Nat,
                excluded : SUBSET Keyword, contracts : SUBSET Contract]

\* What ValidateProfile lets through, of the fields that count here.
ValidProfile(p) ==
    /\ p.targetRate > 0 => p.minimumRate <= p.targetRate
    /\ p.remoteRequired => p.maxOnsiteDays = 0
    /\ {p.workDays, p.maxOnsiteDays} \subseteq 0..7

ASSUME ScoringAssumption ==
    /\ DOMAIN Fold = Word /\ Role \subseteq Word
    /\ Rates \cup Days \cup Dates \subseteq Nat
    /\ \A p \in Profiles : p \in ProfileType /\ ValidProfile(p)

VARIABLES profile, job, verdict
vars == <<profile, job, verdict>>
-----------------------------------------------------------------------------
PointsRate == 20
PointsFullRemote == 20
PointsOnsiteOK == 10
PointsSkillsMax == 25
PointsRolesMax == 10
PointsStartDate == 10
PointsWorkDaysFit == 5

\* The distinct words of S, up to Fold, that the list has.
Intersect(S, list) == {Fold[w] : w \in S} \cap {Fold[list[n]] : n \in DOMAIN list}

ComparableRate(j) == j.rateType = "monthly"

\* Mutation: a remote type that could not be read counts as work on site.
RejectUnknownRemote(j, p) ==
    {r \in {"remote"} : p.remoteRequired /\ j.remote # "full_remote"}

RejectRemote(j, p) ==
    {r \in {"remote"} : p.remoteRequired /\ j.remote \in {"onsite", "hybrid"}}

Reject(j, p) ==
    {r \in {"rate"} : /\ ComparableRate(j) /\ p.minimumRate > 0
                      /\ \E m \in j.rateMax : m < p.minimumRate}
    \cup RejectRemote(j, p)
    \cup {r \in {"keyword"} : j.words \cap p.excluded # {}}
    \cup {r \in {"contract"} : p.contracts # {} /\ \E c \in j.contract : c \notin p.contracts}

RatePoints(j, p) ==
    IF /\ ComparableRate(j) /\ p.targetRate > 0
       /\ \E m \in j.rateMax : m >= p.targetRate
    THEN PointsRate ELSE 0

\* Mutation: full remote and few days on site exclude each other.
RemotePointsExclusive(j, p) ==
    CASE j.remote = "full_remote" -> PointsFullRemote
      [] j.remote = "hybrid" /\ (\E d \in j.onsiteDays : d <= p.maxOnsiteDays)
            -> PointsOnsiteOK
      [] OTHER -> 0

\* Full remote counts as no day on site.
RemotePoints(j, p) ==
    CASE j.remote = "full_remote" -> PointsFullRemote + PointsOnsiteOK
      [] j.remote = "hybrid" /\ (\E d \in j.onsiteDays : d <= p.maxOnsiteDays)
            -> PointsOnsiteOK
      [] OTHER -> 0

\* Mutation: a word written twice counts twice, and there is no cap.
ShareOfAll(S, list, max) ==
    IF list = <<>> THEN 0
    ELSE (Cardinality({w \in S : Fold[w] \in {Fold[list[n]] : n \in DOMAIN list}}) * max)
            \div Len(list)

\* Mutation: the share of the posting's skills, not of the profile's.
ShareOfPosting(S, list, max) ==
    IF S = {} THEN 0 ELSE (Cardinality(Intersect(S, list)) * max) \div Cardinality(S)

\* The share of the list that is matched, of at most max points.
Share(S, list, max) ==
    LET n == Cardinality(Intersect(S, list))
    IN  IF list = <<>> THEN 0
        ELSE IF (n * max) \div Len(list) > max THEN max ELSE (n * max) \div Len(list)

StartPoints(j, p) ==
    IF \E s \in j.start, a \in p.available : s >= a THEN PointsStartDate ELSE 0

WorkDaysPoints(j, p) ==
    IF p.workDays > 0 /\ \E d \in j.workDays : d[1] <= p.workDays /\ p.workDays <= d[2]
    THEN PointsWorkDaysFit ELSE 0

Sum(j, p) ==
    RatePoints(j, p) + RemotePoints(j, p) + Share(j.skills, p.skills, PointsSkillsMax)
      + Share(j.roles, p.roles, PointsRolesMax) + StartPoints(j, p) + WorkDaysPoints(j, p)

\* A posting that breaks a condition is rejected and gets no points.
Evaluate(j, p) ==
    IF Reject(j, p) # {}
    THEN [rejected |-> TRUE, score |-> 0, why |-> Reject(j, p)]
    ELSE [rejected |-> FALSE, score |-> IF Sum(j, p) > 100 THEN 100 ELSE Sum(j, p),
          why |-> {}]
-----------------------------------------------------------------------------
Blank == [rateType |-> "unknown", rateMax |-> {}, remote |-> "unknown", onsiteDays |-> {},
          skills |-> {}, roles |-> {}, start |-> {}, workDays |-> {}, words |-> {},
          contract |-> {}]

\* The forms one item of a posting takes; only hybrid work has a number of days.
RateForms == {<<"unknown", {}>>} \cup ({"monthly", "hourly"} \X {{r} : r \in Rates})
RemoteForms ==
    {<<t, {}>> : t \in RemoteType} \cup {<<"hybrid", {d}>> : d \in Days \ {0}}

Become(j) == job' = j /\ verdict' = Evaluate(j, profile) /\ UNCHANGED profile

Init ==
    /\ profile \in Profiles
    /\ job = Blank
    /\ verdict = Evaluate(Blank, profile)

SetRate == \E f \in RateForms : Become([job EXCEPT !.rateType = f[1], !.rateMax = f[2]])
SetRemote == \E f \in RemoteForms : Become([job EXCEPT !.remote = f[1], !.onsiteDays = f[2]])
SetSkills == \E S \in SUBSET Word : Become([job EXCEPT !.skills = S])
SetRoles == \E S \in SUBSET Role : Become([job EXCEPT !.roles = S])
SetStart == \E d \in Maybe(Dates) : Become([job EXCEPT !.start = d])
SetWorkDays == \E d \in Maybe(WorkDays) : Become([job EXCEPT !.workDays = d])
SetWords == \E W \in SUBSET Keyword : Become([job EXCEPT !.words = W])
SetContract == \E c \in Maybe(Contract) : Become([job EXCEPT !.contract = c])

Next ==
    \/ SetRate
    \/ SetRemote
    \/ SetSkills
    \/ SetRoles
    \/ SetStart
    \/ SetWorkDays
    \/ SetWords
    \/ SetContract

Spec == Init /\ [][Next]_vars
-----------------------------------------------------------------------------
Verdict == [rejected : BOOLEAN, score : 0..100,
            why : SUBSET {"rate", "remote", "keyword", "contract"}]

\* Every posting gets a score from 0 to 100, and the points of the rules never
\* exceed 100 before the cap (the comment on the points).
TypeOK ==
    /\ profile \in Profiles /\ job \in Posting /\ verdict \in Verdict
    /\ Sum(job, profile) \in 0..100

\* A posting that meets every wish gets all 100 points, however its skills are
\* spelt (the comment on pointsFullRemote).
Ideal(j, p) ==
    /\ ComparableRate(j) /\ \E m \in j.rateMax : m >= p.targetRate
    /\ j.remote = "full_remote"
    /\ \A n \in DOMAIN p.skills : \E w \in j.skills : Fold[w] = Fold[p.skills[n]]
    /\ \A n \in DOMAIN p.roles : \E w \in j.roles : Fold[w] = Fold[p.roles[n]]
    /\ \E s \in j.start, a \in p.available : s >= a
    /\ \E d \in j.workDays : d[1] <= p.workDays /\ p.workDays <= d[2]
\* Every wish is one the profile expresses, and no skill is listed twice.
Demanding(p) ==
    /\ p.targetRate >= p.minimumRate /\ p.targetRate > 0 /\ p.workDays > 0
    /\ \A list \in {p.skills, p.roles} :
          list # <<>> /\ IsInjective([n \in DOMAIN list |-> Fold[list[n]]])
IdealGetsAll ==
    Demanding(profile) /\ Ideal(job, profile) /\ ~verdict.rejected => verdict.score = 100

\* Losing an item never rejects a posting and never adds to its score: what
\* could not be read counts for nothing (the package comment).  An hourly rate,
\* which cannot be compared with the monthly wish, counts like none at all.
ForgetsRate == job' = [job EXCEPT !.rateType = "unknown", !.rateMax = {}]
Forgets ==
    \/ job.rateMax # {} /\ ForgetsRate
    \/ job' = [job EXCEPT !.remote = "unknown", !.onsiteDays = {}]
    \/ job' = [job EXCEPT !.onsiteDays = {}]
    \/ job' = [job EXCEPT !.start = {}]
    \/ job' = [job EXCEPT !.workDays = {}]
    \/ job' = [job EXCEPT !.contract = {}]
UnknownCountsForNothing ==
    [][/\ Forgets /\ ~verdict.rejected
          => ~verdict'.rejected /\ verdict'.score <= verdict.score
       /\ job.rateType = "hourly" /\ ForgetsRate => verdict' = verdict]_vars

\* A better offer is never judged worse: a higher rate of the same kind, fewer
\* days on site, more skills, roles that fit, a word less to avoid.
OnSite(j) ==
    CASE j.remote = "full_remote" -> {0}
      [] j.remote = "hybrid" -> j.onsiteDays
      [] OTHER -> {}
Improves ==
    \/ /\ \E f \in Rates : job' = [job EXCEPT !.rateMax = {f}]
       /\ \E a \in job.rateMax, b \in job'.rateMax : a <= b
    \/ /\ \E f \in RemoteForms : job' = [job EXCEPT !.remote = f[1], !.onsiteDays = f[2]]
       /\ \E a \in OnSite(job), b \in OnSite(job') : b <= a
    \/ job' = [job EXCEPT !.skills = job'.skills] /\ job.skills \subseteq job'.skills
    \/ job' = [job EXCEPT !.roles = job'.roles] /\ job.roles \subseteq job'.roles
    \/ job' = [job EXCEPT !.words = job'.words] /\ job'.words \subseteq job.words
BetterIsNeverWorse ==
    [][Improves => /\ verdict'.rejected => verdict.rejected
                   /\ verdict'.score >= verdict.score]_vars

=============================================================================
