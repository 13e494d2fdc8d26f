--------------------------- MODULE ScoringProofs ----------------------------
(***************************************************************************)
(* The verdict of a posting is a function of the posting and the profile   *)
(* (ScoreInv).  What is proved of it is proved rule by rule: the points of *)
(* a rule are bounded, and one that depends on the changed item moves the  *)
(* right way.                                                              *)
(***************************************************************************)
EXTENDS Scoring, FiniteSetTheorems, TLAPS

\* The posting is one the parsers can give, and judged as it is.
ScoreInv ==
    /\ profile \in Profiles
    /\ job \in Posting
    /\ verdict = Evaluate(job, profile)

LEMMA ProfileFacts ==
    ASSUME NEW p \in Profiles
    PROVE  p \in ProfileType /\ ValidProfile(p)
BY ScoringAssumption

LEMMA NumbersFacts == Rates \subseteq Nat /\ Days \subseteq Nat /\ Dates \subseteq Nat
BY ScoringAssumption

LEMMA BlankIsPosting == Blank \in Posting
BY DEF Blank, Posting, RateType, RemoteType, Maybe

LEMMA InitScore == Init => ScoreInv
BY BlankIsPosting DEF Init, ScoreInv

\* Every action gives the posting one item of the right kind and judges it anew.
LEMMA NextJudges ==
    ASSUME ScoreInv, Next
    PROVE  job' \in Posting /\ verdict' = Evaluate(job', profile) /\ profile' = profile
<1>1. ASSUME SetRate PROVE job' \in Posting
  <2>1. PICK f \in RateForms : job' = [job EXCEPT !.rateType = f[1], !.rateMax = f[2]]
    BY <1>1 DEF SetRate, Become
  <2>2. f[1] \in RateType /\ f[2] \in Maybe(Rates)
    BY DEF RateForms, RateType, Maybe
  <2> QED BY <2>1, <2>2 DEF ScoreInv, Posting
<1>2. ASSUME SetRemote PROVE job' \in Posting
  <2>1. PICK f \in RemoteForms : job' = [job EXCEPT !.remote = f[1], !.onsiteDays = f[2]]
    BY <1>2 DEF SetRemote, Become
  <2>2. f[1] \in RemoteType /\ f[2] \in Maybe(Days)
    BY DEF RemoteForms, RemoteType, Maybe
  <2> QED BY <2>1, <2>2 DEF ScoreInv, Posting
<1>3. ASSUME SetSkills PROVE job' \in Posting
  BY <1>3 DEF SetSkills, Become, ScoreInv, Posting
<1>4. ASSUME SetRoles PROVE job' \in Posting
  BY <1>4, ScoringAssumption DEF SetRoles, Become, ScoreInv, Posting
<1>5. ASSUME SetStart PROVE job' \in Posting
  BY <1>5 DEF SetStart, Become, ScoreInv, Posting
<1>6. ASSUME SetWorkDays PROVE job' \in Posting
  BY <1>6 DEF SetWorkDays, Become, ScoreInv, Posting
<1>7. ASSUME SetWords PROVE job' \in Posting
  BY <1>7 DEF SetWords, Become, ScoreInv, Posting
<1>8. ASSUME SetContract PROVE job' \in Posting
  BY <1>8 DEF SetContract, Become, ScoreInv, Posting
<1>9. verdict' = Evaluate(job', profile) /\ profile' = profile
  BY DEF Next, SetRate, SetRemote, SetSkills, SetRoles, SetStart, SetWorkDays, SetWords,
         SetContract, Become
<1> QED
  BY <1>1, <1>2, <1>3, <1>4, <1>5, <1>6, <1>7, <1>8, <1>9 DEF Next

LEMMA NextScore == ScoreInv /\ [Next]_vars => ScoreInv'
<1>1. ASSUME ScoreInv, Next PROVE ScoreInv'
  BY <1>1, NextJudges DEF ScoreInv
<1>2. ASSUME ScoreInv, UNCHANGED vars PROVE ScoreInv'
  BY <1>2 DEF ScoreInv, vars
<1> QED BY <1>1, <1>2

LEMMA ScoreAlways == Spec => []ScoreInv
BY InitScore, NextScore, PTL DEF Spec
-----------------------------------------------------------------------------
(* The share of a list *)

\* The words of a list, compared as Fold leaves them.
Listed(list) == {Fold[list[n]] : n \in DOMAIN list}

LEMMA ListedFinite ==
    ASSUME NEW list \in Seq(Word)
    PROVE  IsFiniteSet(Listed(list))
<1> DEFINE f == [n \in 1..Len(list) |-> Fold[list[n]]]
<1>1. IsFiniteSet(1..Len(list))
  BY FS_Interval
<1>2. Listed(list) = {Fold[list[n]] : n \in 1..Len(list)}
  BY DEF Listed
<1>3. f \in Surjection(1..Len(list), Listed(list))
  BY <1>2 DEF Surjection
<1> QED BY <1>1, <1>3, FS_Surjection

LEMMA IntersectFacts ==
    ASSUME NEW list \in Seq(Word), NEW S
    PROVE  /\ Intersect(S, list) \subseteq Listed(list)
           /\ IsFiniteSet(Intersect(S, list))
           /\ Cardinality(Intersect(S, list)) \in Nat
<1>1. Intersect(S, list) \subseteq Listed(list)
  BY DEF Intersect, Listed
<1>2. IsFiniteSet(Intersect(S, list))
  BY <1>1, ListedFinite, FS_Subset
<1> QED BY <1>1, <1>2, FS_CardinalityType

LEMMA QuotientNat ==
    ASSUME NEW a \in Nat, NEW d \in Nat \ {0}
    PROVE  a \div d \in Nat
OBVIOUS

LEMMA QuotientGrows ==
    ASSUME NEW a \in Nat, NEW b \in Nat, NEW d \in Nat \ {0}, a <= b
    PROVE  a \div d <= b \div d
OBVIOUS

LEMMA QuotientOfMultiple ==
    ASSUME NEW a \in Nat, NEW d \in Nat \ {0}
    PROVE  (d * a) \div d = a
OBVIOUS

LEMMA ShareBounded ==
    ASSUME NEW list \in Seq(Word), NEW S, NEW max \in Nat
    PROVE  Share(S, list, max) \in 0..max
<1> DEFINE n == Cardinality(Intersect(S, list))
<1>1. n \in Nat
  BY IntersectFacts
<1>2. n * max \in Nat
  BY <1>1
<1>3. CASE list = <<>>
  BY <1>3 DEF Share
<1>4. CASE list # <<>>
  <2>1. Len(list) \in Nat \ {0}
    BY <1>4
  <2>2. (n * max) \div Len(list) \in Nat
    BY <1>2, <2>1, QuotientNat
  <2> HIDE DEF n
  <2>3. Share(S, list, max) = IF (n * max) \div Len(list) > max
                                THEN max ELSE (n * max) \div Len(list)
    BY <1>4 DEF Share, n
  <2> QED BY <2>2, <2>3
<1> QED BY <1>3, <1>4

\* More words never lower the share.
LEMMA ShareGrows ==
    ASSUME NEW list \in Seq(Word), NEW S, NEW T, S \subseteq T, NEW max \in Nat
    PROVE  Share(S, list, max) <= Share(T, list, max)
<1> DEFINE n == Cardinality(Intersect(S, list))
           m == Cardinality(Intersect(T, list))
<1>1. n \in Nat /\ m \in Nat
  BY IntersectFacts
<1>2. Intersect(S, list) \subseteq Intersect(T, list)
  BY DEF Intersect
<1>3. n <= m
  BY <1>2, IntersectFacts, FS_Subset
<1>4. CASE list = <<>>
  BY <1>4 DEF Share
<1>5. CASE list # <<>>
  <2>1. Len(list) \in Nat \ {0}
    BY <1>5
  <2>2. Share(S, list, max) = IF (n * max) \div Len(list) > max
                                THEN max ELSE (n * max) \div Len(list)
    BY <1>5 DEF Share
  <2>3. Share(T, list, max) = IF (m * max) \div Len(list) > max
                                THEN max ELSE (m * max) \div Len(list)
    BY <1>5 DEF Share
  <2> HIDE DEF n, m
  <2>4. n * max \in Nat /\ m * max \in Nat /\ n * max <= m * max
    BY <1>1, <1>3
  <2>5. /\ (n * max) \div Len(list) \in Nat /\ (m * max) \div Len(list) \in Nat
        /\ (n * max) \div Len(list) <= (m * max) \div Len(list)
    BY <2>1, <2>4, QuotientNat, QuotientGrows
  <2> QED BY <2>2, <2>3, <2>5
<1> QED BY <1>4, <1>5

\* All words of a list without repetition are worth all the points.
LEMMA ShareOfEverything ==
    ASSUME NEW list \in Seq(Word), list # <<>>, NEW max \in Nat, NEW S,
           IsInjective([n \in DOMAIN list |-> Fold[list[n]]]),
           \A n \in DOMAIN list : \E w \in S : Fold[w] = Fold[list[n]]
    PROVE  Share(S, list, max) = max
<1> DEFINE f == [n \in 1..Len(list) |-> Fold[list[n]]]
           L == Len(list)
<1>1. L \in Nat \ {0} /\ DOMAIN list = 1..L
  OBVIOUS
<1>2. f \in Surjection(1..L, Listed(list)) /\ f \in Injection(1..L, Listed(list))
  <2>1. f \in [1..L -> Listed(list)]
    BY <1>1 DEF Listed
  <2>2. \A a, b \in 1..L : f[a] = f[b] => a = b
    BY <1>1 DEF IsInjective
  <2>3. \A t \in Listed(list) : \E s \in 1..L : f[s] = t
    BY <1>1 DEF Listed
  <2> QED BY <2>1, <2>2, <2>3 DEF Surjection, Injection
<1>3. Cardinality(Listed(list)) = L
  <2>1. IsFiniteSet(1..L) /\ Cardinality(1..L) = L
    BY <1>1, FS_Interval
  <2> HIDE DEF f, L
  <2> QED BY <1>2, <2>1, FS_Surjection
<1>4. Intersect(S, list) = Listed(list)
  BY DEF Intersect, Listed
<1>5. (L * max) \div L = max
  BY <1>1, QuotientOfMultiple
<1>6. Share(S, list, max) = IF (L * max) \div L > max THEN max ELSE (L * max) \div L
  BY <1>3, <1>4 DEF Share
<1> QED BY <1>5, <1>6
-----------------------------------------------------------------------------
(* The rules *)

LEMMA RulesBounded ==
    ASSUME NEW j \in Posting, NEW p \in ProfileType
    PROVE  /\ RatePoints(j, p) \in 0..20
           /\ RemotePoints(j, p) \in 0..30
           /\ Share(j.skills, p.skills, PointsSkillsMax) \in 0..25
           /\ Share(j.roles, p.roles, PointsRolesMax) \in 0..10
           /\ StartPoints(j, p) \in 0..10
           /\ WorkDaysPoints(j, p) \in 0..5
<1>1. RatePoints(j, p) \in 0..20
  BY DEF RatePoints, PointsRate
<1>2. RemotePoints(j, p) \in 0..30
  BY DEF RemotePoints, PointsFullRemote, PointsOnsiteOK
<1>3. p.skills \in Seq(Word) /\ p.roles \in Seq(Word)
  BY DEF ProfileType
<1>4. Share(j.skills, p.skills, PointsSkillsMax) \in 0..25
  BY <1>3, ShareBounded DEF PointsSkillsMax
<1>5. Share(j.roles, p.roles, PointsRolesMax) \in 0..10
  BY <1>3, ShareBounded DEF PointsRolesMax
<1>6. StartPoints(j, p) \in 0..10
  BY DEF StartPoints, PointsStartDate
<1>7. WorkDaysPoints(j, p) \in 0..5
  BY DEF WorkDaysPoints, PointsWorkDaysFit
<1> QED BY <1>1, <1>2, <1>4, <1>5, <1>6, <1>7

LEMMA SumBounded ==
    ASSUME NEW j \in Posting, NEW p \in ProfileType
    PROVE  Sum(j, p) \in 0..100
BY RulesBounded DEF Sum

LEMMA RejectLabels ==
    ASSUME NEW j, NEW p
    PROVE  Reject(j, p) \subseteq {"rate", "remote", "keyword", "contract"}
BY DEF Reject, RejectRemote

LEMMA EvaluateFacts ==
    ASSUME NEW j \in Posting, NEW p \in ProfileType
    PROVE  /\ Evaluate(j, p) \in Verdict
           /\ Evaluate(j, p).rejected <=> Reject(j, p) # {}
           /\ Evaluate(j, p).score = IF Reject(j, p) # {} THEN 0 ELSE Sum(j, p)
<1>1. Sum(j, p) \in 0..100
  BY SumBounded
<1>2. CASE Reject(j, p) # {}
  BY <1>2, RejectLabels DEF Evaluate, Verdict
<1>3. CASE Reject(j, p) = {}
  <2>1. Evaluate(j, p) = [rejected |-> FALSE, score |-> Sum(j, p), why |-> {}]
    <3>1. ~(Sum(j, p) > 100)
      BY <1>1
    <3> QED BY <1>3, <3>1 DEF Evaluate
  <2> QED BY <1>1, <1>3, <2>1 DEF Verdict
<1> QED BY <1>2, <1>3
-----------------------------------------------------------------------------
\* Every posting gets a verdict with a score from 0 to 100, and the points of
\* the rules never exceed 100, whatever the profile and however its lists
\* repeat themselves (Evaluate, scorer.go:36).
THEOREM TypeCorrect == Spec => []TypeOK
<1>1. ScoreInv => TypeOK
  BY ProfileFacts, EvaluateFacts, SumBounded DEF ScoreInv, TypeOK
<1> QED BY <1>1, ScoreAlways, PTL

\* A posting that meets every wish of a demanding profile gets all 100 points
\* (the comment on pointsFullRemote, scorer.go:14).
THEOREM IdealIsFull == Spec => []IdealGetsAll
<1>1. ASSUME NEW j \in Posting, NEW p \in ProfileType,
             Demanding(p), Ideal(j, p), Reject(j, p) = {}
      PROVE  Sum(j, p) = 100
  <2>1. RatePoints(j, p) = 20
    BY <1>1 DEF Demanding, Ideal, RatePoints, PointsRate
  <2>2. RemotePoints(j, p) = 30
    BY <1>1 DEF Ideal, RemotePoints, PointsFullRemote, PointsOnsiteOK
  <2>3. p.skills \in Seq(Word) /\ p.roles \in Seq(Word)
    BY <1>1 DEF ProfileType
  <2>4. Share(j.skills, p.skills, PointsSkillsMax) = 25
    <3>1. /\ p.skills # <<>>
          /\ IsInjective([n \in DOMAIN p.skills |-> Fold[p.skills[n]]])
      BY <1>1 DEF Demanding
    <3>2. \A n \in DOMAIN p.skills : \E w \in j.skills : Fold[w] = Fold[p.skills[n]]
      BY <1>1 DEF Ideal
    <3>3. Share(j.skills, p.skills, 25) = 25
      BY <2>3, <3>1, <3>2, ShareOfEverything
    <3> QED BY <3>3 DEF PointsSkillsMax
  <2>5. Share(j.roles, p.roles, PointsRolesMax) = 10
    <3>1. /\ p.roles # <<>>
          /\ IsInjective([n \in DOMAIN p.roles |-> Fold[p.roles[n]]])
      BY <1>1 DEF Demanding
    <3>2. \A n \in DOMAIN p.roles : \E w \in j.roles : Fold[w] = Fold[p.roles[n]]
      BY <1>1 DEF Ideal
    <3>3. Share(j.roles, p.roles, 10) = 10
      BY <2>3, <3>1, <3>2, ShareOfEverything
    <3> QED BY <3>3 DEF PointsRolesMax
  <2>6. StartPoints(j, p) = 10
    BY <1>1 DEF Ideal, StartPoints, PointsStartDate
  <2>7. WorkDaysPoints(j, p) = 5
    BY <1>1 DEF Demanding, Ideal, WorkDaysPoints, PointsWorkDaysFit
  <2> QED BY <2>1, <2>2, <2>4, <2>5, <2>6, <2>7 DEF Sum
<1>2. ScoreInv => IdealGetsAll
  <2> SUFFICES ASSUME ScoreInv, Demanding(profile), Ideal(job, profile), ~verdict.rejected
               PROVE  verdict.score = 100
    BY DEF IdealGetsAll
  <2>1. job \in Posting /\ profile \in ProfileType /\ verdict = Evaluate(job, profile)
    BY ProfileFacts DEF ScoreInv
  <2>2. Reject(job, profile) = {}
    BY <2>1, EvaluateFacts
  <2>3. Sum(job, profile) = 100
    BY <1>1, <2>1, <2>2
  <2> QED BY <2>1, <2>2, <2>3, EvaluateFacts
<1> QED BY <1>2, ScoreAlways, PTL
-----------------------------------------------------------------------------
(* Comparing two postings *)

\* When no rule gives k more points than j, its sum is not higher either.
LEMMA SumsCompare ==
    ASSUME NEW j \in Posting, NEW k \in Posting, NEW p \in ProfileType,
           RatePoints(k, p) <= RatePoints(j, p),
           RemotePoints(k, p) <= RemotePoints(j, p),
           k.skills \subseteq j.skills, k.roles \subseteq j.roles,
           StartPoints(k, p) <= StartPoints(j, p),
           WorkDaysPoints(k, p) <= WorkDaysPoints(j, p)
    PROVE  Sum(k, p) <= Sum(j, p)
<1>1. p.skills \in Seq(Word) /\ p.roles \in Seq(Word)
  BY DEF ProfileType
<1>2. Share(k.skills, p.skills, PointsSkillsMax) <= Share(j.skills, p.skills, PointsSkillsMax)
  BY <1>1, ShareGrows DEF PointsSkillsMax
<1>3. Share(k.roles, p.roles, PointsRolesMax) <= Share(j.roles, p.roles, PointsRolesMax)
  BY <1>1, ShareGrows DEF PointsRolesMax
<1>4. \A f \in {j, k} :
        /\ RatePoints(f, p) \in Nat
        /\ RemotePoints(f, p) \in Nat
        /\ Share(f.skills, p.skills, PointsSkillsMax) \in Nat
        /\ Share(f.roles, p.roles, PointsRolesMax) \in Nat
        /\ StartPoints(f, p) \in Nat
        /\ WorkDaysPoints(f, p) \in Nat
  BY RulesBounded
<1> QED BY <1>2, <1>3, <1>4 DEF Sum

\* The rules of a posting look at one item each.
LEMMA RulesReadTheirItem ==
    ASSUME NEW j, NEW k, NEW p
    PROVE  /\ (k.rateType = j.rateType /\ k.rateMax = j.rateMax)
                 => RatePoints(k, p) = RatePoints(j, p)
           /\ (k.remote = j.remote /\ k.onsiteDays = j.onsiteDays)
                 => RemotePoints(k, p) = RemotePoints(j, p)
           /\ k.start = j.start => StartPoints(k, p) = StartPoints(j, p)
           /\ k.workDays = j.workDays => WorkDaysPoints(k, p) = WorkDaysPoints(j, p)
BY DEF RatePoints, ComparableRate, RemotePoints, StartPoints, WorkDaysPoints

\* An item that is missing earns nothing and breaks no condition.
LEMMA ForgettingCostsOnly ==
    ASSUME NEW j \in Posting, NEW k \in Posting, NEW p \in ProfileType,
           \/ k = [j EXCEPT !.rateType = "unknown", !.rateMax = {}]
           \/ k = [j EXCEPT !.remote = "unknown", !.onsiteDays = {}]
           \/ k = [j EXCEPT !.onsiteDays = {}]
           \/ k = [j EXCEPT !.start = {}]
           \/ k = [j EXCEPT !.workDays = {}]
           \/ k = [j EXCEPT !.contract = {}]
    PROVE  Reject(k, p) \subseteq Reject(j, p) /\ Sum(k, p) <= Sum(j, p)
<1>1. k.skills = j.skills /\ k.roles = j.roles /\ k.words = j.words
  BY DEF Posting
<1>2. RatePoints(k, p) <= RatePoints(j, p)
  <2>1. \/ k.rateType = j.rateType /\ k.rateMax = j.rateMax
        \/ k.rateType = "unknown"
    BY DEF Posting
  <2>2. k.rateType = "unknown" => RatePoints(k, p) = 0
    BY DEF RatePoints, ComparableRate
  <2>3. RatePoints(k, p) = RatePoints(j, p) \/ RatePoints(k, p) = 0
    BY <2>1, <2>2, RulesReadTheirItem
  <2> QED BY <2>3, RulesBounded
<1>3. RemotePoints(k, p) <= RemotePoints(j, p)
  <2>1. \/ k.remote = j.remote /\ k.onsiteDays = j.onsiteDays
        \/ k.remote = "unknown"
        \/ k.remote = j.remote /\ k.onsiteDays = {}
    BY DEF Posting
  <2>2. k.remote = "unknown" => RemotePoints(k, p) = 0
    BY DEF RemotePoints
  <2>3. k.remote = j.remote /\ k.onsiteDays = {}
          => RemotePoints(k, p) \in {RemotePoints(j, p), 0}
    BY DEF RemotePoints
  <2>4. RemotePoints(k, p) = RemotePoints(j, p) \/ RemotePoints(k, p) = 0
    BY <2>1, <2>2, <2>3, RulesReadTheirItem
  <2> QED BY <2>4, RulesBounded
<1>4. StartPoints(k, p) <= StartPoints(j, p)
  <2>1. k.start = j.start \/ k.start = {}
    BY DEF Posting
  <2>2. k.start = {} => StartPoints(k, p) = 0
    BY DEF StartPoints
  <2>3. StartPoints(k, p) = StartPoints(j, p) \/ StartPoints(k, p) = 0
    BY <2>1, <2>2, RulesReadTheirItem
  <2> QED BY <2>3, RulesBounded
<1>5. WorkDaysPoints(k, p) <= WorkDaysPoints(j, p)
  <2>1. k.workDays = j.workDays \/ k.workDays = {}
    BY DEF Posting
  <2>2. k.workDays = {} => WorkDaysPoints(k, p) = 0
    BY DEF WorkDaysPoints
  <2>3. WorkDaysPoints(k, p) = WorkDaysPoints(j, p) \/ WorkDaysPoints(k, p) = 0
    BY <2>1, <2>2, RulesReadTheirItem
  <2> QED BY <2>3, RulesBounded
<1>6. Sum(k, p) <= Sum(j, p)
  BY <1>1, <1>2, <1>3, <1>4, <1>5, SumsCompare
<1>7. Reject(k, p) \subseteq Reject(j, p)
  BY <1>1 DEF Posting, Reject, RejectRemote, ComparableRate
<1> QED BY <1>6, <1>7

\* What cannot be compared counts like what is missing.
LEMMA HourlyCountsLikeNone ==
    ASSUME NEW j \in Posting, NEW p, j.rateType = "hourly",
           NEW k, k = [j EXCEPT !.rateType = "unknown", !.rateMax = {}]
    PROVE  Evaluate(k, p) = Evaluate(j, p)
<1>1. /\ ~ComparableRate(j) /\ ~ComparableRate(k)
      /\ \A f \in {"remote", "onsiteDays", "skills", "roles", "start", "workDays",
                   "words", "contract"} : k[f] = j[f]
  BY DEF Posting, ComparableRate
<1>2. Reject(k, p) = Reject(j, p)
  BY <1>1 DEF Reject, RejectRemote
<1>3. RatePoints(k, p) = RatePoints(j, p)
  BY <1>1 DEF RatePoints
<1>4. Sum(k, p) = Sum(j, p)
  BY <1>1, <1>3, RulesReadTheirItem DEF Sum
<1> QED BY <1>2, <1>4 DEF Evaluate

\* Losing an item never rejects a posting and never adds to its score; an
\* hourly rate counts like none at all (the package comment of matching).
THEOREM UnknownsCountForNothing == Spec => UnknownCountsForNothing
<1> DEFINE A == /\ Forgets /\ ~verdict.rejected
                      => ~verdict'.rejected /\ verdict'.score <= verdict.score
                /\ job.rateType = "hourly" /\ ForgetsRate => verdict' = verdict
<1>1. ASSUME ScoreInv, Next PROVE A
  <2>1. /\ job \in Posting /\ job' \in Posting /\ profile \in ProfileType
        /\ verdict = Evaluate(job, profile) /\ verdict' = Evaluate(job', profile)
    BY <1>1, NextJudges, ProfileFacts DEF ScoreInv
  <2>2. ASSUME Forgets, ~verdict.rejected
        PROVE  ~verdict'.rejected /\ verdict'.score <= verdict.score
    <3>1. Reject(job', profile) \subseteq Reject(job, profile)
          /\ Sum(job', profile) <= Sum(job, profile)
      <4> HIDE <1>1
      <4> QED BY <2>1, <2>2, ForgettingCostsOnly DEF Forgets, ForgetsRate
    <3>2. Reject(job, profile) = {} /\ Reject(job', profile) = {}
      BY <2>1, <2>2, <3>1, EvaluateFacts
    <3> QED BY <2>1, <3>1, <3>2, EvaluateFacts
  <2>3. ASSUME job.rateType = "hourly", ForgetsRate PROVE verdict' = verdict
    BY <2>1, <2>3, HourlyCountsLikeNone DEF ForgetsRate
  <2> QED BY <2>2, <2>3
<1>2. ScoreInv /\ [Next]_vars => [A]_vars
  BY <1>1
<1>3. Spec => [][A]_vars
  BY <1>2, ScoreAlways, PTL DEF Spec
<1> QED BY <1>3 DEF UnknownCountsForNothing

LEMMA HigherRateIsBetter ==
    ASSUME NEW j \in Posting, NEW p \in ProfileType, NEW f \in Rates,
           NEW k \in Posting, k = [j EXCEPT !.rateMax = {f}],
           NEW a \in j.rateMax, a <= f
    PROVE  Reject(k, p) \subseteq Reject(j, p) /\ Sum(j, p) <= Sum(k, p)
<1>1. j.rateMax = {a} /\ a \in Nat /\ f \in Nat
  BY NumbersFacts DEF Posting, Maybe
<1>2. p.minimumRate \in Nat /\ p.targetRate \in Nat
  BY DEF ProfileType
<1>3. /\ k.rateMax = {f}
      /\ \A g \in {"rateType", "remote", "onsiteDays", "skills", "roles", "start",
                   "workDays", "words", "contract"} : k[g] = j[g]
  BY DEF Posting
<1>4. RatePoints(j, p) <= RatePoints(k, p)
  <2>1. a >= p.targetRate => f >= p.targetRate
    BY <1>1, <1>2
  <2>2. RatePoints(j, p) = RatePoints(k, p) \/ RatePoints(j, p) = 0
    BY <1>1, <1>3, <2>1 DEF RatePoints, ComparableRate
  <2> QED BY <2>2, RulesBounded
<1>5. Sum(j, p) <= Sum(k, p)
  <2>1. \A r \in {RemotePoints(j, p), StartPoints(j, p), WorkDaysPoints(j, p)} : r <= r
    BY RulesBounded
  <2> QED BY <1>3, <1>4, <2>1, RulesReadTheirItem, SumsCompare
<1>6. f < p.minimumRate => a < p.minimumRate
  BY <1>1, <1>2
<1>7. Reject(k, p) \subseteq Reject(j, p)
  BY <1>1, <1>3, <1>6 DEF Reject, RejectRemote, ComparableRate
<1> QED BY <1>5, <1>7

LEMMA LessOnSiteIsBetter ==
    ASSUME NEW j \in Posting, NEW p \in ProfileType, NEW f \in RemoteForms,
           NEW k \in Posting, k = [j EXCEPT !.remote = f[1], !.onsiteDays = f[2]],
           NEW a \in OnSite(j), NEW b \in OnSite(k), b <= a
    PROVE  Reject(k, p) \subseteq Reject(j, p) /\ Sum(j, p) <= Sum(k, p)
<1>1. /\ k.remote = f[1] /\ k.onsiteDays = f[2]
      /\ \A g \in {"rateType", "rateMax", "skills", "roles", "start",
                   "workDays", "words", "contract"} : k[g] = j[g]
  BY DEF Posting
<1>2. p.maxOnsiteDays \in Nat
  BY DEF ProfileType
<1>3. \/ j.remote = "full_remote" /\ a = 0
      \/ j.remote = "hybrid" /\ j.onsiteDays = {a} /\ a \in Nat
  BY NumbersFacts DEF Posting, Maybe, OnSite
<1>4. \/ k.remote = "full_remote"
      \/ k.remote = "hybrid" /\ k.onsiteDays = {b} /\ b \in Nat /\ b # 0
  <2>1. f[2] = {} \/ (f[1] = "hybrid" /\ \E d \in Days \ {0} : f[2] = {d})
    BY DEF RemoteForms
  <2>2. k.remote = "full_remote" \/ (k.remote = "hybrid" /\ b \in k.onsiteDays)
    BY DEF OnSite
  <2>3. f[2] = {} \/ \E d \in Nat : d # 0 /\ f[2] = {d}
    BY <2>1, NumbersFacts
  <2>4. CASE k.remote = "hybrid" /\ b \in k.onsiteDays
    <3>1. PICK d \in Nat : d # 0 /\ f[2] = {d}
      BY <1>1, <2>3, <2>4
    <3>2. k.onsiteDays = {d}
      BY <1>1, <3>1
    <3> QED BY <2>4, <3>1, <3>2
  <2> QED BY <2>2, <2>4
<1>5. \/ k.remote = "full_remote"
      \/ /\ k.remote = "hybrid" /\ k.onsiteDays = {b}
         /\ j.remote = "hybrid" /\ j.onsiteDays = {a}
  BY <1>3, <1>4
<1>6. a <= p.maxOnsiteDays => b <= p.maxOnsiteDays
  <2>1. k.remote = "full_remote" => b = 0
    BY DEF OnSite
  <2>2. a \in Nat /\ b \in Nat
    BY <1>3, <1>4, <2>1
  <2> QED BY <1>2, <2>2
<1>7. RemotePoints(j, p) <= RemotePoints(k, p)
  <2>1. CASE k.remote = "full_remote"
    <3>1. RemotePoints(k, p) = 30
      BY <2>1 DEF RemotePoints, PointsFullRemote, PointsOnsiteOK
    <3> QED BY <3>1, RulesBounded
  <2>2. CASE k.remote = "hybrid" /\ k.onsiteDays = {b} /\ j.remote = "hybrid" /\ j.onsiteDays = {a}
    <3>1. RemotePoints(k, p) = RemotePoints(j, p) \/ RemotePoints(j, p) = 0
      BY <1>6, <2>2 DEF RemotePoints
    <3> QED BY <3>1, RulesBounded
  <2> QED BY <1>5, <2>1, <2>2
<1>8. Sum(j, p) <= Sum(k, p)
  <2>1. \A r \in {RatePoints(j, p), StartPoints(j, p), WorkDaysPoints(j, p)} : r <= r
    BY RulesBounded
  <2> QED BY <1>1, <1>7, <2>1, RulesReadTheirItem, SumsCompare
<1>9. Reject(k, p) \subseteq Reject(j, p)
  BY <1>1, <1>5 DEF Reject, RejectRemote, ComparableRate
<1> QED BY <1>8, <1>9

LEMMA MoreWordsAreBetter ==
    ASSUME NEW j \in Posting, NEW p \in ProfileType, NEW k \in Posting,
           \/ k = [j EXCEPT !.skills = k.skills] /\ j.skills \subseteq k.skills
           \/ k = [j EXCEPT !.roles = k.roles] /\ j.roles \subseteq k.roles
           \/ k = [j EXCEPT !.words = k.words] /\ k.words \subseteq j.words
    PROVE  Reject(k, p) \subseteq Reject(j, p) /\ Sum(j, p) <= Sum(k, p)
<1>1. \A g \in {"rateType", "rateMax", "remote", "onsiteDays", "start", "workDays",
                "contract"} : k[g] = j[g]
  BY DEF Posting
<1>2. j.skills \subseteq k.skills /\ j.roles \subseteq k.roles /\ k.words \subseteq j.words
  BY DEF Posting
<1>3. Sum(j, p) <= Sum(k, p)
  <2>1. \A r \in {RatePoints(j, p), RemotePoints(j, p), StartPoints(j, p),
                  WorkDaysPoints(j, p)} : r <= r
    BY RulesBounded
  <2> QED BY <1>1, <1>2, <2>1, RulesReadTheirItem, SumsCompare
<1>4. Reject(k, p) \subseteq Reject(j, p)
  BY <1>1, <1>2 DEF Reject, RejectRemote, ComparableRate
<1> QED BY <1>3, <1>4

\* A higher rate, fewer days on site, more skills, more fitting roles or a word
\* less to avoid never costs a point nor rejects a posting (scorer.go:36).
THEOREM BetterStaysBetter == Spec => BetterIsNeverWorse
<1> DEFINE A == Improves => /\ verdict'.rejected => verdict.rejected
                            /\ verdict'.score >= verdict.score
<1>1. ASSUME ScoreInv, Next PROVE A
  <2>1. /\ job \in Posting /\ job' \in Posting /\ profile \in ProfileType
        /\ verdict = Evaluate(job, profile) /\ verdict' = Evaluate(job', profile)
    BY <1>1, NextJudges, ProfileFacts DEF ScoreInv
  <2>2. PICK j, k, p : j = job /\ k = job' /\ p = profile
    OBVIOUS
  <2>3. ASSUME Improves
        PROVE  Reject(k, p) \subseteq Reject(j, p) /\ Sum(j, p) <= Sum(k, p)
    <3>1. CASE /\ \E f \in Rates : k = [j EXCEPT !.rateMax = {f}]
               /\ \E a \in j.rateMax, b \in k.rateMax : a <= b
      <4>1. PICK f \in Rates : k = [j EXCEPT !.rateMax = {f}]
        BY <3>1
      <4>2. k.rateMax = {f}
        BY <2>1, <2>2, <4>1 DEF Posting
      <4>3. PICK a \in j.rateMax : a <= f
        BY <3>1, <4>2
      <4> QED BY <2>1, <2>2, <4>1, <4>3, HigherRateIsBetter
    <3>2. CASE /\ \E f \in RemoteForms : k = [j EXCEPT !.remote = f[1], !.onsiteDays = f[2]]
               /\ \E a \in OnSite(j), b \in OnSite(k) : b <= a
      BY <2>1, <2>2, <3>2, LessOnSiteIsBetter
    <3>3. CASE \/ k = [j EXCEPT !.skills = k.skills] /\ j.skills \subseteq k.skills
               \/ k = [j EXCEPT !.roles = k.roles] /\ j.roles \subseteq k.roles
               \/ k = [j EXCEPT !.words = k.words] /\ k.words \subseteq j.words
      BY <2>1, <2>2, <3>3, MoreWordsAreBetter
    <3> QED BY <2>2, <2>3, <3>1, <3>2, <3>3 DEF Improves
  <2>4. ASSUME Improves
        PROVE  (verdict'.rejected => verdict.rejected) /\ verdict'.score >= verdict.score
    <3>1. Sum(j, p) \in Nat /\ Sum(k, p) \in Nat
      BY <2>1, <2>2, SumBounded
    <3> QED BY <2>1, <2>2, <2>3, <2>4, <3>1, EvaluateFacts
  <2> QED BY <2>4
<1>2. ScoreInv /\ [Next]_vars => [A]_vars
  BY <1>1
<1>3. Spec => [][A]_vars
  BY <1>2, ScoreAlways, PTL DEF Spec
<1> QED BY <1>3 DEF BetterIsNeverWorse
=============================================================================
