------------------------ MODULE UpdateMessageProofs ------------------------
(***************************************************************************)
(* For every set of texts, any number of notify commands and any faults:   *)
(* the hash that decides whether to notify again and the display of the    *)
(* message tell the same postings apart, and so an update message always   *)
(* names a change and silence hides none.                                  *)
(***************************************************************************)
EXTENDS UpdateMessages, TLAPS

\* An amount is displayed in a form it can be read back from.
LEMMA AmountsDiffer ==
    ASSUME NEW r \in Yen \X Yen, NEW s \in Yen \X Yen,
           (IF r[1] = r[2] THEN <<r[1]>> ELSE r) = (IF s[1] = s[2] THEN <<s[1]>> ELSE s)
    PROVE  r = s
<1>1. CASE r[1] = r[2] /\ s[1] = s[2]
  BY <1>1
<1>2. CASE r[1] # r[2] /\ s[1] # s[2]
  BY <1>2
<1>3. CASE r[1] = r[2] /\ s[1] # s[2]
  <2>1. <<r[1]>> = s
    BY <1>3
  <2>2. DOMAIN <<r[1]>> = 1..1 /\ DOMAIN s = 1..2
    OBVIOUS
  <2> QED
    BY <2>1, <2>2
<1>4. CASE r[1] # r[2] /\ s[1] = s[2]
  <2>1. <<s[1]>> = r
    BY <1>4
  <2>2. DOMAIN <<s[1]>> = 1..1 /\ DOMAIN r = 1..2
    OBVIOUS
  <2> QED
    BY <2>1, <2>2
<1> QED
  BY <1>1, <1>2, <1>3, <1>4

\* The rate is hashed and displayed with the same distinctions.
LEMMA RatesAgree ==
    ASSUME NEW t \in Text, NEW u \in Text
    PROVE  MaterialRate(ValuesOf(t)) = MaterialRate(ValuesOf(u))
             <=> FormatRate(ValuesOf(t)) = FormatRate(ValuesOf(u))
<1> DEFINE v == ValuesOf(t)
           w == ValuesOf(u)
           Amount(r) == IF r[1] = r[2] THEN <<r[1]>> ELSE r
<1>1. /\ v.rate = t.yen /\ v.rateType = RateTypeOf(t)
      /\ w.rate = u.yen /\ w.rateType = RateTypeOf(u)
  BY DEF ValuesOf
<1>2. /\ t.yen = {} \/ \E r \in Yen \X Yen : t.yen = {r}
      /\ u.yen = {} \/ \E r \in Yen \X Yen : u.yen = {r}
  BY DEF Text, Maybe
<1>3. /\ MaterialRate(v) = {<<RateTypeOf(t), r>> : r \in t.yen}
      /\ MaterialRate(w) = {<<RateTypeOf(u), r>> : r \in u.yen}
      /\ FormatRate(v) = {[perHour |-> RateTypeOf(t) = "hourly", amount |-> Amount(r)] : r \in t.yen}
      /\ FormatRate(w) = {[perHour |-> RateTypeOf(u) = "hourly", amount |-> Amount(r)] : r \in u.yen}
  BY <1>1 DEF MaterialRate, FormatRate
<1> HIDE DEF v, w, Amount
<1>4. CASE t.yen = {} \/ u.yen = {}
  <2> DEFINE Hashed(S, a) == {<<a, r>> : r \in S}
             Shown(S, b) == {[perHour |-> b, amount |-> Amount(r)] : r \in S}
  <2>1. \A S, a : Hashed(S, a) = {} <=> S = {}
    BY Zenon
  <2>2. \A S, b : Shown(S, b) = {} <=> S = {}
    BY Zenon
  <2>3. /\ MaterialRate(v) = Hashed(t.yen, RateTypeOf(t))
        /\ MaterialRate(w) = Hashed(u.yen, RateTypeOf(u))
        /\ FormatRate(v) = Shown(t.yen, RateTypeOf(t) = "hourly")
        /\ FormatRate(w) = Shown(u.yen, RateTypeOf(u) = "hourly")
    BY <1>3
  <2> HIDE DEF Hashed, Shown
  <2>4. /\ MaterialRate(v) = {} <=> t.yen = {}
        /\ MaterialRate(w) = {} <=> u.yen = {}
        /\ FormatRate(v) = {} <=> t.yen = {}
        /\ FormatRate(w) = {} <=> u.yen = {}
    BY <2>1, <2>2, <2>3
  <2> QED
    BY <1>4, <2>4 DEF v, w
<1>5. ASSUME NEW r \in Yen \X Yen, NEW s \in Yen \X Yen, t.yen = {r}, u.yen = {s}
      PROVE  MaterialRate(v) = MaterialRate(w) <=> FormatRate(v) = FormatRate(w)
  <2>1. /\ RateTypeOf(t) \in {"monthly", "hourly"} /\ RateTypeOf(u) \in {"monthly", "hourly"}
    BY <1>5 DEF RateTypeOf
  <2>2. MaterialRate(v) = MaterialRate(w) <=> RateTypeOf(t) = RateTypeOf(u) /\ r = s
    <3>1. MaterialRate(v) = {<<RateTypeOf(t), r>>} /\ MaterialRate(w) = {<<RateTypeOf(u), s>>}
      BY <1>3, <1>5
    <3>2. \A a, b, c, d : <<a, b>> = <<c, d>> <=> a = c /\ b = d
      OBVIOUS
    <3>3. \A x, y : {x} = {y} <=> x = y
      OBVIOUS
    <3> QED
      BY <3>1, <3>2, <3>3
  <2>3. FormatRate(v) = FormatRate(w)
          <=> (RateTypeOf(t) = "hourly") = (RateTypeOf(u) = "hourly") /\ Amount(r) = Amount(s)
    <3> DEFINE F(x, y) == [perHour |-> x, amount |-> y]
    <3>1. /\ FormatRate(v) = {F(RateTypeOf(t) = "hourly", Amount(r))}
          /\ FormatRate(w) = {F(RateTypeOf(u) = "hourly", Amount(s))}
      BY <1>3, <1>5
    <3>2. \A a, b, c, d : F(a, b) = F(c, d) <=> a = c /\ b = d
      OBVIOUS
    <3>3. \A x, y : {x} = {y} <=> x = y
      OBVIOUS
    <3> HIDE DEF F
    <3> QED
      BY <3>1, <3>2, <3>3
  <2>4. Amount(r) = Amount(s) <=> r = s
    BY AmountsDiffer DEF Amount
  <2> QED
    BY <2>1, <2>2, <2>3, <2>4
<1> QED
  BY <1>2, <1>4, <1>5 DEF v, w

\* So is the way of working: days on site come with hybrid work only.
LEMMA RemotesAgree ==
    ASSUME NEW t \in Text, NEW u \in Text
    PROVE  MaterialRemote(ValuesOf(t)) = MaterialRemote(ValuesOf(u))
             <=> FormatRemote(ValuesOf(t)) = FormatRemote(ValuesOf(u))
<1>1. \A x \in Text : Remote(x).days # {} => Remote(x).type = "hybrid"
  BY DEF Remote, Text, Maybe
<1>2. \A x \in Text : FormatRemote(ValuesOf(x)) = [type |-> Remote(x).type, days |-> Remote(x).days]
  BY <1>1 DEF FormatRemote, ValuesOf
<1>3. \A x \in Text : MaterialRemote(ValuesOf(x)) = <<Remote(x).type, Remote(x).days>>
  BY DEF MaterialRemote, ValuesOf
<1> QED
  BY <1>2, <1>3

\* The hash and the display tell the same postings apart.
LEMMA HashAgreesWithDisplay ==
    ASSUME NEW t \in Text, NEW u \in Text
    PROVE  MaterialHash(ValuesOf(t)) = MaterialHash(ValuesOf(u))
             <=> Snapshot(ValuesOf(t)) = Snapshot(ValuesOf(u))
<1> DEFINE v == ValuesOf(t)
           w == ValuesOf(u)
<1>1. MaterialRate(v) = MaterialRate(w) <=> FormatRate(v) = FormatRate(w)
  BY RatesAgree
<1>2. MaterialRemote(v) = MaterialRemote(w) <=> FormatRemote(v) = FormatRemote(w)
  BY RemotesAgree
<1>3. MaterialSkills(v) = MaterialSkills(w) <=> FormatSkills(v) = FormatSkills(w)
  BY DEF MaterialSkills, FormatSkills
<1> HIDE DEF v, w
<1>4. MaterialHash(v) = MaterialHash(w)
        <=> /\ MaterialRate(v) = MaterialRate(w) /\ MaterialRemote(v) = MaterialRemote(w)
            /\ v.start = w.start /\ MaterialSkills(v) = MaterialSkills(w)
  BY DEF MaterialHash
<1>5. Snapshot(v) = Snapshot(w)
        <=> /\ FormatRate(v) = FormatRate(w) /\ FormatRemote(v) = FormatRemote(w)
            /\ v.start = w.start /\ FormatSkills(v) = FormatSkills(w)
  BY DEF Snapshot
<1> QED
  BY <1>1, <1>2, <1>3, <1>4, <1>5 DEF v, w

-----------------------------------------------------------------------------
(***************************************************************************)
(* The inductive invariant: every row of the history is of a message of    *)
(* the channel and says what that message displays; what is selected as an *)
(* update differs from the row it was compared with; what waits for a row  *)
(* is in the channel.                                                      *)
(***************************************************************************)
Written == {ValuesOf(t) : t \in Texts}

RowIsTrue(r) ==
    /\ r.of \in DOMAIN channel
    /\ \E v \in Written : /\ r.hash = MaterialHash(v)
                          /\ r.fields \in {{}, {Snapshot(v)}}
                          /\ channel[r.of].shown = Snapshot(v)

ItemIsTrue(i) ==
    /\ DOMAIN i = {"at", "row", "seen", "sent"}
    /\ i.at \in {"listed", "posting", "waiting", "recording"}
    /\ i.row \in Written
    /\ i.seen \in 0..Len(history)
    /\ i.at = "posting" /\ i.seen # 0 => history[i.seen].hash # MaterialHash(i.row)
    /\ i.at \in {"listed", "posting"} => i.sent = 0
    /\ i.at = "recording" => i.sent # 0
    /\ i.sent # 0 => i.sent \in DOMAIN channel /\ channel[i.sent].shown = Snapshot(i.row)

ShowsChange(m) ==
    m.seen # 0 /\ history[m.seen].fields # {} =>
        m.changes # {} /\ \A c \in m.changes : DOMAIN c # {}

LinesTrue(n) ==
    \A c \in channel[n].changes :
        \E m \in 1..(n - 1) : /\ history[channel[n].seen].of = m
                              /\ c = Difference(channel[m], channel[n])

MessageIsTrue(n) ==
    /\ channel[n].seen \in 0..Len(history)
    /\ channel[n].seen = 0 => channel[n].changes = {}
    /\ ShowsChange(channel[n])
    /\ LinesTrue(n)

\* The place in the channel of the last message that has a row.
LastOf == IF history = <<>> THEN 0 ELSE history[Len(history)].of

\* Nobody but p is at work.
OthersRest(p) == \A q \in Proc : q # p => item[q] = {}

\* In a calm history one notify is at work at most, and the last message is the
\* last recorded one, or the one that this notify waits with.
CalmInv ==
    faults = 0 /\ alone =>
        /\ \A p \in Proc : item[p] = {} \/ OthersRest(p)
        /\ \A p \in Proc : \A i \in item[p] :
               i.at \in {"waiting", "recording"} => i.sent = Len(channel)
        /\ (\A p \in Proc : \A i \in item[p] : i.at \notin {"waiting", "recording"})
               => LastOf = Len(channel)

UpdateTypeOK ==
    /\ DOMAIN item = Proc /\ \A p \in Proc : \A i, j \in item[p] : i = j
    /\ faults \in Nat /\ alone \in BOOLEAN
    /\ \E S : channel \in Seq(S)
    /\ \E S : history \in Seq(S)

RewritingInv ==
    /\ UpdateTypeOK
    /\ job \in Written
    /\ \A k \in DOMAIN history : RowIsTrue(history[k])
    /\ \A p \in Proc : \A i \in item[p] : ItemIsTrue(i)
    /\ \A n \in DOMAIN channel : MessageIsTrue(n)
    /\ CalmInv

LEMMA WrittenAgree ==
    ASSUME NEW v \in Written, NEW w \in Written
    PROVE  MaterialHash(v) = MaterialHash(w) <=> Snapshot(v) = Snapshot(w)
BY HashAgreesWithDisplay, UpdateAssumption DEF Written

\* Two snapshots that differ do so under some label.
LEMMA SomeLabelDiffers ==
    ASSUME NEW v, NEW w, Snapshot(v) # Snapshot(w)
    PROVE  DOMAIN ChangedLines(Snapshot(v), w) # {}
BY DEF ChangedLines, Snapshot

\* Appending keeps what was there.
LEMMA AppendKeeps ==
    ASSUME NEW S, NEW q \in Seq(S), NEW x
    PROVE  /\ \E T : Append(q, x) \in Seq(T)
           /\ Len(Append(q, x)) = Len(q) + 1 /\ Len(q) \in Nat
           /\ DOMAIN q = 1..Len(q) /\ DOMAIN Append(q, x) = 1..(Len(q) + 1)
           /\ \A k \in DOMAIN q : Append(q, x)[k] = q[k]
           /\ Append(q, x)[Len(q) + 1] = x
           /\ Append(q, x) # <<>>
<1> DEFINE T == S \cup {x}
<1>1. q \in Seq(T)
  OBVIOUS
<1>2. Append(q, x) \in Seq(T)
  BY <1>1
<1>3. \E U : Append(q, x) \in Seq(U)
  BY <1>2, Zenon
<1>4. /\ Len(Append(q, x)) = Len(q) + 1 /\ Len(q) \in Nat
      /\ DOMAIN q = 1..Len(q) /\ DOMAIN Append(q, x) = 1..(Len(q) + 1)
  BY <1>1, <1>2
<1>5. /\ \A k \in DOMAIN q : Append(q, x)[k] = q[k]
      /\ Append(q, x)[Len(q) + 1] = x
  BY <1>1
<1>6. Append(q, x) # <<>>
  <2>1. Len(<<>>) = 0
    OBVIOUS
  <2>2. Len(Append(q, x)) # 0
    BY <1>4
  <2> QED BY <2>1, <2>2, Zenon
<1> QED BY <1>3, <1>4, <1>5, <1>6

LEMMA InitRewriting == Init => RewritingInv
<1> SUFFICES ASSUME Init
             PROVE  RewritingInv
  OBVIOUS
<1>1. job \in Written /\ faults = 0 /\ item = [p \in Proc |-> {}]
      /\ alone = TRUE
  BY DEF Init, Written
<1>2. CASE channel = <<>> /\ history = <<>>
  <2>1. UpdateTypeOK /\ CalmInv
    BY <1>1, <1>2 DEF UpdateTypeOK, CalmInv, LastOf, OthersRest
  <2> QED BY <1>1, <1>2, <2>1 DEF RewritingInv
<1>3. ASSUME NEW v \in Written, channel = <<LegacyMessage(v)>>, history = <<LegacyRow(v)>>
      PROVE  RewritingInv
  <2>1. /\ Len(channel) = 1 /\ DOMAIN channel = {1} /\ channel[1] = LegacyMessage(v)
        /\ Len(history) = 1 /\ DOMAIN history = {1} /\ history[1] = LegacyRow(v)
    BY <1>3
  <2>2. UpdateTypeOK
    <3>1. channel \in Seq({LegacyMessage(v)}) /\ history \in Seq({LegacyRow(v)})
      BY <1>3
    <3> QED BY <1>1, <3>1 DEF UpdateTypeOK
  <2>3. CalmInv
    BY <1>1, <1>3, <2>1 DEF CalmInv, LastOf, LegacyRow
  <2>4. RowIsTrue(history[1])
    BY <2>1 DEF RowIsTrue, LegacyRow, LegacyMessage
  <2>5. MessageIsTrue(1)
    BY <2>1 DEF MessageIsTrue, ShowsChange, LinesTrue, LegacyMessage
  <2> QED BY <1>1, <2>1, <2>2, <2>3, <2>4, <2>5 DEF RewritingInv
<1> QED BY <1>2, <1>3 DEF Init, Written

\* A step that changes neither the channel nor the history, and leaves p with
\* nothing or with one true item.
LEMMA ItemStep ==
    ASSUME RewritingInv, NEW p \in Proc, NEW S, Has(p, S),
           UNCHANGED <<channel, history>>, job' \in Written, faults' \in Nat,
           alone' \in BOOLEAN,
           \A i \in S : ItemIsTrue(i), \A i, j \in S : i = j
    PROVE  /\ UpdateTypeOK' /\ job' \in Written
           /\ (\A k \in DOMAIN history : RowIsTrue(history[k]))'
           /\ (\A q \in Proc : \A i \in item[q] : ItemIsTrue(i))'
           /\ (\A n \in DOMAIN channel : MessageIsTrue(n))'
<1>1. DOMAIN item' = Proc /\ \A q \in Proc : item'[q] = IF q = p THEN S ELSE item[q]
  BY DEF Has, RewritingInv, UpdateTypeOK
<1>2. UpdateTypeOK'
  BY <1>1 DEF RewritingInv, UpdateTypeOK
<1>3. \A i : ItemIsTrue(i)' = ItemIsTrue(i)
  BY DEF ItemIsTrue
<1>4. \A r : RowIsTrue(r)' = RowIsTrue(r)
  BY DEF RowIsTrue
<1>5. \A n : MessageIsTrue(n)' = MessageIsTrue(n)
  BY DEF MessageIsTrue, ShowsChange, LinesTrue, Difference
<1>6. (\A q \in Proc : \A i \in item[q] : ItemIsTrue(i))'
  BY <1>1, <1>3 DEF RewritingInv
<1> QED BY <1>2, <1>4, <1>5, <1>6 DEF RewritingInv

\* A fault ends the calm.
LEMMA FaultEndsCalm ==
    ASSUME RewritingInv, Fault
    PROVE  CalmInv' /\ faults' \in Nat
BY DEF RewritingInv, UpdateTypeOK, Fault, CalmInv

\* What a step does to p's item says all when nobody else is at work.
LEMMA CalmStep ==
    ASSUME RewritingInv, NEW p \in Proc, NEW S, Has(p, S), NoFault, alone' \in BOOLEAN,
           \/ faults # 0 \/ alone' = FALSE
           \/ /\ OthersRest(p)
              /\ \A i \in S : i.at \in {"waiting", "recording"} => i.sent = Len(channel)'
              /\ (\A i \in S : i.at \notin {"waiting", "recording"}) => LastOf' = Len(channel)'
    PROVE  CalmInv'
<1>1. DOMAIN item' = Proc /\ \A q \in Proc : item'[q] = IF q = p THEN S ELSE item[q]
  BY DEF Has, RewritingInv, UpdateTypeOK
<1>2. CASE faults # 0 \/ alone' = FALSE
  BY <1>2 DEF CalmInv, NoFault
<1>3. CASE /\ OthersRest(p)
           /\ \A i \in S : i.at \in {"waiting", "recording"} => i.sent = Len(channel)'
           /\ (\A i \in S : i.at \notin {"waiting", "recording"}) => LastOf' = Len(channel)'
  <2>1. \A q \in Proc : q # p => item'[q] = {}
    BY <1>1, <1>3 DEF OthersRest
  <2>2. (\A q \in Proc : item[q] = {} \/ OthersRest(q))'
    BY <1>1, <2>1 DEF OthersRest
  <2> QED BY <1>1, <1>3, <2>1, <2>2 DEF CalmInv
<1> QED BY <1>2, <1>3

\* While the calm lasts, the one that works is alone.
LEMMA WorksAlone ==
    ASSUME RewritingInv, NEW p \in Proc, NEW i \in item[p]
    PROVE  \/ faults # 0 \/ alone = FALSE
           \/ /\ OthersRest(p)
              /\ i.at \in {"waiting", "recording"} => i.sent = Len(channel)
              /\ i.at \notin {"waiting", "recording"} => LastOf = Len(channel)
<1>1. alone \in BOOLEAN /\ CalmInv /\ \A j \in item[p] : j = i
  BY DEF RewritingInv, UpdateTypeOK
<1> SUFFICES ASSUME faults = 0, alone = TRUE
             PROVE  /\ OthersRest(p)
                    /\ i.at \in {"waiting", "recording"} => i.sent = Len(channel)
                    /\ i.at \notin {"waiting", "recording"} => LastOf = Len(channel)
  BY <1>1
<1>2. OthersRest(p)
  BY <1>1 DEF CalmInv
<1>3. (i.at \notin {"waiting", "recording"})
        => \A q \in Proc : \A j \in item[q] : j.at \notin {"waiting", "recording"}
  BY <1>1, <1>2 DEF OthersRest
<1> QED BY <1>1, <1>2, <1>3 DEF CalmInv

\* A line that changed carries the old and the new display of its label.
LEMMA LinesAreDifference ==
    ASSUME NEW v, NEW w, NEW old, NEW new,
           old.shown = Snapshot(v), new.shown = Snapshot(w)
    PROVE  ChangedLines(Snapshot(v), w) = Difference(old, new)
BY DEF ChangedLines, Difference

\* The fields of an item that moves on.
LEMMA ItemMoves ==
    ASSUME NEW i, DOMAIN i = {"at", "row", "seen", "sent"}, NEW a, NEW n
    PROVE  /\ LET j == [i EXCEPT !.at = a]
              IN  /\ DOMAIN j = {"at", "row", "seen", "sent"}
                  /\ j.at = a /\ j.row = i.row /\ j.seen = i.seen /\ j.sent = i.sent
           /\ LET j == [i EXCEPT !.at = a, !.sent = n]
              IN  /\ DOMAIN j = {"at", "row", "seen", "sent"}
                  /\ j.at = a /\ j.row = i.row /\ j.seen = i.seen /\ j.sent = n
           /\ LET j == [i EXCEPT !.at = a, !.seen = n]
              IN  /\ DOMAIN j = {"at", "row", "seen", "sent"}
                  /\ j.at = a /\ j.row = i.row /\ j.seen = n /\ j.sent = i.sent
OBVIOUS

LEMMA PostKeeps ==
    ASSUME RewritingInv, NEW p \in Proc, NEW i \in item[p], i.at = "posting",
           channel' = Append(channel, MessageOf(i)), NoFault, UNCHANGED <<job, history, alone>>,
           Has(p, {[i EXCEPT !.at = "waiting", !.sent = Len(channel) + 1]})
    PROVE  RewritingInv'
<1>0. PICK N \in Nat : N = Len(channel) + 1
  BY DEF RewritingInv, UpdateTypeOK
<1> DEFINE j == [i EXCEPT !.at = "waiting", !.sent = N]
<1>1. /\ \E T : channel' \in Seq(T)
      /\ Len(channel') = N /\ Len(channel) \in Nat
      /\ DOMAIN channel = 1..Len(channel) /\ DOMAIN channel' = 1..N
      /\ \A k \in DOMAIN channel : channel'[k] = channel[k]
      /\ channel'[N] = MessageOf(i)
  <2>1. PICK S : channel \in Seq(S)
    BY DEF RewritingInv, UpdateTypeOK
  <2> DEFINE M == MessageOf(i)
  <2>2. channel' = Append(channel, M)
    OBVIOUS
  <2> HIDE DEF M
  <2>3. /\ \E T : Append(channel, M) \in Seq(T)
        /\ Len(Append(channel, M)) = Len(channel) + 1 /\ Len(channel) \in Nat
        /\ DOMAIN channel = 1..Len(channel) /\ DOMAIN Append(channel, M) = 1..(Len(channel) + 1)
        /\ \A k \in DOMAIN channel : Append(channel, M)[k] = channel[k]
        /\ Append(channel, M)[Len(channel) + 1] = M
        /\ Append(channel, M) # <<>>
    BY <2>1, AppendKeeps
  <2> QED BY <1>0, <2>2, <2>3 DEF M
<1>2. ItemIsTrue(i) /\ i.seen \in 0..Len(history) /\ Len(history) \in Nat
      /\ DOMAIN history = 1..Len(history)
  BY DEF RewritingInv, ItemIsTrue, UpdateTypeOK
<1>3. /\ channel'[N].shown = Snapshot(i.row) /\ channel'[N].seen = i.seen
      /\ channel'[N].changes = {ChangedLines(s, i.row) : s \in PrevFields(i)}
  BY <1>1 DEF MessageOf
<1>4. /\ i.seen = 0 => PrevFields(i) = {}
      /\ i.seen # 0 => PrevFields(i) = history[i.seen].fields
  BY <1>2 DEF PrevFields
<1>5. ASSUME i.seen # 0, history[i.seen].fields # {}
      PROVE  \E m \in 1..(N - 1), v \in Written :
                 /\ history[i.seen].of = m /\ channel[m].shown = Snapshot(v)
                 /\ PrevFields(i) = {Snapshot(v)}
                 /\ Snapshot(v) # Snapshot(i.row)
  <2>1. RowIsTrue(history[i.seen])
    BY <1>2, <1>5 DEF RewritingInv
  <2>2. PICK v \in Written : /\ history[i.seen].hash = MaterialHash(v)
                             /\ history[i.seen].fields \in {{}, {Snapshot(v)}}
                             /\ channel[history[i.seen].of].shown = Snapshot(v)
    BY <2>1 DEF RowIsTrue
  <2>3. MaterialHash(v) # MaterialHash(i.row) /\ i.row \in Written
    BY <1>2, <1>5, <2>2 DEF ItemIsTrue
  <2>4. Snapshot(v) # Snapshot(i.row)
    BY <2>3, WrittenAgree
  <2>5. history[i.seen].of \in 1..(N - 1)
    BY <1>1, <2>1 DEF RowIsTrue
  <2> QED BY <1>4, <1>5, <2>2, <2>4, <2>5
<1>6. MessageIsTrue(N)'
  <2>1. channel'[N].seen \in 0..Len(history') /\ (channel'[N].seen = 0 => channel'[N].changes = {})
    BY <1>2, <1>3, <1>4
  <2>2. CASE i.seen = 0 \/ history[i.seen].fields = {}
    <3>1. channel'[N].changes = {}
      BY <1>3, <1>4, <2>2
    <3> QED BY <1>3, <2>1, <2>2, <3>1 DEF MessageIsTrue, ShowsChange, LinesTrue
  <2>3. CASE i.seen # 0 /\ history[i.seen].fields # {}
    <3>1. PICK m \in 1..(N - 1), v \in Written :
                 /\ history[i.seen].of = m /\ channel[m].shown = Snapshot(v)
                 /\ PrevFields(i) = {Snapshot(v)}
                 /\ Snapshot(v) # Snapshot(i.row)
      BY <1>5, <2>3
    <3>2. channel'[N].changes = {ChangedLines(Snapshot(v), i.row)}
      BY <1>3, <3>1
    <3>3. DOMAIN ChangedLines(Snapshot(v), i.row) # {}
      BY <3>1, SomeLabelDiffers
    <3>4. channel'[m].shown = Snapshot(v)
      BY <1>1, <3>1
    <3>5. ChangedLines(Snapshot(v), i.row) = Difference(channel'[m], channel'[N])
      <4> DEFINE old == channel'[m]
                 new == channel'[N]
      <4>1. old.shown = Snapshot(v) /\ new.shown = Snapshot(i.row)
        BY <1>3, <3>4
      <4> HIDE DEF old, new
      <4>2. ChangedLines(Snapshot(v), i.row) = Difference(old, new)
        BY <4>1, LinesAreDifference
      <4> QED BY <4>2 DEF old, new
    <3>6. ShowsChange(channel[N])'
      BY <3>2, <3>3 DEF ShowsChange
    <3>7. LinesTrue(N)'
      BY <1>3, <3>1, <3>2, <3>5 DEF LinesTrue, Difference
    <3> QED BY <2>1, <3>6, <3>7 DEF MessageIsTrue
  <2> QED BY <2>2, <2>3
<1>7. ASSUME NEW n \in DOMAIN channel PROVE MessageIsTrue(n)'
  <2>1. channel'[n] = channel[n] /\ \A m \in 1..(n - 1) : channel'[m] = channel[m]
    BY <1>1, <1>7
  <2>2. MessageIsTrue(n)
    BY <1>7 DEF RewritingInv
  <2>3. ShowsChange(channel[n])' /\ channel'[n].seen \in 0..Len(history')
        /\ (channel'[n].seen = 0 => channel'[n].changes = {})
    BY <2>1, <2>2 DEF MessageIsTrue, ShowsChange
  <2>4. ASSUME NEW c \in channel'[n].changes
        PROVE  \E m \in 1..(n - 1) : /\ history'[channel'[n].seen].of = m
                                     /\ c = Difference(channel'[m], channel'[n])
    <3>1. PICK m \in 1..(n - 1) : /\ history[channel[n].seen].of = m
                                  /\ c = Difference(channel[m], channel[n])
      BY <2>1, <2>2, <2>4 DEF MessageIsTrue, LinesTrue
    <3> QED BY <2>1, <3>1
  <2> QED BY <2>3, <2>4 DEF MessageIsTrue, LinesTrue, Difference
<1>8. (\A n \in DOMAIN channel : MessageIsTrue(n))'
  BY <1>1, <1>6, <1>7
<1>9. (\A k \in DOMAIN history : RowIsTrue(history[k]))'
  BY <1>1 DEF RewritingInv, RowIsTrue
<1>10. \A x : ItemIsTrue(x) => ItemIsTrue(x)'
  BY <1>1 DEF ItemIsTrue
<1>11. ItemIsTrue(j)' /\ j.at = "waiting" /\ j.sent = N
  <2>1. /\ DOMAIN j = {"at", "row", "seen", "sent"}
        /\ j.at = "waiting" /\ j.row = i.row /\ j.seen = i.seen /\ j.sent = N
    BY <1>2, ItemMoves DEF ItemIsTrue
  <2> HIDE DEF j
  <2> QED BY <1>1, <1>2, <1>3, <2>1 DEF ItemIsTrue
<1>12. DOMAIN item' = Proc /\ \A q \in Proc : item'[q] = IF q = p THEN {j} ELSE item[q]
  BY <1>0 DEF Has, RewritingInv, UpdateTypeOK
<1> HIDE DEF j
<1>13. (\A q \in Proc : \A x \in item[q] : ItemIsTrue(x))'
  BY <1>10, <1>11, <1>12 DEF RewritingInv
<1>14. UpdateTypeOK'
  BY <1>1, <1>12 DEF RewritingInv, UpdateTypeOK, NoFault
<1>15. CalmInv'
  <2>1. Len(channel') = N /\ j.at = "waiting" /\ j.sent = N
    BY <1>1, <1>11
  <2>2. faults # 0 \/ alone' = FALSE \/ OthersRest(p)
    BY WorksAlone
  <2>3. alone' \in BOOLEAN
    BY DEF RewritingInv, UpdateTypeOK
  <2>4. Has(p, {j})
    BY <1>0 DEF j
  <2> QED BY <2>1, <2>2, <2>3, <2>4, CalmStep
<1> QED BY <1>8, <1>9, <1>13, <1>14, <1>15 DEF RewritingInv

LEMMA PersistKeeps ==
    ASSUME RewritingInv, NEW p \in Proc, NEW i \in item[p], i.at = "recording",
           history' = Append(history, RowOf(i)), NoFault, UNCHANGED <<job, channel, alone>>,
           Has(p, {})
    PROVE  RewritingInv'
<1>0. PICK N \in Nat : N = Len(history) + 1
  BY DEF RewritingInv, UpdateTypeOK
<1>1. /\ \E T : history' \in Seq(T)
      /\ Len(history') = N /\ Len(history) \in Nat
      /\ DOMAIN history = 1..Len(history) /\ DOMAIN history' = 1..N
      /\ \A k \in DOMAIN history : history'[k] = history[k]
      /\ history'[N] = RowOf(i) /\ history' # <<>>
  <2>1. PICK S : history \in Seq(S)
    BY DEF RewritingInv, UpdateTypeOK
  <2> DEFINE M == RowOf(i)
  <2>2. history' = Append(history, M)
    OBVIOUS
  <2> HIDE DEF M
  <2>3. /\ \E T : Append(history, M) \in Seq(T)
        /\ Len(Append(history, M)) = Len(history) + 1 /\ Len(history) \in Nat
        /\ DOMAIN history = 1..Len(history) /\ DOMAIN Append(history, M) = 1..(Len(history) + 1)
        /\ \A k \in DOMAIN history : Append(history, M)[k] = history[k]
        /\ Append(history, M)[Len(history) + 1] = M
        /\ Append(history, M) # <<>>
    BY <2>1, AppendKeeps
  <2> QED BY <1>0, <2>2, <2>3 DEF M
<1>2. ItemIsTrue(i)
  BY DEF RewritingInv
<1>3. DOMAIN item' = Proc /\ \A q \in Proc : item'[q] = IF q = p THEN {} ELSE item[q]
  BY DEF Has, RewritingInv, UpdateTypeOK
<1>4. RowIsTrue(RowOf(i))
  BY <1>2 DEF ItemIsTrue, RowIsTrue, RowOf
<1>5. (\A k \in DOMAIN history : RowIsTrue(history[k]))'
  BY <1>1, <1>4 DEF RewritingInv, RowIsTrue
<1>6. (\A q \in Proc : \A x \in item[q] : ItemIsTrue(x))'
  BY <1>1, <1>3 DEF RewritingInv, ItemIsTrue
<1>7. ASSUME NEW n \in DOMAIN channel PROVE MessageIsTrue(n)'
  <2>1. MessageIsTrue(n)
    BY <1>7 DEF RewritingInv
  <2>2. channel[n].seen # 0 => history'[channel[n].seen] = history[channel[n].seen]
    BY <1>1, <2>1 DEF MessageIsTrue
  <2>3. channel[n].seen \in 0..Len(history') /\ (channel[n].seen = 0 => channel[n].changes = {})
    BY <1>1, <2>1 DEF MessageIsTrue
  <2>4. ShowsChange(channel[n])'
    BY <2>1, <2>2 DEF MessageIsTrue, ShowsChange
  <2>5. LinesTrue(n)'
    <3> SUFFICES ASSUME NEW c \in channel[n].changes
                 PROVE  \E m \in 1..(n - 1) : /\ history'[channel[n].seen].of = m
                                              /\ c = Difference(channel[m], channel[n])
      <4>1. channel' = channel /\ \A a, b : Difference(a, b)' = Difference(a, b)
        BY DEF Difference
      <4> QED BY <4>1 DEF LinesTrue
    <3>1. channel[n].seen # 0
      BY <2>1 DEF MessageIsTrue
    <3> QED BY <2>1, <2>2, <3>1 DEF MessageIsTrue, LinesTrue
  <2> QED BY <2>3, <2>4, <2>5 DEF MessageIsTrue
<1>8. UpdateTypeOK'
  BY <1>1, <1>3 DEF RewritingInv, UpdateTypeOK, NoFault
<1>9. CalmInv'
  <2>1. LastOf' = i.sent
    BY <1>1 DEF LastOf, RowOf
  <2>2. alone' \in BOOLEAN /\ Len(channel)' = Len(channel)
    BY DEF RewritingInv, UpdateTypeOK
  <2>3. faults # 0 \/ alone' = FALSE \/ (OthersRest(p) /\ i.sent = Len(channel))
    <3>1. i.at \in {"waiting", "recording"}
      OBVIOUS
    <3> QED BY <3>1, WorksAlone
  <2> QED BY <2>1, <2>2, <2>3, CalmStep
<1> QED BY <1>5, <1>6, <1>7, <1>8, <1>9 DEF RewritingInv

LEMMA NextRewriting == RewritingInv /\ [Next]_vars => RewritingInv'
<1> SUFFICES ASSUME RewritingInv, [Next]_vars
             PROVE  RewritingInv'
  OBVIOUS
<1>0. /\ job \in Written /\ faults \in Nat /\ alone \in BOOLEAN /\ CalmInv
      /\ \A p \in Proc : \A i \in item[p] : ItemIsTrue(i)
      /\ \A p \in Proc : \A i, j \in item[p] : i = j
  BY DEF RewritingInv, UpdateTypeOK
<1>1. CASE Collect
  <2>1. job' \in Written /\ UNCHANGED <<channel, history, item, faults, alone>>
    BY <1>1 DEF Collect, Written
  <2>2. UpdateTypeOK' /\ CalmInv'
    BY <2>1 DEF RewritingInv, UpdateTypeOK, CalmInv, LastOf, OthersRest
  <2>3. \A n : MessageIsTrue(n)' = MessageIsTrue(n)
    BY <2>1 DEF MessageIsTrue, ShowsChange, LinesTrue, Difference
  <2>4. \A x : ItemIsTrue(x)' = ItemIsTrue(x) /\ RowIsTrue(x)' = RowIsTrue(x)
    BY <2>1 DEF ItemIsTrue, RowIsTrue
  <2> QED BY <2>1, <2>2, <2>3, <2>4 DEF RewritingInv
<1>2. ASSUME NEW p \in Proc, ListJob(p) PROVE RewritingInv'
  <2> DEFINE j == [at |-> "listed", row |-> job, seen |-> 0, sent |-> 0]
  <2>1. /\ Has(p, {j}) /\ item[p] = {} /\ UNCHANGED <<job, channel, history, faults>>
        /\ alone' = (alone /\ \A q \in Proc : item[q] = {})
    BY <1>2 DEF ListJob
  <2>2. /\ DOMAIN j = {"at", "row", "seen", "sent"}
        /\ j.at = "listed" /\ j.row = job /\ j.seen = 0 /\ j.sent = 0
    OBVIOUS
  <2> HIDE DEF j
  <2>3. ItemIsTrue(j)
    <3>1. 0 \in 0..Len(history)
      BY DEF RewritingInv, UpdateTypeOK
    <3> QED BY <1>0, <2>2, <3>1 DEF ItemIsTrue
  <2>4. alone' \in BOOLEAN
    BY <1>0, <2>1
  <2>5. CalmInv'
    <3>1. LastOf' = LastOf
      BY <2>1 DEF LastOf
    <3>2. faults # 0 \/ alone' = FALSE \/ (OthersRest(p) /\ LastOf' = Len(channel)')
      <4> SUFFICES ASSUME faults = 0, alone' = TRUE
                   PROVE  OthersRest(p) /\ LastOf' = Len(channel)'
        BY <2>4
      <4>1. alone = TRUE /\ \A q \in Proc : item[q] = {}
        BY <1>0, <2>1
      <4>2. LastOf = Len(channel)
        BY <1>0, <4>1 DEF CalmInv
      <4> QED BY <2>1, <3>1, <4>1, <4>2 DEF OthersRest
    <3> QED BY <2>1, <2>2, <2>4, <3>2, CalmStep DEF NoFault
  <2> QED BY <1>0, <2>1, <2>3, <2>4, <2>5, ItemStep DEF RewritingInv
<1>3. ASSUME NEW p \in Proc, Select(p) PROVE RewritingInv'
  <2>1. PICK i \in item[p] :
           /\ i.at = "listed"
           /\ \/ Has(p, {})
              \/ /\ ~NothingToSay(i.row)
                 /\ Has(p, {[i EXCEPT !.at = "posting", !.seen = Len(history)]})
    BY <1>3 DEF Select
  <2>2. UNCHANGED <<job, channel, history, faults, alone>>
    BY <1>3 DEF Select
  <2>3. LastOf' = LastOf
    BY <2>2 DEF LastOf
  <2>4. faults # 0 \/ alone = FALSE \/ (OthersRest(p) /\ LastOf = Len(channel))
    BY <2>1, WorksAlone
  <2>5. CASE Has(p, {})
    <3>1. CalmInv'
      BY <1>0, <2>2, <2>3, <2>4, <2>5, CalmStep DEF NoFault
    <3> QED BY <1>0, <2>2, <2>5, <3>1, ItemStep DEF RewritingInv
  <2>6. CASE ~Has(p, {})
    <3> DEFINE j == [i EXCEPT !.at = "posting", !.seen = Len(history)]
    <3>1. Has(p, {j}) /\ ~NothingToSay(i.row)
      BY <2>1, <2>6
    <3>2. ItemIsTrue(i)
      BY <1>0
    <3>3. /\ DOMAIN j = {"at", "row", "seen", "sent"}
          /\ j.at = "posting" /\ j.row = i.row /\ j.seen = Len(history) /\ j.sent = i.sent
      BY <3>2, ItemMoves DEF ItemIsTrue
    <3> HIDE DEF j
    <3>4. Len(history) \in Nat /\ (Len(history) # 0 => history # <<>>)
      BY DEF RewritingInv, UpdateTypeOK
    <3>5. ItemIsTrue(j)
      BY <2>1, <3>1, <3>2, <3>3, <3>4 DEF ItemIsTrue, NothingToSay
    <3>6. CalmInv'
      BY <1>0, <2>2, <2>3, <2>4, <3>1, <3>3, CalmStep DEF NoFault
    <3> QED BY <1>0, <2>2, <3>1, <3>5, <3>6, ItemStep DEF RewritingInv
  <2> QED BY <2>5, <2>6
<1>4. ASSUME NEW p \in Proc, Post(p) PROVE RewritingInv'
  <2>1. PICK i \in item[p] :
           /\ i.at = "posting"
           /\ \/ /\ channel' = Append(channel, MessageOf(i))
                 /\ Has(p, {[i EXCEPT !.at = "waiting", !.sent = Len(channel) + 1]})
                 /\ NoFault
              \/ /\ Has(p, {[i EXCEPT !.at = "waiting"]})
                 /\ Fault
                 /\ UNCHANGED channel
    BY <1>4 DEF Post
  <2>2. UNCHANGED <<job, history, alone>>
    BY <1>4 DEF Post
  <2>3. CASE NoFault /\ channel' = Append(channel, MessageOf(i))
                /\ Has(p, {[i EXCEPT !.at = "waiting", !.sent = Len(channel) + 1]})
    BY <2>1, <2>2, <2>3, PostKeeps
  <2>4. CASE Fault /\ UNCHANGED channel /\ Has(p, {[i EXCEPT !.at = "waiting"]})
    <3> DEFINE j == [i EXCEPT !.at = "waiting"]
    <3>1. ItemIsTrue(i)
      BY <1>0
    <3>2. /\ DOMAIN j = {"at", "row", "seen", "sent"}
          /\ j.at = "waiting" /\ j.row = i.row /\ j.seen = i.seen /\ j.sent = i.sent
      BY <3>1, ItemMoves DEF ItemIsTrue
    <3> HIDE DEF j
    <3>3. ItemIsTrue(j)
      BY <2>1, <3>1, <3>2 DEF ItemIsTrue
    <3>4. Has(p, {j})
      BY <2>4 DEF j
    <3> QED BY <1>0, <2>2, <2>4, <3>3, <3>4, FaultEndsCalm, ItemStep DEF RewritingInv
  <2> QED BY <2>1, <2>3, <2>4
<1>5. ASSUME NEW p \in Proc, Answer(p) PROVE RewritingInv'
  <2>1. PICK i \in item[p] :
           /\ i.at = "waiting"
           /\ \/ i.sent # 0 /\ NoFault /\ Has(p, {[i EXCEPT !.at = "recording"]})
              \/ i.sent = 0 /\ NoFault /\ Has(p, {})
              \/ Fault /\ Has(p, {})
    BY <1>5 DEF Answer, Acknowledged
  <2>2. UNCHANGED <<job, channel, history, alone>>
    BY <1>5 DEF Answer
  <2>3. ItemIsTrue(i)
    BY <1>0
  <2>4. faults # 0 \/ alone = FALSE \/ (OthersRest(p) /\ i.sent = Len(channel))
    BY <2>1, WorksAlone
  <2>5. CASE i.sent # 0 /\ NoFault /\ Has(p, {[i EXCEPT !.at = "recording"]})
    <3> DEFINE j == [i EXCEPT !.at = "recording"]
    <3>1. /\ DOMAIN j = {"at", "row", "seen", "sent"}
          /\ j.at = "recording" /\ j.row = i.row /\ j.seen = i.seen /\ j.sent = i.sent
      BY <2>3, ItemMoves DEF ItemIsTrue
    <3> HIDE DEF j
    <3>2. ItemIsTrue(j)
      BY <2>3, <2>5, <3>1 DEF ItemIsTrue
    <3>3. Has(p, {j})
      BY <2>5 DEF j
    <3>4. CalmInv'
      BY <1>0, <2>2, <2>4, <2>5, <3>1, <3>3, CalmStep
    <3> QED BY <1>0, <2>2, <2>5, <3>2, <3>3, <3>4, ItemStep DEF RewritingInv, NoFault
  <2>6. CASE i.sent = 0 /\ NoFault /\ Has(p, {})
    <3>1. faults # 0 \/ alone = FALSE \/ (OthersRest(p) /\ LastOf' = Len(channel)')
      <4>1. ASSUME 0 = Len(channel) PROVE history = <<>>
        <5>1. history # <<>> => 1 \in DOMAIN history
          BY DEF RewritingInv, UpdateTypeOK
        <5>2. channel = <<>> /\ DOMAIN channel = {}
          BY <4>1 DEF RewritingInv, UpdateTypeOK
        <5> QED BY <5>1, <5>2 DEF RewritingInv, RowIsTrue
      <4> QED BY <2>2, <2>4, <2>6, <4>1 DEF LastOf
    <3>2. CalmInv'
      BY <1>0, <2>2, <2>6, <3>1, CalmStep
    <3> QED BY <1>0, <2>2, <2>6, <3>2, ItemStep DEF RewritingInv, NoFault
  <2>7. CASE Fault /\ Has(p, {})
    BY <1>0, <2>2, <2>7, FaultEndsCalm, ItemStep DEF RewritingInv
  <2> QED BY <2>1, <2>5, <2>6, <2>7
<1>6. ASSUME NEW p \in Proc, Persist(p) PROVE RewritingInv'
  <2>1. PICK i \in item[p] : /\ i.at = "recording"
                             /\ \/ history' = Append(history, RowOf(i)) /\ NoFault
                                \/ Fault /\ UNCHANGED history
    BY <1>6 DEF Persist
  <2>2. Has(p, {}) /\ UNCHANGED <<job, channel, alone>>
    BY <1>6 DEF Persist
  <2>3. CASE Fault /\ UNCHANGED history
    BY <1>0, <2>2, <2>3, FaultEndsCalm, ItemStep DEF RewritingInv
  <2> QED BY <2>1, <2>2, <2>3, PersistKeeps
<1>7. ASSUME NEW p \in Proc, Stop(p) PROVE RewritingInv'
  BY <1>0, <1>7, FaultEndsCalm, ItemStep DEF RewritingInv, Stop
<1>8. CASE UNCHANGED vars
  <2>1. UNCHANGED <<job, channel, history, item, faults, alone>>
    BY <1>8 DEF vars
  <2>2. UpdateTypeOK' /\ CalmInv'
    BY <2>1 DEF RewritingInv, UpdateTypeOK, CalmInv, LastOf, OthersRest
  <2>3. \A n : MessageIsTrue(n)' = MessageIsTrue(n)
    BY <2>1 DEF MessageIsTrue, ShowsChange, LinesTrue, Difference
  <2>4. \A x : ItemIsTrue(x)' = ItemIsTrue(x) /\ RowIsTrue(x)' = RowIsTrue(x)
    BY <2>1 DEF ItemIsTrue, RowIsTrue
  <2> QED BY <2>1, <2>2, <2>3, <2>4 DEF RewritingInv
<1> QED BY <1>1, <1>2, <1>3, <1>4, <1>5, <1>6, <1>7, <1>8 DEF Next

LEMMA AlwaysRewriting == Spec => []RewritingInv
BY InitRewriting, NextRewriting, PTL DEF Spec

\* Every update message that was compared with a snapshot names a change
\* (message.go: an update that repeats the last message is noise).
THEOREM UpdatesShowChanges == Spec => []UpdateShowsChange
<1>1. RewritingInv => UpdateShowsChange
  BY DEF RewritingInv, MessageIsTrue, ShowsChange, UpdateShowsChange
<1> QED
  BY <1>1, AlwaysRewriting, PTL

\* The lines of an update are the difference between two messages the reader
\* got (notify_jobs.go hands PrevFields over, slack/notifier.go records them).
THEOREM ChangesAreTrue == Spec => []LinesAreTrue
<1>1. RewritingInv => LinesAreTrue
  BY DEF RewritingInv, MessageIsTrue, LinesTrue, LinesAreTrue
<1> QED
  BY <1>1, AlwaysRewriting, PTL

\* What the history says of the row when its last hash is the row's.
LEMMA RowOfTheJob ==
    ASSUME RewritingInv, NothingToSay(job)
    PROVE  /\ LastOf \in DOMAIN channel
           /\ channel[LastOf].shown = Snapshot(job)
<1> DEFINE r == history[Len(history)]
<1>1. Len(history) \in DOMAIN history /\ history # <<>> /\ r.hash = MaterialHash(job)
  BY DEF RewritingInv, UpdateTypeOK, NothingToSay
<1>2. RowIsTrue(r)
  BY <1>1 DEF RewritingInv
<1>3. PICK v \in Written : r.hash = MaterialHash(v) /\ channel[r.of].shown = Snapshot(v)
  BY <1>2 DEF RowIsTrue
<1>4. Snapshot(v) = Snapshot(job)
  BY <1>1, <1>3, WrittenAgree DEF RewritingInv
<1>5. LastOf = r.of
  BY <1>1 DEF LastOf
<1> QED BY <1>2, <1>3, <1>4, <1>5 DEF RowIsTrue

\* No version goes unshown (selectTargets compares hashes, the reader compares
\* messages): a posting that notify passes over is in the channel as it is.
THEOREM SilenceIsInformed == Spec => []SilenceMeansTold
<1>1. RewritingInv => SilenceMeansTold
  BY RowOfTheJob DEF SilenceMeansTold
<1> QED
  BY <1>1, AlwaysRewriting, PTL

\* When nothing failed and no two notifies overlapped, it is there as the last
\* message.
THEOREM LastWordCurrent == Spec => []LastWordIsCurrent
<1>1. RewritingInv => LastWordIsCurrent
  <2> SUFFICES ASSUME RewritingInv, Calm, NothingToSay(job)
               PROVE  channel[Len(channel)].shown = Snapshot(job)
    BY DEF LastWordIsCurrent
  <2>1. LastOf = Len(channel)
    BY DEF RewritingInv, CalmInv, Calm
  <2> QED BY <2>1, RowOfTheJob
<1> QED
  BY <1>1, AlwaysRewriting, PTL
=============================================================================
