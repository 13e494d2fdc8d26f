------------------------------ MODULE Material ------------------------------
(***************************************************************************)
(* The items of a posting whose change is worth an update message: rate,   *)
(* remote, start and required skills.  How the text of a source becomes    *)
(* values, how the values become the hash that decides whether to notify   *)
(* again (model.MaterialHash), and how they are displayed                  *)
(* (message.Snapshot).  The last two are written apart on purpose and have *)
(* to tell the same postings apart.                                        *)
(*                                                                         *)
(* A value that may be missing is a set of at most one element.            *)
(***************************************************************************)
EXTENDS Naturals, Sequences, SequencesExt

CONSTANTS
    Word,        \* skill names as they are written
    Canonical,   \* [Word -> the name of the alias table]
    Yen, Date    \* the amounts and the days that occur

ASSUME MaterialAssumption == DOMAIN Canonical = Word

Maybe(S) == {{}} \cup {{x} : x \in S}
RateType == {"monthly", "hourly", "unknown"}
RemoteType == {"full_remote", "hybrid", "onsite", "unknown"}

\* What a source writes: an amount or a range, days on site and the words that
\* name a way of working, a start, a list of skills.
Text == [hourly : BOOLEAN, yen : Maybe(Yen \X Yen),
         days : Maybe(0..9), words : SUBSET {"full", "onsite", "hybrid"},
         start : Maybe(Date), skills : Seq(Word)]

Values == [rateType : RateType, rate : Maybe(Yen \X Yen),
           remote : RemoteType, onsiteDays : Maybe(1..9),
           start : Maybe(Date), skills : Seq(Range(Canonical))]
-----------------------------------------------------------------------------
\* An amount that cannot be read leaves the type unknown.
RateTypeOf(t) ==
    CASE t.yen = {} -> "unknown"
      [] t.hourly -> "hourly"
      [] OTHER -> "monthly"

\* Mutation: no day on site is kept as a number of days.
RemoteKeepsZero(t) ==
    IF t.days # {}
    THEN [type |-> IF t.days = {0} THEN "full_remote" ELSE "hybrid", days |-> t.days]
    ELSE [type |-> IF "full" \in t.words THEN "full_remote" ELSE "unknown", days |-> {}]

\* A number of days comes first, and no day on site is full remote; among the
\* words, full remote comes before on site and on site before hybrid.
Remote(t) ==
    [type |-> CASE t.days = {0} -> "full_remote"
                [] t.days \notin {{}, {0}} -> "hybrid"
                [] t.days = {} /\ "full" \in t.words -> "full_remote"
                [] t.days = {} /\ "full" \notin t.words /\ "onsite" \in t.words -> "onsite"
                [] t.days = {} /\ t.words = {"hybrid"} -> "hybrid"
                [] OTHER -> "unknown",
     days |-> t.days \ {0}]

\* The names of the alias table, each once, in the order they come.
Skills(words) ==
    FoldLeft(LAMBDA names, w : IF Canonical[w] \in ToSet(names) THEN names
                               ELSE Append(names, Canonical[w]),
             <<>>, words)

ValuesOf(t) ==
    [rateType |-> RateTypeOf(t), rate |-> t.yen,
     remote |-> Remote(t).type, onsiteDays |-> Remote(t).days,
     start |-> t.start, skills |-> Skills(t.skills)]
-----------------------------------------------------------------------------
(* model.MaterialHash: a hash of the four items, taken to be injective. *)

\* The names are distinct, so the sorted list is their set.
MaterialSkills(v) == ToSet(v.skills)

MaterialRemote(v) == <<v.remote, v.onsiteDays>>

MaterialRate(v) == {<<v.rateType, r>> : r \in v.rate}

MaterialHash(v) == [rate |-> MaterialRate(v), remote |-> MaterialRemote(v),
                    start |-> v.start, skills |-> MaterialSkills(v)]

(* message.Snapshot: the same items as they are displayed. *)

\* One amount is displayed once, without a unit of its own for a month.
FormatRate(v) ==
    {[perHour |-> v.rateType = "hourly",
      amount |-> IF r[1] = r[2] THEN <<r[1]>> ELSE r] : r \in v.rate}

\* Only hybrid work shows days on site.
FormatRemote(v) ==
    [type |-> v.remote, days |-> IF v.remote = "hybrid" THEN v.onsiteDays ELSE {}]

FormatSkills(v) == ToSet(v.skills)

Snapshot(v) == [rate |-> FormatRate(v), remote |-> FormatRemote(v),
                start |-> v.start, skills |-> FormatSkills(v)]

\* The labels whose display differs between the snapshot and v, with both.
ChangedLines(snapshot, v) ==
    [l \in {m \in DOMAIN snapshot : snapshot[m] # Snapshot(v)[m]} |->
        <<snapshot[l], Snapshot(v)[l]>>]
=============================================================================
