------------------------------- MODULE Parsing -------------------------------
(***************************************************************************)
(* From the body of a message to a posting: internal/parser, with the      *)
(* layouts of the two agents, the fixture mails and the detail pages, and  *)
(* what normalization reads in a text.                                     *)
(*                                                                         *)
(* A body is a sequence of lines and a line a sequence of words; labels    *)
(* are in English.  ":" stands for both colons, "#" for the square mark of *)
(* a heading, "-" for the marks that only decorate, "[" for the brackets   *)
(* and rules that are headings but no decoration.  An item of a posting    *)
(* that a body does not give is the empty text.  Of the fields, those that *)
(* only repeat the way of another are left out (place, remote, hours,      *)
(* dates, contract, roles).                                                *)
(***************************************************************************)
EXTENDS Naturals, Sequences, SequencesExt

CONSTANTS
    Canonical,   \* [words of the alias table -> skill names]
    Amount,      \* [words that are amounts -> [unit, range, lo, hi]]
    DaysIn       \* [words that are numbers of days -> [week, lo, hi]]

ASSUME ParsingAssumption ==
    /\ \A w \in DOMAIN Amount : Amount[w] \in [unit : {"man", "yen"}, range : BOOLEAN,
                                               lo : Nat, hi : Nat]
    /\ \A w \in DOMAIN DaysIn : DaysIn[w] \in [week : BOOLEAN, lo : Nat, hi : Nat]

Field == {"title", "company", "rate", "work_days", "required_skills",
          "preferred_skills", "url", "summary", "job_id"}

\* The first that is given: none if all are empty.
FirstText(texts) ==
    LET i == SelectInSeq(texts, LAMBDA t : t # <<>>)
    IN  IF i = 0 THEN <<>> ELSE texts[i]
-----------------------------------------------------------------------------
(* normalization *)

Amounts(t, unit, range) ==
    LET i == SelectInSeq(t, LAMBDA w : /\ w \in DOMAIN Amount
                                       /\ Amount[w].unit = unit /\ Amount[w].range = range)
    IN  IF i = 0 THEN <<>> ELSE <<Amount[t[i]].lo, Amount[t[i]].hi>>

\* Ten thousands before plain yen, a range before a single amount.
Rate(t) == FirstText(<<Amounts(t, "man", TRUE), Amounts(t, "man", FALSE),
                       Amounts(t, "yen", TRUE), Amounts(t, "yen", FALSE)>>)

\* A number of days of the month is read as digits that no week has.
DaysOf(t, week) ==
    LET i == SelectInSeq(t, LAMBDA w : /\ w \in DOMAIN DaysIn /\ DaysIn[w].week = week
                                       /\ DaysIn[w].lo \in 1..7
                                       /\ DaysIn[w].hi \in DaysIn[w].lo..7)
    IN  IF i = 0 THEN <<>> ELSE <<DaysIn[t[i]].lo, DaysIn[t[i]].hi>>

\* The first possible pair, one that names the week before one that does not.
WorkDays(t) == FirstText(<<DaysOf(t, TRUE), DaysOf(t, FALSE)>>)

Distinct(s) ==
    FoldLeft(LAMBDA seen, x : IF Contains(seen, x) THEN seen ELSE Append(seen, x), <<>>, s)

\* A word of a list that the alias table lacks stays as it is.
Skills(items) ==
    Distinct([i \in DOMAIN items |-> IF items[i] \in DOMAIN Canonical
                                     THEN Canonical[items[i]] ELSE items[i]])

\* Of prose only the names in the alias table are taken, each where it comes first.
ExtractSkills(t) == Skills(SelectSeq(t, LAMBDA w : w \in DOMAIN Canonical))
-----------------------------------------------------------------------------
(* Lines *)

Colon(l) == SelectInSeq(l, LAMBDA w : w = ":")
Labelled(l) == Colon(l) > 1
Label(l) == SubSeq(l, 1, Colon(l) - 1)
Value(l) == SubSeq(l, Colon(l) + 1, Len(l))
LabelIn(l, labels) == Labelled(l) /\ Label(l) \in {<<x>> : x \in labels}

StripMarkers(l) ==
    LET first == SelectInSeq(l, LAMBDA w : w \notin {"#", "-"})
    IN  IF first = 0 THEN <<>> ELSE SubSeq(l, first, Len(l))

IsHeading(l) == l # <<>> /\ Head(l) \in {"#", "["}

NextNonEmpty(lines, i) == FirstText(SubSeq(lines, i + 1, Len(lines)))

\* Mutation: a section goes on to the end of the body.
SectionToTheEnd(lines, heading) ==
    LET start == SelectInSeq(lines, LAMBDA l : l = heading)
    IN  IF start = 0 THEN <<>> ELSE FlattenSeq(SubSeq(lines, start + 1, Len(lines)))

\* The words between a heading and the next one.
Section(lines, heading) ==
    LET start == SelectInSeq(lines, LAMBDA l : l = heading)
        rest == SubSeq(lines, start + 1, Len(lines))
        end == SelectInSeq(rest, IsHeading)
    IN  IF start = 0 THEN <<>>
        ELSE FlattenSeq(SubSeq(rest, 1, IF end = 0 THEN Len(rest) ELSE end - 1))
-----------------------------------------------------------------------------
(* The mails of the agents *)

\* What a line of a Crowd Tech mail gives for a field: the value of its label,
\* or the next line.  The code's branch for the URL of the entry form is never
\* reached: a line that begins with https:// has a label and a value before that.
CrowdTechOffer(lines, i, f) ==
    LET head == StripMarkers(lines[i])
    IN  CASE Labelled(head) /\ Value(head) # <<>> ->
               (IF \/ f = "job_id" /\ LabelIn(head, {"ID"})
                   \/ f = "rate" /\ LabelIn(head, {"Amount"})
                   \/ f = "work_days" /\ LabelIn(head, {"Work"})
                THEN Value(head) ELSE <<>>)
          [] ~Labelled(head) \/ Value(head) = <<>> ->
               (CASE f = "title" /\ head = <<"Title">> -> NextNonEmpty(lines, i)
                  [] f = "summary" /\ head = <<"Outline">> -> NextNonEmpty(lines, i)
                  [] OTHER -> <<>>)

FosterNetLabels ==
    [f \in Field |-> CASE f = "title" -> {"Title"}
                       [] f = "url" -> {"PageURL"}
                       [] f = "work_days" -> {"Workdays", "WorkdaysOldSpelling"}
                       [] f = "rate" -> {"Amount"}
                       [] f = "summary" -> {"Summary"}
                       [] OTHER -> {}]

FosterNetOffer(lines, i, f) ==
    LET head == StripMarkers(lines[i])
    IN  CASE ~LabelIn(head, FosterNetLabels[f]) -> <<>>
          [] LabelIn(head, FosterNetLabels[f]) /\ f = "summary" /\ Value(head) = <<>> ->
               NextNonEmpty(lines, i)
          [] OTHER -> Value(head)

\* The first offer for a field counts (setOnce); skills come from their sections.
Fields(lines, offers, required, preferred) ==
    [f \in Field |->
        CASE f = "required_skills" -> ExtractSkills(Section(lines, required))
          [] f = "preferred_skills" -> ExtractSkills(Section(lines, preferred))
          [] OTHER -> FirstText([i \in DOMAIN lines |-> offers[i][f]])]

\* The fields of a mail of a known agent; none if it does not even give a title.
Extract(sender, lines) ==
    LET crowdTech == [i \in DOMAIN lines |-> [f \in Field |-> CrowdTechOffer(lines, i, f)]]
        fosterNet == [i \in DOMAIN lines |-> [f \in Field |-> FosterNetOffer(lines, i, f)]]
        fields == CASE sender = <<"crowdtech">> ->
                         {Fields(lines, crowdTech, <<"[", "Required">>, <<"[", "Preferred">>)}
                    [] sender = <<"fosternet">> ->
                         {Fields(lines, fosterNet, <<"[", "Must">>, <<"[", "Nice">>)}
                    [] OTHER -> {}
    IN  {f \in fields : f.title # <<>>}
-----------------------------------------------------------------------------
(* Mails with one label and value in a line, after a header *)

MailLabels ==
    [f \in Field |-> CASE f = "title" -> {"Title", "Position"}
                       [] f = "company" -> {"Company", "Client"}
                       [] f = "rate" -> {"Rate", "Monthly"}
                       [] f = "work_days" -> {"Work"}
                       [] f = "required_skills" -> {"Required"}
                       [] f = "preferred_skills" -> {"Preferred"}
                       [] f = "url" -> {"URL"}
                       [] f = "summary" -> {"Summary"}
                       [] OTHER -> {}]

\* The header is all before the first blank line; its last value of a name counts.
HeaderEnd(lines) ==
    LET blank == SelectInSeq(lines, LAMBDA l : l = <<>>)
    IN  IF blank = 0 THEN Len(lines) ELSE blank

HeaderValue(lines, name) ==
    LET i == SelectLastInSeq(SubSeq(lines, 1, HeaderEnd(lines)), LAMBDA l : LabelIn(l, {name}))
    IN  IF i = 0 THEN <<>> ELSE Value(lines[i])

\* The first value of a label counts; without a title the subject is one.
ParseMail(lines) ==
    LET body == SubSeq(lines, HeaderEnd(lines) + 1, Len(lines))
        Given(f) == FirstText([i \in DOMAIN body |->
                        IF LabelIn(body[i], MailLabels[f]) THEN Value(body[i]) ELSE <<>>])
    IN  [f \in Field |-> IF f = "title"
                         THEN FirstText(<<Given(f), HeaderValue(lines, "Subject")>>)
                         ELSE Given(f)]
-----------------------------------------------------------------------------
(* Detail pages: their headings, rows, definition lists and links in order *)

PageLabels == [MailLabels EXCEPT !["title"] = {"Title"}, !["url"] = {}]

\* The text of the last cell with this tag.
CellText(e, tag) ==
    LET i == SelectLastInSeq(e.cells, LAMBDA c : c.tag = tag)
    IN  IF i = 0 THEN <<>> ELSE e.cells[i].text

\* The label of a dd is the dt right before it.
Pairs(e) ==
    CASE e.tag = "tr" -> <<<<CellText(e, "th"), CellText(e, "td")>>>>
      [] e.tag = "dl" -> [j \in DOMAIN e.cells |->
            IF e.cells[j].tag = "dd" /\ j > 1 /\ e.cells[j - 1].tag = "dt"
            THEN <<e.cells[j - 1].text, e.cells[j].text>> ELSE <<<<>>, <<>>>>]
      [] OTHER -> <<>>

PageOffer(e, f) ==
    CASE f = "title" /\ e.tag = "h1" -> CellText(e, "h1")
      [] f = "url" /\ e.tag = "a" ->
            IF CellText(e, "a") # <<>> /\ Head(CellText(e, "a")) \in {"http", "https"}
            THEN CellText(e, "a") ELSE <<>>
      [] OTHER -> LET i == SelectInSeq(Pairs(e), LAMBDA p :
                               p[2] # <<>> /\ p[1] \in {<<x>> : x \in PageLabels[f]})
                  IN  IF i = 0 THEN <<>> ELSE Pairs(e)[i][2]

ParsePage(page) ==
    [f \in Field |-> FirstText([i \in DOMAIN page |-> PageOffer(page[i], f)])]
-----------------------------------------------------------------------------
(* Postings *)

\* Mutation: the body is left out of the hash.
TitleHash(title, company, body) == <<"hash", title, company>>

ContentHash(title, company, body) == <<"hash", title, company, body>>

DedupKey(source, id, url, hash) ==
    CASE id # <<>> -> <<"id", source, id>>
      [] id = <<>> /\ url # <<>> -> <<"url", url>>
      [] OTHER -> hash

\* The posting and its introduction by the message with this external id.
Build(source, external, body, f) ==
    [parses |-> TRUE,
     key |-> DedupKey(source, f.job_id, f.url, ContentHash(f.title, f.company, body)),
     content |-> [title |-> f.title, rate |-> Rate(f.rate), days |-> WorkDays(f.work_days),
                  required |-> Skills(f.required_skills),
                  preferred |-> Skills(f.preferred_skills)],
     origin |-> <<source, external>>]

\* A mail may name its sender and its id itself; the layout of a known agent
\* goes before that of the fixtures.  Another format is refused.
ToJobPosting(raw) ==
    CASE raw.format = "email" ->
           LET sender == FirstText(<<raw.sender, HeaderValue(raw.body, "From")>>)
               external == FirstText(<<HeaderValue(raw.body, "MessageID"), raw.external>>)
               agent == Extract(sender, raw.body)
           IN  Build(raw.source, external, raw.body,
                     IF agent # {} THEN CHOOSE f \in agent : TRUE ELSE ParseMail(raw.body))
      [] raw.format = "html" -> Build(raw.source, raw.external, raw.body, ParsePage(raw.body))
      [] OTHER -> [parses |-> FALSE]
-----------------------------------------------------------------------------
(* The body of a Gmail message: its parts in order, the root first *)

\* The first plain part that is not empty, else the first HTML part, else what
\* the root holds.
MailBody(parts) ==
    LET Of(type) == FirstText([i \in DOMAIN parts |->
                        IF parts[i].type = type THEN parts[i].lines ELSE <<>>])
    IN  FirstText(<<Of("plain"), Of("html"), parts[1].lines>>)
=============================================================================
