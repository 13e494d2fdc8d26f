------------------------------ MODULE MCIntake ------------------------------
(* Mails and pages for TLC: what the two agents, the fixtures and the detail *)
(* pages look like, with the noise that the parsers have to get past.        *)
EXTENDS Intake

Aliases == [w \in {"Java", "k8s", "Go"} |->
                CASE w = "k8s" -> "Kubernetes" [] OTHER -> w]

Amounts_ ==
    [w \in {"700-900k", "600k", "60-80man", "50man", "500yen"} |->
        CASE w = "700-900k" -> [unit |-> "yen", range |-> TRUE, lo |-> 70, hi |-> 90]
          [] w = "600k" -> [unit |-> "yen", range |-> FALSE, lo |-> 60, hi |-> 60]
          [] w = "500yen" -> [unit |-> "yen", range |-> FALSE, lo |-> 0, hi |-> 0]
          [] w = "60-80man" -> [unit |-> "man", range |-> TRUE, lo |-> 60, hi |-> 80]
          [] OTHER -> [unit |-> "man", range |-> FALSE, lo |-> 50, hi |-> 50]]

\* Twenty days a month are read as the digits 2 and 0.
Days ==
    [w \in {"5d", "week3-4d", "20d"} |->
        CASE w = "5d" -> [week |-> FALSE, lo |-> 5, hi |-> 5]
          [] w = "20d" -> [week |-> FALSE, lo |-> 2, hi |-> 0]
          [] OTHER -> [week |-> TRUE, lo |-> 3, hi |-> 4]]

Says(title, rate, days, required, preferred) ==
    [title |-> title, rate |-> rate, days |-> days,
     required |-> required, preferred |-> preferred]

Plain(lines) == <<[type |-> "plain", lines |-> lines]>>

\* The plain part comes after the HTML part, and the root has no text.
Alternative(lines) ==
    <<[type |-> "multipart", lines |-> <<>>],
      [type |-> "html", lines |-> <<<<"<table>">>, <<"Title", "</td>">>>>],
      [type |-> "plain", lines |-> lines]>>

Mail(sender, parts, posting, regular, says) ==
    [source |-> "gmail", sender |-> sender, parts |-> parts, id |-> <<>>,
     posting |-> posting, regular |-> regular, says |-> says]

\* All mails of Crowd Tech lead to one entry form and end in a signature.
CrowdTech(id, amount) ==
    <<<<"#", "Title">>, <<>>, <<"[Java]", "site">>, <<"-", "Amount", ":">> \o amount,
      <<"-", "Work", ":", "20d", "5d">>, <<"#", "ID", ":", id>>,
      <<"https", ":", "//entry">>, <<"[", "Required">>, <<"-", "Java", "with", "k8s">>, <<>>,
      <<"[", "Preferred">>, <<"Go", "or", "Java">>, <<"[", "signature">>, <<"k8s">>>>

FosterNet(url, title, amount) ==
    <<<<"Dear", ":">>, <<"#", "Title", ":", title>>,
      <<"#", "PageURL", ":", "https", ":", url>>, <<"#", "Summary", ":">>, <<"Go">>,
      <<"#", "Amount", ":">> \o amount,
      <<"#", "WorkdaysOldSpelling", ":", "20d", "week3-4d">>,
      <<"[", "Must">>, <<"-", "k8s", "and", "Java">>, <<"#", "Place", ":", "Go">>>>

\* A mail of a known agent in a layout that is not, which gives no title.
Changed(text) == <<<<"#", "Subject", ":", "site">>, <<>>, <<text>>, <<"Rate", ":", "600k">>>>

SiteSays(rate) == Says(<<"[Java]", "site">>, rate, <<5, 5>>, <<"Java", "Kubernetes">>,
                       <<"Go", "Java">>)
NetSays(title, rate) == Says(<<title>>, rate, <<3, 4>>, <<"Kubernetes", "Java">>, <<>>)
Unknown == Says(<<>>, <<>>, <<>>, <<>>, <<>>)

Mailbox == {
    Mail(<<"crowdtech">>, Plain(CrowdTech("JA-1", <<"700-900k", "500yen">>)), "A", TRUE,
         SiteSays(<<70, 90>>)),
    Mail(<<"crowdtech">>, Alternative(CrowdTech("JA-1", <<"600k">>)), "A", TRUE,
         SiteSays(<<60, 60>>)),
    Mail(<<"crowdtech">>, Plain(CrowdTech("JA-2", <<"600k">>)), "B", TRUE,
         SiteSays(<<60, 60>>)),
    Mail(<<"fosternet">>, Plain(FosterNet("//c", "ops", <<"500yen", "60-80man">>)), "C", TRUE,
         NetSays("ops", <<60, 80>>)),
    Mail(<<"fosternet">>, Alternative(FosterNet("//c", "ops2", <<"50man">>)), "C", TRUE,
         NetSays("ops2", <<50, 50>>)),
    Mail(<<"crowdtech">>, Plain(Changed("one")), "D", FALSE, Unknown),
    Mail(<<"crowdtech">>, Plain(Changed("two")), "E", FALSE, Unknown),
    \* no part that could be decoded: such mails tell of nothing and share a row
    Mail(<<"fosternet">>, <<[type |-> "multipart", lines |-> <<>>]>>, "blank", FALSE, Unknown)}

File(kind, id, lines, posting, says) ==
    [source |-> kind, sender |-> <<>>, parts |-> Plain(lines), id |-> id,
     posting |-> posting, regular |-> TRUE, says |-> says]

\* A saved mail; without a title its subject is the title.
Saved(url, title, rate) ==
    <<<<"From", ":", "agent">>, <<"Subject", ":", "site">>,
      <<"Title", ":", "subject", "only">>, <<>>>>
    \o title \o
    <<<<"Rate", ":">> \o rate, <<"Monthly", ":", "50man">>, <<"Work", ":", "week3-4d", "20d">>,
      <<"Required", ":", "Java", "PHP", "k8s">>, <<"URL", ":", "https", ":", url>>>>

Emails == {
    File("emails", <<>>, Saved("//f", <<>>, <<"60-80man">>), "F",
         Says(<<"site">>, <<60, 80>>, <<3, 4>>, <<"Java", "PHP", "Kubernetes">>, <<>>)),
    File("emails", <<"m1">>, <<<<"MessageID", ":", "m1">>>> \o Saved("//f", <<>>, <<"600k">>), "F",
         Says(<<"site">>, <<60, 60>>, <<3, 4>>, <<"Java", "PHP", "Kubernetes">>, <<>>)),
    File("emails", <<>>, Saved("//g", <<<<"Position", ":", "lead">>, <<"Title", ":", "other">>>>,
                         <<"600k">>), "G",
         Says(<<"lead">>, <<60, 60>>, <<3, 4>>, <<"Java", "PHP", "Kubernetes">>, <<>>)),
    \* the mail of a known agent, saved to a file
    File("emails", <<>>, <<<<"From", ":", "fosternet">>, <<>>>>
                   \o FosterNet("//h", "ops", <<"60-80man">>), "H",
         NetSays("ops", <<60, 80>>))}

Cell(tag, text) == [tag |-> tag, text |-> text]
Row(label, value) == [tag |-> "tr", cells |-> <<Cell("th", <<label>>), Cell("td", value)>>]
Single(tag, text) == [tag |-> tag, cells |-> <<Cell(tag, text)>>]

\* A page whose first link with a full address is its own.
Page(url, head, rate) ==
    <<Single("a", <<"/list">>), head, Single("a", <<"https", ":", url>>), Row("Rate", rate),
      [tag |-> "dl", cells |-> <<Cell("dt", <<"Rate">>), Cell("dd", <<"50man">>),
                                 Cell("dt", <<"Work">>), Cell("dd", <<"5d">>),
                                 Cell("dd", <<"20d">>), Cell("dt", <<"Required">>),
                                 Cell("dd", <<"Go", "k8s">>)>>],
      Single("h1", <<"more">>), Single("a", <<"https", ":", "//top">>)>>

Pages == {
    File("pages", <<>>, Page("//p", Single("h1", <<"page">>), <<"60-80man">>), "P",
         Says(<<"page">>, <<60, 80>>, <<5, 5>>, <<"Go", "Kubernetes">>, <<>>)),
    File("pages", <<>>, Page("//p", Row("Title", <<"page">>), <<"600k">>), "P",
         Says(<<"page">>, <<60, 60>>, <<5, 5>>, <<"Go", "Kubernetes">>, <<>>)),
    File("pages", <<>>, Page("//q", Single("h1", <<"page">>), <<>>), "Q",
         Says(<<"page">>, <<50, 50>>, <<5, 5>>, <<"Go", "Kubernetes">>, <<>>))}

AllMessages == Mailbox \cup Emails \cup Pages
=============================================================================
