------------------------------- MODULE Startup -------------------------------
(***************************************************************************)
(* bootstrap.New: a command reads environment, profile and sources, builds *)
(* the connectors and the notifier it needs, opens the store and migrates  *)
(* it.  Meanwhile the user edits the files and the environment, and other  *)
(* commands start.                                                         *)
(*                                                                         *)
(* A profile is as LoadProfile finds it: no check relates it to another    *)
(* file, so reading all at once is reading one after the other.            *)
(***************************************************************************)
EXTENDS Migrate, Integers

CONSTANTS
    Command,         \* [Proc -> [cmd, source, dryRun]]: what each process runs
    ProfileFiles,    \* the profiles the user tries
    SourceFiles,     \* the sequences of sources the user tries
    Environments,    \* [webhook : BOOLEAN, google : SUBSET Credential]
    ExampleSources,  \* sources.example.yaml
    MaxEdits         \* bound on the edits of a behaviour

Credential == {"id", "secret", "token"}

\* An entry of sources.yaml as the YAML parser types it
SourceEntry ==
    [name : STRING, type : STRING, enabled : BOOLEAN, path : STRING,
     senders : Seq(STRING), newerThan : STRING, maxResults : Int]

ASSUME StartupAssumption ==
    /\ DOMAIN Command = Proc
    /\ \A p \in Proc : Command[p].cmd \in {"collect", "score", "notify", "run"}
    /\ ProfileFiles \subseteq {"malformed", "invalid", "valid"}
    /\ SourceFiles \subseteq Seq(SourceEntry) /\ ExampleSources \in Seq(SourceEntry)
    /\ \A e \in Environments : e.webhook \in BOOLEAN /\ e.google \subseteq Credential
    /\ MaxEdits \in Nat

VARIABLES
    config,      \* the files of the user (no sources: no file), and the environment
    edits,
    connectors   \* [Proc -> the connectors it was built with]

vars == <<storeVars, config, edits, connectors>>

Init ==
    /\ StoreInit
    /\ config = [profile |-> "absent", sources |-> <<>>,
                 env |-> [webhook |-> FALSE, google |-> {}]]
    /\ edits = 0
    /\ connectors = [p \in Proc |-> {}]

Edit ==
    /\ edits < MaxEdits /\ edits' = edits + 1
    /\ \/ \E f \in ProfileFiles : config' = [config EXCEPT !.profile = f]
       \/ \E ss \in SourceFiles : config' = [config EXCEPT !.sources = ss]
       \/ \E e \in Environments : config' = [config EXCEPT !.env = e]
    /\ UNCHANGED <<storeVars, connectors>>

\* init copies the examples to where no file is.  The environment comes from .env
\* only when the user loads it, and the example holds no secrets.
InitFiles ==
    /\ config' = [config EXCEPT
                    !.profile = IF @ = "absent" THEN "valid" ELSE @,
                    !.sources = IF @ = <<>> THEN ExampleSources ELSE @]
    /\ UNCHANGED <<storeVars, edits, connectors>>
-----------------------------------------------------------------------------
(* Sources *)

NewerThan == {"30d", "2w"}   \* what gmailNewerThanRe matches, of those tried

\* Mutation: the format of newer_than is left to Gmail.
ValidGmailOfAnyAge(s) == s.senders # <<>> /\ \A i \in DOMAIN s.senders : s.senders[i] # ""

ValidGmail(s) ==
    /\ s.senders # <<>> /\ \A i \in DOMAIN s.senders : s.senders[i] # ""
    /\ s.newerThan \in NewerThan \cup {""}
    /\ s.maxResults >= 0

ValidSources(ss) ==
    /\ ss # <<>>
    /\ \A i \in DOMAIN ss :
         /\ ss[i].name # ""
         /\ \A j \in 1..(i - 1) : ss[j].name # ss[i].name
         /\ \/ ss[i].type \in {"fixture_email", "fixture_html"} /\ ss[i].path # ""
            \/ ss[i].type = "gmail" /\ ValidGmail(ss[i])

LoadsFiles == config.profile = "valid" /\ ValidSources(config.sources)

\* The sources of a command, whose order nothing here depends on: one that is
\* named need not be enabled.
Selected(c) ==
    {s \in {config.sources[i] : i \in DOMAIN config.sources} :
        IF c.source = "" THEN s.enabled ELSE s.name = c.source}

Finds(c) == c.source # "" => Selected(c) # {}
-----------------------------------------------------------------------------
(* New *)

\* Mutation: every command builds the connectors.
AlwaysNeedsConnectors(c) == TRUE

NeedsConnectors(c) == c.cmd \in {"collect", "run"}

\* collect and score are built as dry runs: they send no posting.
NeedsWebhook(c) == c.cmd \in {"notify", "run"} /\ ~c.dryRun

HasGoogleCredentials == config.env.google = Credential

Connects(c) ==
    NeedsConnectors(c) => \A s \in Selected(c) : s.type = "gmail" => HasGoogleCredentials

\* GmailNewerThan and GmailMaxResults: nothing given is the default.
Connector(s) ==
    [s EXCEPT !.newerThan = IF @ = "" THEN "30d" ELSE @,
              !.maxResults = IF @ <= 0 THEN 100 ELSE @]

Connectors(c) == {Connector(s) : s \in IF NeedsConnectors(c) THEN Selected(c) ELSE {}}

Builds(p) ==
    /\ LoadsFiles
    /\ Finds(Command[p]) /\ Connects(Command[p])
    /\ NeedsWebhook(Command[p]) => config.env.webhook

Launch(p) ==
    /\ Builds(p) /\ OpenStore(p)
    /\ connectors' = [connectors EXCEPT ![p] = Connectors(Command[p])]
    /\ UNCHANGED <<config, edits>>

\* The command ends with an error before it touches the store.
Refuse(p) ==
    /\ Resting(p) /\ ~Builds(p)
    /\ Goto(p, "refused")
    /\ connectors' = [connectors EXCEPT ![p] = {}]
    /\ UNCHANGED <<schema, recorded, writer, at, faults, config, edits>>

Start(p) == Launch(p) \/ Refuse(p)

Migrates(p) == Step(p) /\ UNCHANGED <<config, edits, connectors>>

Fails(p) == Fail(p) /\ UNCHANGED <<config, edits, connectors>>

Next == Edit \/ InitFiles \/ \E p \in Proc : Start(p) \/ Migrates(p) \/ Fails(p)

Spec == Init /\ [][Next]_vars

\* A started command goes on, and the schedule starts it again.
FairSpec == Spec /\ \A p \in Proc : WF_vars(Migrates(p)) /\ WF_vars(Start(p))
-----------------------------------------------------------------------------
TypeOK ==
    /\ StoreTypeOK
    /\ config.profile \in ProfileFiles \cup {"absent", "valid"}
    /\ config.sources \in SourceFiles \cup {<<>>, ExampleSources}
    /\ edits \in 0..MaxEdits

\* A command that opened the store will not come back with nothing without an
\* error: each of its connectors reads a named directory, or asks Gmail for some
\* messages with a question Gmail can answer (a malformed one is answered with no
\* messages: the comment on validateGmailSource), whatever was edited since.
NoConnectorIsMute ==
    \A p \in Proc : \A c \in connectors[p] :
        IF c.type = "gmail"
        THEN /\ c.newerThan \in NewerThan /\ c.maxResults > 0
             /\ \E k \in DOMAIN c.senders : c.senders[k] # ""
        ELSE c.path # ""

\* What a command works with is there: valid files, the credentials if it reads
\* mail, the webhook if it sends.
Supplied(p) ==
    LET c == Command[p]
        reads == {i \in DOMAIN config.sources :
                    c.source = config.sources[i].name
                    \/ (c.source = "" /\ config.sources[i].enabled)}
        mail == \E i \in reads : config.sources[i].type = "gmail"
    IN  /\ config.profile = "valid"
        /\ ValidSources(config.sources)
        /\ c.source # "" => reads # {}
        /\ c.cmd \in {"collect", "run"} /\ mail => config.env.google = Credential
        /\ c.cmd \in {"notify", "run"} /\ ~c.dryRun => config.env.webhook

\* A command whose own needs stay met keeps coming to an open, migrated store:
\* what only other commands need does not stop it (the comment on
\* NeedsConnectors: a lost Gmail token must not stop notify), a command that
\* loses the race for a migration opens the store when it is started again, and
\* no kill leaves the store in a state that stops the next one.
EveryCommandOpens ==
    \A p \in Proc : <>[]Supplied(p) => []<>(pc[p] = "open")
=============================================================================
