------------------------------ MODULE MCStartup ------------------------------
(* Three commands, the migrations of the repository, and files with the *)
(* mistakes that the validation is for.                                  *)
EXTENDS Startup

Files == <<"001_initial_schema", "002_notification_error_message",
           "003_notification_material_fields">>

Commands ==
    [p \in Proc |->
        CASE p = "collector" -> [cmd |-> "collect", source |-> "inbox", dryRun |-> FALSE]
          [] p = "runner" -> [cmd |-> "run", source |-> "", dryRun |-> FALSE]
          [] OTHER -> [cmd |-> "notify", source |-> "", dryRun |-> FALSE]]

Fixture(name, path, enabled) ==
    [name |-> name, type |-> "fixture_email", enabled |-> enabled, path |-> path,
     senders |-> <<>>, newerThan |-> "", maxResults |-> 0]

Gmail(senders, newerThan, maxResults, enabled) ==
    [name |-> "inbox", type |-> "gmail", enabled |-> enabled, path |-> "",
     senders |-> senders, newerThan |-> newerThan, maxResults |-> maxResults]

Mails == Fixture("mails", "testdata", TRUE)
Examples == <<Mails, Gmail(<<"agent">>, "30d", 100, FALSE)>>

SourceFiles_ ==
    {<<Mails, Gmail(<<"agent">>, "", 0, TRUE)>>, <<Mails>>,
     <<Gmail(<<"agent">>, "30days", 100, TRUE)>>,
     <<Gmail(<<"">>, "30d", -1, TRUE)>>,
     <<Mails, Fixture("mails", "other", FALSE)>>}

Environments_ ==
    {[webhook |-> w, google |-> g] : w \in BOOLEAN, g \in {{"id", "secret"}, Credential}}
=============================================================================
