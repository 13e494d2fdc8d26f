----------------------------- MODULE MCPipeline -----------------------------
(***************************************************************************)
(* Small instances of RunPipeline for TLC.  Contents: `good' and `better'  *)
(* pass the profile with different material, `reworded' has the material   *)
(* of `good' and a lower score that still passes, `poor' stays below the   *)
(* threshold, `barred' is excluded.                                        *)
(***************************************************************************)
EXTENDS RunPipeline

MCMaterial == [good |-> "h1", reworded |-> "h1", better |-> "h2", poor |-> "h3",
               barred |-> "h4"]
MCContent == DOMAIN MCMaterial
MCHash == {"h1", "h2", "h3", "h4"}

Active == [status |-> "searching", threshold |-> 60]
Resting == [status |-> "paused", threshold |-> 60]
MCProfile == {Active, Resting}

MCEvaluate ==
    [c \in MCContent |-> [f \in MCProfile |->
        [rejected |-> c = "barred",
         score |-> CASE c = "good" -> 70 [] c = "reworded" -> 60 [] c = "better" -> 90
                     [] c = "poor" -> 40 [] c = "barred" -> 0]]]

\* A command over these sources; only collect and run have connectors.
Over(sources, cmd) ==
    [cmd |-> cmd, dryRun |-> cmd \in {"collect", "score"}, errorHook |-> TRUE,
     profile |-> Active, connectors |-> IF cmd \in {"collect", "run"} THEN sources ELSE <<>>]
Do(cmd) == Over(<<"s1">>, cmd)
DryRun(cmd) == [Do(cmd) EXCEPT !.dryRun = TRUE]
NoHook(cmd) == [Do(cmd) EXCEPT !.errorHook = FALSE]
Rest(cmd) == [Do(cmd) EXCEPT !.profile = Resting]

Mail(k, c, o) == [parses |-> TRUE, key |-> k, content |-> c, origin |-> o]
Unreadable(o) == [parses |-> FALSE, key |-> "k1", content |-> "good", origin |-> o]

\* One posting that comes in any version.
OneJob == [s \in {"s1"} |->
    {<<Mail("k1", c, "o1")>> : c \in {"good", "better", "barred"}}]
OneJobShort == [s \in {"s1"} |->
    {<<Mail("k1", c, "o1")>> : c \in {"good", "better"}}]

\* Two postings in one batch.
TwoJobs == [s \in {"s1"} |->
    {<<Mail("k1", "good", "o1"), Mail("k2", "better", "o2")>>,
     <<Mail("k1", "reworded", "o1"), Mail("k2", "good", "o2")>>,
     <<Mail("k1", "poor", "o1")>>}]

\* Batches with repetitions, unreadable messages and nothing at all.
MixedBatches == [s \in {"s1", "s2"} |->
    IF s = "s1"
    THEN {<<>>,
          <<Mail("k1", "good", "o1"), Mail("k2", "poor", "o2"), Mail("k1", "better", "o3")>>,
          <<Unreadable("o4"), Mail("k2", "good", "o5")>>}
    ELSE {<<Mail("k1", "better", "o6")>>,
          <<Mail("k2", "good", "o7"), Mail("k3", "good", "o8"), Mail("k2", "good", "o9")>>}]

\* Both sources, and one alone with --source.
CollectSome == {Over(<<"s1", "s2">>, "collect"), Over(<<"s2">>, "collect")}
RunOnly == {Do("run")}
AllCommands == {Do("collect"), Do("score"), Do("notify"), Do("run")}
AllOptions == AllCommands \cup {DryRun("run"), DryRun("notify"), Rest("run"), Rest("notify"),
                                NoHook("run")}
Scheduled == {Do("collect"), Do("score"), Do("notify")}
=============================================================================
