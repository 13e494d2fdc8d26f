------------------------------ MODULE MCScoring ------------------------------
(* Small instances of Scoring for TLC: two spellings of one skill. *)
EXTENDS Scoring

MCFold == [go |-> "go", Go |-> "go", java |-> "java"]
MCWord == DOMAIN MCFold
MCRole == {"Go", "java"}

Wishes == [minimumRate |-> 60, targetRate |-> 80, remoteRequired |-> FALSE,
           maxOnsiteDays |-> 1, skills |-> <<"go", "java">>, roles |-> <<"java">>,
           available |-> {2}, workDays |-> 3, excluded |-> {"night"},
           contracts |-> {"ukeoi"}]
RemoteOnly == [Wishes EXCEPT !.remoteRequired = TRUE, !.maxOnsiteDays = 0,
                             !.skills = <<"go", "Go">>]
NoWishes == [minimumRate |-> 0, targetRate |-> 0, remoteRequired |-> FALSE,
             maxOnsiteDays |-> 0, skills |-> <<>>, roles |-> <<>>, available |-> {},
             workDays |-> 0, excluded |-> {}, contracts |-> {}]
MCProfiles == {Wishes, RemoteOnly, NoWishes}
=============================================================================
