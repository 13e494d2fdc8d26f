-------------------------- MODULE MCUpdateMessages --------------------------
(* Small instances of UpdateMessages for TLC. *)
EXTENDS UpdateMessages, TLC

MCCanonical == [go |-> "Go", golang |-> "Go", java |-> "Java"]
MCWord == DOMAIN MCCanonical

\* The forms of the four items, two or three changes at a time.  Two texts say the
\* same in other words, one of them with its skills in another order.
Plain == [hourly |-> FALSE, yen |-> {<<60, 70>>}, days |-> {}, words |-> {"full"},
          start |-> {1}, skills |-> <<"go", "java">>]
MCTexts ==
    {Plain,
     [Plain EXCEPT !.days = {0}],
     [Plain EXCEPT !.skills = <<"java", "golang", "go">>],
     [Plain EXCEPT !.days = {2}, !.yen = {<<60, 60>>}],
     [Plain EXCEPT !.words = {"hybrid"}, !.hourly = TRUE, !.yen = {<<60, 60>>}],
     [Plain EXCEPT !.words = {"onsite", "hybrid"}, !.yen = {}, !.start = {}, !.skills = <<>>]}

Commands == Permutations(Proc)
=============================================================================
