---------------------------- MODULE MCMembership ----------------------------
(* Bounds of the run of Membership: who is together and what happens.       *)
EXTENDS Membership

Ids3 == 1..3

\* Nodes with an equal number are together; nothing else happens.
Together(g) ==
    [name |-> <<"ann", "bob", "cid">>, group |-> g, data |-> <<0, 0, 0>>,
     faulty |-> {}, suspects |-> {}, slow |-> {}, hasty |-> FALSE]

OneJoins == Together(<<1, 1, 3>>)
TwoMeet == Together(<<1, 2, Nobody>>)
ThreeMeet == Together(<<1, 2, 3>>)

MemberGoesWhileOneJoins == [OneJoins EXCEPT !.faulty = {2}]

JoinScenarios ==
    { [OneJoins EXCEPT !.data = <<0, 0, 1>>],
      [OneJoins EXCEPT !.slow = {3}],
      [OneJoins EXCEPT !.name = <<"ann", "bob", "ann">>],
      MemberGoesWhileOneJoins,
      ThreeMeet,
      [TwoMeet EXCEPT !.hasty = TRUE, !.data = <<1, 1, 0>>],
      [TwoMeet EXCEPT !.suspects = {2}, !.data = <<1, 0, 0>>],
      [Together(<<1, 1, 1>>) EXCEPT !.suspects = {3}],
      [Together(<<1, 1, 1>>) EXCEPT !.faulty = {2, 3}, !.data = <<0, 0, 1>>] }

=============================================================================
