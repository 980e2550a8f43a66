----------------------------- MODULE MCAlertFlow -----------------------------
(* Instances of AlertFlow: two players of one team; the sample data has the  *)
(* first one out.                                                            *)
EXTENDS AlertFlow

CONSTANTS p1, p2

MCTeamOf == [p \in Players |-> "team"]
MCSample == [p \in Players |-> IF p = p1 THEN "out" ELSE "available"]

\* Every evaluation names the first player; some mention the team as well.
NameFirst == {<<{p1}, {"team"}>>}

\* Evaluations name one player, or the team.
NameSome == {<<{p1}, {}>>, <<{}, {"team"}>>}
=============================================================================
