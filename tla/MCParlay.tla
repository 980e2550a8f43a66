------------------------------- MODULE MCParlay -------------------------------
(* Four legs of one game, every kind of correlation between them (a leg may  *)
(* be added twice), one of them posted with a role delta of 16, six points   *)
(* above the cap; requests without a profile, with a strict and with a       *)
(* lenient one; a batch of one signal and one of two.                        *)
EXTENDS Parlay

Mods(role) == [k \in Kinds |-> IF k = "role" /\ role > 0
                               THEN [applied |-> TRUE, delta |-> role]
                               ELSE [applied |-> FALSE, delta |-> 0]]
MCLeg(game, type, player, tags, base, role) ==
  [game |-> game, type |-> type, player |-> player, team |-> "t1", tags |-> tags,
   keyword |-> FALSE, base |-> base, mods |-> Mods(role)]

MCCatalogue ==
  [id \in {"qb", "wr", "spread", "total"} |->
     CASE id = "qb" -> MCLeg("g1", "player_prop", "p1", {"qb_passing", "passing"}, 20, 5)
       [] id = "wr" -> MCLeg("g1", "player_prop", "p2",
                             {"wr_receiving", "receiving", "td_prop", "live"}, 600, 16)
       [] id = "spread" -> MCLeg("g1", "spread", None, {}, 10, 0)
       [] id = "total" -> MCLeg("g1", "total", None, {}, 12, 0)]

Signal(type, player, status) ==
  [type |-> type, game |-> "g1", player |-> player, team |-> None,
   wind |-> 15, precip |-> FALSE, status |-> status]

Weather == Signal("weather", None, "adverse")
Out     == Signal("injury", "p1", "OUT")
Trade   == Signal("trade", "p1", "traded")
MCBatches == {<<Weather>>, <<Out, Trade>>}

MCLegPenalty == [n \in 1..MaxLegs |-> <<800, 2262, 4156, 6400, 8944>>[n]]

Profile(tolerance, legs, props, live) ==
  [tolerance |-> tolerance, max_legs |-> legs, stake_pct |-> 5,
   avoid_props |-> props, avoid_live |-> live]
MCRequests ==
  {[profile |-> None, bankroll |-> None],
   [profile |-> Profile(50, 2, FALSE, TRUE), bankroll |-> 100],
   [profile |-> Profile(80, 3, TRUE, FALSE), bankroll |-> 100]}
=============================================================================
