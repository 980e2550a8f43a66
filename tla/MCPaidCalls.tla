----------------------------- MODULE MCPaidCalls -----------------------------
(* Legs of one game with every kind of correlation and of another game, six   *)
(* candidates, one with a role delta above the cap, each kind of signal; texts *)
(* with each delimiter; two requests of OpenAI at a time, four in all, three   *)
(* of them still in the records.                                               *)
EXTENDS PaidCalls

Leg(game, type, player, tags, base) ==
  [game |-> game, type |-> type, player |-> player, team |-> "t1", tags |-> tags,
   keyword |-> FALSE, base |-> base,
   mods |-> [k \in Kinds |-> [applied |-> FALSE, delta |-> 0]]]
Over(leg) == [leg EXCEPT !.mods["role"] = [applied |-> TRUE, delta |-> 16]]
Qb     == Leg("g1", "player_prop", "p1", {"qb_passing", "passing"}, 20)
Wr     == Over(Leg("g1", "player_prop", "p2",
                   {"wr_receiving", "receiving", "td_prop", "live"}, 20))
Spread == Leg("g1", "spread", None, {}, 10)
Total  == Leg("g1", "total", None, {}, 12)
Winner == Leg("g2", "ml", None, {}, 8)
Rush   == Leg("g2", "player_prop", "p3", {}, 20)
Odd    == Leg("g2", "teaser", None, {}, 20)
MCClientLegs == {Qb, Wr, Spread, Total, Winner, Rush, Odd}

Signal(type, player, status) ==
  [type |-> type, game |-> "g1", player |-> player, team |-> None,
   wind |-> 15, precip |-> FALSE, status |-> status]
Weather == Signal("weather", None, "adverse")
Out     == Signal("injury", "p1", "OUT")
Trade   == Signal("trade", "p3", "traded")

MCLegPenalty == [n \in 1..MaxLegs |-> <<800, 2262, 4156, 6400, 8944, 11757>>[n]]

Profile == [tolerance |-> 50, max_legs |-> 3, stake_pct |-> 5,
            avoid_props |-> FALSE, avoid_live |-> TRUE]
Body(legs, profile, candidates, signals) ==
  [legs |-> legs, profile |-> profile, bankroll |-> IF profile = None THEN None ELSE 100,
   candidates |-> candidates, signals |-> signals]
Offered == <<Spread, Rush, Wr, Total, Winner, Qb>>
Post(body, plan, max) ==
  [plan |-> plan, max |-> max, legs |-> body.legs, profile |-> body.profile,
   bankroll |-> body.bankroll, candidates |-> body.candidates, signals |-> body.signals]
Slips == {<<>>, <<Qb>>, <<Winner, Rush>>, <<Qb, Total, Spread>>, <<Qb, Wr, Total, Spread>>}
Sent == {<<>>, <<Weather>>, <<Out, Weather>>, <<Trade>>}
MCPosts ==
  {Post(Body(legs, profile, Offered, signals), plan, max) :
     legs \in Slips, profile \in {None, Profile}, signals \in Sent,
     plan \in Plans, max \in {1, 10}}
  \cup {Post(Body(<<Odd>>, None, <<>>, <<>>), "best", 5)}
MCViews == {Post(Body(<<Qb, Total, Spread>>, Profile, Offered, <<Out, Weather>>), "good", 10)}
MCDemos == [name \in {"stable", "tense"} |->
              IF name = "stable" THEN Body(<<Winner, Total>>, None, <<>>, <<>>)
              ELSE Body(<<Qb, Spread>>, Profile, Offered, <<Out>>)]

Text(plus, comma, and, parlay, prop, total) ==
  [plus |-> plus, comma |-> comma, and |-> and, parlay |-> parlay,
   prop |-> prop, total |-> total, dash |-> FALSE]
MCTexts == {Text(0, 0, 0, 0, FALSE, FALSE), Text(1, 5, 0, 0, FALSE, FALSE),
            Text(0, 5, 1, 0, TRUE, FALSE), Text(0, 0, 2, 1, FALSE, TRUE),
            Text(0, 0, 0, 1, FALSE, FALSE)}

Flags(enabled, demo, voice, override, key) ==
  [enabled |-> enabled, demo |-> demo, voice |-> voice, override |-> override, key |-> key]
MCEnvFlags == {Flags(TRUE, FALSE, TRUE, FALSE, TRUE), Flags(TRUE, TRUE, TRUE, TRUE, FALSE),
               Flags(FALSE, FALSE, FALSE, FALSE, TRUE)}

MCImageTexts == {Text(3, 0, 0, 0, TRUE, FALSE)}
MCNarrations == [case \in {"stable"} |-> "narration"]
MCUploads == {[image |-> TRUE, large |-> FALSE], [image |-> TRUE, large |-> TRUE],
              [image |-> FALSE, large |-> FALSE]}
Symmetric == {[x \in Slots |-> p[x]] : p \in {f \in [Slots -> Slots] :
                 \A a, b \in Slots : f[a] = f[b] => a = b}}
=============================================================================
