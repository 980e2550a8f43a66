----------------------------- MODULE MCEvaluation -----------------------------
EXTENDS Evaluation

\* What the keyword tables of app/pipeline.py find in eight phrases.
Plain == [nbaTeams |-> {}, nflTeams |-> {}, nbaPlayers |-> {}, nflPlayers |-> {},
          markets |-> {}, sports |-> {}, prop |-> FALSE, total |-> FALSE, signed |-> FALSE,
          large |-> FALSE, known |-> FALSE, nbaKeys |-> <<>>, nflKeys |-> <<>>,
          availability |-> {}, chars |-> 16]

MCPhrase == [
  lakers_spread |-> [Plain EXCEPT !.nbaTeams = {"LAL"}, !.nbaKeys = <<"LAL">>,
                     !.signed = TRUE, !.known = TRUE, !.chars = 11],           \* lakers -5.5
  lakers_over   |-> [Plain EXCEPT !.nbaTeams = {"LAL"}, !.nbaKeys = <<"LAL">>,
                     !.markets = {"total"}, !.total = TRUE, !.large = TRUE, !.known = TRUE],
  celtics_ml    |-> [Plain EXCEPT !.nbaTeams = {"BOS"}, !.nbaKeys = <<"BOS">>,
                     !.markets = {"ml"}, !.known = TRUE, !.chars = 10],        \* celtics ml
  lebron_points |-> [Plain EXCEPT !.nbaPlayers = {"LeBron"}, !.markets = {"points"},
                     !.prop = TRUE, !.large = TRUE, !.availability = {"LeBron"}],
  kelce_td      |-> [Plain EXCEPT !.nflPlayers = {"Kelce"}, !.markets = {"td"},
                     !.prop = TRUE, !.chars = 8],                              \* kelce td
  duke_moneyline    |-> [Plain EXCEPT !.markets = {"ml"}, !.nflKeys = <<"NE">>, !.chars = 14],
  gonzaga_moneyline |-> [Plain EXCEPT !.markets = {"ml"}, !.nflKeys = <<"NE">>],
  vague         |-> [Plain EXCEPT !.chars = 4]]

MCGames == {"LAL", "BOS", "NE", "game_1", "game_2", "game_3", "game_4", "game_5", "game_6"}
MCLegPenalty == <<800, 2263, 4157, 6400, 8944, 11758>>
MCRoster == [LeBron |-> [team |-> "LAL", status |-> "OUT"],
             Davis  |-> [team |-> "LAL", status |-> "DOUBTFUL"],
             Brown  |-> [team |-> "BOS", status |-> "PROBABLE"]]

Names == DOMAIN MCPhrase
LongTexts ==
  {<<"lakers_spread", "lakers_over", "celtics_ml", "lebron_points">>,
   <<"lebron_points", "kelce_td", "lebron_points", "kelce_td">>,
   <<"celtics_ml", "lakers_spread", "vague", "kelce_td", "lakers_over">>,
   <<"duke_moneyline", "gonzaga_moneyline", "vague", "lakers_spread", "lakers_over">>,
   <<"lakers_spread", "lakers_over", "lakers_spread", "lakers_over", "celtics_ml", "vague">>,
   <<"celtics_ml", "duke_moneyline", "vague", "lebron_points", "kelce_td", "lakers_spread",
     "lakers_over">>}
Few == {"lakers_spread", "lakers_over", "lebron_points"}
Texts == UNION {[1..n -> Names] : n \in 1..2} \cup [1..3 -> Few] \cup LongTexts
Sequels == {<<"lakers_spread">>, <<"vague">>, <<"lakers_over", "lakers_spread">>,
            <<"celtics_ml", "kelce_td">>, <<"duke_moneyline", "gonzaga_moneyline">>}

Raw(text, canonical, tier) ==
  [text |-> text, oversize |-> FALSE, canonical |-> canonical, tier |-> tier]

MCRequests ==
  {Raw(text, <<>>, "good") : text \in Texts}
    \cup {Raw(text, <<>>, tier) : text \in LongTexts, tier \in {"none", "free", "better", "best"}}
    \cup {Raw(text, canonical, "good") : text \in LongTexts,
            canonical \in {<<"unknown", "unknown">>, <<"spread", "team_total", "unknown">>,
                           <<"player_prop">>, [i \in 1..7 |-> "moneyline"]}}
    \cup {Raw(<<>>, <<>>, "good"), Raw(<<"vague">>, <<>>, "platinum"),
          [Raw(<<"vague">>, <<>>, "good") EXCEPT !.oversize = TRUE]}
MCFollowups == {Raw(text, <<>>, "good") : text \in Sequels}

Item(tier, reliability, cited) == [tier |-> tier, reliability |-> reliability, cited |-> cited]
MCClaims ==
  [length : {"short", "medium", "long"}, parts : {0, 2, 3}, falsifiable : BOOLEAN,
   evidence : {<<>>, <<Item(1, 95, TRUE)>>, <<Item(3, 90, TRUE)>>,
               <<Item(1, 100, TRUE), Item(3, 100, FALSE)>>,
               <<Item(2, 60, TRUE), Item(3, 100, TRUE)>>},
   placeholder : {NoPlaceholder, 75}, iterations : {1, 3}, threshold : {50, 85}]

Flags(sherlock, recording, contract) ==
  [sherlock |-> sherlock, recording |-> recording, contract |-> contract]
MCEnvFlags == {Flags(TRUE, TRUE, TRUE), Flags(TRUE, FALSE, TRUE), Flags(FALSE, TRUE, FALSE)}
=============================================================================
