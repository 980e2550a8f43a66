------------------------------- MODULE Pipeline -------------------------------
(***************************************************************************)
(* What run_evaluation (app/pipeline.py) makes of a slip: the evaluation   *)
(* of its blocks by the engine (Parlay.tla, without profile or context),   *)
(* the diagnosis of its main weakness, the preview of a removal, and the   *)
(* advice of every panel; app/context/apply.py for the context shown with  *)
(* it and app/grounding_score.py for what the output was derived from.     *)
(* Texts are known by the names of their cases.                            *)
(*                                                                         *)
(* A slip is [text, canonical, tier]: canonical is the sequence of markets *)
(* the builder sent, empty for a text typed in.                            *)
(***************************************************************************)
EXTENDS Slip

CONSTANTS
  Games,      \* the games a leg may be in
  LegPenalty, \* 8 * n^1.5 for n legs, in hundredths of a point
  Roster,     \* player -> [team, status]: the snapshot of the context
  HasMissingData, \* the snapshot lacks something
  None

\* The possible failures, in the order of the code's dict.
FailureOrder == <<"correlation", "leg_count", "volatility", "dependency", "prop_density",
                  "same_game_dependency", "market_conflict", "weak_clarity">>

BlockIds == [type : BetTypes, game : Games]
NoModifier == [kind \in {"weather", "injury", "trade", "role"} |->
                 [applied |-> FALSE, delta |-> 0]]
Core == INSTANCE Parlay WITH
  LegIds <- BlockIds,
  Catalogue <- [id \in BlockIds |->
                  [game |-> id.game, type |-> id.type, player |-> None, team |-> None,
                   tags |-> {}, keyword |-> FALSE, base |-> BaseFragility(id.type),
                   mods |-> NoModifier]],
  Batches <- {}, Requests <- {}, MaxLegs <- 6, MaxBatches <- 0, MaxEdits <- 0,
  parlay <- None, batches <- 0, edits <- 0, response <- None, alerts <- {}

\* More legs cost more; keys name games and the tables are finite; None is no
\* leg's id and no piece of guidance.
ASSUME PipelineAssumption ==
  /\ LegPenalty \in [1..6 -> Nat]
  /\ \A i, j \in 1..6 : i < j => LegPenalty[i] < LegPenalty[j]
  /\ ToSet(OwnGame) \subseteq Games
  /\ IsFiniteSet(DOMAIN Roster)
  /\ \A name \in DOMAIN Phrase :
       /\ Phrase[name].nbaKeys \in Seq(Games) /\ Phrase[name].nflKeys \in Seq(Games)
       /\ IsFiniteSet(Phrase[name].availability)
  /\ None \notin BlockIds /\ None \notin ToSet(FailureOrder) \cup {"default"}

Pt == Core!Point

-----------------------------------------------------------------------------
(* The evaluation.                                                         *)

Built(blocks) ==
  [i \in DOMAIN blocks |-> [id |-> [type |-> blocks[i].type, game |-> blocks[i].game],
                            mods |-> NoModifier]]

\* evaluate_parlay without profile, bankroll or candidates.
EvaluateBlocks(blocks) ==
  Core!EvaluateParlay(Core!BuildParlayState(Built(blocks)),
                      [profile |-> None, bankroll |-> None])

\* The pairs of legs that are correlated.
Correlated(blocks) ==
  LET leg == [i \in DOMAIN blocks |-> Core!Leg(Built(blocks)[i])]
  IN  {pair \in (DOMAIN blocks) \X (DOMAIN blocks) :
         pair[1] < pair[2] /\ Core!PairPenalty(leg[pair[1]], leg[pair[2]]) > 0}

\* The n legs of the most pairs; of legs of as many, the ones the pairs name first.
MostCorrelated(pairs, n) ==
  LET Of(i) == {p \in pairs : i \in {p[1], p[2]}}
      Named(i) == Min({100 * p[1] + 10 * p[2] + (IF p[2] = i THEN 1 ELSE 0) : p \in Of(i)})
      Before(i, j) == \/ Cardinality(Of(i)) > Cardinality(Of(j))
                      \/ Cardinality(Of(i)) = Cardinality(Of(j)) /\ Named(i) < Named(j)
      some == {p[1] : p \in pairs} \cup {p[2] : p \in pairs}
  IN  {i \in some : Cardinality({j \in some : Before(j, i)}) < n}

Signal(e) == Core!FragilityToSignal(e)

\* What the rest of the pipeline works on; the builder's count of legs is the
\* authoritative one when it sent legs.
Context(slip, blocks, e) ==
  [blocks |-> blocks, entities |-> RecognizeEntities(slip.text), eval |-> e,
   legs |-> IF slip.canonical # <<>> THEN Len(slip.canonical) ELSE Len(blocks),
   short |-> MapThenSumSet(LAMBDA i : Phrase[slip.text[i]].chars, DOMAIN slip.text)
               + 2 * (Len(slip.text) - 1) < 15,
   pairs |-> Correlated(blocks), signal |-> Signal(e), score |-> e.metrics.final]

Analysis(slip) ==
  Context(slip, ParseBetText(slip.text), EvaluateBlocks(ParseBetText(slip.text)))

Grade == [blue |-> "A", green |-> "B", yellow |-> "C", red |-> "D"]

InterpretFragility(score) ==
  CASE score <= 15 * Pt -> "low"
    [] score > 15 * Pt /\ score <= 35 * Pt -> "medium"
    [] score > 35 * Pt /\ score <= 60 * Pt -> "high"
    [] OTHER -> "critical"

-----------------------------------------------------------------------------
(* The scores of the possible failures.                                    *)

Failure == ToSet(FailureOrder)

PropDensity(a) ==
  LET n == Cardinality(Props(a.blocks))
  IN  IF n < 2 THEN 0
      ELSE 8 * n + (IF 2 * n > a.legs THEN 15 ELSE 0) + (IF n >= a.legs THEN 10 ELSE 0)

SameGameDependency(blocks) ==
  IF MaxSameGame(blocks) < 2 THEN 0
  ELSE 15 * MaxSameGame(blocks)
         + 5 * SumFunction([g \in SameGames(blocks) |-> Cardinality(InGame(blocks, g))])

MarketConflict(blocks) ==
  LET n == Cardinality(Totals(blocks))
      shared == \E i \in Totals(blocks), j \in Spreads(blocks) : blocks[i].game = blocks[j].game
  IN  (IF n >= 2 THEN 4 * n ELSE 0) + (IF shared THEN 8 ELSE 0)

\* Only the diagnosis looks at the length of the text.
WeakClarity(a, countLength) ==
  LET nobody == a.entities.teams = {} /\ a.entities.players = {}
      lost == a.entities.sport = "unknown"
  IN  (IF nobody THEN 12 ELSE 0) + (IF a.entities.markets = {} THEN 5 ELSE 0)
        + (IF lost THEN 6 ELSE 0) + (IF countLength /\ a.short THEN 3 ELSE 0)
        + (IF nobody /\ lost THEN 10 ELSE 0)

FailureScores(a, countLength) ==
  [f \in Failure |->
     CASE f = "correlation" -> 100 * a.eval.metrics.penalty * a.eval.metrics.multiplier
       [] f = "leg_count" -> 20 * LegPenalty[Len(a.blocks)]
       [] f = "volatility" -> 5 * Pt * Cardinality(Props(a.blocks))
       [] f = "dependency" -> 3 * Pt * Cardinality(a.pairs)
       [] f = "prop_density" -> Pt * PropDensity(a)
       [] f = "same_game_dependency" -> Pt * SameGameDependency(a.blocks)
       [] f = "market_conflict" -> Pt * MarketConflict(a.blocks)
       [] f = "weak_clarity" -> Pt * WeakClarity(a, countLength)]

Impact(score) == CASE score >= 15 * Pt -> "high" [] score >= 5 * Pt /\ score < 15 * Pt -> "medium"
                   [] OTHER -> "low"

Position(f) == CHOOSE i \in DOMAIN FailureOrder : FailureOrder[i] = f
Outranks(scores, f, g) ==
  \/ scores[f] > scores[g]
  \/ scores[f] = scores[g] /\ Position(f) < Position(g)

FixOf(a, type) ==
  CASE type = "correlation" -> IF Cardinality(a.pairs) > 1 THEN "split_parlay" ELSE "remove_leg"
    [] type = "leg_count" -> "remove_leg"
    [] type = "volatility" -> IF Cardinality(Props(a.blocks)) > 1 THEN "reduce_props" ELSE "swap_leg"
    [] type = "dependency" -> "split_parlay"
    [] type = "prop_density" -> "reduce_props"
    [] type = "same_game_dependency" -> "reduce_same_game"
    [] type = "market_conflict" -> "swap_leg"
    [] type = "weak_clarity" -> "clarify_input"

\* The legs the fix is about: at most one, by its position.
CandidateLegs(a, type) ==
  LET last == Len(a.blocks)
      \* every pair costs the same, so the first of the maxima is the first pair
      first == CHOOSE p \in a.pairs : \A q \in a.pairs : 10 * p[1] + p[2] <= 10 * q[1] + q[2]
      \* the first, among the games of most legs, to appear
      worst == Min({i \in DOMAIN a.blocks :
                      Cardinality(InGame(a.blocks, a.blocks[i].game)) = MaxSameGame(a.blocks)})
  IN  CASE type = "leg_count" -> {i \in {last} : a.legs > 2}
        [] type = "correlation" -> IF a.pairs = {} THEN {} ELSE {first[2]}
        [] type \in {"volatility", "prop_density"} ->
             IF Props(a.blocks) = {} THEN {} ELSE {Min(Props(a.blocks))}
        [] type = "dependency" -> MostCorrelated(a.pairs, 1)
        [] type = "same_game_dependency" -> {Max(InGame(a.blocks, a.blocks[worst].game))}
        [] type = "market_conflict" ->
             IF Totals(a.blocks) = {} THEN {} ELSE {Max(Totals(a.blocks))}
        [] type = "weak_clarity" -> {}

Diagnosis(a, scores, type) ==
  [type |-> type, severity |-> Impact(scores[type]), action |-> FixOf(a, type),
   candidates |-> CandidateLegs(a, type)]

\* The highest score, the first of equals.
Worst(scores) ==
  IF \A f \in Failure : scores[f] = 0 THEN "leg_count"
  ELSE CHOOSE f \in Failure : \A g \in Failure \ {f} : Outranks(scores, f, g)

\* Mutant: the scores are read from the lowest up.
MutPrimaryFailure(a) ==
  Diagnosis(a, FailureScores(a, TRUE), Worst([f \in Failure |-> -FailureScores(a, TRUE)[f]]))

PrimaryFailure(a) == Diagnosis(a, FailureScores(a, TRUE), Worst(FailureScores(a, TRUE)))

\* The three runners-up: type -> impact.
SecondaryFactors(a, primary) ==
  LET scores == FailureScores(a, FALSE)
      others == {f \in Failure \ {primary} : scores[f] > 0}
      top == {f \in others : Cardinality({g \in others : Outranks(scores, g, f)}) < 3}
  IN  [f \in top |-> Impact(scores[f])]

Change(before, after) ==
  IF after < before THEN "down" ELSE IF after > before THEN "up" ELSE "same"

\* Only a removal with a candidate is tried; "up" is the better signal.
DeltaPreview(a, failure) ==
  IF failure.action # "remove_leg" \/ failure.candidates = {} \/ Len(a.blocks) <= 1 THEN None
  ELSE LET leg == CHOOSE i \in failure.candidates : TRUE
           after == EvaluateBlocks(RemoveAt(a.blocks, leg))
       IN  [signal |-> Change(SignalOrder[a.signal], SignalOrder[Signal(after)]),
            fragility |-> Change(a.score, after.metrics.final)]

-----------------------------------------------------------------------------
(* The panels.                                                             *)

Level(n, medium, high) == IF n > high THEN "high" ELSE IF n > medium THEN "medium" ELSE "low"

\* The structured output of the GOOD tier; it counts the blocks.
BuildGoodTierOutput(a, failure) ==
  LET n == Len(a.blocks)
      penalty == LegPenalty[n]
      props == Cardinality(Props(a.blocks))
      f == failure.type
      high == a.eval.metrics.multiplier >= 30
  IN  [signal |-> Signal(a.eval), grade |-> Grade[Signal(a.eval)],
       contributors |->
         {c \in {<<"correlation", Level(a.eval.metrics.penalty, 2, 5)>>} :
            a.eval.metrics.penalty > 0}
         \cup {c \in {<<"leg_count", Level(penalty, 1000, 2000)>>} : penalty > 0}
         \cup {c \in {<<"dependency", Level(Cardinality(a.pairs), 1, 2)>>} : a.pairs # {}}
         \cup {c \in {<<"volatility", Level(props, 1, 2)>>} : props > 0},
       warnings |->
         {w \in {"correlation"} : f = "correlation" /\ a.eval.metrics.penalty > 0}
         \cup {w \in {"leg_count"} : f = "leg_count" /\ penalty > 1000}
         \cup {w \in {"dependency"} : f = "dependency" /\ Cardinality(a.pairs) > 1}
         \cup {w \in {"volatility", "prop_density", "market_conflict", "weak_clarity"} : w = f}
         \cup {w \in {"same_game_dependency"} : w = f /\ MaxSameGame(a.blocks) >= 2}
         \cup {w \in {"multiplier"} : high /\ f # "correlation"}
         \cup {w \in {"structural"} : penalty > 2000 /\ f # "leg_count"},
       tips |->
         {t \in {"remove_one"} : failure.action = "remove_leg" /\ penalty > 1000}
         \cup {t \in {"split"} : failure.action = "split_parlay"}
         \cup {t \in {"replace_props"} : /\ failure.action \in {"reduce_props", "swap_leg"}
                                         /\ f # "market_conflict"}
         \cup {t \in {"replace_market"} : failure.action = "swap_leg" /\ f = "market_conflict"}
         \cup {t \in {"move_same_game"} : failure.action = "reduce_same_game"}
         \cup {t \in {"clarify"} : failure.action = "clarify_input"}
         \cup {t \in {"diversify"} : failure.action = "reduce_props" /\ f = "prop_density"}
         \cup {t \in {"fewer_legs"} : n >= 4 /\ failure.action # "remove_leg"}
         \cup {t \in {"separate"} : /\ a.eval.metrics.penalty > 0
                                    /\ failure.action # "split_parlay"},
       removals |-> MostCorrelated(a.pairs, 2)]

\* What a tier may read of the explanation.
ApplyTierFiltering(tier, a, failure) ==
  CASE tier = "good" -> BuildGoodTierOutput(a, failure)
    [] tier = "better" -> [summary |-> a.eval.inductor]
    [] tier = "best" ->
         [summary |-> a.eval.inductor, next_step |-> a.eval.action,
          alerts |-> {x \in {"high_correlation"} : a.eval.metrics.multiplier >= 30}
                       \cup {x \in {"critical_risk"} : a.eval.inductor = "critical"}]

\* The summary and Sherlock's advisory repeat the thresholds of the buckets.
Assessment(score) ==
  CASE score <= 15 * Pt -> "clean" [] score > 15 * Pt /\ score <= 35 * Pt -> "moving_parts"
    [] score > 35 * Pt /\ score <= 60 * Pt -> "pressure" [] OTHER -> "thin_ice"

HumanSummary(a, failure) ==
  [assessment |-> Assessment(a.score), insight |-> failure.severity \in {"medium", "high"}]

\* A moneyline's type is "ml" here, so the point for "moneyline" is never given
\* and a moneyline is notable only with a correlated leg.
Notability(a, i) ==
  LET b == a.blocks[i]
      correlated == \E p \in a.pairs : i \in {p[1], p[2]}
  IN  IF b.type = "ml" /\ ~correlated THEN 0
      ELSE (CASE b.type = "player_prop" -> 5 [] b.type \in {"total", "spread"} -> 2
              [] b.type = "ml" -> 0)
           + (IF Phrase[b.words].large /\ b.type # "ml" THEN 1 ELSE 0)
           + (IF correlated THEN 2 ELSE 0)

NotableLegs(a) ==
  LET Ahead(i, j) == \/ Notability(a, i) > Notability(a, j)
                     \/ Notability(a, i) = Notability(a, j) /\ i < j
      some == {i \in DOMAIN a.blocks : Notability(a, i) > 0}
  IN  {i \in some : Cardinality({j \in some : Ahead(j, i)}) < 3}

FinalVerdict(signal) ==
  CASE signal \in {"blue", "green"} -> "positive" [] signal = "yellow" -> "mixed"
    [] OTHER -> "cautious"

GentleGuidance(failure, signal) ==
  IF signal \in {"blue", "green"} THEN None
  ELSE IF failure.type \in {"prop_density", "volatility", "correlation", "dependency",
                            "same_game_dependency", "leg_count"} THEN failure.type
  ELSE "default"

\* A fix is never offered: the key looked for is fastest_fix, fastestFix is set.
NextAction(signal, warned, correlated) ==
  CASE signal = "red" -> "review_failure"
    [] signal = "yellow" /\ warned -> "review_warnings"
    [] signal = "yellow" /\ ~warned /\ correlated -> "check_correlations"
    [] signal = "yellow" /\ ~warned /\ ~correlated -> "review_analysis"
    [] signal = "green" -> "proceed"
    [] signal = "blue" -> "well_balanced"

\* The recognised teams are looked for under "teams" and stored under
\* "teams_mentioned", so a slip whose entities are all known is still warned of.
GroundingWarnings(slip, a) ==
  LET unknown == IF slip.canonical # <<>> THEN {}
                 ELSE {i \in DOMAIN a.blocks : ~Phrase[a.blocks[i].words].known}
  IN  CASE Cardinality(unknown) = 0 -> {"may_not_be_real"}
        [] Cardinality(unknown) = 1 -> {"unmatched", "structural_only"}
        [] OTHER -> {"some_unrecognized", "structural_only"}

-----------------------------------------------------------------------------
(* The grounding score: points, then percentages that must sum to 100.     *)

\* round() of Python: to the nearest, a tie to the even one.
RoundHalfEven(n, d) ==
  LET q == n \div d
      r == 2 * (n % d)
  IN  IF r > d \/ (r = d /\ q % 2 = 1) THEN q + 1 ELSE q

Points(cond, n) == IF cond THEN n ELSE 0
AtMost(n, cap) == IF n > cap THEN cap ELSE n

GroundingPoints(s, a, failure, tone) ==
  [structural |->
     Points(s.leg_count > 0, 15) + Points(s.leg_count >= 3, 10) + Points(s.leg_count >= 5, 5)
       + Points(s.flags # {}, 20) + 5 * Cardinality(s.flags) + Points(s.sources # {}, 10)
       + Points(a.eval.metrics.penalty > 0, 15) + Points(a.eval.metrics.multiplier > 20, 10)
       + 3 * Cardinality(a.pairs) + Points(failure.type = "leg_count", 8)
       + Points(tone = "cautious", 5),
   heuristics |->
     8 * Cardinality(ToSet(s.leg_types))
       + Points(s.props > 0, 15) + 5 * AtMost(s.props, 3)
       + Points(s.totals > 0, 10) + 5 * AtMost(s.totals, 2)
       + Points("spread" \in ToSet(s.leg_types), 8)
       + Points(ToSet(s.leg_types) \cap {"ml", "moneyline"} # {}, 5)
       + Points(failure.type # "leg_count", 5),
   generic |-> 10 + Points(s.flags = {}, 10) + Points(tone = "positive", 5)]

GroundingScore(p) ==
  LET total == p.structural + p.heuristics + p.generic
      structural == RoundHalfEven(100 * p.structural, total)
      heuristics == RoundHalfEven(100 * p.heuristics, total)
      rest == 100 - structural - heuristics
  IN  [structural |-> IF rest < 0 /\ structural > heuristics THEN structural + rest
                      ELSE structural,
       heuristics |-> IF rest < 0 /\ structural <= heuristics THEN heuristics + rest
                      ELSE heuristics,
       generic |-> IF rest < 0 THEN 0 ELSE rest]

-----------------------------------------------------------------------------
(* The context panel: what availability takes off the confidence, in       *)
(* hundredths.                                                             *)

LooksLikeNba(text) ==
  \E i \in DOMAIN text :
    LET p == Phrase[text[i]]
    IN  \/ p.availability # {} \/ p.nbaKeys # <<>> \/ "nba" \in p.sports
        \/ p.markets \cap {"points", "rebounds", "assists"} # {}

StatusImpact(status) ==
  CASE status = "OUT" -> -15 [] status = "DOUBTFUL" -> -10
    [] status \in {"QUESTIONABLE", "UNKNOWN"} -> -5
    [] OTHER -> 0

PlayerImpact(player) ==
  IF player \in DOMAIN Roster THEN StatusImpact(Roster[player].status) ELSE -5

TeamImpact(team) ==
  LET out == {p \in DOMAIN Roster : /\ Roster[p].team = team
                                    /\ Roster[p].status \in {"OUT", "DOUBTFUL"}}
  IN  -10 * AtMost(Cardinality(out), 3)

Confidence(text) ==
  LET players == Found(text, LAMBDA p : p.availability)
      teams == Found(text, LAMBDA p : ToSet(p.nbaKeys))
      total == Points(HasMissingData, -10) + SumFunction([p \in players |-> PlayerImpact(p)])
                 + SumFunction([t \in teams |-> TeamImpact(t)])
  IN  IF total < -100 THEN -100 ELSE total

ContextPanel(text) == IF LooksLikeNba(text) THEN Confidence(text) ELSE None
=============================================================================
