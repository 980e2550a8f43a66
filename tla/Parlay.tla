-------------------------------- MODULE Parlay --------------------------------
(***************************************************************************)
(* The evaluation engine of dna-matrix/core as a parlay builder drives it: *)
(* legs are added and removed (parlay_reducer), context signals change     *)
(* their fragility (context_adapters), and the parlay is evaluated against *)
(* a DNA profile (evaluation), the previous response giving the alerts     *)
(* (builder_contract, alert_engine).  Suggestions and the pipeline's       *)
(* preview of a removal are functions of the parlay: nothing is kept.      *)
(*                                                                         *)
(* Numbers are integers without rounding: a base fragility and a leg       *)
(* penalty count hundredths of a point, a multiplier twentieths, hence     *)
(* raw and final fragility count 1/2000 of a point (Point).  Penalties and *)
(* context deltas are whole points, as in the code.                        *)
(***************************************************************************)
EXTENDS Integers, SequencesExt

CONSTANTS
  LegIds,      \* ids of the legs a client can add
  Catalogue,   \* LegIds -> [game, type, player, team, tags, keyword, base, mods]
  Batches,     \* sequences of payloads [type, game, player, team, wind, precip,
               \* status], each sent in one request
  Requests,    \* [profile, bankroll], either one possibly None
  LegPenalty,  \* 8 * n^1.5 for n legs
  None,
  MaxLegs,     \* bound: legs of a parlay
  MaxBatches,  \* bound: batches of signals applied to a parlay
  MaxEdits     \* bound: changes of the parlay between two evaluations

ASSUME ParlayAssumption ==
  /\ None \notin LegIds
  /\ MaxLegs \in Nat /\ MaxBatches \in Nat /\ MaxEdits \in Nat
  /\ LegPenalty \in [1..MaxLegs -> Nat]
  /\ \A i, j \in 1..MaxLegs : i < j => LegPenalty[i] < LegPenalty[j]
  /\ \A batch \in Batches : batch \in Seq(Range(batch))

Kinds == {"weather", "injury", "trade", "role"}
Modifiers == [Kinds -> [applied : BOOLEAN, delta : Nat]]

\* Negative deltas are refused (ContextModifier); a client may post a role delta
\* over the cap.  A negative base fragility is not refused, but no leg has one.
ASSUME CatalogueAssumption ==
  \A id \in LegIds : /\ Catalogue[id].base \in Nat
                     /\ Catalogue[id].mods \in Modifiers

\* RiskProfileSchema and EvaluationRequestSchema.
ASSUME RequestAssumption ==
  \A r \in Requests :
    /\ r.profile # None => /\ r.profile.tolerance \in 0..100
                           /\ r.profile.max_legs \in Nat \ {0}
                           /\ r.profile.stake_pct \in 1..25
                           /\ r.profile.avoid_props \in BOOLEAN
                           /\ r.profile.avoid_live \in BOOLEAN
    /\ r.bankroll # None => r.bankroll \in Nat

Point == 2000

VARIABLES
  parlay,    \* ParlayState: the blocks and the metrics computed from them
  batches,   \* batches of signals applied so far
  edits,     \* changes since the last evaluation
  response,  \* the last EvaluationResponse, None before the first
  alerts     \* alert types of the last BuilderView

parlayVars == <<parlay, batches, edits, response, alerts>>

-----------------------------------------------------------------------------
(* correlation_engine.py: a leg is a block of the parlay.                  *)

Leg(b) == Catalogue[b.id]
ScriptTypes == {"ml", "spread"}
TotalTypes  == {"total", "team_total"}
Receiving   == {"wr_receiving", "te_receiving"}
Volume      == Receiving \cup {"passing_volume", "receiving_volume", "qb_passing"}

HasTag(a, tags) == a.tags \cap tags # {}
Tagged(a, b, tag) == HasTag(a, {tag}) \/ HasTag(b, {tag})

SamePlayerMultiProps(a, b) ==
  /\ a.player # None /\ a.player = b.player
  /\ a.type = "player_prop" /\ b.type = "player_prop"

\* Mutant: the game script is recognised in one order of the pair only.
MutScriptDependency(a, b) ==
  /\ a.game = b.game
  /\ \/ Tagged(a, b, "script_dependency")
     \/ a.type \in ScriptTypes /\ b.type \in TotalTypes

ScriptDependency(a, b) ==
  /\ a.game = b.game
  /\ \/ Tagged(a, b, "script_dependency")
     \/ a.type \in ScriptTypes /\ b.type \in TotalTypes
     \/ a.type \in TotalTypes /\ b.type \in ScriptTypes

VolumeDependency(a, b) ==
  /\ a.game = b.game
  /\ \/ Tagged(a, b, "volume_dependency")
     \/ HasTag(a, {"qb_passing"}) /\ HasTag(b, Receiving)
     \/ HasTag(a, Receiving) /\ HasTag(b, {"qb_passing"})

TdDependency(a, b) ==
  /\ a.game = b.game
  /\ \/ Tagged(a, b, "td_dependency")
     \/ HasTag(a, {"td_prop"}) /\ b.type \in ScriptTypes
     \/ a.type \in ScriptTypes /\ HasTag(b, {"td_prop"})

PaceDependency(a, b) ==
  /\ a.game = b.game
  /\ \/ Tagged(a, b, "pace_dependency")
     \/ a.type = "total" /\ HasTag(b, Volume)
     \/ HasTag(a, Volume) /\ b.type = "total"

\* Only the highest penalty of a pair counts.
PairPenalty(a, b) ==
  CASE SamePlayerMultiProps(a, b) -> 12
    [] VolumeDependency(a, b) \/ TdDependency(a, b) -> 10
    [] ScriptDependency(a, b) \/ PaceDependency(a, b) -> 8
    [] OTHER -> 0

Pairs(n) == {p \in (1..n) \X (1..n) : p[1] < p[2]}
CorrelationPenalty(blocks) ==
  SumFunction([p \in Pairs(Len(blocks)) |-> PairPenalty(Leg(blocks[p[1]]), Leg(blocks[p[2]]))])

\* 1.0, 1.15, 1.3 and 1.5, in twentieths.
CorrelationMultiplier(penalty) ==
  CASE penalty <= 20 -> 20
    [] penalty > 20 /\ penalty <= 35 -> 23
    [] penalty > 35 /\ penalty <= 50 -> 26
    [] OTHER -> 30

-----------------------------------------------------------------------------
(* fragility_engine.py and parlay_reducer.py                               *)

EffectiveFragility(b) ==
  Leg(b).base
    + 100 * SumFunction([k \in {k \in Kinds : b.mods[k].applied} |-> b.mods[k].delta])

FinalFragility(raw, multiplier) ==
  IF raw * multiplier < 0 THEN 0
  ELSE IF raw * multiplier > 100 * Point THEN 100 * Point
  ELSE raw * multiplier

ParlayMetrics(blocks) ==
  IF blocks = <<>> THEN [penalty |-> 0, multiplier |-> 20, final |-> 0]
  ELSE LET penalty == CorrelationPenalty(blocks)
           multiplier == CorrelationMultiplier(penalty)
           sum == SumFunction([i \in 1..Len(blocks) |-> EffectiveFragility(blocks[i])])
           raw == sum + LegPenalty[Len(blocks)] + 100 * penalty
       IN  [penalty |-> penalty, multiplier |-> multiplier,
            final |-> FinalFragility(raw, multiplier)]

BuildParlayState(blocks) == [blocks |-> blocks, metrics |-> ParlayMetrics(blocks)]

-----------------------------------------------------------------------------
(* context_adapters.py                                                     *)

WeatherDelta(s) == (IF s.wind >= 15 THEN 4 ELSE 0) + (IF s.precip THEN 3 ELSE 0)
InjuryDelta(s) == CASE s.status = "OUT" -> 10
                    [] s.status = "DOUBTFUL" -> 6
                    [] s.status = "QUESTIONABLE" -> 3
                    [] OTHER -> 0

\* The delta an adapter gives the signal; 0 stands for no signal.
SignalDelta(s) == CASE s.type = "weather" -> WeatherDelta(s)
                    [] s.type = "injury" -> InjuryDelta(s)
                    [] s.type = "trade" -> IF s.player # None THEN 5 ELSE 0
                    [] OTHER -> 0

WeatherAffected(a) ==
  /\ a.type # "ml"
  /\ \/ HasTag(a, {"passing", "kicking", "receiving", "qb"})
     \/ a.type = "player_prop" /\ a.keyword

Matches(s, a) ==
  CASE s.type = "weather" -> s.game = a.game /\ WeatherAffected(a)
    [] s.type = "injury" -> s.player # None /\ s.player = a.player
    [] s.type = "trade" -> \/ s.player # None /\ s.player = a.player
                           \/ s.team # None /\ s.team = a.team
    [] OTHER -> FALSE

RoleShare(s) == CASE s.type = "trade" -> 4
                  [] s.type = "injury" /\ s.status \in {"OUT", "DOUBTFUL"} -> 3
                  [] OTHER -> 0

Capped(delta) == IF delta > 10 THEN 10 ELSE delta

\* Mutant: the new delta replaces the old one.
MutReplace(old, kind, delta) == [applied |-> old.applied \/ delta > 0, delta |-> delta]

\* A modifier merged with what a batch adds to it; an old delta that did not
\* apply does so with the first new one.
Merge(old, kind, delta) ==
  [applied |-> old.applied \/ delta > 0,
   delta |-> IF kind = "role" THEN Capped(old.delta + delta) ELSE old.delta + delta]

Matching(batch, a) == {i \in 1..Len(batch) : SignalDelta(batch[i]) > 0 /\ Matches(batch[i], a)}

\* What a batch adds to the modifier of a leg.
Total(batch, a, kind) ==
  IF kind = "role"
  THEN Capped(SumFunction([i \in Matching(batch, a) |-> RoleShare(batch[i])]))
  ELSE SumFunction([i \in {i \in Matching(batch, a) : batch[i].type = kind}
                      |-> SignalDelta(batch[i])])

ApplyToBlock(batch, b) ==
  IF Matching(batch, Leg(b)) = {} THEN b
  ELSE [b EXCEPT !.mods = [k \in Kinds |-> Merge(b.mods[k], k, Total(batch, Leg(b), k))]]

AdaptAndApplySignals(blocks, batch) ==
  [i \in 1..Len(blocks) |-> ApplyToBlock(batch, blocks[i])]

-----------------------------------------------------------------------------
(* dna_enforcement.py, risk_inductor.py and evaluation.py                  *)

OverTolerance(p, profile) == p.metrics.final > profile.tolerance * Point

\* Mutant: props are refused when all legs are props.
MutViolations(p, profile) ==
  {v \in {"fragility_over_tolerance"} : OverTolerance(p, profile)}
    \cup {v \in {"max_legs_exceeded"} : Len(p.blocks) > profile.max_legs}
    \cup {v \in {"props_not_allowed"} :
            /\ profile.avoid_props /\ p.blocks # <<>>
            /\ \A i \in 1..Len(p.blocks) : Leg(p.blocks[i]).type = "player_prop"}

Violations(p, profile) ==
  LET Some(Test(_)) == \E i \in 1..Len(p.blocks) : Test(Leg(p.blocks[i]))
      IsProp(a) == a.type = "player_prop"
      IsLive(a) == HasTag(a, {"live"})
  IN  {v \in {"fragility_over_tolerance"} : OverTolerance(p, profile)}
      \cup {v \in {"max_legs_exceeded"} : Len(p.blocks) > profile.max_legs}
      \cup {v \in {"props_not_allowed"} : profile.avoid_props /\ Some(IsProp)}
      \cup {v \in {"live_bets_not_allowed"} : profile.avoid_live /\ Some(IsLive)}

\* In hundredths of the bankroll's unit: max_stake_pct is a whole percentage.
RecommendedStake(p, profile, bankroll) ==
  LET cap == bankroll * profile.stake_pct
  IN  IF OverTolerance(p, profile)
      THEN (cap * profile.tolerance * Point) \div p.metrics.final
      ELSE cap

Inductors == <<"stable", "loaded", "tense", "critical">>
Actions   == <<"accept", "reduce", "avoid">>
Rank(order, level) == CHOOSE i \in 1..Len(order) : order[i] = level

ResolveInductor(final, legs, penalty, violated) ==
  IF final <= 30 * Point THEN "stable"
  ELSE IF final <= 55 * Point THEN "loaded"
  ELSE IF final > 75 * Point /\ (penalty >= 20 \/ legs >= 4 \/ violated) THEN "critical"
  ELSE "tense"

BaseAction(inductor) == CASE inductor \in {"stable", "loaded"} -> "accept"
                          [] inductor = "tense" -> "reduce"
                          [] OTHER -> "avoid"

ComputeRecommendation(inductor, violated) ==
  IF ~violated THEN BaseAction(inductor)
  ELSE IF BaseAction(inductor) = "accept" THEN "reduce"
  ELSE "avoid"

\* A profile without a bankroll enforces nothing.
EvaluateParlay(p, r) ==
  LET enforced == r.profile # None /\ r.bankroll # None
      violations == IF enforced THEN Violations(p, r.profile) ELSE {}
      inductor == ResolveInductor(p.metrics.final, Len(p.blocks), p.metrics.penalty,
                                  violations # {})
  IN  [metrics |-> p.metrics, inductor |-> inductor, violations |-> violations,
       stake |-> IF enforced THEN RecommendedStake(p, r.profile, r.bankroll) ELSE None,
       action |-> ComputeRecommendation(inductor, violations # {})]

-----------------------------------------------------------------------------
(* suggestion_engine.py, for a request with a profile, and pipeline.py     *)

\* Mutant: the leg that would be added is not counted.
MutDnaCompatible(a, legs, profile) ==
  /\ legs <= profile.max_legs
  /\ profile.avoid_props => a.type # "player_prop"
  /\ profile.avoid_live => ~HasTag(a, {"live"})

DnaCompatible(a, legs, profile) ==
  /\ legs + 1 <= profile.max_legs
  /\ profile.avoid_props => a.type # "player_prop"
  /\ profile.avoid_live => ~HasTag(a, {"live"})

Signals == <<"blue", "green", "yellow", "red">>

FragilityToSignal(e) ==
  CASE e.metrics.final <= 15 * Point -> "blue"
    [] e.metrics.final > 15 * Point /\ e.metrics.final <= 35 * Point -> "green"
    [] e.metrics.final > 60 * Point /\ e.inductor = "critical" -> "red"
    [] OTHER -> "yellow"

-----------------------------------------------------------------------------
(* alert_engine.py: old is the previous response, never None here.         *)

Favorable(e) == /\ e.inductor \in {"stable", "loaded"}
                /\ e.metrics.final <= 45 * Point
                /\ e.violations = {}

Opportunity(old, new) ==
  /\ Favorable(new)
  /\ \/ old.inductor \in {"tense", "critical"}
     \/ old.metrics.final - new.metrics.final >= 12 * Point

\* Mutant: an escalation is reported only with a jump of the score.
MutRiskSpike(old, new) ==
  /\ new.metrics.final - old.metrics.final >= 12 * Point
  /\ Rank(Inductors, new.inductor) > Rank(Inductors, old.inductor)

RiskSpike(old, new) ==
  \/ new.metrics.final - old.metrics.final >= 12 * Point
  \/ Rank(Inductors, new.inductor) > Rank(Inductors, old.inductor)

CorrelationSpike(old, new) ==
  \/ new.metrics.penalty - old.metrics.penalty >= 10
  \/ new.metrics.multiplier > old.metrics.multiplier

DnaEnforced(old, new) ==
  \/ ~(new.violations \subseteq old.violations)
  \/ /\ old.stake # None /\ new.stake # None
     /\ old.stake > 0 /\ 4 * (old.stake - new.stake) >= old.stake

\* derive_builder_view: without a previous response and without context it
\* asks for no alert at all; impact says that the client reports deltas > 0.
ComputeAlerts(old, new, impact) ==
  IF old = None
  THEN {t \in {"opportunity"} : impact /\ Favorable(new)}
       \cup {t \in {"context_impact"} : impact}
       \cup {t \in {"dna_enforced"} : impact /\ new.violations # {}}
  ELSE {t \in {"opportunity"} : Opportunity(old, new)}
       \cup {t \in {"risk_spike"} : RiskSpike(old, new)}
       \cup {t \in {"correlation_spike"} : CorrelationSpike(old, new)}
       \cup {t \in {"context_impact"} : impact}
       \cup {t \in {"dna_enforced"} : DnaEnforced(old, new)}

-----------------------------------------------------------------------------
(* The builder.                                                            *)

ParlayInit ==
  /\ parlay = BuildParlayState(<<>>)
  /\ batches = 0 /\ edits = 0 /\ response = None /\ alerts = {}

Edit(blocks) ==
  /\ edits < MaxEdits /\ edits' = edits + 1
  /\ parlay' = BuildParlayState(blocks)
  /\ UNCHANGED <<response, alerts>>

AddBlock(id) ==
  /\ Len(parlay.blocks) < MaxLegs
  /\ Edit(Append(parlay.blocks, [id |-> id, mods |-> Catalogue[id].mods]))
  /\ UNCHANGED batches

\* The blocks at the positions kept, in their order.
Kept(blocks, keep) ==
  [k \in 1..Cardinality(keep) |->
     blocks[CHOOSE i \in keep : Cardinality({j \in keep : j <= i}) = k]]

\* Every block with the id goes; an unknown id is an error.
RemoveBlock(id) ==
  /\ \E i \in 1..Len(parlay.blocks) : parlay.blocks[i].id = id
  /\ Edit(Kept(parlay.blocks, {i \in 1..Len(parlay.blocks) : parlay.blocks[i].id # id}))
  /\ UNCHANGED batches

ApplyContext(batch) ==
  /\ batches < MaxBatches /\ batches' = batches + 1
  /\ Edit(AdaptAndApplySignals(parlay.blocks, batch))

EvaluateRequest(r, impact) ==
  /\ response' = EvaluateParlay(parlay, r)
  /\ alerts' = ComputeAlerts(response, response', impact)
  /\ edits' = 0
  /\ UNCHANGED <<parlay, batches>>

ParlayNext ==
  \/ \E id \in LegIds : AddBlock(id) \/ RemoveBlock(id)
  \/ \E batch \in Batches : ApplyContext(batch)
  \/ \E r \in Requests, impact \in BOOLEAN : EvaluateRequest(r, impact)

ParlaySpec == ParlayInit /\ [][ParlayNext]_parlayVars

-----------------------------------------------------------------------------
(* Properties.                                                             *)

\* What a client is told of a parlay is at least as bad as of another one:
\* score, inductor, recommendation, signal, violations and stake.
AtLeastAsRisky(p, q) ==
  \A r \in Requests :
    LET ep == EvaluateParlay(p, r)
        eq == EvaluateParlay(q, r)
    IN  /\ ep.metrics.final >= eq.metrics.final
        /\ ep.metrics.penalty >= eq.metrics.penalty
        /\ Rank(Inductors, ep.inductor) >= Rank(Inductors, eq.inductor)
        /\ Rank(Actions, ep.action) >= Rank(Actions, eq.action)
        /\ Rank(Signals, FragilityToSignal(ep)) >= Rank(Signals, FragilityToSignal(eq))
        /\ eq.violations \subseteq ep.violations
        /\ eq.stake # None => ep.stake <= eq.stake

\* A leg never makes a parlay look better, whatever the penalties, the
\* multiplier table, the escalation rules and the profile do together.
LegsNeverHelp ==
  [][Len(parlay'.blocks) > Len(parlay.blocks) => AtLeastAsRisky(parlay', parlay)]_parlayVars

WithinCap(blocks) ==
  [i \in 1..Len(blocks) |-> [blocks[i] EXCEPT !.mods["role"].delta = Capped(@)]]

\* "Only increases fragility (deltas >= 0)" (context_adapters.py:416), but for
\* what a client posted above the cap on the role delta, which the first signal
\* takes away: no request finds a parlay less risky after signals than it would
\* have been within the cap, whichever legs they match.
ContextNeverHelps ==
  [][batches' # batches
       => AtLeastAsRisky(parlay', BuildParlayState(WithinCap(parlay.blocks)))]_parlayVars

\* The order in which the legs were added changes nothing in the metrics.
OrderDoesNotMatter == ParlayMetrics(Reverse(parlay.blocks)) = parlay.metrics

\* Signals sent in one request or in two give the same blocks, the cap on the
\* role delta included.
BatchingDoesNotMatter ==
  \A first, second \in Batches :
    AdaptAndApplySignals(AdaptAndApplySignals(parlay.blocks, first), second)
      = AdaptAndApplySignals(parlay.blocks, first \o second)

\* The same legs and signals, arranged in another way, are the same parlay.
ArrangementDoesNotMatter == OrderDoesNotMatter /\ BatchingDoesNotMatter

\* A suggestion marked compatible with a profile, once added, breaks no rule
\* of that profile the parlay kept before, the tolerance aside: the engine
\* that suggests and the engine that enforces agree.
SuggestionsRespectProfile ==
  [][Len(parlay'.blocks) > Len(parlay.blocks) =>
       \A r \in Requests :
         /\ r.profile # None
         /\ DnaCompatible(Leg(parlay'.blocks[Len(parlay'.blocks)]),
                          Len(parlay.blocks), r.profile)
         => Violations(parlay', r.profile) \subseteq
              Violations(parlay, r.profile) \cup {"fragility_over_tolerance"}]_parlayVars

\* When the recommendation gets worse from one evaluation to the next, the
\* view says why: a risk spike, or a profile newly enforced.
NoSilentDowngrade ==
  [][response # None /\ response' # None
       /\ Rank(Actions, response'.action) > Rank(Actions, response.action)
     => {"risk_spike", "dna_enforced"} \cap alerts' # {}]_parlayVars
=============================================================================
