----------------------------- MODULE LeadingLight -----------------------------
(***************************************************************************)
(* The routes of app/routers/leading_light.py that answer at once: the     *)
(* evaluation of a structured request, of a text and of a demo case, with  *)
(* the plans of app/tiering.py; the suggestions of core/suggestion_engine; *)
(* and the builder view of core/builder_contract, which tiering filters    *)
(* for a library client.  Nothing is kept between requests: `answer` is    *)
(* the last one given, a client may send it back as its previous response. *)
(*                                                                         *)
(* A leg is the record the catalogue of Parlay.tla gives for it.           *)
(***************************************************************************)
EXTENDS Integers, SequencesExt

CONSTANTS
  ClientLegs, \* the legs and candidates clients send; one of a bad type too
  Posts,      \* bodies of POST /evaluate: [plan, legs, profile, bankroll,
              \* candidates, max, signals]
  Views,      \* the ones a client of the library builds a view of
  Texts,      \* what the parser sees of a text: [plus, comma, and, parlay: how
              \* often each delimiter occurs, prop, total, dash]
  DemoCases,  \* name -> [legs, profile, bankroll, candidates, signals]
  LegPenalty, \* 8 * n^1.5 for n legs, in hundredths of a point
  MaxLegs,    \* bound: legs of a request, one more than its own for a candidate
  EnvFlags,   \* [enabled, demo, voice, override, key], read from the environment
  None

Kinds == {"weather", "injury", "trade", "role"}

\* The codes of the refusals.
Codes == {"SERVICE_DISABLED", "SIGNAL_NOT_ALLOWED", "VALIDATION_ERROR",
          "DEMO_ACCESS_DENIED", "NOT_FOUND"}

BetTypes == {"player_prop", "spread", "total", "ml", "team_total"}

OwnGame == <<"game_1", "game_2", "game_3", "game_4", "game_5">>

TextLeg(type, i) ==
  [game |-> OwnGame[i], type |-> type, player |-> None, team |-> None, tags |-> {},
   keyword |-> FALSE,
   base |-> CASE type = "player_prop" -> 20 [] type = "total" -> 12
              [] type = "spread" -> 10 [] type = "ml" -> 8,
   mods |-> [kind \in Kinds |-> [applied |-> FALSE, delta |-> 0]]]

AllLegs ==
  ClientLegs \cup {TextLeg(type, i) : type \in {"player_prop", "total", "spread", "ml"},
                                         i \in 1..5}

\* What the schemas demand of a request; the engine's assumption on the penalty.
ASSUME LightAssumption ==
  /\ None \notin AllLegs /\ None \notin Codes
  /\ MaxLegs \in Nat /\ LegPenalty \in [1..MaxLegs -> Nat]
  /\ \A i, j \in 1..MaxLegs : i < j => LegPenalty[i] < LegPenalty[j]
  /\ \A leg \in ClientLegs :
       leg.base \in Nat /\ leg.mods \in [Kinds -> [applied : BOOLEAN, delta : Nat]]
  /\ \A post \in Posts \cup Views :
       /\ DOMAIN post = {"plan", "legs", "profile", "bankroll", "candidates", "max", "signals"}
       /\ post.plan \in {"good", "better", "best"} /\ post.max \in Nat
       /\ post.legs \in Seq(ClientLegs) /\ Len(post.legs) < MaxLegs
       /\ post.candidates \in Seq(ClientLegs)
       /\ post.signals \in Seq(Range(post.signals))
       /\ post.profile # None => post.profile.max_legs \in Nat
  /\ \A name \in DOMAIN DemoCases : DemoCases[name].candidates \in Seq(ClientLegs)

Core == INSTANCE Parlay WITH
  LegIds <- AllLegs, Catalogue <- [leg \in AllLegs |-> leg],
  Batches <- {}, Requests <- {}, MaxBatches <- 0, MaxEdits <- 0,
  parlay <- None, batches <- 0, edits <- 0, response <- None, alerts <- {}

VARIABLES flags, answer

lightVars == <<flags, answer>>

-----------------------------------------------------------------------------
(* app/tiering.py                                                          *)

ParsePlan(plan) == IF plan \in {"better", "best"} THEN plan ELSE "good"

\* Mutant: the signals of BEST are listed without those of BETTER.
MutPolicy(plan) ==
  [alerts |-> plan # "good", demo |-> plan = "best", notes |-> plan # "good",
   suggestions |-> CASE plan = "good" -> 0 [] plan = "better" -> 5 [] plan = "best" -> 10,
   signals |-> {"weather"} \cup {s \in {"injury"} : plan = "better"}
                 \cup {s \in {"trade"} : plan = "best"}]

Policy(plan) ==
  [alerts      |-> plan # "good",
   suggestions |-> CASE plan = "good" -> 0 [] plan = "better" -> 5 [] plan = "best" -> 10,
   signals     |-> {"weather"} \cup {s \in {"injury"} : plan # "good"}
                     \cup {s \in {"trade"} : plan = "best"},
   demo        |-> plan = "best",
   notes       |-> plan # "good"]

SignalsAllowed(batch, plan) ==
  \A i \in DOMAIN batch : batch[i].type \in Policy(plan).signals

First(n, suggestions) == SubSeq(suggestions, 1, Min({n, Len(suggestions)}))

ApplyTierToResponse(plan, suggestions) == First(Policy(plan).suggestions, suggestions)

IsDemoAllowed(plan) == flags.demo \/ Policy(ParsePlan(plan)).demo

-----------------------------------------------------------------------------
(* core/suggestion_engine.py; the engine's own limit is ten legs.          *)

AssignLabel(delta) ==
  CASE delta <= 8 * Core!Point -> "lowest added risk"
    [] delta > 8 * Core!Point /\ delta <= 18 * Core!Point -> "balanced"
    [] OTHER -> "aggressive"

\* What the candidate that makes old into new is worth.
Worth(old, new, leg, profile) ==
  LET delta == new.metrics.final - old.metrics.final
  IN  [leg |-> leg, delta |-> delta,
       correlation |-> new.metrics.penalty - old.metrics.penalty,
       compatible |-> IF profile # None THEN Core!DnaCompatible(leg, Len(old.blocks), profile)
                      ELSE Len(new.blocks) <= 10,
       label |-> AssignLabel(delta)]

\* Mutant: the candidate is valued as a parlay of its own.
MutEvaluateCandidate(state, leg, profile) ==
  Worth(Core!BuildParlayState(<<>>),
        Core!BuildParlayState(<<[id |-> leg, mods |-> leg.mods]>>), leg, profile)

EvaluateCandidate(state, leg, profile) ==
  Worth(state, Core!BuildParlayState(Append(state.blocks, [id |-> leg, mods |-> leg.mods])),
        leg, profile)

\* The key of a candidate: least delta, then least correlation, then compatible
\* first; sorted() leaves equals as they were sent.
Before(cands, i, j) ==
  LET a == cands[i]
      b == cands[j]
  IN  \/ a.delta < b.delta
      \/ a.delta = b.delta /\ a.correlation < b.correlation
      \/ /\ a.delta = b.delta /\ a.correlation = b.correlation
         /\ \/ a.compatible /\ ~b.compatible
            \/ a.compatible = b.compatible /\ i < j

RankCandidates(cands) ==
  LET some == {i \in DOMAIN cands : cands[i].delta > 0}
      Ahead(i) == Cardinality({j \in some : Before(cands, j, i)})
  IN  [n \in 1..Cardinality(some) |-> cands[CHOOSE i \in some : Ahead(i) = n - 1]]

ComputeSuggestions(state, candidates, max, profile) ==
  First(max, RankCandidates([i \in DOMAIN candidates |->
                               EvaluateCandidate(state, candidates[i], profile)]))

-----------------------------------------------------------------------------
(* The answers.  Suggestions are <<>> where the code answers None.         *)

Refused(status, code) ==
  [status |-> status, code |-> code, eval |-> None, suggestions |-> <<>>, legs |-> 0,
   explain |-> {}, alerts |-> {}, notes |-> <<>>]

Evaluated(e, suggestions, legs) ==
  [Refused(200, None) EXCEPT !.eval = e, !.suggestions = suggestions, !.legs = legs]

\* The legs as sent, with the context signals applied to them; the candidates
\* get none.
State(body) ==
  LET blocks == [i \in DOMAIN body.legs |-> [id |-> body.legs[i], mods |-> body.legs[i].mods]]
  IN  Core!BuildParlayState(Core!AdaptAndApplySignals(blocks, body.signals))

WellTyped(legs) == \A i \in DOMAIN legs : legs[i].type \in BetTypes

EvaluateState(state, body, max) ==
  Evaluated(Core!EvaluateParlay(state, [profile |-> body.profile, bankroll |-> body.bankroll]),
            ComputeSuggestions(state, body.candidates, max, body.profile), Len(body.legs))

EvaluateBody(body, max) == EvaluateState(State(body), body, max)

Evaluate(post) ==
  IF ~flags.enabled THEN Refused(503, "SERVICE_DISABLED")
  ELSE IF ~SignalsAllowed(post.signals, post.plan) THEN Refused(400, "SIGNAL_NOT_ALLOWED")
  ELSE IF ~WellTyped(post.legs) \/ ~WellTyped(post.candidates)
  THEN Refused(400, "VALIDATION_ERROR")
  ELSE LET full == EvaluateBody(post, Min({post.max, Policy(post.plan).suggestions}))
       IN  [full EXCEPT !.suggestions = ApplyTierToResponse(post.plan, @)]

\* A demo shows five suggestions and uses every signal, whatever the plan.
RunDemo(name, plan) ==
  IF ~flags.enabled THEN Refused(503, "SERVICE_DISABLED")
  ELSE IF ~IsDemoAllowed(plan) THEN Refused(403, "DEMO_ACCESS_DENIED")
  ELSE IF name \notin DOMAIN DemoCases THEN Refused(404, "NOT_FOUND")
  ELSE EvaluateBody(DemoCases[name], 5)

GetDemoRequest(name, plan) ==
  IF ~IsDemoAllowed(plan) THEN Refused(403, "DEMO_ACCESS_DENIED")
  ELSE IF name \notin DOMAIN DemoCases THEN Refused(404, "NOT_FOUND")
  ELSE [Refused(200, None) EXCEPT !.legs = Len(DemoCases[name].legs)]

-----------------------------------------------------------------------------
(* Texts: the first delimiter found, in this order, is the only one        *)
(* counted; all legs get the type of the whole text, each its own game.    *)

Delimiters(t) == <<t.plus, t.comma, t.and, t.parlay>>

LegCount(t) ==
  LET found == SelectSeq(Delimiters(t), LAMBDA n : n > 0)
  IN  IF found = <<>> THEN 1 ELSE Min({found[1] + 1, 5})

ParseBetText(t) ==
  LET type == IF t.prop THEN "player_prop"
              ELSE IF t.total THEN "total"
              ELSE IF t.dash \/ t.plus > 0 THEN "spread"
              ELSE "ml"
  IN  [i \in 1..LegCount(t) |-> TextLeg(type, i)]

InterpretFragility(score) ==
  CASE score <= 15 * Core!Point -> "low"
    [] score > 15 * Core!Point /\ score <= 35 * Core!Point -> "medium"
    [] score > 35 * Core!Point /\ score <= 60 * Core!Point -> "high"
    [] OTHER -> "critical"

GenerateAlerts(e) ==
  e.violations \cup {a \in {"high_correlation"} : e.metrics.multiplier >= 30}
               \cup {a \in {"critical_risk"} : e.inductor = "critical"}

GenerateSummary(e, legs) ==
  {"legs", "risk_level", "fragility"}
    \cup {s \in {"correlation"} : e.metrics.penalty > 0}

\* The alerts are part of what the plan is explained.
ApplyTierToExplain(plan, summary, alerts) ==
  CASE ParsePlan(plan) = "good" -> [explain |-> {}, alerts |-> {}]
    [] ParsePlan(plan) = "better" -> [explain |-> summary, alerts |-> {}]
    [] OTHER -> [explain |-> summary \cup {"recommended_next_step"}, alerts |-> alerts]

Explain(full, plan) ==
  LET shown == ApplyTierToExplain(plan, GenerateSummary(full.eval, full.legs),
                                  GenerateAlerts(full.eval))
  IN  [full EXCEPT !.explain = shown.explain \cup {InterpretFragility(full.eval.metrics.final)},
                   !.alerts = shown.alerts]

\* The part of the text and the image route after the text is known.
EvaluateText(t, plan) ==
  Explain(EvaluateBody([legs |-> ParseBetText(t), profile |-> None, bankroll |-> None,
                        candidates |-> <<>>, signals |-> <<>>], 0), plan)

EvaluateFromText(t, plan) ==
  IF ~flags.enabled THEN Refused(503, "SERVICE_DISABLED") ELSE EvaluateText(t, plan)

-----------------------------------------------------------------------------
(* core/builder_contract.py and apply_tier_to_builder_view: what a client  *)
(* of the library shows; previous is the response it last got, or None.    *)

BlockNotes(state, i) ==
  LET mods == state.blocks[i].mods
      Correlates(j) == /\ j # i
                       /\ Core!PairPenalty(state.blocks[Min({i, j})].id,
                                           state.blocks[Max({i, j})].id) > 0
  IN  {k \in Kinds : mods[k].applied /\ mods[k].delta > 0}
        \cup {n \in {"correlation"} : \E j \in DOMAIN state.blocks : Correlates(j)}

DeriveBuilderView(full, state, previous, impact) ==
  [full EXCEPT !.alerts = Core!ComputeAlerts(previous, full.eval, impact),
               !.notes = [i \in DOMAIN state.blocks |-> BlockNotes(state, i)]]

ApplyTierToBuilderView(plan, view) ==
  [view EXCEPT !.alerts = IF Policy(plan).alerts THEN @ ELSE {},
               !.suggestions = ApplyTierToResponse(plan, @),
               !.notes = IF Policy(plan).notes THEN @ ELSE [i \in DOMAIN @ |-> @[i] \ Kinds]]

BuilderView(post, plan, previous, impact) ==
  ApplyTierToBuilderView(plan, DeriveBuilderView(EvaluateBody(post, post.max), State(post),
                                                 previous, impact))

-----------------------------------------------------------------------------
(* The system.  Bound: since nothing is kept, only a view, which may need  *)
(* the answer to an evaluation, follows another request.                   *)

Plans == {"good", "better", "best"}
SentPlans == Plans \cup {"free"}

LightInit == flags \in EnvFlags /\ answer = None

Reply(r, reply) == answer' = [to |-> r, reply |-> reply] /\ UNCHANGED flags

PostEvaluate(post) ==
  answer = None /\ Reply([route |-> "evaluate", post |-> post, plan |-> post.plan], Evaluate(post))
PostText(t, plan) ==
  answer = None /\ Reply([route |-> "text", text |-> t, plan |-> plan], EvaluateFromText(t, plan))
PostDemo(name, plan) ==
  answer = None /\ Reply([route |-> "demo", name |-> name, plan |-> plan], RunDemo(name, plan))
GetDemo(name, plan) ==
  answer = None /\ Reply([route |-> "demo_request", name |-> name, plan |-> plan],
                         GetDemoRequest(name, plan))

\* The previous response is the one of an evaluation, if there was one.
Previous == IF answer = None THEN None ELSE answer.reply.eval

BuildView(post, plan, impact) ==
  /\ answer # None => answer.to.route = "evaluate"
  /\ Reply([route |-> "view", post |-> post, plan |-> plan, impact |-> impact,
            previous |-> Previous], BuilderView(post, plan, Previous, impact))

LightNext ==
  \/ \E post \in Posts : PostEvaluate(post)
  \/ \E t \in Texts, plan \in SentPlans : PostText(t, plan)
  \/ \E name \in DOMAIN DemoCases \cup {"unknown"}, plan \in SentPlans :
       PostDemo(name, plan) \/ GetDemo(name, plan)
  \/ \E post \in Views, plan \in Plans, impact \in BOOLEAN : BuildView(post, plan, impact)

-----------------------------------------------------------------------------
(* Properties.                                                             *)

\* What the same request is answered on another plan.
OnPlan(r, plan) ==
  CASE r.route = "evaluate" -> Evaluate([r.post EXCEPT !.plan = plan])
    [] r.route = "text" -> EvaluateFromText(r.text, plan)
    [] r.route = "image" -> EvaluateText(r.text, plan)
    [] r.route = "demo" -> RunDemo(r.name, plan)
    [] r.route = "demo_request" -> GetDemoRequest(r.name, plan)
    [] r.route = "view" -> BuilderView(r.post, plan, r.previous, r.impact)

Covers(b, a) ==
  a.code = None =>
    /\ b.code = None /\ b.eval = a.eval
    /\ IsPrefix(a.suggestions, b.suggestions)
    /\ a.explain \subseteq b.explain /\ a.alerts \subseteq b.alerts
    /\ \A i \in DOMAIN a.notes : a.notes[i] \subseteq b.notes[i]

Above(plan) == IF ParsePlan(plan) = "good" THEN {"better", "best"} ELSE {"best"}

\* Whatever was answered is answered on every higher plan too, with the same
\* evaluation and at least the same suggestions, explanation, alerts and notes:
\* six plan tables, in two modules, must agree on the order of the plans.
UpgradeNeverLoses ==
  answer # None =>
    \A plan \in Above(answer.to.plan) : Covers(OnPlan(answer.to, plan), answer.reply)

\* The evaluation of the same request with one leg more.
AskedAgain(r, leg) == Evaluate([r.post EXCEPT !.plan = r.plan, !.legs = Append(@, leg)]).eval

Honest(s, signals, before, after) ==
  /\ s.leg.mods["role"].delta <= 10 => after.metrics.final - before.metrics.final >= s.delta
  /\ signals = <<>> => after.metrics.final - before.metrics.final = s.delta
  /\ s.compatible =>
       after.violations \subseteq before.violations \cup {"fragility_over_tolerance"}

\* A suggestion is worth what it says: asked again with the candidate as a leg,
\* the engine finds at least the announced fragility, exactly that when no
\* signal is sent (signals are applied to legs, not to candidates, and may lower
\* a role delta posted above its cap); a compatible one brings no violation but
\* of the tolerance; and no better one was left out.
SuggestionsHold ==
  answer # None /\ answer.to.route = "evaluate" =>
    LET post == answer.to.post
        shown == ToSet(answer.reply.suggestions)
    IN  \A s \in shown :
          /\ Honest(s, post.signals, answer.reply.eval, AskedAgain(answer.to, s.leg))
          /\ \A c \in ToSet(post.candidates) \ {other.leg : other \in shown} :
               EvaluateCandidate(State(post), c, post.profile).delta \notin 1..s.delta - 1
=============================================================================
