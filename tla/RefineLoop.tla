------------------------------ MODULE RefineLoop ------------------------------
(***************************************************************************)
(* The script of the page of app/routers/web_old.py, also kept as          *)
(* static/js/app.js: a slip built leg by leg or typed in, its evaluation,  *)
(* and the loop of removing, locking and testing again on its results.     *)
(* Elements the page hides cannot be clicked.                              *)
(*                                                                         *)
(* A text is a sequence of parts, what the engine tells apart, and a part  *)
(* a sequence of phrases: lines are never told apart.                      *)
(***************************************************************************)
EXTENDS Integers, SequencesExt

CONSTANTS
  Phrases,    \* phrase -> [entity, market]
  TypedTexts, \* what is typed into the text area
  MaxPhrases, \* bound: phrases of the builder's legs
  MaxHistory, \* SessionManager.MAX_HISTORY
  NoRequest

\* A text is a sequence of lines, a line a sequence of phrases.
ASSUME RefineAssumption == TypedTexts \subseteq Seq(Seq(DOMAIN Phrases))

VARIABLES
  view,          \* "input", "loading" or "results": the section shown
  currentMode, builderLegs, betInput,
  resultsLegs,   \* [text, entity, bet_type, leg_id, locked]
  lockedLegIds,
  lastResponse,  \* the legs of lastResponse.evaluatedParlay
  request,       \* the fetch of runEvaluation under way
  isReEvaluation,
  evaluations    \* localStorage: how many evaluations the session remembers

appVars == <<view, currentMode, builderLegs, betInput, resultsLegs, lockedLegIds, lastResponse,
             request, isReEvaluation, evaluations>>
slipVars == <<currentMode, builderLegs, betInput>>
resultVars == <<resultsLegs, lockedLegIds, isReEvaluation>>
serverVars == <<lastResponse, request, evaluations>>

-----------------------------------------------------------------------------
(* Legs and texts.                                                         *)

\* Two legs of one entity and market share their id whatever their lines: the
\* answer's "value" is not the "line_value" that is read.
GenerateLegId(entity, market) == <<entity, market>>

AllPhrases(legs) == FlattenSeq([i \in DOMAIN legs |-> legs[i].text])
Joined(legs) == IF legs = <<>> THEN <<>> ELSE <<AllPhrases(legs)>>

\* The market the engine sees in a part, from its phrases' words.
MarketOrder == <<"player_prop", "total", "spread">>
PartMarket(part) ==
  LET seen == {Phrases[part[i]].market : i \in DOMAIN part}
      strong == SelectSeq(MarketOrder, LAMBDA m : m \in seen)
  IN  IF strong = <<>> THEN "ml" ELSE strong[1]

\* The legs of an answer: the builder's as they were sent, or the parts of the
\* text, whose first word goes for the entity.
EvaluatedLegs(r) ==
  IF r.legs # <<>>
  THEN [i \in DOMAIN r.legs |-> [text |-> r.legs[i].text, entity |-> r.legs[i].entity,
                                 bet_type |-> r.legs[i].market]]
  ELSE [i \in DOMAIN r.input |-> [text |-> r.input[i], entity |-> Phrases[r.input[i][1]].entity,
                                  bet_type |-> PartMarket(r.input[i])]]

\* As the builder keeps a leg of the results.
BuilderLeg(leg, market) == [text |-> leg.text, entity |-> leg.entity, market |-> market]

-----------------------------------------------------------------------------
(* The builder.                                                            *)

AppInit ==
  /\ view = "input" /\ currentMode = "builder" /\ builderLegs = <<>> /\ betInput = <<>>
  /\ resultsLegs = <<>> /\ lockedLegIds = {} /\ isReEvaluation = FALSE
  /\ lastResponse = <<>> /\ request = NoRequest /\ evaluations = 0

ReloadApp ==
  /\ view' = "input" /\ currentMode' = "builder" /\ builderLegs' = <<>> /\ betInput' = <<>>
  /\ resultsLegs' = <<>> /\ lockedLegIds' = {} /\ isReEvaluation' = FALSE
  /\ lastResponse' = <<>> /\ request' = NoRequest /\ UNCHANGED evaluations

SyncTextarea == betInput' = Joined(builderLegs')

SwitchMode ==
  /\ view = "input"
  /\ \E mode \in {"builder", "paste"} \ {currentMode} : currentMode' = mode
  /\ UNCHANGED <<view, builderLegs, betInput, resultVars, serverVars>>

TypeText(text) ==
  /\ view = "input" /\ currentMode = "paste"
  /\ betInput' = text
  /\ UNCHANGED <<view, currentMode, builderLegs, resultVars, serverVars>>

\* A leg without a market or a team is not added.
AddLeg(p) ==
  /\ view = "input" /\ currentMode = "builder" /\ Len(AllPhrases(builderLegs)) < MaxPhrases
  /\ builderLegs' = Append(builderLegs, [text |-> <<p>>] @@ Phrases[p])
  /\ SyncTextarea
  /\ UNCHANGED <<view, currentMode, resultVars, serverVars>>

RemoveLeg(i) ==
  /\ view = "input" /\ currentMode = "builder"
  /\ builderLegs' = RemoveAt(builderLegs, i)
  /\ SyncTextarea
  /\ UNCHANGED <<view, currentMode, resultVars, serverVars>>

-----------------------------------------------------------------------------
(* Evaluations.                                                            *)

\* runEvaluation up to its fetch: the builder's legs go along in builder mode.
RunEvaluation(input, legs) ==
  /\ view' = "loading"
  /\ request' = [input |-> input, legs |-> IF currentMode = "builder" THEN legs ELSE <<>>]

\* A fresh evaluation forgets the locks.
Submit ==
  /\ view = "input" /\ betInput # <<>>
  /\ isReEvaluation' = FALSE /\ lockedLegIds' = {}
  /\ RunEvaluation(betInput, builderLegs)
  /\ UNCHANGED <<slipVars, resultsLegs, lastResponse, evaluations>>

\* Mutant: the text of the builder's last edit is left in the text area.
MutSyncStateFromResults(legs) ==
  /\ builderLegs' = [i \in DOMAIN legs |-> BuilderLeg(legs[i], legs[i].bet_type)]
  /\ UNCHANGED betInput

SyncStateFromResults(legs) ==
  /\ builderLegs' = [i \in DOMAIN legs |-> BuilderLeg(legs[i], legs[i].bet_type)]
  /\ SyncTextarea

ReEvaluateParlay ==
  /\ view = "results" /\ resultsLegs # <<>>
  /\ isReEvaluation' = TRUE
  /\ SyncStateFromResults(resultsLegs)
  /\ RunEvaluation(Joined(resultsLegs), builderLegs')
  /\ UNCHANGED <<currentMode, resultsLegs, lockedLegIds, lastResponse, evaluations>>

\* A leg as the results keep it.
ResultLeg(leg, locked) ==
  [text |-> leg.text, entity |-> leg.entity, bet_type |-> leg.bet_type,
   leg_id |-> GenerateLegId(leg.entity, leg.bet_type), locked |-> locked]

\* Mutant: the locks are looked up under the position.
MutShowResults(legs) ==
  [i \in DOMAIN legs |->
     ResultLeg(legs[i], i \in DOMAIN resultsLegs /\ resultsLegs[i].locked)]

\* The legs as showResults lists them, locked where their ids are.
ShowResults(legs) ==
  [i \in DOMAIN legs |->
     ResultLeg(legs[i], GenerateLegId(legs[i].entity, legs[i].bet_type) \in lockedLegIds)]

\* What evaluate_proxy answers; a text or a tier that does not pass the airlock,
\* the rate limit, the switch of the service and an exception all refuse.
EvaluateProxy(r) ==
  {[status |-> s, legs |-> <<>>] : s \in {400, 429, 500, 503}}
    \cup {[status |-> 200, legs |-> EvaluatedLegs(r)]}

Answered(answer) ==
  /\ view = "loading"
  /\ lastResponse' = answer.legs
  /\ request' = NoRequest
  /\ IF answer.status = 200
     THEN /\ view' = "results"
          /\ resultsLegs' = ShowResults(answer.legs)
          /\ evaluations' = Min({evaluations + 1, MaxHistory})
     ELSE view' = "input" /\ UNCHANGED <<resultsLegs, evaluations>>
  /\ UNCHANGED <<slipVars, lockedLegIds, isReEvaluation>>

\* No answer: "Network error. Please try again."
Lost ==
  /\ view = "loading" /\ view' = "input" /\ request' = NoRequest
  /\ UNCHANGED <<slipVars, resultVars, lastResponse, evaluations>>

AppAnswer == view = "loading" /\ (Lost \/ \E answer \in EvaluateProxy(request) : Answered(answer))

-----------------------------------------------------------------------------
(* The results.                                                            *)

ToggleLegLock(i) ==
  LET leg == resultsLegs[i]
  IN  /\ view = "results"
      /\ resultsLegs' = [resultsLegs EXCEPT ![i].locked = ~@]
      /\ lockedLegIds' = IF leg.locked THEN lockedLegIds \ {leg.leg_id}
                         ELSE lockedLegIds \cup {leg.leg_id}
      /\ UNCHANGED <<view, slipVars, isReEvaluation, serverVars>>

\* The button of leg i, off when it is locked, names the leg by its id: the first
\* leg of that id goes, unless it is locked.
RemoveLegFromResults(i) ==
  LET first == SelectInSeq(resultsLegs, LAMBDA leg : leg.leg_id = resultsLegs[i].leg_id)
  IN  /\ view = "results" /\ ~resultsLegs[i].locked
      /\ ~resultsLegs[first].locked
      /\ resultsLegs' = RemoveAt(resultsLegs, first)
      /\ SyncStateFromResults(resultsLegs')
      /\ UNCHANGED <<view, currentMode, lockedLegIds, isReEvaluation, serverVars>>

ResetForm ==
  /\ view = "results" /\ view' = "input"
  /\ betInput' = <<>> /\ builderLegs' = <<>>
  /\ lockedLegIds' = {} /\ resultsLegs' = <<>> /\ isReEvaluation' = FALSE
  /\ UNCHANGED <<currentMode, serverVars>>

\* Without any leg left the ones of the last answer come back.
RefineParlay ==
  LET legs == IF resultsLegs # <<>> THEN resultsLegs ELSE lastResponse
      Market(leg) == IF leg.bet_type \in ToSet(MarketOrder) THEN leg.bet_type ELSE "moneyline"
  IN  /\ view = "results" /\ legs # <<>> /\ view' = "input"
      /\ builderLegs' = [i \in DOMAIN legs |-> BuilderLeg(legs[i], Market(legs[i]))]
      /\ SyncTextarea
      /\ currentMode' = "builder"
      /\ UNCHANGED <<resultVars, serverVars>>

AppNext ==
  \/ SwitchMode \/ \E text \in TypedTexts : TypeText(text)
  \/ \E p \in DOMAIN Phrases : AddLeg(p)
  \/ \E i \in DOMAIN builderLegs : RemoveLeg(i)
  \/ Submit \/ ReEvaluateParlay \/ AppAnswer
  \/ \E i \in DOMAIN resultsLegs : ToggleLegLock(i) \/ RemoveLegFromResults(i)
  \/ ResetForm \/ RefineParlay

-----------------------------------------------------------------------------
(* Properties.                                                             *)

\* The locked legs, each with its place among them.
Locked(legs) ==
  LET at == {i \in DOMAIN legs : legs[i].locked}
  IN  {<<Cardinality(at \cap 1..i), legs[i]>> : i \in at}
Ids(legs) == {GenerateLegId(legs[i].entity, legs[i].bet_type) : i \in DOMAIN legs}

\* A lock lasts as long as the slip is refined: removing legs leaves the locked
\* ones where they were, testing again in builder mode brings each leg back
\* locked or not as it was, and a fresh evaluation starts without a lock.  Legs
\* of one id, and the legs of a typed text tested again, are left out: what the
\* page says of them is LocksPreserved, and they may lose theirs.
LocksHold ==
  [][/\ view = "results" /\ Len(resultsLegs') < Len(resultsLegs) /\ resultsLegs' # <<>> =>
          Locked(resultsLegs') = Locked(resultsLegs)
     /\ view = "loading" /\ view' = "results" =>
          IF ~isReEvaluation THEN Locked(resultsLegs') = {}
          ELSE request.legs # <<>> /\ Cardinality(Ids(lastResponse)) = Len(lastResponse) =>
                 [i \in DOMAIN resultsLegs' |-> resultsLegs'[i].locked]
                   = [i \in DOMAIN resultsLegs |-> resultsLegs[i].locked]]_appVars

\* "Mark this as a re-evaluation (lock state should be preserved)" and "Lock state
\* is automatically restored in showResults" (app/routers/web_old.py:3274 and 3289):
\* after a second test the same bets are locked, whichever legs they come back in.
LockedPhrases(legs) == AllPhrases(SelectSeq(legs, LAMBDA leg : leg.locked))
LocksPreserved ==
  [][view = "loading" /\ view' = "results" /\ isReEvaluation =>
       LockedPhrases(resultsLegs') = LockedPhrases(resultsLegs)]_appVars

\* Builder, text area and results are one slip: the text says the builder's legs
\* unless it was typed in, and what is tested again is what the results list,
\* in the text, in the builder and in the legs sent.
OneSlip ==
  /\ betInput = Joined(builderLegs) \/ betInput \in TypedTexts
  /\ view = "loading" /\ isReEvaluation =>
       /\ request.input = Joined(resultsLegs) /\ betInput = request.input
       /\ request.legs # <<>> => AllPhrases(request.legs) = AllPhrases(resultsLegs)
=============================================================================
