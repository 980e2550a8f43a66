-------------------------------- MODULE Panel --------------------------------
(***************************************************************************)
(* The script of the page /panel (app/routers/panel.py): its slip of a few *)
(* fields, the requests it sends and the areas their answers are written   *)
(* to.  Nothing keeps two requests from being under way: only one of the   *)
(* two buttons that evaluate is disabled meanwhile, and the file inputs    *)
(* never are.                                                              *)
(*                                                                         *)
(* Answers come in any order.  What they contain beyond the fields the     *)
(* page reads is left out.                                                 *)
(***************************************************************************)
EXTENDS Integers, FiniteSetsExt

CONSTANTS
  PlanNames,
  Fields,   \* the fields for legs
  MaxLines, \* bound: lines read in an image
  Calls,    \* bound: requests under way at the same time
  None

PanelAssumption == Fields \in Nat \ {0} /\ MaxLines \in Nat
ASSUME PanelAssumption

VARIABLES
  loaded,     \* DOMContentLoaded's handler has seen both status requests answered
  slip,       \* fields filled in
  legCount,   \* what the page says it detects
  plan, savedPlan, \* the selection, and localStorage's
  area,       \* area of the page -> what is in it
  evaluateOff, \* evaluateBtn.disabled
  inFlight    \* call -> None or what it was for

panelVars == <<loaded, slip, legCount, plan, savedPlan, area, evaluateOff, inFlight>>

Areas == {"status", "player", "demo"}

\* The area a request reports to.
AreaOf(what) == CASE what \in {"text", "image"} -> "status"
                  [] what = "narration" -> "player" [] what = "demo" -> "demo"

Write(a, what) == area' = [area EXCEPT ![a] = what]

\* The page as the server sends it; only localStorage outlives it.
Opened ==
  [loaded |-> FALSE, slip |-> 1, legCount |-> 1, plan |-> "good",
   area |-> [a \in Areas |-> "empty"], evaluateOff |-> FALSE,
   inFlight |-> [c \in Calls |-> None]]

PanelInit ==
  /\ loaded = Opened.loaded /\ slip = Opened.slip /\ legCount = Opened.legCount
  /\ plan = Opened.plan /\ savedPlan = None /\ area = Opened.area
  /\ evaluateOff = Opened.evaluateOff
  /\ inFlight = Opened.inFlight

Reload ==
  /\ loaded' = Opened.loaded /\ slip' = Opened.slip /\ legCount' = Opened.legCount
  /\ plan' = Opened.plan /\ area' = Opened.area /\ evaluateOff' = Opened.evaluateOff
  /\ inFlight' = Opened.inFlight
  /\ UNCHANGED savedPlan

-----------------------------------------------------------------------------
(* Requests.                                                               *)

Send(c, what) == inFlight[c] = None /\ inFlight' = [inFlight EXCEPT ![c] = what]

\* A request of the slip's area: the button goes off.
Track(c, what) ==
  /\ Send(c, what) /\ evaluateOff' = TRUE /\ Write("status", "loading")

\* evaluateSlip, from the button that is disabled or from the bottom bar.
EvaluateSlip(c, bottom) ==
  /\ bottom \/ ~evaluateOff
  /\ slip > 0
  /\ Track(c, "text")
  /\ UNCHANGED <<loaded, slip, legCount, plan, savedPlan>>

\* handleFileSelect: a file that is no image or too large goes no further.
HandleFileSelect(c, valid) ==
  /\ valid
  /\ Track(c, "image")
  /\ UNCHANGED <<loaded, slip, legCount, plan, savedPlan>>

PlayNarration(c) ==
  /\ IF plan # "best" THEN Write("player", "locked") /\ UNCHANGED inFlight
     ELSE Send(c, "narration") /\ Write("player", "loading")
  /\ UNCHANGED <<loaded, slip, legCount, plan, savedPlan, evaluateOff>>

LoadDemo(c) ==
  /\ Send(c, "demo") /\ Write("demo", "loading")
  /\ UNCHANGED <<loaded, slip, legCount, plan, savedPlan, evaluateOff>>

\* The metrics an answer has and the ones renderResults reads.
MetricsSent == {"raw_fragility", "final_fragility", "leg_penalty", "correlation_penalty",
                "correlation_multiplier"}
MetricsRead == {"final_fragility", "raw_fragility", "leg_penalty", "correlation_penalty",
                "multiplier"}

\* renderResults throws at a metric that is not there, which the page takes for
\* an error of the network.
RenderResults == IF MetricsRead \subseteq MetricsSent THEN "success" ELSE "error"

Ended(c) == inFlight' = [inFlight EXCEPT ![c] = None]

\* Mutant: the button comes back on only after an answer.
MutAnswer(c, outcome) ==
  /\ inFlight[c] \in {"text", "image"} /\ outcome \in {"ok", "refused", "lost"}
  /\ Ended(c)
  /\ evaluateOff' = (outcome = "lost" /\ evaluateOff)
  /\ Write("status", IF outcome = "ok" THEN RenderResults ELSE "error")
  /\ UNCHANGED <<loaded, slip, legCount, plan, savedPlan>>

\* The rest of evaluateSlip and of handleImageUpload; an image that was read
\* fills the fields before its results are rendered, the lines past the last
\* field dropped.
Answer(c, outcome) ==
  /\ inFlight[c] \in {"text", "image"}
  /\ IF outcome = "ok" /\ inFlight[c] = "image"
     THEN /\ \E lines \in 1..MaxLines : slip' = Min({lines, Fields})
          /\ legCount' = slip'
     ELSE UNCHANGED <<slip, legCount>>
  /\ Ended(c)
  /\ Write("status", IF outcome = "ok" THEN RenderResults ELSE "error")
  /\ evaluateOff' = FALSE
  /\ UNCHANGED <<loaded, plan, savedPlan>>

\* The rest of playNarration and of loadDemo.
Shows(c, outcome) ==
  /\ inFlight[c] \in {"narration", "demo"}
  /\ Write(AreaOf(inFlight[c]), IF outcome = "ok" THEN "content" ELSE "error")
  /\ Ended(c)
  /\ UNCHANGED <<loaded, slip, legCount, plan, savedPlan, evaluateOff>>

-----------------------------------------------------------------------------
(* The page and its reader.                                                *)

\* Until the two status requests are answered nothing listens to the fields or
\* to the selection; then whatever the status area said becomes "idle" and the
\* plan saved replaces the one selected.
Loaded ==
  /\ ~loaded /\ loaded' = TRUE
  /\ legCount' = slip
  /\ Write("status", "idle")
  /\ plan' = IF savedPlan \in PlanNames THEN savedPlan ELSE plan
  /\ UNCHANGED <<slip, savedPlan, evaluateOff, inFlight>>

TypeLegs ==
  /\ \E n \in 0..Fields : slip' = n
  /\ legCount' = IF loaded THEN slip' ELSE legCount
  /\ UNCHANGED <<loaded, plan, savedPlan, area, evaluateOff, inFlight>>

SelectPlan(p) ==
  /\ plan' = p /\ savedPlan' = IF loaded THEN p ELSE savedPlan
  /\ UNCHANGED <<loaded, slip, legCount, area, evaluateOff, inFlight>>

PanelNext ==
  \/ Loaded \/ TypeLegs \/ \E p \in PlanNames : SelectPlan(p)
  \/ \E c \in Calls :
       \/ \E bottom \in BOOLEAN : EvaluateSlip(c, bottom)
       \/ \E valid \in BOOLEAN : HandleFileSelect(c, valid)
       \/ PlayNarration(c) \/ LoadDemo(c)
       \/ \E outcome \in {"ok", "refused", "lost"} : Answer(c, outcome) \/ Shows(c, outcome)
=============================================================================
