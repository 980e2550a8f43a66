------------------------------ MODULE V1Builder ------------------------------
(***************************************************************************)
(* The pages of app/routers/v1_ui.py, in one tab of a browser.  The server *)
(* keeps nothing: the legs of a slip are in the hidden field of the forms  *)
(* of the page, as JSON between apostrophes, and in the address the        *)
(* builder is redirected to.  A page is what its handler rendered, via     *)
(* says whether a form or a link led to it.                                *)
(***************************************************************************)
EXTENDS Integers, SequencesExt

CONSTANTS
  MaxSlip,  \* bound: legs of a slip
  MaxTrail  \* bound: pages of the tab's history

VARIABLE trail \* the pages of the tab, the last one shown

v1Vars == <<trail>>

Shown == trail[Len(trail)]

Lines == {"none", "number", "quote"} \* quote: what was typed holds an apostrophe
Types == {"ml", "lined"} \* lined: spread, total and team_total, which show their line
Tiers == {"good", "better", "best"}

-----------------------------------------------------------------------------
(* What the handlers render.                                               *)

\* The legs the forms of a page send: an apostrophe in any of them ends the
\* attribute, and what is left of the JSON is read as no legs.
Field(legs) == IF \E i \in DOMAIN legs : legs[i].line = "quote" THEN <<>> ELSE legs

Linked(at) == [at |-> at, via |-> "link", legs |-> <<>>]

\* v1_build.
Build(legs, via) ==
  [at |-> "build", via |-> via, legs |-> legs, field |-> Field(legs),
   forms |-> {"add"} \cup {f \in {"evaluate"} : Len(legs) >= 2}
               \cup {f \in {"more"} : Len(legs) = 1} \cup {f \in {"clear"} : legs # <<>>}]

\* The text a leg is shown and evaluated by.
Display(leg) ==
  [type |-> leg.type, line |-> IF leg.type = "ml" THEN "none"
                               ELSE IF leg.line = "none" THEN "zero" ELSE leg.line]

\* Mutant: the redirect after a choice without a team forgets the slip.
MutAddTo(legs, team, leg) == IF ~team THEN <<>> ELSE Append(legs, leg)

\* v1_build_add: nothing is added without a team.
AddTo(legs, team, leg) == IF ~team THEN legs ELSE Append(legs, leg)

\* How an evaluation ends: with less than two legs it is refused; otherwise the
\* airlock may find the text too long, and the engine may fail.
Endings(legs) == IF Len(legs) >= 2 THEN {"evaluated", "invalid", "failed"} ELSE {"short"}

\* v1_evaluate: the displays go to the engine one to a line, which it does not
\* tell apart.
Debrief(legs, tier, outcome) ==
  [at |-> "debrief", via |-> "form", legs |-> legs, tier |-> tier,
   texts |-> [i \in DOMAIN legs |-> Display(legs[i])],
   outcome |-> outcome, badge |-> "gray"]

-----------------------------------------------------------------------------
(* What the reader of the page does.                                       *)

Go(page) == Len(trail) < MaxTrail /\ trail' = Append(trail, page)

V1Init == trail \in {<<Linked("home")>>, <<Build(<<>>, "link")>>}

\* The navigation, and the links back to the builder.
Follow(at) == Go(IF at = "build" THEN Build(<<>>, "link") ELSE Linked(at))

Add(team, leg) ==
  /\ Shown.at = "build" /\ Len(Shown.legs) < MaxSlip
  /\ Go(Build(AddTo(Shown.field, team, leg), "form"))

Evaluate(tier) ==
  /\ Shown.at = "build" /\ "evaluate" \in Shown.forms
  /\ \E outcome \in Endings(Shown.field) : Go(Debrief(Shown.field, tier, outcome))

Back == Len(trail) > 1 /\ trail' = Front(trail)

V1Next ==
  \/ \E at \in {"home", "history", "account", "build"} : Follow(at)
  \/ \E team \in BOOLEAN, type \in Types, line \in Lines : Add(team, [type |-> type, line |-> line])
  \/ \E tier \in Tiers : Evaluate(tier)
  \/ Back

-----------------------------------------------------------------------------
(* Property.                                                               *)

\* However the reader goes back and forth, a form never loses a leg of the page
\* it is on: the next page has them all, in their order, and at most one more,
\* and a slip it evaluates is whole and never too short.  Only an apostrophe in a
\* line breaks this: the slip on the page is then read as empty.
FormsKeepLegs ==
  \A i \in 1..Len(trail) - 1 :
    LET here == trail[i] there == trail[i + 1]
    IN  there.via = "form" =>
          IF here.field = here.legs
          THEN /\ IsPrefix(here.legs, there.legs)
               /\ Len(there.legs) <= Len(here.legs) + 1
               /\ there.at = "debrief" =>
                    there.legs = here.legs /\ there.outcome # "short"
          ELSE Len(there.legs) <= 1 /\ (there.at = "debrief" => there.outcome = "short")
=============================================================================
