-------------------------------- MODULE Pages --------------------------------
(***************************************************************************)
(* One tab of a browser and the three user interfaces the routers render:  *)
(* the pages of /v1 (V1Builder.tla), /panel (Panel.tla) and the refine     *)
(* loop (RefineLoop.tla).  Going to one of them, or loading it again, ends *)
(* the script of the one before and forgets its requests; what it wrote to *)
(* localStorage stays.                                                     *)
(***************************************************************************)
EXTENDS V1Builder, Panel, RefineLoop

VARIABLE open \* the interface the tab shows

pagesVars == <<open, v1Vars, panelVars, appVars>>

Interfaces == {"v1", "panel", "app"}

PagesInit == open \in Interfaces /\ V1Init /\ PanelInit /\ AppInit

V1Closed == trail' = <<Build(<<>>, "link")>>

\* The address typed in, or the page loaded again.
OpenPage(interface) == open' = interface /\ V1Closed /\ Reload /\ ReloadApp

InV1(step) == open = "v1" /\ step /\ UNCHANGED <<open, panelVars, appVars>>
InPanel(step) == open = "panel" /\ step /\ UNCHANGED <<open, v1Vars, appVars>>
InApp(step) == open = "app" /\ step /\ UNCHANGED <<open, v1Vars, panelVars>>

PagesNext ==
  \/ InV1(V1Next) \/ InPanel(PanelNext) \/ InApp(AppNext)
  \/ \E interface \in Interfaces : OpenPage(interface)

Outcomes == {"ok", "refused", "lost"}

\* Every request is answered, or fails, in the end; the reader need do nothing.
PagesFairness ==
  /\ WF_pagesVars(InPanel(Loaded))
  /\ \A c \in Calls : WF_pagesVars(InPanel(\E o \in Outcomes : Answer(c, o) \/ Shows(c, o)))
  /\ WF_pagesVars(InApp(AppAnswer))

PagesSpec == PagesInit /\ [][PagesNext]_pagesVars /\ PagesFairness

-----------------------------------------------------------------------------
(* Property.                                                               *)

\* Whatever requests overlap, in whatever order they end and however they fail,
\* no page is left waiting: each area of the panel that shows a request under
\* way shows its end, its button comes back on, and the refine loop's spinner
\* gives way to results or to the slip.
NeverLeftWaiting ==
  /\ evaluateOff ~> ~evaluateOff
  /\ \A a \in Areas : (area[a] = "loading") ~> (area[a] # "loading")
  /\ (view = "loading") ~> (view # "loading")
=============================================================================
