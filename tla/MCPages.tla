------------------------------- MODULE MCPages -------------------------------
(* Slips of three legs on /v1 in a history of four pages; two requests at a   *)
(* time and two fields on the panel; on the refine loop two phrases added one *)
(* by one, or a text of three parts, two of them of one entity and market,    *)
(* which comes back as three legs to lock, remove and test again.             *)
EXTENDS Pages

MCPhrases == [lakers_over |-> [entity |-> "lakers", market |-> "total"],
              celtics_ml  |-> [entity |-> "celtics", market |-> "moneyline"]]
MCTexts == {<<<<"lakers_over">>, <<"celtics_ml">>, <<"lakers_over">>>>}
=============================================================================
