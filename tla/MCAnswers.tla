------------------------------- MODULE MCAnswers -------------------------------
(* What a user is given: the answer to a slip, and the plan that decides how  *)
(* much of it is shown.  The pipeline and the webhooks share no state, so a   *)
(* behaviour is one of theirs, and the other stays at its start.              *)
EXTENDS MCEvaluation, MCBilling

VARIABLE part

AnswersInit ==
  /\ part \in {"pipeline", "billing"}
  /\ EvaluationInit /\ BillingInit
  /\ part # "pipeline" => flags = CHOOSE f \in EnvFlags : TRUE
  /\ part # "billing" => orderly

AnswersNext ==
  /\ part' = part
  /\ \/ part = "pipeline" /\ EvaluationNext /\ UNCHANGED billingVars
     \/ part = "billing" /\ BillingNext /\ UNCHANGED evalVars

AnswersSpec == AnswersInit /\ [][AnswersNext]_<<part, evalVars, billingVars>> /\ Delivery
=============================================================================
