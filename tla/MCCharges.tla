------------------------------- MODULE MCCharges -------------------------------
(* The limiter before the service, and the routes whose calls are paid.  The  *)
(* two share no state, so a behaviour is one of theirs, and the other stays   *)
(* at its start.                                                              *)
EXTENDS MCRateLimiter, MCPaidCalls

VARIABLE part

ChargesInit ==
  /\ part \in {"limiter", "paid"}
  /\ RateInit /\ PaidInit
  /\ part # "limiter" => window.client = CHOOSE c \in Callers : TRUE
  /\ part # "paid" => flags = CHOOSE f \in EnvFlags : TRUE

ChargesNext ==
  /\ part' = part
  /\ \/ part = "limiter" /\ RateNext /\ UNCHANGED <<paidVars, lightVars>>
     \/ part = "paid" /\ PaidNext /\ UNCHANGED vars

ChargesSpec == ChargesInit /\ [][ChargesNext]_<<part, vars, paidVars, lightVars>>
=============================================================================
