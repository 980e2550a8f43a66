------------------------------ MODULE MCBilling ------------------------------
(* Instances of Billing: see the configurations.                             *)
EXTENDS Billing
=============================================================================
