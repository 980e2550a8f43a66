-------------------------------- MODULE MCSlips --------------------------------
(* A parlay edited and evaluated, and the records kept of evaluations.  The   *)
(* two share no state, so a behaviour is one of theirs, and the other stays   *)
(* at its start.                                                              *)
EXTENDS MCParlay, MCRecords

VARIABLE part

SlipsInit ==
  /\ part \in {"parlay", "records"}
  /\ ParlayInit /\ RecordsInit

SlipsNext ==
  /\ part' = part
  /\ \/ part = "parlay" /\ ParlayNext /\ UNCHANGED recordVars
     \/ part = "records" /\ RecordsNext /\ UNCHANGED parlayVars

SlipsSpec == SlipsInit /\ [][SlipsNext]_<<part, parlayVars, recordVars>>
=============================================================================
