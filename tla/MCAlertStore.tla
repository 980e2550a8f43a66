----------------------------- MODULE MCAlertStore -----------------------------
(* Instance of AlertStore: a store of two alerts, four added; the shapes    *)
(* are the two player alerts of a session and of no session, and a source   *)
(* alert, which names no player and no team.                                *)
EXTENDS AlertStore

CONSTANTS k1, k2

MCShapes ==
  {[correlation_id |-> k1, player_name |-> k1, team |-> k1],
   [correlation_id |-> Null, player_name |-> k2, team |-> k1],
   [correlation_id |-> k1, player_name |-> Null, team |-> Null]}
=============================================================================
