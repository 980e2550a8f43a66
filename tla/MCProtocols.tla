----------------------------- MODULE MCProtocols -----------------------------
(* One game whose spread and score move by the thresholds, by less, and whose *)
(* providers fail.                                                           *)
EXTENDS Protocols

MCFeed(spread, total, score, odds_fail, score_fail) ==
  [spread |-> spread, total |-> total, score |-> score,
   odds_fail |-> odds_fail, score_fail |-> score_fail]
MCFeeds == {MCFeed(-9, 449, None, FALSE, FALSE), MCFeed(-7, None, 100, FALSE, FALSE),
            MCFeed(-8, 453, 110, FALSE, FALSE), MCFeed(-9, 449, 100, TRUE, TRUE)}
=============================================================================
