----------------------------- MODULE MCRecords -----------------------------
(* Two callers, two evaluations for a history of one, three tokens.        *)
EXTENDS Records, TLC

Symmetric == Permutations(Threads) \cup Permutations(Tokens) \cup Permutations(Evaluations)
=============================================================================
