------------------------------- MODULE Sherlock -------------------------------
(***************************************************************************)
(* The investigation engine (sherlock/): a claim is locked, evidence is    *)
(* mapped, arguments are laid out, a verdict is drafted and audited, up to *)
(* a given number of times; the audit and the verdict of the last round    *)
(* are the report.  One step per round.                                    *)
(*                                                                         *)
(* A claim is known by what its heuristics look at: its length, the parts  *)
(* of a conjunction and whether one of the words that make it falsifiable  *)
(* occurs.  Scores count 1/600000 (One), which makes every weight, average *)
(* and ratio of the code exact; a reliability is a percentage.             *)
(***************************************************************************)
EXTENDS Integers, SequencesExt

CONSTANTS
  NoPlaceholder \* the evidence policy asks for no placeholder

One     == 600000
Percent == 6000

VARIABLES
  claim,     \* the ClaimInput: [length, parts, falsifiable, evidence,
             \* placeholder, iterations, threshold]
  rounds,    \* IterationArtifacts of the rounds made: [verdict, audit, mutations]
  verdict    \* the final verdict so far, NoVerdict before the first round

engineVars == <<claim, rounds, verdict>>

-----------------------------------------------------------------------------
(* Steps 1 to 3.                                                           *)

\* Two of the subclaims, at most, become arguments.
Subclaims(c) ==
  LET all == c.parts + (IF c.length = "long" THEN 1 ELSE 0)
  IN  IF all > 2 THEN 2 ELSE all

Evidence(c) ==
  IF c.evidence = <<>> /\ c.placeholder # NoPlaceholder
  THEN <<[tier |-> 2, reliability |-> c.placeholder, cited |-> TRUE]>>
  ELSE c.evidence

HasEvidence(c) == Evidence(c) # <<>>

TotalReliability(c) ==
  LET items == Evidence(c)
  IN  IF items = <<>> THEN 0
      ELSE (Percent * SumFunction([i \in DOMAIN items |-> items[i].reliability])) \div Len(items)

\* One argument against, which attacks; in favour the claim itself, the
\* evidence and the subclaims.
ProCount(c) == 1 + (IF HasEvidence(c) THEN 1 ELSE 0) + Subclaims(c)
ConCount    == 1
Nodes(c)    == ProCount(c) + ConCount

-----------------------------------------------------------------------------
(* Step 4: scoring.                                                        *)

OverallScore(c) ==
  LET evidence == IF HasEvidence(c) THEN TotalReliability(c) ELSE (One * 3) \div 10
      balance  == (One * ProCount(c)) \div Nodes(c)
      falsifiable == IF c.falsifiable THEN One ELSE 0
  IN  (evidence * 4 + balance * 3 + falsifiable * 3) \div 10

Least(a, b) == IF a < b THEN a ELSE b

ScoreToVerdict(score) ==
  CASE score >= 85 * Percent -> [level |-> "true", confidence |-> Least(score, 95 * Percent)]
    [] score >= 70 * Percent /\ score < 85 * Percent ->
         [level |-> "likely_true", confidence |-> score]
    [] score >= 50 * Percent /\ score < 70 * Percent ->
         [level |-> "unclear", confidence |-> score]
    [] score >= 30 * Percent /\ score < 50 * Percent ->
         [level |-> "likely_false", confidence |-> One - score]
    [] OTHER -> [level |-> "false", confidence |-> Least(One - score, 95 * Percent)]

NonFalsifiable == [level |-> "non_falsifiable", confidence |-> One]

-----------------------------------------------------------------------------
(* Step 5: the audit (audit.py).  A failure is a name for its text.        *)

ClarityFailures(c) == {f \in {"short"} : c.length = "short"}

EvidenceFailures(c) ==
  LET items == Evidence(c)
  IN  IF items = <<>> THEN {"no_evidence"}
      ELSE {f \in {"tier_3"} : \A i \in DOMAIN items : items[i].tier = 3}
           \cup {f \in {"uncited"} : \E i \in DOMAIN items : ~items[i].cited}

\* A sure verdict over balanced arguments.
ReasoningFailures(c, v) ==
  {f \in {"overconfident"} : /\ v.confidence > 90 * Percent
                             /\ 3 * Nodes(c) < 10 * ProCount(c)
                             /\ 10 * ProCount(c) < 7 * Nodes(c)}

CounterFailures(c) == {f \in {"few_counter"} : 10 * ConCount < 3 * Nodes(c)}

ScopeFailures(c) ==
  {f \in {"not_falsifiable"} : ~c.falsifiable}
    \cup {f \in {"unsupported"} : c.falsifiable /\ ~HasEvidence(c)}

ConclusionFailures(c, v) ==
  {f \in {"sure_without_evidence"} : v.confidence > 80 * Percent /\ ~HasEvidence(c)}
    \cup {f \in {"extreme"} : v.level \in {"true", "false"} /\ v.confidence < 70 * Percent}

Failures(c, v) ==
  ClarityFailures(c) \cup EvidenceFailures(c) \cup ReasoningFailures(c, v)
    \cup CounterFailures(c) \cup ScopeFailures(c) \cup ConclusionFailures(c, v)

\* What a failure takes off its category, whose score starts at One.
Penalty(f) == CASE f \in {"short", "overconfident", "unsupported"} -> 20 * Percent
                [] f \in {"not_falsifiable", "extreme"} -> 30 * Percent
                [] f = "sure_without_evidence" -> 40 * Percent
                [] OTHER -> 0
Deducted(failures) == One - MapThenSumSet(Penalty, failures)

EvidenceScore(c) ==
  LET low    == "tier_3" \in EvidenceFailures(c)
      uncited == "uncited" \in EvidenceFailures(c)
      tiered == IF low THEN (TotalReliability(c) * 7) \div 10 ELSE TotalReliability(c)
  IN  IF ~HasEvidence(c) THEN One \div 2
      ELSE IF uncited THEN (tiered * 9) \div 10 ELSE tiered

CounterScore(c) == One \div 2 + (One * ConCount) \div (2 * Nodes(c))

\* The weights of AUDIT_WEIGHTS.
WeightedScore(c, v) ==
  (10 * Deducted(ClarityFailures(c)) + 30 * EvidenceScore(c)
     + 25 * Deducted(ReasoningFailures(c, v)) + 20 * CounterScore(c)
     + 10 * Deducted(ScopeFailures(c)) + 5 * Deducted(ConclusionFailures(c, v))) \div 100

RunLogicAudit(c, v) ==
  [score |-> WeightedScore(c, v), failures |-> Failures(c, v),
   passed |-> WeightedScore(c, v) >= c.threshold * Percent /\ Failures(c, v) = {}]

-----------------------------------------------------------------------------
(* Step 6: what mutation.py proposes, by the words of the failures: a text *)
(* of each row contains the words its proposals look for.                  *)

Mentions(word) ==
  CASE word = "claim" -> {"short", "not_falsifiable", "unsupported"}
    [] word = "evidence" -> {"no_evidence", "tier_3", "uncited", "unsupported",
                             "sure_without_evidence"}
    [] word = "argument" -> {"overconfident", "few_counter"}
    [] word = "counter" -> {"few_counter"}

ProposeMutations(a) ==
  {word \in {"claim", "evidence", "argument", "counter"} :
     a.failures \cap Mentions(word) # {}}

-----------------------------------------------------------------------------
(* The loop.                                                               *)

Round(c, mutating) ==
  LET v == ScoreToVerdict(OverallScore(c))
      a == RunLogicAudit(c, v)
  IN  [verdict |-> v, audit |-> a,
       mutations |-> IF mutating /\ ~a.passed THEN ProposeMutations(a) ELSE {}]

EvidenceCeilingReached(c, i) == i >= 2 /\ ~HasEvidence(c)

\* The break of the loop, evaluated after each round.
Stopped ==
  /\ rounds # <<>>
  /\ \/ Last(rounds).audit.passed
     \/ ~claim.falsifiable
     \/ EvidenceCeilingReached(claim, Len(rounds))
     \/ Len(rounds) = claim.iterations

NoVerdict == [level |-> "none", confidence |-> 0]

StartInvestigation(c) == claim' = c /\ rounds' = <<>> /\ verdict' = NoVerdict

RunIteration(mutating) ==
  /\ ~Stopped
  /\ rounds' = Append(rounds, Round(claim, mutating))
  /\ verdict' = IF ~Last(rounds').audit.passed /\ ~claim.falsifiable
                THEN NonFalsifiable ELSE Last(rounds').verdict
  /\ UNCHANGED claim
=============================================================================
