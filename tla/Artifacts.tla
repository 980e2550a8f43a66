------------------------------- MODULE Artifacts -------------------------------
(***************************************************************************)
(* What an evaluation leaves for the panels of Sherlock and DNA: the       *)
(* artifact translated from an investigation (app/sherlock_hook.py), its   *)
(* explanation (app/explainability_adapter.py), the artifacts emitted from *)
(* the evaluation (app/dna/artifact_emitter.py), the two contracts they    *)
(* pass (app/dna/contract_validator.py, app/dna/ui_contract_v1.py) and the *)
(* proof summary (app/proof_summary.py).                                   *)
(*                                                                         *)
(* An artifact is [type, key]: its other fields are the ones its type      *)
(* requires.                                                               *)
(***************************************************************************)
EXTENDS Integers, SequencesExt

CONSTANT Nothing

\* What the hook and the explainability panel report, and Nothing where they report none.
HookVerdicts == {"true", "likely_true", "unclear", "likely_false", "false", "non_falsifiable",
                 "error"}
Counts == [weights : Nat, constraints : Nat, conflicts : Nat, baseline : 0..1, drifts : 0..1,
           tradeoffs : 0..1, lineage : Nat]
HookResults ==
  [verdict : HookVerdicts, iterations : Nat, passed : BOOLEAN,
   dna : {Nothing} \cup [quarantined : BOOLEAN, primitives : Counts]]
Explanations ==
  [blocks : Seq({"investigation_summary", "claim", "verdict", "audit", "dna_preview"}),
   passed : BOOLEAN, verdict : HookVerdicts, primitives : {Nothing} \cup Counts]

ASSUME NothingAssumption == Nothing \notin HookResults /\ Nothing \notin Explanations

-----------------------------------------------------------------------------
(* The hook.  An outcome is an investigation's last round, or Nothing when *)
(* the engine raised.                                                      *)

\* How many primitives of each kind; a failed audit quarantines the artifact,
\* which then has a drift in place of the baseline and the trade-off.
TranslateToDna(audit) ==
  [quarantined |-> ~audit.passed,
   primitives |->
     [weights |-> 2, constraints |-> 1, conflicts |-> 0,
      baseline |-> IF audit.passed THEN 1 ELSE 0, drifts |-> IF audit.passed THEN 0 ELSE 1,
      tradeoffs |-> IF audit.passed THEN 1 ELSE 0, lineage |-> 1]]

\* Mutant: what is recorded was approved, whatever the audit said.
MutHookResult(outcome, level, count, recording) ==
  IF outcome = Nothing
  THEN [verdict |-> "error", iterations |-> 0, passed |-> FALSE, dna |-> Nothing]
  ELSE [verdict |-> level, iterations |-> count, passed |-> outcome.audit.passed \/ recording,
        dna |-> IF recording THEN TranslateToDna(outcome.audit) ELSE Nothing]

HookResult(outcome, level, count, recording) ==
  IF outcome = Nothing
  THEN [verdict |-> "error", iterations |-> 0, passed |-> FALSE, dna |-> Nothing]
  ELSE [verdict |-> level, iterations |-> count, passed |-> outcome.audit.passed,
        dna |-> IF recording THEN TranslateToDna(outcome.audit) ELSE Nothing]

\* The blocks of the explanation, Nothing without a result.
Explainability(hook) ==
  IF hook = Nothing THEN Nothing
  ELSE [blocks |-> <<"investigation_summary", "claim", "verdict", "audit">>
                     \o (IF hook.dna # Nothing THEN <<"dna_preview">> ELSE <<>>),
        passed |-> hook.passed, verdict |-> hook.verdict,
        primitives |-> IF hook.dna # Nothing THEN hook.dna.primitives ELSE Nothing]

-----------------------------------------------------------------------------
(* The emitter: scores are in 1/pt of a point.                             *)

Constraint(score, legs, failure, pt) ==
  IF score > 60 * pt
  THEN [type |-> "constraint", key |-> "high_fragility",
        severity |-> IF score > 80 * pt THEN "error" ELSE "warning"]
  ELSE [type |-> "constraint", severity |-> "warning",
        key |-> IF legs > 6 THEN "leg_count_warning" ELSE failure]

AuditStatus(signal) == IF signal \in {"blue", "green", "yellow"} THEN "PASS" ELSE "FAIL"

\* The advisory in the audit note: what was checked, by the same thresholds as
\* the panels.
SherlockAdvisory(score, legs, penalty, failure, signal, pt) ==
  [structure |-> IF legs = 1 THEN "single" ELSE IF legs <= 3 THEN "analyzed" ELSE "elevated",
   correlated |-> penalty > 0,
   fragility |-> CASE score <= 15 * pt -> "low"
                   [] score > 15 * pt /\ score <= 35 * pt -> "moderate"
                   [] score > 35 * pt /\ score <= 60 * pt -> "elevated"
                   [] OTHER -> "high",
   concern |-> failure, verdict |-> signal]

EmitArtifacts(score, legs, penalty, failure, signal, pt) ==
  <<[type |-> "weight", key |-> "correlation_penalty", value |-> penalty],
    Constraint(score, legs, failure, pt),
    [type |-> "audit_note", key |-> AuditStatus(signal),
     advisory |-> SherlockAdvisory(score, legs, penalty, failure, signal, pt)]>>

ArtifactCounts(artifacts) ==
  [t \in {artifacts[i].type : i \in DOMAIN artifacts} |->
     Cardinality({i \in DOMAIN artifacts : artifacts[i].type = t})]

-----------------------------------------------------------------------------
(* The contracts.                                                          *)

ContractTypes == {"weight", "constraint", "lineage", "evidence", "audit_note"}
UITypes == {"weight", "constraint", "audit_note"}

\* Without its contract the validator refuses everything.
ValidateDnaArtifacts(artifacts, contractFound) ==
  LET ok == \/ artifacts = <<>>
            \/ /\ contractFound
               /\ \A i \in DOMAIN artifacts : artifacts[i].type \in ContractTypes
  IN  [ok |-> ok, quarantined |-> ~ok, count |-> Len(artifacts)]

\* A type the page does not know is shown as unknown, not refused.
ValidateForUi(artifacts) ==
  [i \in DOMAIN artifacts |->
     [type |-> artifacts[i].type, key |-> artifacts[i].key,
      unknown |-> artifacts[i].type \notin UITypes]]

-----------------------------------------------------------------------------
(* The proof summary.  Quarantined artifacts are shown all the same.       *)

ProofSummary(flags, explained, validation, artifacts, counts) ==
  [sherlock_ran |-> explained # Nothing,
   audit |-> IF explained = Nothing THEN "NOT_RUN"
             ELSE IF explained.passed THEN "PASS" ELSE "FAIL",
   counts |-> counts,
   samples |-> IF artifacts = <<>> THEN <<[type |-> "status"]>>
               ELSE SubSeq(artifacts, 1, IF Len(artifacts) > 5 THEN 5 ELSE Len(artifacts)),
   contract |-> IF validation.ok THEN "PASS" ELSE "FAIL",
   quarantined |-> validation.quarantined,
   flags |-> flags]
=============================================================================
