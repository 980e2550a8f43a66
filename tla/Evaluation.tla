------------------------------ MODULE Evaluation ------------------------------
(***************************************************************************)
(* An evaluation from the request to the response: the airlock             *)
(* (app/airlock.py), then run_evaluation (app/pipeline.py): the analysis   *)
(* of the slip, the investigation of Sherlock's hook round by round, the   *)
(* panels and the artifacts, and what is stored for the next evaluation.   *)
(* A library client of Sherlock may run investigations of its own.         *)
(*                                                                         *)
(* The flags are read from the environment when the server starts.         *)
(***************************************************************************)
EXTENDS Pipeline, Sherlock, Artifacts

CONSTANTS
  Requests,     \* raw requests: [text, oversize, canonical, tier]
  EnvFlags,     \* the flags the environment may set
  Followups,    \* the ones a second evaluation may be
  Placeholders, \* reliabilities the hash of a claim may give its placeholder
  Claims,       \* claims of the library's clients
  MaxRequests   \* bound: requests evaluated

VARIABLES
  flags,     \* [sherlock, recording, contract]: two flags, the contract's file
  phase,     \* idle, received, investigating, failed, reporting, library
  slip,      \* the NormalizedInput
  snapshots, \* parlay id -> snapshot and signal, never removed
  report     \* the PipelineResponse, None before the first and while one is made

evalVars == <<flags, phase, slip, snapshots, report, engineVars>>

NoClaim == [length |-> "short", parts |-> 0, falsifiable |-> FALSE, evidence |-> <<>>,
            placeholder |-> NoPlaceholder, iterations |-> 1, threshold |-> 85]

\* The parlay id of the evaluation under way, which is its session id too.
Session == Cardinality(DOMAIN snapshots)

\* A claim about this slip always holds one of the words that make a claim
\* falsifiable, no conjunction, and is neither short nor long.
DerivedClaim(placeholder) ==
  [length |-> "medium", parts |-> 0, falsifiable |-> TRUE, evidence |-> <<>>,
   placeholder |-> placeholder, iterations |-> 3, threshold |-> 85]

Investigated == {NoClaim} \cup {DerivedClaim(r) : r \in Placeholders} \cup Claims

\* What the models of a claim and of its evidence demand; a reliability is a
\* percentage.
ASSUME EvaluationAssumption ==
  /\ EnvFlags \subseteq [sherlock : BOOLEAN, recording : BOOLEAN, contract : BOOLEAN]
  /\ Placeholders \subseteq 0..100
  /\ \A c \in Claims :
       /\ c.parts \in Nat /\ c.falsifiable \in BOOLEAN
       /\ c.evidence \in Seq([tier : 1..3, reliability : 0..100, cited : BOOLEAN])
       /\ c.placeholder = NoPlaceholder \/ c.placeholder \in 0..100
  /\ \A c \in Investigated, mutating \in BOOLEAN : Round(c, mutating) # Nothing
  /\ \A raw \in Requests \cup Followups :
       raw.text \in Seq(DOMAIN Phrase) /\ raw.canonical \in Seq(ToSet(raw.canonical))
  /\ None \notin {"EMPTY_INPUT", "INPUT_TOO_LONG", "INVALID_TIER"}

-----------------------------------------------------------------------------
(* The airlock.                                                            *)

Tiers == {"good", "better", "best"}

NormalizeTier(tier) == IF tier \in {"none", "free"} THEN "good" ELSE tier

AirlockError(raw) ==
  IF raw.text = <<>> THEN "EMPTY_INPUT"
  ELSE IF raw.oversize THEN "INPUT_TOO_LONG"
  ELSE IF NormalizeTier(raw.tier) \notin Tiers THEN "INVALID_TIER"
  ELSE None

Ingest(raw) ==
  /\ phase = "idle" /\ Session < MaxRequests
  /\ IF AirlockError(raw) # None
     THEN /\ report' = [error |-> AirlockError(raw)]
          /\ UNCHANGED <<phase, slip, engineVars>>
     ELSE /\ StartInvestigation(NoClaim)
          /\ slip' = [text |-> raw.text, canonical |-> raw.canonical,
                      tier |-> NormalizeTier(raw.tier)]
          /\ phase' = "received" /\ report' = None
  /\ UNCHANGED <<flags, snapshots>>

-----------------------------------------------------------------------------
(* Sherlock's hook.                                                        *)

RunSherlockHook ==
  /\ phase = "received"
  /\ IF flags.sherlock
     THEN /\ \E r \in Placeholders : StartInvestigation(DerivedClaim(r))
          /\ phase' = "investigating"
     ELSE /\ phase' = "reporting"
          /\ UNCHANGED engineVars
  /\ UNCHANGED <<flags, slip, snapshots, report>>

\* The hook's engine has its mutations disabled.
Iterate ==
  /\ phase \in {"investigating", "library"}
  /\ RunIteration(phase = "library")
  /\ UNCHANGED <<flags, phase, slip, snapshots, report>>

\* Any exception of the engine ends the investigation, not the evaluation, and
\* loses its rounds.
EngineFails ==
  /\ phase = "investigating"
  /\ phase' = "failed"
  /\ StartInvestigation(NoClaim)
  /\ UNCHANGED <<flags, slip, snapshots, report>>

Hooked ==
  IF ~flags.sherlock THEN Nothing
  ELSE HookResult(IF phase = "failed" THEN Nothing ELSE Last(rounds),
                  IF phase = "failed" THEN "error" ELSE verdict.level,
                  Len(rounds), flags.recording)

-----------------------------------------------------------------------------
(* The response.                                                           *)

Panels(a, failure) ==
  LET explain == ApplyTierFiltering(slip.tier, a, failure)
      warned == slip.tier = "good" /\ explain.warnings # {}
  IN  [failure |-> failure, preview |-> DeltaPreview(a, failure), signal |-> a.signal,
       grade |-> Grade[a.signal], bucket |-> InterpretFragility(a.score),
       explain |-> explain, tier |-> slip.tier, leg_count |-> a.legs,
       secondary |-> SecondaryFactors(a, failure.type), summary |-> HumanSummary(a, failure),
       volatility |-> VolatilityFlag(a.entities.markets, a.legs, MaxSameGame(a.blocks)),
       notable |-> NotableLegs(a), tone |-> FinalVerdict(a.signal),
       guidance |-> GentleGuidance(failure, a.signal),
       next |-> NextAction(a.signal, warned, a.pairs # {}),
       warnings |-> GroundingWarnings(slip, a), context |-> ContextPanel(slip.text)]

\* What is stored under a fresh id is never found again.
Stored(id) == IF id \in DOMAIN snapshots THEN snapshots[id] ELSE NoSnapshot

Artifacts(a, failure) ==
  EmitArtifacts(a.score, a.legs, a.eval.metrics.penalty, failure.type, a.signal, Pt)

Response(a, failure, hook, emitted, current, previous) ==
  [panels |-> Panels(a, failure), blocks |-> a.blocks, structure |-> current.structure,
   grounding |-> GroundingScore(
     GroundingPoints(current.structure, a, failure, FinalVerdict(a.signal))),
   hook |-> hook, artifacts |-> emitted,
   proof |-> ProofSummary(flags, Explainability(hook),
                          ValidateDnaArtifacts(emitted, flags.contract),
                          ValidateForUi(emitted), ArtifactCounts(emitted)),
   delta |-> SnapshotDelta(previous, current),
   trend |-> ConfidenceTrend(previous, current, 2 * Pt)]

Answer ==
  /\ phase \in {"reporting", "failed"} \/ (phase = "investigating" /\ Stopped)
  /\ \E a \in {Analysis(slip)}, hook \in {Hooked} : \E failure \in {PrimaryFailure(a)} :
       LET current == [structure |-> StructureSnapshot(a.blocks, slip.canonical),
                       signal |-> a.signal, score |-> a.score]
       IN  /\ report' = Response(a, failure, hook, Artifacts(a, failure), current,
                                 Stored(Session))
           /\ snapshots' = [id \in DOMAIN snapshots \cup {Session} |->
                              IF id = Session THEN current ELSE snapshots[id]]
  /\ phase' = "idle"
  /\ UNCHANGED <<flags, slip, engineVars>>

-----------------------------------------------------------------------------
(* Sherlock as a library.                                                  *)

Investigate(c) ==
  /\ phase = "idle" /\ snapshots = <<>> /\ report = None
  /\ StartInvestigation(c)
  /\ phase' = "library"
  /\ UNCHANGED <<flags, slip, snapshots, report>>

FinishInvestigation ==
  /\ phase = "library" /\ Stopped
  /\ phase' = "idle"
  /\ StartInvestigation(NoClaim)
  /\ UNCHANGED <<flags, slip, snapshots, report>>

-----------------------------------------------------------------------------

EvaluationInit ==
  /\ flags \in EnvFlags
  /\ phase = "idle" /\ slip = [text |-> <<>>, canonical |-> <<>>, tier |-> "good"]
  /\ snapshots = <<>> /\ report = None
  /\ claim = NoClaim /\ rounds = <<>> /\ verdict = NoVerdict

EvaluationNext ==
  \/ \E raw \in (IF snapshots = <<>> THEN Requests ELSE Followups) : Ingest(raw)
  \/ RunSherlockHook
  \/ Iterate
  \/ EngineFails
  \/ Answer
  \/ \E c \in Claims : Investigate(c)
  \/ FinishInvestigation

EvaluationSpec == EvaluationInit /\ [][EvaluationNext]_evalVars

-----------------------------------------------------------------------------
(* Properties.                                                             *)

Answered == report # None /\ "panels" \in DOMAIN report

\* An audit is passed only by a falsifiable claim with cited evidence, not all
\* of the lowest tier, whose verdict does not deny it, and it ends the
\* investigation; what is reported, translated and shown as proof is the audit
\* of the last round, and nothing is passed when the engine raised.
AuditIsEarned ==
  /\ \A i \in DOMAIN rounds : rounds[i].audit.passed =>
       /\ claim.falsifiable /\ HasEvidence(claim)
       /\ \A e \in ToSet(Evidence(claim)) : e.cited
       /\ \E e \in ToSet(Evidence(claim)) : e.tier < 3
       /\ rounds[i].verdict.level \in {"true", "likely_true", "unclear"}
       /\ i = Len(rounds)
  /\ Answered =>
       LET earned == flags.sherlock /\ report.hook.verdict # "error" /\ Last(rounds).audit.passed
           dna == report.hook.dna
       IN  /\ report.proof.audit = "PASS" <=> earned
           /\ report.proof.audit = "NOT_RUN" <=> ~flags.sherlock
           /\ report.hook # Nothing /\ dna # Nothing =>
                /\ flags.recording /\ dna.quarantined = ~earned
                /\ dna.primitives.baseline + dna.primitives.drifts = 1
                /\ dna.primitives.baseline = 1 <=> earned

SeverityRank == [low |-> 0, medium |-> 1, high |-> 2]

\* The panels agree although each applies the thresholds itself: signal, bucket,
\* tone, guidance, summary, advisory and the status of the audit note.  A
\* previewed removal never makes the slip look worse, no secondary factor
\* outranks the primary one, and what is to be removed is correlated.  Grounding
\* sums to 100, which its constructor requires, context only takes confidence
\* away, and the panels name legs the slip has.
AdviceConsistent ==
  Answered =>
    LET p == report.panels
        g == report.grounding
        note == report.artifacts[3]
        calm == p.signal \in {"blue", "green"}
    IN  /\ {g.structural, g.heuristics, g.generic} \subseteq 0..100
        /\ g.structural + g.heuristics + g.generic = 100
        /\ p.context # None => p.context \in -100..0
        /\ p.failure.candidates \cup p.notable \subseteq DOMAIN report.blocks
        /\ p.tier = "good" => p.explain.signal = p.signal /\ p.explain.grade = p.grade
        /\ calm <=> p.bucket \in {"low", "medium"}
        /\ calm <=> p.tone = "positive"
        /\ calm <=> p.guidance = None
        /\ p.signal = "red" <=> p.tone = "cautious"
        /\ p.signal = "red" <=> note.key = "FAIL"
        /\ p.signal = "red" => report.artifacts[2].key = "high_fragility"
        /\ <<p.bucket, p.summary.assessment, note.advisory.fragility>> \in
             {<<"low", "clean", "low">>, <<"medium", "moving_parts", "moderate">>,
              <<"high", "pressure", "elevated">>, <<"critical", "thin_ice", "high">>}
        /\ p.preview # None => p.preview.signal # "down" /\ p.preview.fragility # "up"
        /\ p.failure.type \notin DOMAIN p.secondary
        /\ \A f \in DOMAIN p.secondary :
             SeverityRank[p.secondary[f]] <= SeverityRank[p.failure.severity]
        /\ p.tier = "good" =>
             \A i \in p.explain.removals :
               \E j \in DOMAIN report.blocks :
                 i # j /\ report.blocks[i].game = report.blocks[j].game

\* "When you remove or lock a leg and re-evaluate, the system tells you what
\* changed" (docs/sprints/S2-FND-closeout.md:34): an answer lists a change when
\* its slip differs, by the engine's own comparison, from the one before it.
ChangeTold ==
  [][Session' > Session /\ Session > 0
       /\ SnapshotChanges(snapshots[Session - 1].structure,
                          snapshots'[Session].structure) # {}
     => report'.delta # {}]_evalVars
=============================================================================
