---------------------------- MODULE LlmDecision -----------------------------
(***************************************************************************)
(* What llm/pipeline.py decides from an analyst's assessment and a         *)
(* critic's review, and the gates that look at the decision afterwards.    *)
(* Confidences are in percent.                                             *)
(***************************************************************************)
EXTENDS ContextPack

CONSTANTS
    ConfidenceMin,  \* GR-09 and the floor of the pipeline
    FallbackScore,  \* confluence that is published without the LLM
    DoubtLow, DoubtHigh

ASSUME ConfidenceAssumption ==
    /\ ConfidenceMin \in 0..100 /\ FallbackScore \in 0..100
    /\ DoubtLow \in 0..100 /\ DoubtHigh \in 0..100

Result(decision, confidence, sources, llmUsed) ==
    [decision |-> decision, confidence |-> confidence,
     sources |-> sources, llmUsed |-> llmUsed]

NoResult == Result("none", 0, {}, FALSE)

Clamp(x, low, high) == CASE x < low -> low [] x > high -> high [] OTHER -> x

\* compute_confidence: the analyst moves it by at most 15, the critic takes 5 for
\* each serious argument and at most 15.
Confidence(score, assessment, review) ==
    LET adjust  == IF assessment.verdict = "CONFIRM"
                   THEN Clamp(assessment.raw - 50, -15, 15) ELSE 0
        serious == {i \in DOMAIN review.arguments :
                        review.arguments[i].severity \in {"med", "high"}}
        penalty == Clamp(5 * Cardinality(serious), 0, 15)
    IN Clamp(score + adjust - penalty, 0, 100)

\* A serious argument the critic could prove from the pack.
AutoVeto(review) ==
    \E i \in DOMAIN review.arguments :
        /\ review.arguments[i].severity = "high"
        /\ review.arguments[i].sources \cap SourceIds # {}

\* Mutant of Decide: the verifier's report is not looked at.
Decide_Unverified(score, assessment, review) ==
    LET confidence == Confidence(score, assessment, review) IN
    CASE \/ assessment.verdict = "VETO"
         \/ review.recommendation = "VETO"
         \/ AutoVeto(review)
            -> Result("REJECTED", 0, assessment.sources, TRUE)
      [] confidence < ConfidenceMin
            -> Result("ABSTAIN", confidence, assessment.sources, TRUE)
      [] OTHER
            -> Result("PUBLISH", confidence, assessment.sources, TRUE)

\* The decision after both agents answered.
Decide(score, assessment, review) ==
    LET confidence == Confidence(score, assessment, review)
        veto == assessment.verdict = "VETO" \/ review.recommendation = "VETO" \/ AutoVeto(review)
    IN  CASE Hallucinated(assessment, review)
                -> Result("ABSTAIN", 0, assessment.sources, TRUE)
          [] veto /\ ~Hallucinated(assessment, review)
                -> Result("REJECTED", 0, assessment.sources, TRUE)
          [] ~veto /\ ~Hallucinated(assessment, review) /\ confidence < ConfidenceMin
                -> Result("ABSTAIN", confidence, assessment.sources, TRUE)
          [] OTHER
                -> Result("PUBLISH", confidence, assessment.sources, TRUE)

\* The decision when an agent failed or the budget stopped the pipeline.
Fallback(score) ==
    IF score >= FallbackScore THEN Result("FALLBACK", score, {}, FALSE)
                              ELSE Result("ABSTAIN", 0, {}, FALSE)

\* should_escalate.
ShouldEscalate(result) ==
    /\ result.llmUsed
    /\ result.decision \in {"PUBLISH", "FALLBACK"}
    /\ DoubtLow <= result.confidence /\ result.confidence <= DoubtHigh

\* The second gate on what the LLM added: GR-09 and GR-11.  A result without
\* sources is given "deterministic_pipeline", which is in no pack.
PostGate(result) ==
    /\ result.confidence >= ConfidenceMin
    /\ result.sources # {} /\ result.sources \subseteq SourceIds
=============================================================================
