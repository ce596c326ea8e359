------------------------------ MODULE Scoring -------------------------------
(***************************************************************************)
(* How one output of one variant is scored (evaluate_case_with_external):  *)
(* strict parse, schema, the configured evaluators, and the composition of *)
(* evaluator results into the primary outcome with its evaluation health.  *)
(*                                                                         *)
(* What an evaluator decides about a parsed value is input here: an        *)
(* observation carries the status each evaluator would give.               *)
(***************************************************************************)
EXTENDS Integers, FiniteSets

CONSTANTS
    Evaluators,     \* configured evaluators
    External        \* those that are a program of the user's

ASSUME ScoringAssumption ==
    IsFiniteSet(Evaluators) /\ External \subseteq Evaluators

EvaluationStatus == {"passed", "failed", "error", "not_applicable"}

\* A composition: all_of or any_of a non-empty set of evaluators.
Outcome == [mode : {"all_of", "any_of"}, ids : SUBSET Evaluators \ {{}}]

\* What is known of an output once it was captured: how the adapter ended,
\* whether the text parses and conforms to the schema, what the evaluators
\* find, and the latency.
Unmeasured == -1
Observation == [adapter : {"ok", "error", "timeout"}, parses : BOOLEAN,
                conforms : BOOLEAN,
                results : [Evaluators -> EvaluationStatus],
                latency : Nat \cup {Unmeasured}]

Parsed(o)      == o.adapter = "ok" /\ o.parses
SchemaValid(o) == Parsed(o) /\ o.conforms

\* Without a parsed value every built-in evaluator reports an error; an
\* external one is asked all the same.
ResultsOf(o) ==
    [e \in Evaluators |->
        IF Parsed(o) \/ e \in External THEN o.results[e] ELSE "error"]

\* Components of an outcome that have a status.
With(outcome, results, status) == {e \in outcome.ids : results[e] = status}

AllOfTruth(outcome, results) ==
    IF With(outcome, results, "failed") # {} THEN "false"
    ELSE IF With(outcome, results, "error") # {} THEN "error"
    ELSE IF With(outcome, results, "not_applicable") # {}
         THEN "not_applicable"
    ELSE "true"

AnyOfTruth(outcome, results) ==
    IF With(outcome, results, "passed") # {} THEN "true"
    ELSE IF With(outcome, results, "error") # {} THEN "error"
    ELSE IF With(outcome, results, "not_applicable") = outcome.ids
         THEN "not_applicable"
    ELSE "false"

\* compose_outcome.  (Configuration validation admits only evaluators that
\* exist, so that no component is unscored.)
Truth(outcome, results) ==
    IF outcome.mode = "all_of" THEN AllOfTruth(outcome, results)
                               ELSE AnyOfTruth(outcome, results)

FullyEvaluated(outcome, results) ==
    \A e \in outcome.ids : results[e] \in {"passed", "failed"}

\* The facts of CaseEvaluation that summaries and gates count.
PrimaryTruth(outcome, o) == Truth(outcome, ResultsOf(o))
PrimaryPass(outcome, o)  == PrimaryTruth(outcome, o) = "true"
PrimaryFull(outcome, o)  == FullyEvaluated(outcome, ResultsOf(o))
Deployed(outcome, o) ==
    SchemaValid(o) /\ PrimaryPass(outcome, o) /\ PrimaryFull(outcome, o)
ValidButWrong(outcome, o) ==
    SchemaValid(o) /\ PrimaryTruth(outcome, o) = "false"

=============================================================================
