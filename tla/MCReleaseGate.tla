--------------------------- MODULE MCReleaseGate ----------------------------
(* Rows and configurations for the runs of ReleaseGate.                    *)
EXTENDS ReleaseGate, TLC

CONSTANTS builtin, custom

MCEvaluators == {builtin, custom}
MCExternal   == {custom}

Found(b, c) == (builtin :> b) @@ (custom :> c)

Good == [adapter |-> "ok", parses |-> TRUE, conforms |-> TRUE,
         results |-> Found("passed", "passed"), latency |-> 100]

WrongAnswer == [Good EXCEPT !.results = Found("failed", "failed")]
Unparsed    == [Good EXCEPT !.parses = FALSE]
Partial     == [Good EXCEPT !.results = Found("not_applicable", "passed")]
Late        == [Good EXCEPT !.adapter = "timeout", !.latency = Unmeasured]
Malformed   == [Good EXCEPT !.conforms = FALSE]

Block(stimulus, size, tag, b, c) ==
    [stimulus |-> stimulus, reference |-> "x", tag |-> tag, size |-> size,
     baseline |-> b, candidate |-> c]

Single == Block("s3", 1, "t", Good, Good)

\* 99 rows and one or two more reach the hundred cases of the release profile,
\* with the two wrong answers, or the one unparsed output, that it tolerates.
Bulk      == Block("s1", 99, "u", Good, Good)
BothWrong == Block("s2", 2, "v", WrongAnswer, WrongAnswer)
Silent    == [Single EXCEPT !.candidate = Unparsed]
Slower    == [Single EXCEPT !.candidate.latency = 120]
Relabeled == [Single EXCEPT !.reference = "y"]
TimedOut  == Block("s4", 2, "w", Good, Late)
Half      == Block("s5", 1, "t", WrongAnswer, Partial)
Lost      == Block("s6", 1, "z", Malformed, Malformed)
Instant   == Block("s7", 1, "z", [Good EXCEPT !.latency = 0], Good)
Worse     == Block("s8", 2, "y", Partial, WrongAnswer)

MCRows == {Bulk, BothWrong, Single, Silent, Slower, Relabeled, TimedOut,
           Half, Lost, Instant, Worse}

NoLimits == [name \in Limits |-> Unset]

\* The release profile as the documentation gives it.
SafeLimits ==
    [NoLimits EXCEPT
        !.min_cases = 100, !.min_unique_cases = 100,
        !.max_duplicate_case_rate = 1,
        !.min_primary_fully_evaluated_rate = 99,
        !.max_primary_component_error_rate = 1,
        !.max_primary_component_not_applicable_rate = 0,
        !.max_primary_component_unscored_rate = 0,
        !.max_deployment_regression_pp = 1,
        !.min_candidate_deployment_success_rate = 95,
        !.min_candidate_parse_validity = 99,
        !.min_candidate_schema_validity = 99,
        !.max_candidate_valid_but_wrong_rate = 2]

\* The same profile without its floors, which validation refuses.
NoFloors ==
    [SafeLimits EXCEPT
        !.min_cases = 1, !.min_unique_cases = 1,
        !.min_candidate_deployment_success_rate = 0,
        !.max_deployment_regression_pp = 100,
        !.max_candidate_valid_but_wrong_rate = 100]

\* Regression limits with room for missing evidence.
Tolerant ==
    [NoLimits EXCEPT
        !.min_cases = 1, !.min_unique_cases = 1,
        !.max_duplicate_case_rate = 50,
        !.min_primary_fully_evaluated_rate = 50,
        !.max_primary_component_error_rate = 50,
        !.max_primary_component_not_applicable_rate = 50,
        !.max_primary_component_unscored_rate = 0,
        !.max_primary_regression_pp = 10,
        !.max_valid_but_wrong_increase_pp = 10]

Operational ==
    [Tolerant EXCEPT
        !.min_matched_latency_coverage = 100,
        !.max_p95_latency_increase_percent = 10,
        !.max_error_rate = 60, !.max_timeout_rate = 50]

QualityOnly ==
    [NoLimits EXCEPT !.min_candidate_primary_success_rate = 50]

Config(mode, how, ids, unit, limits) ==
    [gate |-> limits, outcome |-> [mode |-> how, ids |-> ids], unit |-> unit,
     mode |-> mode]

Both == {builtin, custom}

MCConfigs ==
    {Config("release", "all_of", {builtin}, "default", SafeLimits),
     Config("release", "any_of", Both, "input", SafeLimits),
     Config("release", "all_of", {builtin}, "default", NoFloors),
     Config("regression", "all_of", Both, "metadata", Tolerant),
     Config("regression", "any_of", Both, "default", Operational),
     Config("advisory", "all_of", {builtin}, "default", QualityOnly),
     Config("advisory", "all_of", {builtin}, "default", NoLimits)}

\* Limits on the number of discordant pairs, for the run about it.
Discordance ==
    {Config("regression", "all_of", {builtin}, "default",
            [Tolerant EXCEPT !.min_discordant_pairs = 1])}

=============================================================================
