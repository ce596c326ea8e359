---------------------------- MODULE ReleaseGate -----------------------------
(***************************************************************************)
(* From scored rows to a release decision (validate_gate, build_summary,   *)
(* evaluate_gate).  The finalizer scores the dataset row by row; the       *)
(* summary then groups rows into evidence units, keeps one representative  *)
(* of every unit whose rows agree completely, and evaluates the gate on    *)
(* the representatives.                                                    *)
(*                                                                         *)
(* The release profile asks for a hundred cases.  So that small instances  *)
(* reach it, a row of the model is a block of `size' dataset rows that     *)
(* differ only in their stimuli; appending the block again duplicates all  *)
(* of them.                                                                *)
(*                                                                         *)
(* Numbers are exact: rates are fractions, compared with limits given in   *)
(* percent.  Cost rules and the rules on bootstrap bounds are left out:    *)
(* cost repeats the latency rules, and the resampling is pseudo-random.    *)
(***************************************************************************)
EXTENDS Scoring, Sequences, FiniteSetsExt

CONSTANTS
    Rows,       \* blocks of scored rows that a dataset may contain
    Configs,    \* gate, primary outcome and evidence unit as written
    MaxRows     \* bound on the blocks of a dataset

VARIABLES
    config,     \* the configuration of the run
    rows,       \* blocks scored so far, in dataset order
    decision    \* the stored gate decision

vars == <<config, rows, decision>>

Variants == {"baseline", "candidate"}

\* The limits a gate may set (GateConfig): evidence safeguards, limits relative
\* to the baseline, and limits on the candidate.
Safeguards == {"min_cases", "min_unique_cases", "max_duplicate_case_rate",
               "min_primary_fully_evaluated_rate",
               "max_primary_component_error_rate",
               "max_primary_component_not_applicable_rate",
               "max_primary_component_unscored_rate"}

RelativeRules == {"max_primary_regression_pp", "max_deployment_regression_pp",
                  "max_valid_but_wrong_increase_pp"}

Limits ==
    Safeguards \cup RelativeRules \cup
        {"min_candidate_primary_success_rate",
         "min_candidate_deployment_success_rate",
         "max_candidate_valid_but_wrong_rate",
         "min_candidate_parse_validity", "min_discordant_pairs",
         "min_candidate_schema_validity", "max_error_rate",
         "max_timeout_rate", "min_matched_latency_coverage",
         "max_p95_latency_increase_percent"}

\* Blocks that share a stimulus or a tag (a metadata value) correspond case
\* by case, so they have one size.
ASSUME GateAssumption ==
    /\ \A row \in Rows :
          /\ DOMAIN row = {"stimulus", "reference", "tag", "size"} \cup Variants
          /\ \A v \in Variants : row[v] \in Observation
          /\ row.size \in Nat \ {0}
          /\ \A other \in Rows :
                row.stimulus = other.stimulus \/ row.tag = other.tag
                    => row.size = other.size
    /\ \A c \in Configs :
          /\ c.outcome \in Outcome
          /\ c.mode \in {"advisory", "regression", "release"}
          /\ c.unit \in {"default", "input", "metadata"}
          /\ DOMAIN c.gate = Limits
          /\ \A name \in Limits : c.gate[name] \in Int
    /\ MaxRows \in Nat

-----------------------------------------------------------------------------
(* Which configurations are accepted                                       *)

Unset == -1

\* Limits are set and at most, or at least, those of the release profile.
AtMost(g, name, limit)  == g[name] # Unset /\ g[name] <= limit
AtLeast(g, name, limit) == g[name] # Unset /\ g[name] >= limit

SafeProfile(g) ==
    /\ AtLeast(g, "min_cases", 100)
    /\ AtLeast(g, "min_unique_cases", 100)
    /\ AtMost(g, "max_duplicate_case_rate", 1)
    /\ AtLeast(g, "min_primary_fully_evaluated_rate", 99)
    /\ AtMost(g, "max_primary_component_error_rate", 1)
    /\ AtMost(g, "max_primary_component_not_applicable_rate", 0)
    /\ AtMost(g, "max_primary_component_unscored_rate", 0)
    /\ AtMost(g, "max_deployment_regression_pp", 1)
    /\ AtLeast(g, "min_candidate_deployment_success_rate", 95)
    /\ AtLeast(g, "min_candidate_parse_validity", 99)
    /\ AtLeast(g, "min_candidate_schema_validity", 99)
    /\ AtMost(g, "max_candidate_valid_but_wrong_rate", 2)

\* Mutant of Accepted: the floors of the release profile are not required.
AcceptedWithoutFloors(c) ==
    c.mode \in {"regression", "release"} =>
        /\ \A name \in Safeguards : c.gate[name] # Unset
        /\ \E name \in RelativeRules : c.gate[name] # Unset

\* validate_gate
Accepted(c) ==
    /\ c.mode \in {"regression", "release"} =>
          /\ \A name \in Safeguards : c.gate[name] # Unset
          /\ \E name \in RelativeRules : c.gate[name] # Unset
    /\ c.mode = "release" => SafeProfile(c.gate)

-----------------------------------------------------------------------------
(* Evidence units                                                          *)

\* dataset.evidence_unit: the default fingerprint, or a declared pointer.
UnitOf(row) ==
    IF config.unit = "input" THEN <<row.stimulus>>
    ELSE IF config.unit = "metadata" THEN <<row.tag>>
    ELSE <<row.stimulus, row.reference>>

Members(rs, u) == {i \in DOMAIN rs : UnitOf(rs[i]) = u}

\* Dataset rows in the blocks at the given positions.
Sizes(rs) == [i \in DOMAIN rs |-> rs[i].size]
Size(rs, positions) == SumFunctionOnSet(Sizes(rs), positions)

\* Mutant of Signature: operational facts are not compared.
SignatureOfScores(row) ==
    <<row.stimulus, row.reference,
      [row.baseline EXCEPT !.latency = Unmeasured],
      [row.candidate EXCEPT !.latency = Unmeasured]>>

\* complete_observation_signature: everything but the metadata.
Signature(row) ==
    <<row.stimulus, row.reference, row.baseline, row.candidate>>

\* Units whose rows disagree are repeated trials and leave the inference.
Repeated(rs) ==
    {i \in DOMAIN rs :
        \E j \in Members(rs, UnitOf(rs[i])) :
            Signature(rs[j]) # Signature(rs[i])}

\* Mutant of Sample: pairs without a parsed candidate are dropped.
SampleOfParsed(rs) ==
    {i \in DOMAIN rs \ Repeated(rs) :
        i = Min(Members(rs, UnitOf(rs[i]))) /\ Parsed(rs[i].candidate)}

\* Positions of the representatives: the first row of every unit that counts.
Sample(rs) ==
    {i \in DOMAIN rs \ Repeated(rs) : i = Min(Members(rs, UnitOf(rs[i])))}

DuplicateRows(rs) == (DOMAIN rs \ Repeated(rs)) \ Sample(rs)

LabelConflicts(rs) ==
    {i \in DOMAIN rs : \E j \in DOMAIN rs :
        rs[j].stimulus = rs[i].stimulus /\ rs[j].reference # rs[i].reference}

-----------------------------------------------------------------------------
(* Observed values and the judgement of one rule                           *)

Unavailable == [num |-> 0, den |-> 0]

\* A count as a percentage; rate() of an empty population is zero.
Rate(n, total) == IF total = 0 THEN [num |-> 0, den |-> 1]
                               ELSE [num |-> 100 * n, den |-> total]
Count(n) == [num |-> n, den |-> 1]

\* A decline in percentage points, never negative.
Decline(before, after, total) ==
    Rate(IF before > after THEN before - after ELSE 0, total)

Larger(v, w) == IF v.num * w.den >= w.num * v.den THEN v ELSE w

MaximumRule(limit, v) ==
    IF limit = Unset THEN "not_configured"
    ELSE IF v.num <= limit * v.den THEN "passed" ELSE "failed"

MinimumRule(limit, v) ==
    IF limit = Unset THEN "not_configured"
    ELSE IF v.num >= limit * v.den THEN "passed" ELSE "failed"

\* optional_maximum_rule and relative_increase_rule.
OptionalMaximum(limit, v) ==
    IF limit # Unset /\ v = Unavailable THEN "insufficient_evidence"
    ELSE MaximumRule(limit, v)

\* A safeguard that fails, or is not configured, is missing evidence.
Required(status) ==
    IF status = "passed" THEN "passed" ELSE "insufficient_evidence"

RepeatedTrialRule(rs) ==
    IF Repeated(rs) = {} THEN "passed" ELSE "insufficient_evidence"

LabelConflictRule(rs) ==
    IF LabelConflicts(rs) = {} THEN "passed" ELSE "error"

-----------------------------------------------------------------------------
(* What the summary counts                                                 *)

Pass(o)   == PrimaryPass(config.outcome, o)
Full(o)   == PrimaryFull(config.outcome, o)
Wrong(o)  == ValidButWrong(config.outcome, o)
Deploy(o) == Deployed(config.outcome, o)

Is(o, what) ==
    CASE what = "passed"    -> Pass(o)
      [] what = "deployed"  -> Deploy(o)
      [] what = "wrong"     -> Wrong(o)
      [] what = "parsed"    -> Parsed(o)
      [] what = "valid"     -> SchemaValid(o)
      [] what = "errored"   -> o.adapter # "ok"
      [] what = "timed_out" -> o.adapter = "timeout"

\* Units of a sample of which the observation of variant v is that.
Tally(rs, sample, v, what) == Size(rs, {i \in sample : Is(rs[i][v], what)})

\* Components of the primary outcome that have a status, in every row.
Components(rs, v, status) ==
    [i \in DOMAIN rs |->
        rs[i].size * Cardinality(
                         With(config.outcome, ResultsOf(rs[i][v]), status))]

\* The larger of both variants' shares of those components.
ComponentRate(rs, sample, status) ==
    LET Share(v) ==
            Rate(SumFunctionOnSet(Components(rs, v, status), sample),
                 Size(rs, sample) * Cardinality(config.outcome.ids))
    IN  Larger(Share("baseline"), Share("candidate"))

\* semantic_effect: pairs that are fully evaluated on both sides.
JointlyScored(rs, sample) ==
    {i \in sample : Full(rs[i].baseline) /\ Full(rs[i].candidate)}

Discordant(rs, sample) ==
    {i \in JointlyScored(rs, sample) :
        Pass(rs[i].baseline) # Pass(rs[i].candidate)}

\* Pairs with a latency on both sides.
Timed(rs, sample) ==
    {i \in sample : \A v \in Variants : rs[i][v].latency # Unmeasured}

\* The element of rank ceil(0.95 (n - 1)) of the sorted latencies.
P95(rs, timed, v) ==
    LET rank == (95 * (Size(rs, timed) - 1) + 99) \div 100
        UpTo(x) == {i \in timed : rs[i][v].latency <= x}
    IN  Min({x \in {rs[i][v].latency : i \in timed} :
                Size(rs, UpTo(x)) > rank})

\* The increase relative to a baseline that is not zero.
LatencyIncrease(rs, timed) ==
    LET before == P95(rs, timed, "baseline")
        after  == P95(rs, timed, "candidate")
    IN  IF timed = {} \/ before = 0 THEN Unavailable
        ELSE [num |-> 100 * (after - before), den |-> before]

-----------------------------------------------------------------------------
(* The gate                                                                *)

EvidenceRules(rs) ==
    LET g      == config.gate
        sample == Sample(rs)
        total  == Size(rs, sample)
    IN  [repeated_trial_model |-> RepeatedTrialRule(rs),
         dataset_label_conflicts |-> LabelConflictRule(rs),
         min_cases |-> Required(MinimumRule(g.min_cases, Count(total))),
         min_unique_cases |->
            Required(MinimumRule(g.min_unique_cases, Count(total))),
         max_duplicate_case_rate |->
            Required(MaximumRule(g.max_duplicate_case_rate,
                    Rate(Size(rs, DuplicateRows(rs)), Size(rs, DOMAIN rs)))),
         min_primary_fully_evaluated_rate |->
            Required(MinimumRule(g.min_primary_fully_evaluated_rate,
                    Rate(Size(rs, JointlyScored(rs, sample)), total))),
         max_primary_component_error_rate |->
            Required(MaximumRule(g.max_primary_component_error_rate,
                                 ComponentRate(rs, sample, "error"))),
         max_primary_component_not_applicable_rate |->
            Required(MaximumRule(g.max_primary_component_not_applicable_rate,
                                 ComponentRate(rs, sample,
                                               "not_applicable"))),
         max_primary_component_unscored_rate |->
            Required(MaximumRule(g.max_primary_component_unscored_rate,
                                 Count(0)))]

QualityRules(rs) ==
    LET g      == config.gate
        sample == Sample(rs)
        total  == Size(rs, sample)
        joint  == JointlyScored(rs, sample)
        jointly == Size(rs, joint)
        Share(what) == Rate(Tally(rs, sample, "candidate", what), total)
        Paired(decline, pairs) == IF pairs = 0 THEN Unavailable ELSE decline
    IN  [max_primary_regression_pp |->
            OptionalMaximum(g.max_primary_regression_pp,
                Paired(Decline(Tally(rs, joint, "baseline", "passed"),
                               Tally(rs, joint, "candidate", "passed"), jointly),
                       jointly)),
         max_deployment_regression_pp |->
            OptionalMaximum(g.max_deployment_regression_pp,
                Paired(Decline(Tally(rs, sample, "baseline", "deployed"),
                               Tally(rs, sample, "candidate", "deployed"), total),
                       total)),
         max_valid_but_wrong_increase_pp |->
            MaximumRule(g.max_valid_but_wrong_increase_pp,
                Decline(Tally(rs, sample, "candidate", "wrong"),
                        Tally(rs, sample, "baseline", "wrong"), total)),
         min_candidate_primary_success_rate |->
            MinimumRule(g.min_candidate_primary_success_rate, Share("passed")),
         min_candidate_deployment_success_rate |->
            MinimumRule(g.min_candidate_deployment_success_rate,
                        Share("deployed")),
         max_candidate_valid_but_wrong_rate |->
            MaximumRule(g.max_candidate_valid_but_wrong_rate, Share("wrong")),
         min_candidate_parse_validity |->
            MinimumRule(g.min_candidate_parse_validity, Share("parsed")),
         min_discordant_pairs |->
            MinimumRule(g.min_discordant_pairs,
                        Count(Size(rs, Discordant(rs, sample)))),
         min_candidate_schema_validity |->
            MinimumRule(g.min_candidate_schema_validity, Share("valid")),
         max_error_rate |-> MaximumRule(g.max_error_rate, Share("errored")),
         max_timeout_rate |->
            MaximumRule(g.max_timeout_rate, Share("timed_out")),
         min_matched_latency_coverage |->
            MinimumRule(g.min_matched_latency_coverage,
                        Rate(Size(rs, Timed(rs, sample)), total)),
         max_p95_latency_increase_percent |->
            OptionalMaximum(g.max_p95_latency_increase_percent,
                            LatencyIncrease(rs, Timed(rs, sample)))]

\* Every rule with its status, each judged by itself.
RuleStatuses(rs) ==
    LET evidence == EvidenceRules(rs)
        quality  == QualityRules(rs)
    IN  [name \in DOMAIN evidence \cup DOMAIN quality |->
            IF name \in DOMAIN evidence THEN evidence[name] ELSE quality[name]]

IsConfigured == \E name \in DOMAIN config.gate : config.gate[name] # Unset

NoRules == [name \in {} |-> "not_configured"]

\* The worst status decides: error, missing evidence, failure, pass.
Worst(statuses) ==
    IF "error" \in statuses THEN "error"
    ELSE IF "insufficient_evidence" \in statuses THEN "insufficient_evidence"
    ELSE IF "failed" \in statuses THEN "failed"
    ELSE "passed"

\* evaluate_gate
Decided(rs) ==
    IF IsConfigured
    THEN LET rules  == RuleStatuses(rs)
             status == Worst({rules[name] : name \in DOMAIN rules})
         IN  [status |-> status, rules |-> rules,
              authorized |-> status = "passed" /\ config.mode = "release"]
    ELSE [status |-> "not_configured", rules |-> NoRules, authorized |-> FALSE]

NoDecision == [status |-> "none", rules |-> NoRules, authorized |-> FALSE]

-----------------------------------------------------------------------------

Init ==
    /\ config \in {c \in Configs : Accepted(c)}
    /\ rows = <<>>
    /\ decision = NoDecision

\* The finalizer scores the next block of the dataset.
ScoreRow(row) ==
    /\ decision = NoDecision
    /\ Len(rows) < MaxRows
    /\ rows' = Append(rows, row)
    /\ UNCHANGED <<config, decision>>

\* Summary and gate, once every row is scored.
Decide ==
    /\ decision = NoDecision
    /\ rows # <<>>
    /\ decision' = Decided(rows)
    /\ UNCHANGED <<config, rows>>

Next == (\E row \in Rows : ScoreRow(row)) \/ Decide

Spec == Init /\ [][Next]_vars

-----------------------------------------------------------------------------
(* Properties                                                              *)

GateStatus == {"passed", "failed", "not_configured", "insufficient_evidence",
               "error"}

EvidenceNames ==
    Safeguards \cup {"repeated_trial_model", "dataset_label_conflicts"}

\* Types of the variables: the decision is one of the five of GateStatus, a
\* rule about evidence never merely fails, and one about quality, which may
\* not be configured, is never an error.
TypeOK ==
    /\ config \in Configs
    /\ rows \in Seq(Rows)
    /\ decision.status \in GateStatus \cup {"none"}
    /\ decision.authorized \in BOOLEAN
    /\ \A name \in DOMAIN decision.rules :
          decision.rules[name] \in
              IF name \in EvidenceNames
              THEN {"passed", "insufficient_evidence", "error"}
              ELSE GateStatus \ {"error"}

\* The decision does not depend on the order of the dataset's rows, although
\* build_summary represents a unit by the first of its rows.
OrderIsIrrelevant ==
    decision # NoDecision =>
        \A i, j \in DOMAIN rows :
            Decided([rows EXCEPT ![i] = rows[j], ![j] = rows[i]]) = decision

\* More exact copies of rows that are already there never turn a decision
\* that is not a pass into one: duplicates are no evidence.
CopiesNeverHelp ==
    decision.status \notin {"none", "passed"} =>
        \A i \in DOMAIN rows :
            Decided(Append(rows, rows[i])).status # "passed"

\* The decision is about the cases: neither their order nor copies matter.
CasesDecide == OrderIsIrrelevant /\ CopiesNeverHelp

\* Whatever the configuration that validation accepted: of all the rows of
\* the dataset, those collapsed by the summary included, an authorized
\* candidate succeeded on at least 94% (the floor of 95% less 1% of
\* duplicates) and at least 98% were evaluated on both sides.
AuthorizedHidesNothing ==
    decision.authorized =>
        LET all     == Size(rows, DOMAIN rows)
            unsafe  == {i \in DOMAIN rows : ~Deploy(rows[i].candidate)}
            unknown == DOMAIN rows \ JointlyScored(rows, DOMAIN rows)
        IN  /\ 100 * Size(rows, unsafe) <= 6 * all
            /\ 100 * Size(rows, unknown) <= 2 * all

\* A verdict, good or bad, is given on evidence: the rows that were not
\* evaluated on both sides are within the configured tolerance (plus that of
\* duplicates), and no evidence unit has contradictory observations.
VerdictIsEvaluated ==
    decision.status \in {"passed", "failed"} =>
        LET tolerance == 100 - config.gate.min_primary_fully_evaluated_rate
                             + config.gate.max_duplicate_case_rate
            unknown   == DOMAIN rows \ JointlyScored(rows, DOMAIN rows)
        IN  /\ 100 * Size(rows, unknown)
                  <= tolerance * Size(rows, DOMAIN rows)
            /\ \A i, j \in DOMAIN rows :
                  UnitOf(rows[i]) = UnitOf(rows[j])
                     => Signature(rows[i]) = Signature(rows[j])

\* What the decision claims was seen, in the rows that the summary collapsed too.
DecisionIsEarned == AuthorizedHidesNothing /\ VerdictIsEvaluated

\* Had the candidate done worse on one case where it succeeded, at the same
\* latency, a decision that is not a pass would not become one.  (A minimum
\* of discordant pairs is the exception: a lost case is a discordant pair.)
DegradingNeverHelps ==
    (decision.status \notin {"none", "passed"}
        /\ config.gate.min_discordant_pairs = Unset) =>
        \A i \in DOMAIN rows : \A other \in Rows :
            LET worse == [other.candidate EXCEPT
                            !.latency = rows[i].candidate.latency]
            IN  (Deploy(rows[i].candidate) /\ ~Deploy(worse)
                    /\ Members(rows, UnitOf(rows[i])) = {i}) =>
                Decided([rows EXCEPT ![i].candidate = worse]).status
                    # "passed"

\* config.rs documents min_discordant_pairs as "treated as evidence
\* sufficiency": too few pairs are missing evidence, not a failure.
DiscordantPairsAreEvidence ==
    "min_discordant_pairs" \in DOMAIN decision.rules =>
        decision.rules.min_discordant_pairs # "failed"

\* release-gates.md: "Missing observed coverage is INSUFFICIENT_EVIDENCE".
MissingCoverageIsInsufficient ==
    "min_matched_latency_coverage" \in DOMAIN decision.rules =>
        decision.rules.min_matched_latency_coverage # "failed"

\* release-gates.md: the "evidence safeguards cover total rows", which is
\* what min_cases would limit beside min_unique_cases.
MinCasesCountsRows ==
    ("min_cases" \in DOMAIN decision.rules
        /\ config.gate.min_cases # Unset
        /\ Size(rows, DOMAIN rows) >= config.gate.min_cases) =>
        decision.rules.min_cases = "passed"

=============================================================================
