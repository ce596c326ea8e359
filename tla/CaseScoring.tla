----------------------------- MODULE CaseScoring -----------------------------
(***************************************************************************)
(* From the files of a recorded comparison to scored rows, in the order of *)
(* run_recorded_with_snapshot: the configuration, the dataset, the         *)
(* references, the schema, the outputs of both variants, the evaluators.   *)
(* Each step may refuse, and then nothing is scored.                       *)
(***************************************************************************)
EXTENDS Configuration

CONSTANTS
    Inputs,    \* what the user supplies: configuration, dataset, schema, outputs
    MaxCases   \* limits.max_cases

VARIABLES
    given,     \* the files, as they were read
    phase,
    cases,     \* the cases of the dataset
    rowsOf,    \* rowsOf[v]: one output of variant v for each case
    results    \* results[v][i]: what the evaluators found in row i

scoringVars == <<given, phase, cases, rowsOf, results>>

BothVariants == {"baseline", "candidate"}
Phases == {"onboarding", "configuration", "dataset", "references", "schema", "baseline",
           "candidate", "scoring", "scored", "refused"}
configuration == given.config

Start(input) ==
    /\ given = input
    /\ phase = "configuration" /\ cases = <<>>
    /\ rowsOf = [v \in BothVariants |-> <<>>] /\ results = [v \in BothVariants |-> <<>>]

ScoringInit == \E input \in Inputs : Start(input)

Proceed(accepts, next) == phase' = IF accepts THEN next ELSE "refused"

LoadConfiguration ==
    /\ phase = "configuration"
    /\ Proceed(Valid(configuration), "dataset")
    /\ UNCHANGED <<given, cases, rowsOf, results>>

-----------------------------------------------------------------------------
\* Dataset::from_bytes_bounded.  An id is trimmed before it is compared; one
\* that is missing, blank or no string is empty.
LineId(line) == line.id[1]

ValidLines(lines) ==
    /\ lines # <<>> /\ Len(lines) <= MaxCases
    /\ \A i \in DOMAIN lines :
          /\ lines[i].form = "row" /\ LineId(lines[i]) # "" /\ Present(lines[i].input)
          /\ \A j \in 1..(i - 1) : LineId(lines[j]) # LineId(lines[i])

CaseOf(line) == [id |-> LineId(line), input |-> line.input,
                 visible |-> line.visible, expected |-> line.expected]

\* The hash of an optional value does not tell a missing one from null.
OrNull(v) == IF Present(v) THEN v ELSE Null

\* What a model sees of a case.
Stimulus(c) == <<c.input, OrNull(c.visible)>>

\* validate_reference_consistency: what the model sees determines the
\* reference.
Consistent(lines) ==
    \A i, j \in DOMAIN lines :
        Stimulus(lines[i]) = Stimulus(lines[j])
            => OrNull(lines[i].expected) = OrNull(lines[j].expected)

ReadDataset ==
    /\ phase = "dataset"
    /\ LET lines == given.dataset IN
          /\ Proceed(ValidLines(lines) /\ Consistent(lines), "references")
          /\ cases' = IF phase' = "refused" THEN <<>>
                      ELSE [i \in DOMAIN lines |-> CaseOf(lines[i])]
    /\ UNCHANGED <<given, rowsOf, results>>

\* validate_references over all cases and evaluators.
CheckReferences ==
    /\ phase = "references"
    /\ Proceed(\A i \in DOMAIN cases, k \in DOMAIN configuration.evaluators :
                   GoodReference(configuration.evaluators[k], cases[i].expected), "schema")
    /\ UNCHANGED <<given, cases, rowsOf, results>>

LoadSchema ==
    /\ phase = "schema"
    /\ Proceed(given.schema = "valid", "baseline")
    /\ UNCHANGED <<given, cases, rowsOf, results>>

-----------------------------------------------------------------------------
\* RecordedOutputs::from_bytes_bounded.  A raw text may be malformed JSON; an
\* id must be written as the dataset has it after trimming.
Source(row) == IF Present(row.raw) THEN row.raw ELSE row.parsed

Envelope(row) ==
    IF row.status = "ok"
    THEN /\ Present(Source(row)) /\ ~row.error
         /\ Present(row.raw) /\ Present(row.parsed) => row.raw = row.parsed
    ELSE row.error /\ ~Present(row.raw) /\ ~Present(row.parsed)

ValidCost(cost) == ValidLimit(cost.amount) /\ ~Blank(cost.currency)

Recordable(lines, known) ==
    \A i \in DOMAIN lines :
        LET row == lines[i] IN
        /\ row.form = "row" /\ Envelope(row)
        /\ \E id \in known : row.case_id = <<id, "plain">>
        /\ \A cost \in row.cost : ValidCost(cost)
        /\ \A j \in 1..(i - 1) : lines[j].case_id # row.case_id

ValidOutputs(lines) == Recordable(lines, {cases[c].id : c \in DOMAIN cases})

\* A case without a row is a missing output, and stays.
RowFor(lines, case) ==
    LET own == {i \in DOMAIN lines : lines[i].case_id = <<case.id, "plain">>}
    IN  IF own = {} THEN [status |-> "missing", source |-> Absent]
        ELSE LET row == lines[CHOOSE i \in own : TRUE]
             IN  [status |-> row.status, source |-> Source(row)]

ReadOutputs(v) ==
    /\ phase = v
    /\ LET lines == given.outputs[v] IN
          /\ Proceed(configuration.variants[v].kind = "recorded" /\ ValidOutputs(lines),
                     IF v = "baseline" THEN "candidate" ELSE "scoring")
          /\ rowsOf' = IF phase' = "refused" THEN rowsOf
                     ELSE [rowsOf EXCEPT ![v] = [c \in DOMAIN cases |-> RowFor(lines, cases[c])]]
    /\ UNCHANGED <<given, cases, results>>

-----------------------------------------------------------------------------
\* evaluate_case_with_external.  A malformed text is the value Malformed.
Malformed == [malformed |-> TRUE]
ParsedOutput(row) == row.status = "ok" /\ row.source # Malformed

ResultOf(e, row, expected, external) ==
    IF e.kind \in ExternalKinds THEN Result(external, {})
    ELSE IF ParsedOutput(row) THEN Evaluate(e, expected, row.source)
    ELSE Unparsed(e)

\* The finalizer scores the rows of a case; what an external evaluator says of
\* each of them is its own affair.
ScoreCase ==
    /\ phase = "scoring"
    /\ LET i == Len(results["baseline"]) + 1
           Asked == \E k \in DOMAIN configuration.evaluators :
                        configuration.evaluators[k].kind \in ExternalKinds
           Answers == IF Asked THEN {"passed", "failed", "error", "not_applicable"}
                      ELSE {"error"}
           Of(id) == configuration.evaluators[
                         CHOOSE k \in DOMAIN configuration.evaluators :
                             configuration.evaluators[k].id = id]
       IN  /\ \E external \in [BothVariants -> Answers] :
                 results' = [v \in BothVariants |-> Append(results[v],
                     [id \in Ids(configuration.evaluators) |->
                         ResultOf(Of(id), rowsOf[v][i], cases[i].expected, external[v])])]
           /\ phase' = IF i = Len(cases) THEN "scored" ELSE phase
    /\ UNCHANGED <<given, cases, rowsOf>>

ScoringNext ==
    \/ LoadConfiguration
    \/ ReadDataset
    \/ CheckReferences
    \/ LoadSchema
    \/ \E v \in BothVariants : ReadOutputs(v)
    \/ ScoreCase

ScoringSpec == ScoringInit /\ [][ScoringNext]_scoringVars

-----------------------------------------------------------------------------
(* What the files are made of, before anything is accepted.                *)

Sequential(s) == s \in Seq(ToSet(s))

\* The arrays that an evaluator takes apart.
ArraysOf(e, v) ==
    IF e.kind = "keyed_array"
    THEN Items(Resolve(v, e.expected_pointer)) \cup Items(Resolve(v, e.pointer))
    ELSE IF e.kind = "financial_invariants" THEN Items(Resolve(v, e.line_items)) ELSE {}

\* The pointers at which an evaluator looks into the reference.
ReferencePointers(e) ==
    IF e.kind \in PairKinds THEN {p.expected_pointer : p \in e.pairs}
    ELSE IF e.kind \in {"numeric_tolerance", "keyed_array"} \cup TextKinds
    THEN {e.expected_pointer} ELSE {}

\* Pointers are sequences, arrays are, and a reference is a JSON value.
WellFormed(input) ==
    LET evaluators == input.config.evaluators
        fields     == input.config.dataset.fields
        Arrays(v)  == \A k \in DOMAIN evaluators :
                          \A items \in ArraysOf(evaluators[k], v) : Sequential(items)
    IN  /\ Sequential(input.dataset) /\ Sequential(evaluators)
        /\ \A name \in FieldNames : Sequential(fields[name])
        /\ \A k \in DOMAIN evaluators :
              \A path \in ReferencePointers(evaluators[k]) : Sequential(path)
        /\ \A i \in DOMAIN input.dataset : LET line == input.dataset[i] IN
              line.form = "row" => line.expected # Malformed /\ Arrays(line.expected)
        /\ \A v \in BothVariants : \A i \in DOMAIN input.outputs[v] :
              LET row == input.outputs[v][i] IN row.form = "row" => Arrays(Source(row))

ASSUME InputAssumption == \A input \in Inputs : WellFormed(input)

-----------------------------------------------------------------------------
(* Properties.                                                             *)

Scored(P(_, _, _, _)) ==
    phase = "scored" =>
        \A v \in BothVariants, i \in DOMAIN cases, k \in DOMAIN configuration.evaluators :
            LET e == configuration.evaluators[k]
            IN  P(e, cases[i].expected, rowsOf[v][i], results[v][i][e.id])

\* Every number that e can compute with the values of the row.
LooseLimits(e) ==
    \/ e.kind = "numeric_tolerance"
       /\ \E t \in e.absolute \cup e.relative : ExactDecimal(t) = {}
    \/ e.kind = "keyed_array"
       /\ \E f \in e.fields : \E t \in f.absolute : ExactDecimal(t) = {}

\* A difference or a relative bound that leaves the exact range.
OutOfRange(e, expected, row) ==
    \/ /\ e.kind = "numeric_tolerance" /\ ~e.exact_integer
       /\ \E r \in ExactDecimal(Resolve(expected, e.expected_pointer)),
             a \in ExactDecimal(Resolve(row.source, e.pointer)) :
             \/ ~Fits(a - r)
             \/ \E t \in e.relative : \E limit \in ExactDecimal(t) :
                   ~Fits(limit * Magnitude(r))
    \/ /\ e.kind = "keyed_array"
       /\ \E f \in {f \in e.fields : f.evaluator = "decimal_tolerance"},
             a \in UNION {ToSet(s) : s \in Items(Resolve(expected, e.expected_pointer))},
             b \in UNION {ToSet(s) : s \in Items(Resolve(row.source, e.pointer))} :
             \E r \in ExactDecimal(Resolve(a, f.pointer)),
                n \in ExactDecimal(Resolve(b, f.pointer)) : ~Fits(n - r)

\* Once configuration and references were accepted, a parsed output that is
\* incomplete, malformed or of the wrong type fails; it is never an evaluator
\* error.  Errors are left for the arithmetic that leaves the exact range, for
\* a limit that was accepted in a spelling the evaluators do not read, and for
\* evaluators that have no reference.
BadOutputsFail ==
    Scored(LAMBDA e, expected, row, result :
        (/\ result.status = "error" /\ ParsedOutput(row)
         /\ e.kind \notin {"financial_invariants"} \cup ExternalKinds
         /\ ~LooseLimits(e)) => OutOfRange(e, expected, row))

\* Evaluators that look for the same thing in the reference and the output.
Symmetric(e) ==
    \/ e.kind = "exact_json"
    \/ e.kind \in PairKinds /\ \A p \in e.pairs : p.pointer = p.expected_pointer
    \/ e.kind \in TextKinds \cup {"numeric_tolerance", "keyed_array"}
       /\ e.pointer = e.expected_pointer

Unbounded(e, expected) ==
    /\ e.kind = "numeric_tolerance" /\ ~e.exact_integer
    /\ \E r \in ExactDecimal(Resolve(expected, e.expected_pointer)), t \in e.relative :
          \E limit \in ExactDecimal(t) : ~Fits(limit * Magnitude(r))

\* An output that is the reference itself passes every evaluator with a
\* reference, whatever the comparator, unless a limit cannot be read or the
\* relative bound of a large reference leaves the range.
GoldenPasses ==
    Scored(LAMBDA e, expected, row, result :
        (/\ row.status = "ok" /\ row.source = expected /\ Symmetric(e)
         /\ ~LooseLimits(e) /\ ~Unbounded(e, expected)) => result.status = "passed")

\* An output is judged by what it says, not by how it was spelled.
OutputsAreJudged == BadOutputsFail /\ GoldenPasses

\* Two items have the same keys, and every compared field passes.
SameItem(e, a, b) ==
    /\ \A key \in e.keys : KeyValue(e, a, key) # {}
                           /\ KeyValue(e, a, key) = KeyValue(e, b, key)
    /\ \A f \in e.fields :
          CompareField(f, Resolve(a, f.pointer), Resolve(b, f.pointer)) = "passed"

Matching(e, expected, actual) ==
    \E order \in Bijection(DOMAIN expected, DOMAIN actual) :
        \A i \in DOMAIN expected : SameItem(e, expected[i], actual[order[i]])

\* A keyed array passes exactly if its items can be paired with those of the
\* reference, in whatever order, such that paired items are the same.
KeyedIsAMatching ==
    Scored(LAMBDA e, expected, row, result :
        e.kind = "keyed_array" /\ ParsedOutput(row) =>
            (result.status = "passed" <=>
                \E s \in Items(Resolve(expected, e.expected_pointer)),
                   a \in Items(Resolve(row.source, e.pointer)) : Matching(e, s, a)))

\* The number at p, if there is one.
ReadAt(output, p) == ExactDecimal(Resolve(output, p))

\* Every line of an invoice can be read.
CompleteLines(e, output) ==
    \A line \in UNION {ToSet(s) : s \in Items(Resolve(output, e.line_items))},
       p \in {e.quantity, e.unit_price, e.amount} : ReadAt(line, p) # {}

\* What the lines come to.
Due(e, s) ==
    LET Add(sum, line) ==
            sum + CHOOSE n \in {q * u : q \in ReadAt(line, e.quantity),
                                       u \in ReadAt(line, e.unit_price)} : TRUE
    IN  FoldLeft(Add, 0, s)

\* The totals are different members of the output, and none is an amount of a
\* line; nothing in a configuration demands it.
TotalsApart(e, output) ==
    /\ e.subtotal # e.total
    /\ \A s \in Items(Resolve(output, e.line_items)) : \A i \in DOMAIN s :
          <<i, e.amount>> \notin {e.subtotal, e.total}

\* Financial totals that lie apart are never blamed for inputs that cannot be
\* read: a failed subtotal has all its lines, a failed total its subtotal and
\* tax.  And if everything passes, the total is what the lines and the tax
\* come to, up to one tolerance for each comparison on the way.
FinancialIsConsistent ==
    Scored(LAMBDA e, expected, row, result :
        e.kind = "financial_invariants" /\ ParsedOutput(row) =>
            /\ TotalsApart(e, row.source) =>
                   /\ Fact(e.subtotal, "failed") \in result.facts
                          => CompleteLines(e, row.source)
                   /\ Fact(e.total, "failed") \in result.facts
                          => ReadAt(row.source, e.subtotal) # {} /\ ReadAt(row.source, e.tax) # {}
            /\ result.status = "passed" =>
                   \A s \in Items(Resolve(row.source, e.line_items)),
                      tax \in ReadAt(row.source, e.tax), total \in ReadAt(row.source, e.total),
                      tolerance \in ExactDecimal(e.tolerance) :
                      Magnitude(total - tax - Due(e, s)) <= (Len(s) + 2) * tolerance)

\* Hotspots are counted from facts and gates from statuses; the two agree: a
\* pass has only facts that passed, a failure names a failed field, and no
\* fact in error hides behind a verdict.
FactsExplainStatus ==
    Scored(LAMBDA e, expected, row, result :
        LET statuses == {f.status : f \in result.facts}
        IN  e.kind \notin {"exact_json"} \cup ExternalKinds =>
                CASE result.status = "passed" -> statuses \subseteq {"passed"}
                  [] result.status = "failed" ->
                         "failed" \in statuses /\ "error" \notin statuses
                  [] result.status = "error" ->
                         ParsedOutput(row) \/ statuses = {"error"})

\* The facts of a result, and of each item of an array, add up to its status.
FactsAddUp == KeyedIsAMatching /\ FactsExplainStatus

\* What a variant is shown (the input and the visible metadata of a case) and
\* what it must not see lie in different parts of the row, also when pointers
\* are written with escapes or one name begins with another.
HiddenFieldsStayHidden ==
    LET At(name) == Tokens(configuration.dataset.fields[name])
        Apart(a, b) == ~IsPrefix(a, b) /\ ~IsPrefix(b, a)
    IN  phase \notin {"onboarding", "configuration", "refused"} =>
            \A shown \in {"input", "model_visible_metadata"},
               hidden \in {"id", "expected", "metadata"} : Apart(At(shown), At(hidden))

\* Two cases that look the same to a model judge the same output alike.
SameStimulusSameVerdict ==
    phase = "scored" =>
        \A v \in BothVariants, i, j \in DOMAIN cases, k \in DOMAIN configuration.evaluators :
            LET e == configuration.evaluators[k] IN
            (/\ Stimulus(cases[i]) = Stimulus(cases[j])
             /\ rowsOf[v][i] = rowsOf[v][j] /\ e.kind \notin ExternalKinds)
                => results[v][i][e.id] = results[v][j][e.id]

\* A verdict depends on what a model is shown and on its output, and a model is
\* shown nothing else.
StimulusDecides == HiddenFieldsStayHidden /\ SameStimulusSameVerdict

==============================================================================
