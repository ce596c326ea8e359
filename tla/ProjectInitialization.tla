------------------------ MODULE ProjectInitialization ------------------------
(***************************************************************************)
(* structtrace init (initialize.rs), and the same code as StructTrace      *)
(* Local calls it: files exported from elsewhere are read, completed and   *)
(* turned into the configuration of a comparison, which is written file by *)
(* file into a directory that may not be empty and may have been left half *)
(* written.  The first run of the project then reads what was written, as  *)
(* CaseScoring has it.                                                     *)
(*                                                                         *)
(* A line of an export is any object; its keys, like the pointers to them, *)
(* are sequences of characters, of which a whole name is one.              *)
(***************************************************************************)
EXTENDS CaseScoring

CONSTANTS
    Sessions,   \* sequences of initializations that a user asks for
    Occupied    \* the sets of files that the directory may hold before

VARIABLES
    session,    \* what the user asks for
    attempt,    \* the initialization that was started last
    plan,       \* the files it has still to write
    made,       \* what it has made of its sources
    directory   \* the files: which attempt wrote each and what it holds

initVars == <<session, attempt, plan, made, directory>>

\* A file as attempt n (0: somebody before) has left it: "imported", a
\* "fixture" whose contents do not matter, or "partial" after a kill.
File(n, state, contents) == [by |-> n, state |-> state, holds |-> contents]
Fixture(n) == File(n, "fixture", <<>>)
Nothing == [f \in {} |-> <<>>]

\* f, and g where f says nothing.
And(f, g) == [x \in DOMAIN f \cup DOMAIN g |-> IF x \in DOMAIN f THEN f[x] ELSE g[x]]

\* The files of a project in the order in which they are written.  Exactly
\* these may not exist before.
ImportOrder ==
    <<"dataset", "baseline", "candidate", "schema", "configuration",
      "readme", "onboarding", "ignored">>

PresetOrder ==
    <<"configuration", "schema", "dataset", "baseline", "candidate", "readme", "ignored">>

TemplateOrder(template) ==
    <<"configuration", "schema", "dataset", "readme", "ignored">>
    \o IF template = "recorded" THEN <<"baseline", "candidate">> ELSE <<"program">>

Order(kind) ==
    CASE kind = "from_outputs" -> ImportOrder
      [] kind = "extraction" -> PresetOrder
      [] kind \in {"recorded", "program"} -> TemplateOrder(kind)

-----------------------------------------------------------------------------
(* Which fields of the rows are meant: members of the line itself.         *)

Field(name) == <<"/", name>>
FieldList(names) == [i \in DOMAIN names |-> Field(names[i])]
AtField(value, pointer) == Child(value, Tail(pointer))

\* first_jsonl_value: the first line that is not blank, if it is JSON.
FirstRecord(lines) ==
    LET written == SelectSeq(lines, LAMBDA line : line.form # "blank")
    IN  IF written = <<>> \/ Head(written).form = "malformed" THEN {} ELSE {Head(written).value}

\* first_existing_pointer: the configured one if the first record has it.
Tried(configured, names) == <<configured>> \o FieldList(names)
FirstExisting(value, configured, names) ==
    LET tried == Tried(configured, names)
        there == {i \in DOMAIN tried : Present(AtField(value, tried[i]))}
    IN  IF there = {} THEN configured ELSE tried[Nth(there, 1)]

DatasetNames ==
    [id |-> <<"id", "case_id", "invoice_id", "document_id", "record_id">>,
     input |-> <<"input", "payload", "document", "request", "text">>,
     expected |-> <<"expected", "ground_truth", "reference", "target", "label">>,
     model_visible_metadata |-> <<"model_visible_metadata", "visible_metadata">>,
     metadata |-> <<"metadata", "evaluation_metadata", "tags">>]

InferredDataset(first, fields) ==
    [name \in FieldNames |-> FirstExisting(first, fields[name], DatasetNames[name])]

OutputNames ==
    [id |-> <<"id", "case_id", "record_id", "document_id", "invoice_id">>,
     output |-> <<"output", "result", "response", "prediction", "parsed_output">>]

InferredOutput(first, fields) ==
    [name \in {"id", "output"} |-> FirstExisting(first, fields[name], OutputNames[name])]

\* An id, which must be a string.
IdIn(v) == IF IsA(v, "text") /\ v.text[1] = "word" THEN Tail(v.text) ELSE <<"", "plain">>

DatasetLine(fields, line) ==
    IF line.form # "row" THEN [form |-> line.form]
    ELSE [form |-> "row", id |-> IdIn(AtField(line.value, fields.id)),
          input |-> AtField(line.value, fields.input),
          visible |-> AtField(line.value, fields.model_visible_metadata),
          expected |-> AtField(line.value, fields.expected)]

DatasetLines(fields, lines) == [i \in DOMAIN lines |-> DatasetLine(fields, lines[i])]

-----------------------------------------------------------------------------
(* Outputs: the format of StructTrace itself, or any rows with an id and an *)
(* output.                                                                  *)

Quoted(v) == [text |-> <<"json", v>>]    \* a string with the JSON text of v

\* What a string says when it is read as JSON.
ReadText(s) ==
    CASE s.text[1] = "json" -> s.text[2]
      [] s.text[1] = "numeral" /\ s.text[2] \in {"plain", "fraction", "scientific"} ->
             Number(s.text[2], s.text[3])
      [] OTHER -> Malformed

EnvelopeKeys == {<<k>> : k \in {"case_id", "status", "raw_output", "parsed_output", "error",
                                "latency_ms", "usage", "cost", "metadata", "retries"}}
Failure == Object([k \in {"kind", "message"} |-> Word("w", "plain")])

\* An option that is null is not given.
Option(value, name) == LET v == AtField(value, Field(name)) IN IF v = Null THEN Absent ELSE v

\* A line as VariantOutput, of which no unknown field is accepted.
EnvelopeIn(line) ==
    LET v == line.value
        raw == Option(v, "raw_output")
    IN  IF line.form \notin {"row", "oversized"} THEN [form |-> line.form]
        ELSE IF /\ IsA(v, "members") /\ DOMAIN v.members \subseteq EnvelopeKeys
                /\ IsA(AtField(v, Field("case_id")), "text")
                /\ AtField(v, Field("status")) \in
                      {Word(s, "plain") : s \in {"ok", "error", "missing"}}
                /\ ~Present(raw) \/ IsA(raw, "text")
                /\ Option(v, "error") \in {Absent, Failure}
        THEN [form |-> line.form, case_id |-> IdIn(AtField(v, Field("case_id"))),
              status |-> AtField(v, Field("status")).text[2],
              raw |-> IF Present(raw) THEN ReadText(raw) ELSE Absent,
              parsed |-> Option(v, "parsed_output"),
              error |-> Present(Option(v, "error")), cost |-> {}]
        ELSE [form |-> "malformed"]

\* A line of simple output, and the envelope that is made of it.
SimpleStatus(v) ==
    LET status == AtField(v, Field("status"))
    IN  CASE ~IsA(status, "text") -> "ok"
          [] status \in {Word(s, "plain") : s \in {"ok", "success"}} -> "ok"
          [] status \in {Word(s, "plain") : s \in {"error", "failed"}} -> "error"
          [] OTHER -> "unsupported"

SimpleRow(fields, line) ==
    LET output == AtField(line.value, fields.output)
        status == SimpleStatus(line.value)
    IN  [form |-> line.form, case_id |-> IdIn(AtField(line.value, fields.id)),
         status |-> status,
         raw |-> IF IsA(output, "text") THEN ReadText(output) ELSE Absent,
         parsed |-> IF IsA(output, "text") \/ output = Null THEN Absent ELSE output,
         error |-> status = "error", cost |-> {}]

ValidSimple(fields, line) ==
    /\ line.form \in {"row", "oversized"}
    /\ IdIn(AtField(line.value, fields.id))[1] # ""
    /\ SimpleStatus(line.value) \in {"ok", "error"}
    /\ SimpleStatus(line.value) = "ok" => Present(AtField(line.value, fields.output))

\* read_or_normalize_outputs: rows of the other format are tried whenever the
\* file is not acceptable in the first.  The set is empty if neither is.
ReadExport(lines, fields, known) ==
    LET Envelopes == {[i \in DOMAIN lines |-> EnvelopeIn(lines[i])]}
        Chosen    == {InferredOutput(first, fields) : first \in FirstRecord(lines)}
        Simple    == {[i \in DOMAIN lines |-> SimpleRow(f, lines[i])] :
                        f \in {f \in Chosen : \A i \in DOMAIN lines : ValidSimple(f, lines[i])}}
        Good(files) == {file \in files : Recordable(file, known)}
    IN  IF Good(Envelopes) # {} THEN Good(Envelopes) ELSE Good(Simple)

-----------------------------------------------------------------------------
(* What the user compares, and the configuration that says so.             *)

\* p leads to something in v that is not itself an object or an array.
IsLeaf(v, p) ==
    LET Inner(at, key) ==
            IF ~IsA(at, "items") THEN Child(at, key)
            ELSE LET own == {i \in DOMAIN at.items : ToString(i - 1) = key}
                 IN  IF own = {} THEN Absent ELSE at.items[Nth(own, 1)]
        leaf == FoldLeft(Inner, v, p)
    IN  Present(leaf) /\ ~IsA(leaf, "members") /\ ~IsA(leaf, "items")

\* selectable_pointer_union: the properties of the schema, and the leaves of
\* the references and of the outputs that can be read.
Discovered(p, properties, values) ==
    p \in properties \/ \E v \in values : IsLeaf(v, p)

\* StructTrace Local calls with rules, in any order; the two kinds of options
\* are taken from them, and there are no others.
IsKeyed(rule) == rule.kind = "keyed_array"
KeyedAt(rules) == {i \in DOMAIN rules : IsKeyed(rules[i])}
OrdinaryAt(rules) == DOMAIN rules \ KeyedAt(rules)
InOrder(rules, positions) == [n \in 1..Cardinality(positions) |-> rules[Nth(positions, n)]]
Ordinary(rules) == InOrder(rules, OrdinaryAt(rules))

AsField(rule) == [rule EXCEPT !.kind = IF @ = "required_fields" THEN "exact" ELSE @]
Requested(e) ==
    LET fields == Ordinary(e.rules)
    IN  IF e.rules = <<>> THEN e
        ELSE [e EXCEPT !.exact_json = FALSE, !.correctness_pointers = <<>>,
                       !.field_evaluators = [i \in DOMAIN fields |-> AsField(fields[i])],
                       !.keyed_arrays = InOrder(e.rules, KeyedAt(e.rules))]

FieldKinds == {"exact", "normalized_string", "canonical_date", "exact_integer",
               "decimal_exact", "decimal_tolerance"}

\* Something is compared, and only what was discovered.
ValidSelection(e, properties, values) ==
    /\ \/ e.exact_json \/ e.correctness_pointers # <<>> \/ e.field_evaluators # <<>>
       \/ e.keyed_arrays # <<>> \/ e.financial # {}
    /\ \A p \in ToSet(e.correctness_pointers) : Discovered(p, properties, values)
    /\ \A f \in ToSet(e.field_evaluators) :
          /\ Discovered(f.pointer, properties, values) /\ f.kind \in FieldKinds
          /\ f.kind = "canonical_date" => f.formats # <<>>
          /\ f.kind = "decimal_tolerance" => f.tolerance # {}
    /\ \A a \in ToSet(e.keyed_arrays) :
          /\ Discovered(a.pointer, properties, values) /\ a.keys # {}
          /\ \A k \in a.keys : k.comparator \subseteq KeyComparators
          /\ \A f \in a.fields : f.evaluator \in ItemComparators

Named(id, kind, options) ==
    And([id |-> id, kind |-> kind,
         implementation |-> [sources |-> "within", digest |-> {}, paths |-> {}]], options)
Both(pointer) == [pointer |-> pointer, expected_pointer |-> pointer]

FieldEvaluator(f, id) ==
    CASE f.kind = "exact" -> Named(id, "json_pointer_exact", [pairs |-> {Both(f.pointer)}])
      [] f.kind \in TextKinds ->
             Named(id, f.kind, And(Both(f.pointer),
                   [case_insensitive |-> TRUE, formats |-> f.formats]))
      [] f.kind \in {"exact_integer", "decimal_exact", "decimal_tolerance"} ->
             Named(id, "numeric_tolerance", And(Both(f.pointer),
                   [relative |-> {}, exact_integer |-> f.kind = "exact_integer",
                    absolute |-> CASE f.kind = "exact_integer" -> {}
                                   [] f.kind = "decimal_exact" -> {Numeral("plain", 0)}
                                   [] f.kind = "decimal_tolerance" -> f.tolerance]))

Compare(pointer, evaluator, tolerance) ==
    [pointer |-> pointer, evaluator |-> evaluator, absolute |-> tolerance,
     case_insensitive |-> TRUE, formats |-> <<"iso">>]

\* Without fields the keys themselves are compared.
KeyedEvaluator(a, id) ==
    Named(id, "keyed_array", And(Both(a.pointer),
        [keys |-> {k.pointer : k \in a.keys},
         key_fields |-> UNION {{Compare(k.pointer, c, {}) : c \in k.comparator} : k \in a.keys},
         fields |-> IF a.fields = {} THEN {Compare(k.pointer, "exact", {}) : k \in a.keys}
                    ELSE {Compare(f.pointer, f.evaluator, f.absolute) : f \in a.fields}]))

EvaluatorsOfValues(e) ==
    (IF e.exact_json THEN <<Named("semantic_correctness", "exact_json", <<>>)>> ELSE <<>>)
    \o (IF e.correctness_pointers = <<>> THEN <<>>
        ELSE <<Named("selected_fields_exact", "json_pointers_exact",
                     [pairs |-> {Both(p) : p \in ToSet(e.correctness_pointers)}])>>)

EvaluatorsOfFields(e) ==
    [i \in DOMAIN e.field_evaluators |->
        FieldEvaluator(e.field_evaluators[i], "field_" \o ToString(i))]

EvaluatorsOfArrays(e) ==
    [i \in DOMAIN e.keyed_arrays |->
        KeyedEvaluator(e.keyed_arrays[i], "keyed_array_" \o ToString(i))]

EvaluatorsOfTotals(e) ==
    IF e.financial = {} THEN <<>>
    ELSE <<Named("financial_invariants", "financial_invariants",
                 CHOOSE m \in e.financial : TRUE)>>

ChosenEvaluators(e) ==
    EvaluatorsOfValues(e) \o EvaluatorsOfFields(e)
    \o EvaluatorsOfArrays(e) \o EvaluatorsOfTotals(e)

Configured(e, fields) ==
    [version |-> "supported", project |-> "x",
     variants |-> [v \in BothVariants |-> [kind |-> "recorded", path |-> v]],
     primary_outcome |-> "correct",
     outcomes |-> [o \in {"correct"} |->
                      [all_of |-> Ids(ChosenEvaluators(e)), any_of |-> {}]],
     evaluators |-> ChosenEvaluators(e),
     bootstrap |-> [samples |-> "within", confidence |-> "within"],
     limits |-> [l \in {"max_cases", "max_dataset_bytes"} |-> "within"],
     storage |-> [root |-> ".structtrace", patterns |-> {}, log_patterns |-> {},
                  log_bytes |-> "within"],
     dataset |-> [format |-> "jsonl", path |-> "dataset", fields |-> fields,
                  unit |-> [pointer |-> {}, include |-> {}]],
     schema |-> [path |-> "schema", provenance |-> "caller_supplied"],
     gate_mode |-> e.gate_mode,
     report |-> [filter |-> "known", search |-> "within", pointers |-> {}]]

\* The dataset of e with the fields that its first record has, and the outputs
\* for its cases, unless something is refused.
AcceptedDataset(e) ==
    {d \in {[fields |-> fields, lines |-> DatasetLines(fields, e.dataset)] : fields \in
               {InferredDataset(first, e.dataset_fields) : first \in FirstRecord(e.dataset)}} :
        ValidLines(d.lines) /\ Consistent(d.lines)}

Exported(e, d, v) ==
    ReadExport(e.outputs[v], e.output_fields, {LineId(line) : line \in ToSet(d.lines)})

AcceptedSources(e) ==
    UNION {{[fields |-> d.fields, lines |-> d.lines, baseline |-> b, candidate |-> c] :
                b \in Exported(e, d, "baseline"), c \in Exported(e, d, "candidate")} :
           d \in AcceptedDataset(e)}

ValuesIn(s) ==
    ({line.expected : line \in ToSet(s.lines)}
     \cup {Source(row) : row \in ToSet(s.baseline) \cup ToSet(s.candidate)})
    \ {Absent, Malformed}

\* initialize_from_outputs up to the first write: the contents of the files.
Prepared(e) ==
    LET Selected(s) == ValidSelection(Requested(e), e.schema.properties, ValuesIn(s))
        Files(s) == [configuration |-> Configured(Requested(e), s.fields),
                     dataset |-> e.dataset, schema |-> e.schema,
                     baseline |-> s.baseline, candidate |-> s.candidate]
    IN  {files \in {Files(s) : s \in {s \in AcceptedSources(e) : Selected(s)}} :
            e.min_cases > 0 /\ e.schema.form = "valid" /\ Valid(files.configuration)}

-----------------------------------------------------------------------------
\* What a user asks for is a finite sequence, and so are the lines and options
\* of an import.
WellFormedImport(e) ==
    /\ {"exact_json", "correctness_pointers", "field_evaluators", "keyed_arrays"} \subseteq DOMAIN e
    /\ \A v \in BothVariants : Sequential(e.outputs[v])
    /\ Sequential(e.field_evaluators) /\ Sequential(e.keyed_arrays) /\ Sequential(e.rules)
    /\ \A rule \in ToSet(e.rules) :
          /\ "kind" \in DOMAIN rule
          /\ rule.kind = "normalized_string" => rule.case_insensitive \in BOOLEAN

ASSUME SessionAssumption ==
    \A s \in Sessions :
        /\ Sequential(s)
        /\ \A e \in ToSet(s) :
              /\ e.kind \in {"from_outputs", "extraction", "recorded", "program"}
              /\ e.kind = "from_outputs" => WellFormedImport(e)

OnboardingInit ==
    /\ session \in Sessions
    /\ attempt = 0 /\ plan = <<>> /\ made = Nothing
    /\ \E files \in Occupied : directory = [f \in files |-> Fixture(0)]
    /\ phase = "onboarding" /\ given = <<>> /\ cases = <<>>
    /\ rowsOf = [v \in BothVariants |-> <<>>] /\ results = [v \in BothVariants |-> <<>>]

\* The next initialization: nothing is written unless the sources are good
\* and none of its files exists.
Initialize ==
    /\ phase = "onboarding" /\ plan = <<>> /\ attempt < Len(session)
    /\ attempt' = attempt + 1
    /\ LET e == session[attempt']
           prepared == IF e.kind = "from_outputs" THEN Prepared(e) ELSE {Nothing}
           accepted == prepared # {} /\ ToSet(Order(e.kind)) \cap DOMAIN directory = {}
       IN  /\ plan' = IF accepted THEN Order(e.kind) ELSE <<>>
           /\ made' = IF accepted THEN CHOOSE m \in prepared : TRUE ELSE Nothing
    /\ UNCHANGED <<session, directory, scoringVars>>

\* write_new, of the next file; one that exists ends the initialization.
WriteFile ==
    /\ plan # <<>>
    /\ LET f == Head(plan)
           file == IF f \in DOMAIN made THEN File(attempt, "imported", made[f])
                   ELSE Fixture(attempt)
       IN  /\ directory' = And(directory, [x \in {f} |-> file])
           /\ plan' = IF f \in DOMAIN directory THEN <<>> ELSE Tail(plan)
    /\ UNCHANGED <<session, attempt, made, scoringVars>>

\* The process is killed, in the middle of a file or before it.
Kill ==
    /\ plan # <<>>
    /\ directory' \in {directory,
                      And(directory, [x \in {Head(plan)} |-> File(attempt, "partial", <<>>)])}
    /\ plan' = <<>>
    /\ UNCHANGED <<session, attempt, made, scoringVars>>

\* build_and_run gives evaluators the meaning that options cannot express.
AdjustedTo(rule, evaluator) ==
    CASE rule.kind = "required_fields" ->
           Named(evaluator.id, "required_fields", [required |-> {rule.pointer}])
      [] rule.kind = "normalized_string" /\ ~rule.case_insensitive ->
           [evaluator EXCEPT !.case_insensitive = FALSE]
      [] OTHER -> evaluator

\* Mutant of Adjusted: rules and evaluators are paired as they come.
AdjustedAsListed(evaluators, rules) ==
    [k \in DOMAIN evaluators |->
        IF k \notin DOMAIN rules THEN evaluators[k] ELSE AdjustedTo(rules[k], evaluators[k])]

\* Keyed rules have no part in it.
Adjusted(evaluators, rules) ==
    [k \in DOMAIN evaluators |->
        IF k \notin DOMAIN Ordinary(rules) THEN evaluators[k]
        ELSE AdjustedTo(Ordinary(rules)[k], evaluators[k])]

\* A project whose configuration was imported is run for the first time.  Local
\* does so itself, after the import has succeeded, and adjusts the
\* configuration first.
Imported ==
    /\ "configuration" \in DOMAIN directory
    /\ directory["configuration"].state = "imported"

Succeeded(n) ==
    "ignored" \in DOMAIN directory /\ directory["ignored"] = Fixture(n)

RunProject ==
    /\ phase = "onboarding" /\ plan = <<>> /\ Imported
    /\ LET n == directory["configuration"].by
           rules == session[n].rules
           c == [directory["configuration"].holds EXCEPT !.evaluators = Adjusted(@, rules)]
       IN  /\ rules = <<>> \/ Succeeded(n)
           /\ directory' = [directory EXCEPT !["configuration"].holds = c]
           /\ given' = [config |-> c,
                        dataset |-> DatasetLines(c.dataset.fields, directory["dataset"].holds),
                        schema |-> directory["schema"].holds.form,
                        outputs |-> [v \in BothVariants |-> directory[v].holds]]
    /\ phase' = "configuration"
    /\ UNCHANGED <<session, attempt, plan, made, cases, rowsOf, results>>

FirstRun == ScoringNext /\ UNCHANGED initVars

Onboarding == Initialize \/ WriteFile \/ Kill \/ RunProject \/ FirstRun

OnboardingSpec == OnboardingInit /\ [][Onboarding]_<<scoringVars, initVars>>

-----------------------------------------------------------------------------
(* Properties.                                                             *)

\* The files that initializations have written are those of one of them,
\* whatever was killed and tried again, and files that were there before are
\* still what they were.
OneInitialization ==
    LET authors == {directory[f].by : f \in DOMAIN directory} \ {0}
    IN  /\ Cardinality(authors) <= 1
        /\ \A n \in authors, f \in DOMAIN directory :
              f \in ToSet(Order(session[n].kind)) => directory[f].by = n

\* A directory that names imported files in its configuration has all of them.
ConfiguredIsWhole ==
    Imported => \A f \in {"dataset", "schema"} \cup BothVariants :
                    /\ f \in DOMAIN directory /\ directory[f].state = "imported"
                    /\ directory[f].by = directory["configuration"].by

\* What was accepted for an import is accepted again by the first run, with
\* the configuration and the files as they were written; only references that
\* an evaluator cannot read, for which an import does not look, are refused.
FirstRunIsAccepted ==
    attempt > 0 /\ phase = "refused" =>
        \E i \in DOMAIN cases, k \in DOMAIN configuration.evaluators :
            ~GoodReference(configuration.evaluators[k], cases[i].expected)

\* A case is scored with what the row that names it says in one of its fields,
\* and as the failure or the missing output that this row reports.  Every row
\* of an export names a case, all of them in the same field.
RowsAreExported ==
    LET e == session[directory["configuration"].by]
        IdFields == {Field("case_id")} \cup ToSet(Tried(e.output_fields.id, OutputNames.id))
        OutputFields == {Field("raw_output")}
                        \cup ToSet(Tried(e.output_fields.output, OutputNames.output))
        Read(v) == IF IsA(v, "text") THEN ReadText(v) ELSE v
        Reports(v) ==
            CASE AtField(v, Field("status")) = Word("missing", "plain") -> "missing"
              [] AtField(v, Field("status")) \in {Word(s, "plain") : s \in {"error", "failed"}}
                     -> "error"
              [] OTHER -> "ok"
        Says(v, output) == {AtField(v, Field("parsed_output")), Read(AtField(v, output))}
    IN  attempt > 0 /\ phase \in {"scoring", "scored"} =>
            \A v \in BothVariants : \E id \in IdFields, output \in OutputFields :
                LET lines == e.outputs[v]
                    Names(j, i) == IdIn(AtField(lines[j].value, id)) = <<cases[i].id, "plain">>
                IN  /\ \A j \in DOMAIN lines : \E i \in DOMAIN cases : Names(j, i)
                    /\ \A i \in DOMAIN cases :
                          LET row == rowsOf[v][i] IN
                          /\ (\A j \in DOMAIN lines : ~Names(j, i)) => row.status = "missing"
                          /\ \A j \in DOMAIN lines : Names(j, i) =>
                                /\ row.status = Reports(lines[j].value)
                                /\ row.status = "ok" =>
                                      row.source \in Says(lines[j].value, output)

\* A raw text that is exported is what is scored, also when it is no JSON
\* (output.rs: a parsed output never overrides it).  The code violates this: a
\* row with a malformed raw_output and a parsed_output is no envelope, is then
\* read as a row of the other format, and its parsed_output is scored.
RawTextWins ==
    attempt > 0 /\ phase \in {"scoring", "scored"} =>
        \A v \in BothVariants, i \in DOMAIN cases :
            \A line \in ToSet(session[directory["configuration"].by].outputs[v]) :
                LET raw == AtField(line.value, Field("raw_output"))
                IN  IdIn(AtField(line.value, Field("case_id"))) = <<cases[i].id, "plain">>
                        /\ IsA(raw, "text") => rowsOf[v][i].source = ReadText(raw)

\* c looks at the field of the rule and has the meaning of the rule.
Meant(rule, c) ==
    CASE rule.kind = "required_fields" ->
           c.kind = "required_fields" /\ c.required = {rule.pointer}
      [] rule.kind = "keyed_array" -> c.kind = "keyed_array" /\ c.pointer = rule.pointer
      [] rule.kind = "exact" ->
           c.kind = "json_pointer_exact" /\ c.pairs = {Both(rule.pointer)}
      [] rule.kind \in TextKinds ->
           /\ c.kind = rule.kind /\ c.pointer = rule.pointer
           /\ rule.kind = "normalized_string" => c.case_insensitive = rule.case_insensitive
      [] OTHER -> c.kind = "numeric_tolerance" /\ c.pointer = rule.pointer

\* If the user chose rules, each is one evaluator of the comparison, for the
\* same field and with the meaning that the rule has; besides them, only the
\* totals are checked.
RulesAreApplied ==
    LET rules == session[directory["configuration"].by].rules
        evaluators == configuration.evaluators
        ruled == {k \in DOMAIN evaluators : evaluators[k].kind # "financial_invariants"}
    IN  attempt > 0 /\ phase # "onboarding" =>
            (rules # <<>> => \E rule \in Bijection(ruled, DOMAIN rules) :
                                \A k \in ruled : Meant(rules[rule[k]], evaluators[k]))

\* An import is complete, is one import, and compares what the user exported
\* by the rules that the user chose.
ImportIsSound ==
    /\ OneInitialization
    /\ ConfiguredIsWhole
    /\ FirstRunIsAccepted
    /\ RowsAreExported
    /\ RulesAreApplied

=============================================================================
