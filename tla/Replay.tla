------------------------------- MODULE Replay -------------------------------
(***************************************************************************)
(* The evidence that a finished run leaves in its directory, and replay,   *)
(* which reads that directory back: every hash the manifest binds, every   *)
(* copy of a fact against the others, and every score and the summary      *)
(* computed again from the retained inputs.                                *)
(*                                                                         *)
(* The directory is a function from files to contents.  The hash of a file *)
(* is its content: two contents never share one.  The evaluators are one   *)
(* that compares with the reference and, when configured, one external     *)
(* program, whose answer only its receipt retains.  The summary counts the *)
(* deployed cases; ReleaseGate has the rest of it.                         *)
(***************************************************************************)
EXTENDS Naturals, Sequences, FiniteSets

CONSTANTS
    Values,     \* JSON values
    Garbled,    \* a text that is not strict JSON
    None        \* no text, value, error, evaluator or file

Errors == {"echoed", "rejected", "failed"}

ASSUME ReplayAssumption ==
    /\ {Garbled, None} \cap Values = {}
    /\ None \notin Errors \cup {Garbled}

Variants == {"baseline", "candidate"}

S == INSTANCE Scoring WITH Evaluators <- {"exact", "external"}, External <- {"external"}

\* A retained row: what the adapter returned.  error is "echoed" (a provider's
\* own words), "rejected" (the fixed text that replaces them) or "failed";
\* notes are the keys of metadata that matter here.
Row(id, status, raw, parsed, error, notes) ==
    [case |-> id, status |-> status, raw |-> raw, parsed |-> parsed, error |-> error,
     notes |-> notes]

MissingRow(id) == Row(id, "missing", None, None, "failed", {})

Rows(id) ==
    [case : {id}, status : {"ok", "error", "missing"}, raw : Values \cup {Garbled, None},
     parsed : Values \cup {None}, error : Errors \cup {None},
     notes : SUBSET {"response", "prompt", "parse error"}]

-----------------------------------------------------------------------------
(* What is written: retention, scoring and the summary                     *)

Strict(row) ==
    LET text == IF row.raw = None THEN row.parsed ELSE row.raw
    IN  IF text \in Values THEN text ELSE None

Redacted(error) == IF error = "echoed" THEN "rejected" ELSE error

\* sanitize_evaluation_view
Sanitized(row) ==
    [row EXCEPT !.error = Redacted(@), !.notes = @ \ {"response", "prompt"}]

\* apply_storage_retention of one row.
WithoutRaw(row) ==
    [row EXCEPT !.raw = None, !.parsed = Strict(row),
                !.notes = (@ \ {"parse error"}) \cup {"parse receipt"}
                          \cup (IF Strict(row) = None THEN {"parse error"} ELSE {})]
WithoutResponse(row) == [row EXCEPT !.error = Redacted(@), !.notes = @ \ {"response"}]
WithoutPrompt(row)   == [row EXCEPT !.notes = @ \ {"prompt"}]

Retained(row, setting) ==
    LET text     == IF setting.raw THEN row ELSE WithoutRaw(row)
        provider == IF setting.responses THEN text ELSE WithoutResponse(text)
    IN  IF setting.prompts THEN provider ELSE WithoutPrompt(provider)

\* The case evaluation of a row; answer is what the external program said.
ParseError(row) ==
    IF row.status # "ok" THEN row.error
    ELSE IF Strict(row) # None THEN None
    ELSE IF row.raw = Garbled \/ "parse error" \in row.notes THEN "unparsable"
    ELSE "no output"

Outcome(setting) ==
    [mode |-> "all_of",
     ids |-> {"exact"} \cup (IF setting.evaluator = None THEN {} ELSE {"external"})]

Evaluated(case, row, setting, schema, answer) ==
    LET value == IF row.status = "ok" THEN Strict(row) ELSE None
        seen  == [adapter |-> IF row.status = "ok" THEN "ok" ELSE "error",
                  parses |-> value # None, conforms |-> value \in schema,
                  results |-> [exact |-> IF value = case.expected THEN "passed" ELSE "failed",
                               external |-> answer],
                  latency |-> S!Unmeasured]
        outcome == Outcome(setting)
    IN  [status |-> row.status, parsed |-> value, parse_error |-> ParseError(row),
         schema_valid |-> S!SchemaValid(seen), results |-> S!ResultsOf(seen),
         pass |-> S!PrimaryPass(outcome, seen), full |-> S!PrimaryFull(outcome, seen),
         deployed |-> S!Deployed(outcome, seen)]

Transition(b, c) == <<b, c>>
SemanticTransition(b, c) ==
    IF b.full /\ c.full THEN Transition(b.pass, c.pass) ELSE None

Record(case, baseline, candidate, b, c) ==
    [case |-> case, baseline_output |-> baseline, candidate_output |-> candidate,
     baseline |-> b, candidate |-> c,
     deployment |-> Transition(b.deployed, c.deployed),
     semantic |-> SemanticTransition(b, c)]

\* build_summary, as far as the checks tell summaries apart.
Summary(run, setting, records) ==
    LET Deployed(v) == {i \in DOMAIN records : records[i][v].deployed}
        better      == Cardinality(Deployed("candidate")) >= Cardinality(Deployed("baseline"))
    IN  [run |-> run, cases |-> Len(records),
         deployed |-> [v \in Variants |-> Cardinality(Deployed(v))],
         status |-> IF setting.gate = "none" THEN "not_configured"
                    ELSE IF better THEN "passed" ELSE "failed",
         authorized |-> setting.gate = "release" /\ better]

-----------------------------------------------------------------------------
(* Receipts of the external evaluator                                      *)

\* stable_evaluator_output: the view of an output that an external evaluator
\* is given.
StableOutput(row) ==
    LET value == IF row.parsed # None THEN row.parsed
                 ELSE IF row.raw \in Values THEN row.raw ELSE None
    IN  [Sanitized(row) EXCEPT !.raw = value, !.parsed = value]

Request(case, row, v) == <<case, StableOutput(row), v>>

Receipt(case, row, v, setting, answer) ==
    [case |-> case.id, variant |-> v, request |-> Request(case, row, v),
     definition |-> setting.evaluator, response |-> answer, result |-> answer]

-----------------------------------------------------------------------------
(* The finished directory                                                  *)

InputFiles == {"baseline", "candidate"}
Files == InputFiles \cup {"configuration", "source", "dataset", "schema", "receipts",
                          "cases", "summary", "report"}

Manifest(run, setting, files) ==
    [format |-> "supported", status |-> "complete", run |-> run,
     bound |-> [f \in {g \in Files : files[g] # None} |-> files[f]],
     configuration |-> setting, source |-> files.source, dataset |-> files.dataset,
     schema |-> files.schema,
     evaluation |-> setting.evaluator, gate |-> setting.gate]

ReceiptsOf(dataset, captured, setting, answers) ==
    LET Of(v) == [i \in DOMAIN dataset |->
                    Receipt(dataset[i], Sanitized(captured[v][i]), v, setting,
                            answers[v][i])]
    IN  IF setting.evaluator = None THEN None ELSE Of("baseline") \o Of("candidate")

\* finalize_prepared_for_run_observed: scores come from the captured rows,
\* files keep the retained ones.
RecordsOf(dataset, captured, setting, schema, answers) ==
    [i \in DOMAIN dataset |->
        LET E(v) == Evaluated(dataset[i], Sanitized(captured[v][i]), setting, schema,
                              answers[v][i])
        IN  Record(dataset[i], Retained(captured.baseline[i], setting),
                   Retained(captured.candidate[i], setting), E("baseline"), E("candidate"))]

FilesOf(run, input) ==
    LET setting == input.setting
        Kept(v) == [i \in DOMAIN input.dataset |-> Retained(input.captured[v][i], setting)]
        records == RecordsOf(input.dataset, input.captured, setting, input.schema,
                             input.answers)
    IN  [f \in Files |->
            CASE f = "configuration" -> setting
              [] f \in InputFiles    -> Kept(f)
              [] f = "dataset"       -> input.dataset
              [] f = "schema"        -> input.schema
              [] f = "receipts"      -> ReceiptsOf(input.dataset, input.captured, setting,
                                                   input.answers)
              [] f = "cases"         -> records
              [] f = "summary"       -> Summary(run, setting, records)
              [] OTHER               -> "written"]

Finished(run, input) ==
    LET files == FilesOf(run, input)
    IN  [f \in Files \cup {"manifest"} |->
            IF f = "manifest" THEN Manifest(run, input.setting, files) ELSE files[f]]

-----------------------------------------------------------------------------
(* Replay                                                                  *)

\* RecordedOutputs: the rows of a retained file, one for each case.
Acceptable(row) ==
    IF row.status = "ok"
    THEN /\ row.error = None
         /\ row.raw # None \/ row.parsed # None
         /\ row.raw # None /\ row.parsed # None => row.raw = row.parsed
    ELSE row.error # None /\ row.raw = None /\ row.parsed = None

Ids(dataset) == {dataset[i].id : i \in DOMAIN dataset}

OutputsRead(rows, dataset) ==
    /\ \A i \in DOMAIN rows : rows[i].case \in Ids(dataset) /\ Acceptable(rows[i])
    /\ \A i, j \in DOMAIN rows : i # j => rows[i].case # rows[j].case

RowOf(rows, id) ==
    IF \E i \in DOMAIN rows : rows[i].case = id
    THEN rows[CHOOSE i \in DOMAIN rows : rows[i].case = id]
    ELSE MissingRow(id)

\* Everything replay reads is there and can be read.
Readable(d) ==
    /\ d.manifest # None
    /\ d.manifest.format = "supported"
    /\ \A f \in DOMAIN d.manifest.bound : d[f] # None
    /\ \A f \in Files \ {"receipts", "report"} : d[f] # None
    /\ d.configuration.evaluator # None => d.receipts # None
    /\ \A f \in InputFiles : OutputsRead(d[f], d.dataset)

HashesMatch(d) ==
    /\ \A f \in DOMAIN d.manifest.bound : d[f] = d.manifest.bound[f]
    /\ d.manifest.configuration = d.configuration
    /\ d.manifest.source = d.source
    /\ d.manifest.dataset = d.dataset
    /\ d.manifest.schema = d.schema

\* compare_manifest_to_config
CopiesMatch(d) ==
    /\ d.manifest.evaluation = d.configuration.evaluator
    /\ d.manifest.gate = d.configuration.gate

\* The records of cases.jsonl are one for each case of the dataset.
Stored(d, id) == {i \in DOMAIN d.cases : d.cases[i].case.id = id}
RecordsMatch(d) ==
    /\ \A i \in DOMAIN d.cases : d.cases[i].case.id \in Ids(d.dataset)
    /\ \A id \in Ids(d.dataset) : Cardinality(Stored(d, id)) = 1
RecordOf(d, id) == d.cases[CHOOSE i \in Stored(d, id) : TRUE]

RowOfCase(d, v, i) == RowOf(d[v], d.dataset[i].id)

\* verified_external_results: one receipt for each case and variant, which
\* binds its request, its answer and the program, and no other receipt.
ReceiptsFor(d, v, i) ==
    {r \in DOMAIN d.receipts :
        d.receipts[r].case = d.dataset[i].id /\ d.receipts[r].variant = v}

Bound(d, v, i, receipt) ==
    /\ receipt.request = Request(d.dataset[i], RowOfCase(d, v, i), v)
    /\ receipt.response = receipt.result
    /\ receipt.definition = d.configuration.evaluator

ReceiptsMatch(d) ==
    d.configuration.evaluator # None =>
        /\ \A v \in Variants : \A i \in DOMAIN d.dataset :
              /\ Cardinality(ReceiptsFor(d, v, i)) = 1
              /\ \A r \in ReceiptsFor(d, v, i) :
                    /\ Bound(d, v, i, d.receipts[r])
                    /\ RecordOf(d, d.dataset[i].id)[v].results.external
                          = d.receipts[r].result
        /\ Len(d.receipts) = 2 * Len(d.dataset)

\* The answer that replay scores with: the receipt's, or none.
AnswerOf(d, v, i) ==
    IF d.configuration.evaluator = None THEN "not_applicable"
    ELSE IF ReceiptsFor(d, v, i) = {} THEN "error"
    ELSE d.receipts[CHOOSE r \in ReceiptsFor(d, v, i) : TRUE].result

Rescored(d, v, i) ==
    Evaluated(d.dataset[i], RowOfCase(d, v, i), d.configuration, d.schema, AnswerOf(d, v, i))

Replayed(d) ==
    [i \in DOMAIN d.dataset |->
        Record(d.dataset[i], RowOfCase(d, "baseline", i), RowOfCase(d, "candidate", i),
               Rescored(d, "baseline", i), Rescored(d, "candidate", i))]

\* Mutant: what a record repeats of its case and outputs is not compared.
EqualScores(d, i) ==
    LET stored == RecordOf(d, d.dataset[i].id) IN
    \A v \in Variants : stored[v] = Replayed(d)[i][v]

\* Every part of a stored record is compared with the replayed one.
EqualRecords(d, i) == RecordOf(d, d.dataset[i].id) = Replayed(d)[i]

SummaryMatches(d) == d.summary = Summary(d.manifest.run, d.configuration, Replayed(d))

\* replay_run reports no mismatch.
Verified(d) ==
    /\ Readable(d)
    /\ HashesMatch(d)
    /\ CopiesMatch(d)
    /\ RecordsMatch(d)
    /\ ReceiptsMatch(d)
    /\ \A i \in DOMAIN d.dataset : EqualRecords(d, i)
    /\ SummaryMatches(d)

-----------------------------------------------------------------------------
(* What is finished, and what of it replay can reproduce                   *)

\* What the finalizer is given: cases with names of their own, and for each of
\* them, in their order, a row of each variant as RecordedOutputs accepts it or
\* an adapter returns it, without the receipts that retention leaves.  None is
\* not what a file holds.
Finishable(run, input) ==
    LET setting == input.setting
        cases   == DOMAIN input.dataset
    IN  /\ DOMAIN setting = {"raw", "responses", "prompts", "evaluator", "gate"}
        /\ {setting.raw, setting.responses, setting.prompts} \subseteq BOOLEAN
        /\ Len(input.dataset) \in Nat \ {0} /\ cases = 1..Len(input.dataset)
        /\ \A i, j \in cases : i # j => input.dataset[i].id # input.dataset[j].id
        /\ \A v \in Variants : \A i \in cases :
              /\ input.captured[v][i] \in Rows(input.dataset[i].id)
              /\ Acceptable(input.captured[v][i])
              /\ setting.evaluator = None => input.answers[v][i] = "not_applicable"
        /\ \A f \in Files \cup {"manifest"} :
              Finished(run, input)[f] = None => f = "receipts" /\ setting.evaluator = None

\* The settings and captured rows of a run that replay accepts when nothing
\* was changed: with raw outputs retained, everything but a provider's words
\* that were retained; without them, only outputs that parse, and no external
\* evaluator (whose request quotes metadata that retention adds to).
Reproducible(input) ==
    LET rows == {input.captured[v][i] : v \in Variants, i \in DOMAIN input.dataset}
    IN  /\ input.setting.responses => \A row \in rows : row.error # "echoed"
        /\ ~input.setting.raw =>
              /\ input.setting.evaluator = None
              /\ \A row \in rows : row.status = "ok" => Strict(row) # None

=============================================================================
