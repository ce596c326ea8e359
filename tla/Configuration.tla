---------------------------- MODULE Configuration ----------------------------
(***************************************************************************)
(* Config::validate (config.rs): what a configuration must be before any   *)
(* adapter, evaluator or gate sees it.  The limits of the gate itself are  *)
(* in ReleaseGate.  A text is "x", blank (" ") or empty, a bounded number  *)
(* is "zero", "within" or "beyond" its hard limit, and an optional value   *)
(* is a set of at most one element.                                        *)
(***************************************************************************)
EXTENDS BuiltinEvaluators

Blank(text)     == text \in {"", " "}
Bounded(n)      == n = "within"
InvalidPath     == <<"invalid">>
ValidPaths(ps)  == InvalidPath \notin ps
\* Decimal::from_str, and not negative.
ValidLimit(t)   == \E n \in ConfiguredDecimal(t) : n >= 0

ValidImplementation(i) ==
    i.sources # "beyond" /\ (\A d \in i.digest : ~Blank(d)) /\ "" \notin i.paths

\* validate_variant.
ValidProcess(v) ==
    /\ v.kind = "command" => ~Blank(v.program)
    /\ v.kind = "python" => ~Blank(v.interpreter) /\ v.callable = "module:callable"
    /\ Bounded(v.timeout_ms)
    /\ ValidImplementation(v.implementation)

ValidPricing(p) == ValidLimit(p.input) /\ ValidLimit(p.output) /\ ~Blank(p.currency)

ValidEndpoint(v) ==
    /\ ~Blank(v.model) /\ ~Blank(v.user_template)
    /\ v.base_url = "root"
    /\ \A name \in v.api_key_env : ~Blank(name)
    /\ Bounded(v.timeout_ms) /\ Bounded(v.concurrency) /\ v.retries # "beyond"
    /\ Bounded(v.max_output_tokens) /\ v.temperature = "within"
    /\ \A s \in v.structured_output :
          s.mode \in {"json_schema", "json_object"} /\ "" \notin s.schema
    /\ \A p \in v.pricing : ValidPricing(p)

ValidVariant(v) ==
    CASE v.kind = "recorded" -> v.path # ""
      [] v.kind = "openai_compatible" -> ValidEndpoint(v)
      [] OTHER -> ValidProcess(v)

\* validate_evaluator.  Formats that contradict each other are refused.
ValidFormats(formats) ==
    /\ formats # <<>>
    /\ ToSet(formats) \subseteq {"iso", "dmy_slash", "mdy_slash"}
    /\ ~({"dmy_slash", "mdy_slash"} \subseteq ToSet(formats))

ValidField(f, evaluators) ==
    /\ ValidPaths({f.pointer})
    /\ f.evaluator \in evaluators
    /\ f.evaluator = "decimal_tolerance" => \E t \in f.absolute : ValidLimit(t)
    /\ f.evaluator = "canonical_date" => ValidFormats(f.formats)

KeyComparators  == {"exact", "normalized_string", "exact_integer", "canonical_date"}
ItemComparators == KeyComparators \cup {"decimal_exact", "decimal_tolerance"}

ValidKeyedArray(e) ==
    /\ ValidPaths({e.pointer, e.expected_pointer} \cup e.keys)
    /\ e.keys # {} /\ e.fields # {}
    /\ \A f \in e.key_fields : f.pointer \in e.keys /\ ValidField(f, KeyComparators)
    /\ \A f \in e.fields : ValidField(f, ItemComparators)

ValidExternal(e) ==
    /\ e.process_mode = "persistent"
    /\ ~Blank(e.program) /\ Bounded(e.timeout_ms)
    /\ \E v \in e.implementation_version : ~Blank(v)

EvaluatorKinds ==
    {"exact_json", "numeric_tolerance", "required_fields", "keyed_array",
     "financial_invariants"} \cup PairKinds \cup TextKinds \cup ExternalKinds

ValidEvaluator(e) ==
    /\ e.kind \in EvaluatorKinds
    /\ CASE e.kind = "exact_json" -> TRUE
         [] e.kind \in PairKinds ->
                e.pairs # {} /\ ValidPaths(UNION {{p.pointer, p.expected_pointer} : p \in e.pairs})
         [] e.kind = "normalized_string" -> ValidPaths({e.pointer, e.expected_pointer})
         [] e.kind = "canonical_date" ->
                ValidPaths({e.pointer, e.expected_pointer}) /\ ValidFormats(e.formats)
         [] e.kind = "numeric_tolerance" ->
                /\ ValidPaths({e.pointer, e.expected_pointer})
                /\ \A t \in e.absolute \cup e.relative : ValidLimit(t)
         [] e.kind = "required_fields" -> e.required # {} /\ ValidPaths(e.required)
         [] e.kind = "keyed_array" -> ValidKeyedArray(e)
         [] e.kind = "financial_invariants" ->
                /\ ValidPaths({e.line_items, e.quantity, e.unit_price, e.amount,
                               e.subtotal, e.tax, e.total})
                /\ ValidLimit(e.tolerance)
         [] e.kind \in ExternalKinds -> ValidExternal(e)

\* validate_dataset_field_isolation: no two pointers of a case overlap.
FieldNames == {"id", "input", "expected", "model_visible_metadata", "metadata"}

\* Mutant of FieldsIsolated: only equal pointers overlap.
FieldsDiffer(fields) == \A a, b \in FieldNames : a # b => fields[a] # fields[b]

FieldsIsolated(fields) ==
    \A a, b \in FieldNames : a # b => ~PointersOverlap(fields[a], fields[b])

ValidDataset(d) ==
    /\ d.format = "jsonl" /\ d.path # ""
    /\ \A name \in FieldNames : ValidPointer(d.fields[name])
    /\ FieldsIsolated(d.fields)
    /\ d.unit.pointer = {} \/ d.unit.include = {}
    /\ ValidPaths(d.unit.pointer)
    /\ \A include \in d.unit.include : include # {} /\ ValidPaths(include)

\* Every outcome composes evaluators that exist, in one of the two ways.
ValidOutcome(o, ids) ==
    (o.all_of = {}) # (o.any_of = {}) /\ o.all_of \cup o.any_of \subseteq ids

ValidStorage(s) ==
    s.root # "" /\ "" \notin s.patterns /\ "" \notin s.log_patterns /\ Bounded(s.log_bytes)

ValidReport(r) ==
    r.filter = "known" /\ r.search # "beyond" /\ ValidPaths(r.pointers)

Ids(evaluators) == {evaluators[i].id : i \in DOMAIN evaluators}

Valid(c) ==
    /\ c.version = "supported" /\ ~Blank(c.project)
    /\ DOMAIN c.variants = {"baseline", "candidate"}
    /\ c.primary_outcome \in DOMAIN c.outcomes
    /\ Cardinality(Ids(c.evaluators)) = Len(c.evaluators)
    /\ \A name \in DOMAIN c.outcomes :
          ~Blank(name) /\ ValidOutcome(c.outcomes[name], Ids(c.evaluators))
    /\ Bounded(c.bootstrap.samples) /\ c.bootstrap.confidence # "beyond"
    /\ \A name \in DOMAIN c.limits : Bounded(c.limits[name])
    /\ ValidStorage(c.storage)
    /\ ValidDataset(c.dataset)
    /\ c.schema.path # ""
    /\ \A name \in DOMAIN c.variants : ValidVariant(c.variants[name])
    /\ \A i \in DOMAIN c.evaluators : LET e == c.evaluators[i] IN
          ~Blank(e.id) /\ ValidEvaluator(e) /\ ValidImplementation(e.implementation)
    /\ c.gate_mode = "release" => c.schema.provenance = "caller_supplied"
    /\ ValidReport(c.report)

=============================================================================
