---------------------------- MODULE MCCaseScoring ----------------------------
(* Inputs of CaseScoring for TLC: one comparison for each choice of an      *)
(* evaluator, a reference and an output, and one for each way in which a    *)
(* configuration or a file differs from a plain one.                        *)
EXTENDS ProjectInitialization

At(key) == <<key>>
Text(s) == [i \in 1..Len(s) |-> s[i]]
Plain(n) == Number("plain", n)
NoFiles == [sources |-> "within", digest |-> {}, paths |-> {}]

Evaluator(kind, options) ==
    options @@ [id |-> "e", kind |-> kind, implementation |-> NoFiles]
FieldOf(key, evaluator) ==
    [pointer |-> At(key), evaluator |-> evaluator, absolute |-> {},
     case_insensitive |-> TRUE, formats |-> <<"iso">>]

-----------------------------------------------------------------------------
(* A configuration in which nothing is unusual.                             *)

Recorded == [kind |-> "recorded", path |-> "x"]
Fields == [id |-> <<"/", "i">>, input |-> <<"/", "a">>, expected |-> <<"/", "b">>,
           model_visible_metadata |-> <<"/", "m">>, metadata |-> <<"/", "n">>]

Base(e) ==
    [version |-> "supported", project |-> "x",
     variants |-> [v \in BothVariants |-> Recorded],
     primary_outcome |-> "quality",
     outcomes |-> [o \in {"quality"} |-> [all_of |-> {"e"}, any_of |-> {}]],
     evaluators |-> <<e>>,
     bootstrap |-> [samples |-> "within", confidence |-> "within"],
     limits |-> [l \in {"max_cases", "max_dataset_bytes"} |-> "within"],
     storage |-> [root |-> "x", patterns |-> {}, log_patterns |-> {}, log_bytes |-> "within"],
     dataset |-> [format |-> "jsonl", path |-> "x", fields |-> Fields,
                  unit |-> [pointer |-> {}, include |-> {}]],
     schema |-> [path |-> "x", provenance |-> "caller_supplied"],
     gate_mode |-> "advisory",
     report |-> [filter |-> "known", search |-> "within", pointers |-> {}]]

Line(id, input, expected) ==
    [form |-> "row", id |-> <<id, "plain">>, input |-> input, visible |-> Absent,
     expected |-> expected]
Row(id, raw) ==
    [form |-> "row", case_id |-> <<id, "plain">>, status |-> "ok", raw |-> raw,
     parsed |-> Absent, error |-> FALSE, cost |-> {}]

Input(c, lines, output) ==
    [config |-> c, dataset |-> lines, schema |-> "valid",
     outputs |-> [v \in BothVariants |-> IF v = "candidate" THEN output ELSE <<>>]]
One(e, expected, output) ==
    Input(Base(e), <<Line("c1", Plain(0), expected)>>, <<Row("c1", output)>>)

-----------------------------------------------------------------------------
(* References and outputs, by evaluator.                                    *)

Wrapped(vs) == {Absent} \cup {Object([k \in {"v"} |-> v]) : v \in vs}

Numbers ==
    {Null, Word("w", "plain")}
    \cup {Number(f, n) : f \in {"plain", "fraction", "scientific"}, n \in {-3, 0, 2, 3, 4}}
    \cup {Numeral(f, 2) : f \in {"plain", "padded", "spaced", "loose"}}

Limits == {{}, {Numeral("plain", 0)}, {Numeral("fraction", 1)}, {Numeral("loose", 1)},
           {Numeral("plain", -1)}, {Numeral("plain", 2)}}

NumericEvaluators ==
    {Evaluator("numeric_tolerance",
        [pointer |-> At("v"), expected_pointer |-> At("v"), absolute |-> a, relative |-> r,
         exact_integer |-> i]) : a \in Limits, r \in Limits, i \in BOOLEAN}

NumericChoice ==
    \E e \in NumericEvaluators, x \in Wrapped(Numbers), y \in Wrapped(Numbers) :
        (e.exact_integer => e.relative = {}) /\ Start(One(e, x, y))

Texts == {Null, Plain(1)}
         \cup {Word("w", f) : f \in {"plain", "spaced", "upper", "compat"}}
         \cup {Word("u", "plain"), Numeral("spaced", 1), Numeral("plain", 1)}

Dates == {Null, Plain(1), Word("w", "plain")}
         \cup {Date(s, a, b, c) : s \in {"-", "/"}, a \in {3, 29, 2024}, b \in {2, 3},
                                  c \in {3, 29, 2023, 2024}}

TextEvaluators ==
    {Evaluator("normalized_string",
        [pointer |-> At("v"), expected_pointer |-> At("v"), case_insensitive |-> c,
         formats |-> <<>>]) : c \in BOOLEAN}
DateEvaluators ==
    {Evaluator("canonical_date",
        [pointer |-> At("v"), expected_pointer |-> At("v"), case_insensitive |-> TRUE,
         formats |-> f]) :
        f \in {<<"iso">>, <<"dmy_slash", "iso">>, <<"mdy_slash">>, <<"dmy_slash", "mdy_slash">>}}

TextChoice ==
    \/ \E e \in TextEvaluators, x \in Wrapped(Texts), y \in Wrapped(Texts) : Start(One(e, x, y))
    \/ \E e \in DateEvaluators, x \in Wrapped(Dates), y \in Wrapped(Dates) : Start(One(e, x, y))

Pairs == {Absent} \cup {Object([k \in K |-> IF k = "v" THEN v ELSE Plain(1)]) :
                          K \in {{"v"}, {"u"}, {"u", "v"}},
                          v \in {Null, Plain(1), Number("fraction", 1), Array(<<>>)}}
PairOf(a, b) == [pointer |-> At(a), expected_pointer |-> At(b)]

PairEvaluators ==
    {Evaluator("exact_json", <<>>)}
    \cup {Evaluator(k, [pairs |-> {PairOf("v", "v")}]) : k \in PairKinds}
    \cup {Evaluator("tool_arguments", [pairs |-> {PairOf("v", "u"), PairOf("u", "u")}])}
    \cup {Evaluator("required_fields", [required |-> {At("u"), At("v")}])}

PairChoice == \E e \in PairEvaluators, x \in Pairs, y \in Pairs : Start(One(e, x, y))

-----------------------------------------------------------------------------
Item(id, x) == Object([k \in {"id", "x"} |-> IF k = "id" THEN id ELSE x])
ItemSet ==
    {Item(Word("w", f), x) : f \in {"plain", "upper"}, x \in {Plain(1), Plain(2)}}
    \cup {Item(Numeral("plain", 1), Numeral("padded", 1)), Item(Plain(1), Plain(3)),
          Item(Word("u", "plain"), Plain(-3)), Item(Word("u", "plain"), Plain(3)), Item(Date("-", 2024, 2, 3), Null),
          Object([k \in {"x"} |-> Plain(1)]), Object([k \in {"id"} |-> Word("u", "plain")])}
Leading == {Item(Word("w", "plain"), Plain(1)), Item(Numeral("plain", 1), Numeral("padded", 1))}
Arrays == {Array(s) : s \in {<<>>} \cup {<<a>> : a \in ItemSet}
                          \cup {<<a, b>> : a, b \in ItemSet}}

KeyedEvaluators ==
    {Evaluator("keyed_array",
        [pointer |-> At("v"), expected_pointer |-> At("v"), keys |-> {At("id")},
         key_fields |-> {FieldOf("id", k)}, fields |-> {[FieldOf("x", f) EXCEPT !.absolute = a]}]) :
        k \in {"exact", "normalized_string", "exact_integer"},
        f \in {"exact", "exact_integer", "decimal_tolerance"},
        a \in {{}, {Numeral("plain", 1)}, {Numeral("loose", 1)}}}

\* A tolerance is given where it is asked for.
KeyedChoice ==
    \/ \E e \in KeyedEvaluators, x \in Arrays, y \in Arrays :
          /\ \A f \in e.fields : f.evaluator = "decimal_tolerance" \/ f.absolute = {}
          /\ Len(x.items) = 2 => x.items[1] \in Leading
          /\ Len(y.items) = 2 => y.items[2] \in Leading
          /\ Start(One(e, Object([k \in {"v"} |-> x]), Object([k \in {"v"} |-> y])))
    \/ \E e \in KeyedEvaluators, x \in Wrapped({Null, Array(<<>>)}),
          y \in Wrapped({Null, Array(<<>>)}) : Start(One(e, x, y))

Money == {Null, Plain(0), Plain(1), Plain(2)}
Lines == {Object([k \in {"q", "p", "a"} |-> CASE k = "q" -> q [] k = "p" -> p [] k = "a" -> a]) :
             q \in {Plain(1), Plain(2)}, p \in {Null, Plain(2)}, a \in Money}
LineArrays == {Null, Array(<<>>)} \cup {Array(<<a>>) : a \in Lines}
              \cup {Array(<<a, b>>) : a, b \in Lines}
Invoice(items, s, t, u) ==
    Object([k \in {"items", "sub", "tax", "sum"} |->
        CASE k = "items" -> items [] k = "sub" -> s [] k = "tax" -> t [] k = "sum" -> u])

FinancialEvaluators ==
    {Evaluator("financial_invariants",
        [line_items |-> At("items"), quantity |-> At("q"), unit_price |-> At("p"),
         amount |-> At("a"), subtotal |-> At("sub"), tax |-> At("tax"), total |-> At("sum"),
         tolerance |-> t]) : t \in {Numeral("plain", 1), Numeral("loose", 1)}}

FinancialChoice ==
    \E e \in FinancialEvaluators, items \in LineArrays, s \in {Null, Plain(1), Plain(3)},
       t \in {Null, Plain(0), Plain(1)}, u \in {Null, Plain(1), Plain(3)} :
        Start(One(e, Absent, Invoice(items, s, t, u)))

-----------------------------------------------------------------------------
(* Configurations and files that differ from a plain comparison.            *)

Exact == Evaluator("exact_json", <<>>)
Command == Evaluator("command", [program |-> "x", timeout_ms |-> "within",
                                 process_mode |-> "persistent",
                                 implementation_version |-> {"x"}])
C == Base(Exact)

Process == [kind |-> "command", program |-> "x", timeout_ms |-> "within",
            implementation |-> NoFiles]
Python  == [kind |-> "python", interpreter |-> "x", callable |-> "module:callable",
            timeout_ms |-> "within", implementation |-> NoFiles]
Endpoint == [kind |-> "openai_compatible", model |-> "x", user_template |-> "x",
             base_url |-> "root", api_key_env |-> {}, timeout_ms |-> "within",
             concurrency |-> "within", retries |-> "zero", max_output_tokens |-> "within",
             temperature |-> "within", structured_output |-> {}, pricing |-> {}]
Price == [input |-> Numeral("plain", 1), output |-> Numeral("plain", 1), currency |-> "x"]

VariantChoices ==
    {Process, [Process EXCEPT !.program = " "], [Process EXCEPT !.timeout_ms = "zero"],
     [Process EXCEPT !.implementation.sources = "beyond"],
     Python, [Python EXCEPT !.interpreter = ""], [Python EXCEPT !.callable = "module"],
     [Recorded EXCEPT !.path = ""], Endpoint, [Endpoint EXCEPT !.base_url = "endpoint"],
     [Endpoint EXCEPT !.concurrency = "zero"], [Endpoint EXCEPT !.retries = "beyond"],
     [Endpoint EXCEPT !.structured_output = {[mode |-> "x", schema |-> {}]}],
     [Endpoint EXCEPT !.pricing = {Price}],
     [Endpoint EXCEPT !.pricing = {[Price EXCEPT !.input = Numeral("plain", -1)]}]}

Unusual ==
    {[C EXCEPT !.version = "other"], [C EXCEPT !.project = " "],
     [C EXCEPT !.primary_outcome = "none"], [C EXCEPT !.evaluators = <<Exact, Exact>>],
     [C EXCEPT !.outcomes["quality"].all_of = {"e", "f"}],
     [C EXCEPT !.outcomes["quality"].any_of = {"e"}],
     [C EXCEPT !.bootstrap.samples = "zero"], [C EXCEPT !.limits["max_cases"] = "beyond"],
     [C EXCEPT !.storage.patterns = {""}], [C EXCEPT !.storage.log_bytes = "zero"],
     [C EXCEPT !.dataset.unit.include = {{}}], [C EXCEPT !.dataset.unit.pointer = {InvalidPath}],
     [C EXCEPT !.gate_mode = "release", !.schema.provenance = "inferred"],
     [C EXCEPT !.report.search = "beyond"], Base(Command),
     Base([Command EXCEPT !.implementation_version = {}]),
     Base([Command EXCEPT !.process_mode = "per_case"])}
    \cup {[C EXCEPT !.variants["candidate"] = v] : v \in VariantChoices}

\* Pointers to the fields of a row: plain, nested, escaped, equal up to a
\* slash, a prefix of one another, or not valid at all.
Pointers == {<<>>, <<"/">>, <<"/", "a">>, <<"/", "a", "b">>, <<"/", "a", "/">>,
             <<"/", "a", "/", "b">>, <<"/", "a", "~", "1", "b">>, <<"/", "a", "~", "b">>,
             <<"/", "a", "~", "0", "1", "b">>, <<"a">>}

Isolation ==
    {[C EXCEPT !.dataset.fields.input = p, !.dataset.fields.expected = q] :
        p \in Pointers, q \in Pointers}
    \cup {[C EXCEPT !.dataset.fields.metadata = p,
                    !.dataset.fields.model_visible_metadata = q] :
            p \in Pointers, q \in Pointers}

L1 == Line("c1", Plain(0), Plain(1))
L2 == Line("c2", Plain(0), Plain(1))
Datasets ==
    {<<>>, <<L1, L2>>, <<L1, L2, Line("c3", Plain(0), Plain(1))>>}
    \cup {<<L1, [L2 EXCEPT !.form = f]>> : f \in {"blank", "malformed", "long"}}
    \cup {<<L1, [L2 EXCEPT !.id = i]>> : i \in {<<"c1", "padded">>, <<"c2", "padded">>,
                                                <<"", "plain">>}}
    \cup {<<L1, [L2 EXCEPT !.input = i, !.expected = x, !.visible = m]>> :
            i \in {Absent, Plain(0), Plain(1)}, x \in {Absent, Null, Plain(1), Plain(2)},
            m \in {Absent, Null}}

R1 == Row("c1", Plain(1))
R2 == Row("c2", Plain(1))
Failed == [R2 EXCEPT !.status = "error", !.raw = Absent, !.error = TRUE]
Outputs ==
    {<<>>, <<R1>>, <<R2, R1>>, <<R1, R1>>, <<R1, Failed>>}
    \cup {<<R1, r>> : r \in
        {[R2 EXCEPT !.form = "oversized"], [R2 EXCEPT !.case_id = <<"c2", "padded">>],
         [R2 EXCEPT !.case_id = <<"c9", "plain">>], [R2 EXCEPT !.raw = Malformed],
         [R2 EXCEPT !.raw = Malformed, !.parsed = Plain(1)], [R2 EXCEPT !.error = TRUE],
         [R2 EXCEPT !.parsed = Plain(1)], [R2 EXCEPT !.parsed = Number("fraction", 1)],
         [R2 EXCEPT !.raw = Absent, !.parsed = Plain(2)], [Failed EXCEPT !.error = FALSE],
         [R2 EXCEPT !.raw = Absent], [Failed EXCEPT !.status = "missing"]}
        \cup {[R2 EXCEPT !.cost = {[amount |-> a, currency |-> c]}] :
                a \in {Numeral("plain", -1), Numeral("loose", 1)}, c \in {"x", " "}}}

FileInputs ==
    {Input(c, <<L1>>, <<R1>>) : c \in Unusual \cup Isolation}
    \cup {Input(C, d, o) : d \in Datasets, o \in Outputs}
    \cup {[Input(C, <<L1>>, <<R1>>) EXCEPT !.schema = "invalid"]}
    \cup {[Input(C, <<L1>>, <<R1>>) EXCEPT !.outputs["baseline"] = <<R2>>]}

-----------------------------------------------------------------------------
(* Imports: one difference from a plain one at a time, rules in every       *)
(* order, and initializations that follow one another in a directory.       *)

Rec(names, values) == [form |-> "row",
    value |-> Object([k \in {<<names[i]>> : i \in DOMAIN names} |->
                         values[CHOOSE i \in DOMAIN names : names[i] = k[1]]])]
Id(name) == Word(name, "plain")
V(n) == Object([k \in {"v"} |-> Plain(n)])
Rich == Object([k \in {"v", "w", "d", "items"} |->
            CASE k = "v" -> Plain(1) [] k = "w" -> Word("w", "upper")
              [] k = "d" -> Date("-", 2024, 2, 3)
              [] k = "items" -> Array(<<Item(Word("w", "plain"), Plain(1))>>)])

Names == <<"id", "input", "expected">>
OtherNames == <<"document_id", "payload", "ground_truth">>
Standard == [name \in FieldNames |-> Field(name)]
Case1 == Rec(Names, <<Id("c1"), Plain(0), V(1)>>)
Output1 == Rec(<<"id", "output">>, <<Id("c1"), V(1)>>)

PlainExport ==
    [kind |-> "from_outputs", min_cases |-> 1, dataset_fields |-> Standard,
     output_fields |-> [id |-> Field("id"), output |-> Field("output")],
     dataset |-> <<Case1>>, outputs |-> [v \in BothVariants |-> <<Output1>>],
     schema |-> [form |-> "valid", properties |-> {}], exact_json |-> FALSE,
     correctness_pointers |-> <<At("v")>>, field_evaluators |-> <<>>, keyed_arrays |-> <<>>,
     financial |-> {}, gate_mode |-> "regression", rules |-> <<>>]

ExportedDatasets ==
    {<<>>, <<Rec(OtherNames, <<Id("c1"), Plain(0), V(1)>>)>>,
     <<Rec(<<"id", "text", "visible_metadata">>, <<Id("c1"), Plain(0), Plain(1)>>), Case1>>,
     <<Rec(<<"case_id", "input">>, <<Id("c1"), Plain(0)>>)>>}
    \cup {<<Case1, second>> : second \in
        {Rec(Names, <<Id("c2"), Plain(1), V(2)>>), Rec(Names, <<Id("c2"), Plain(0), V(2)>>),
         Rec(Names, <<Word("c2", "padded"), Plain(1), V(1)>>), Case1, [form |-> "blank"],
         Rec(OtherNames, <<Id("c2"), Plain(1), V(1)>>), [form |-> "malformed"],
         Rec(<<"id", "input">>, <<Id("c2"), Plain(1)>>), [form |-> "long"]}}

ExportedRows ==
    {Rec(<<"id", "output">>, <<Id("c1"), x>>) :
        x \in {V(1), V(2), Null, Plain(1), Quoted(V(1)), Id("w"), Numeral("plain", 1),
               Numeral("padded", 1)}}
    \cup {Rec(<<"id", "status", "output">>, <<Id("c1"), Id(s), V(1)>>) :
            s \in {"ok", "success", "error", "failed", "other", "missing"}}
    \cup {Rec(<<"id", "status">>, <<Id("c1"), Id(s)>>) : s \in {"ok", "error", "failed"}}
    \cup {Rec(<<"case_id", "status", "raw_output">>, <<Id("c1"), Id("ok"), x>>) :
            x \in {Quoted(V(1)), Quoted(Malformed), Id("w"), Plain(1), Null}}
    \cup {Rec(<<"case_id", "status", "raw_output", "parsed_output">>,
              <<Id("c1"), Id("ok"), Quoted(x), y>>) : x \in {V(1), Malformed}, y \in {V(1), Null}}
    \cup {Rec(<<"case_id", "status", "error">>, <<Id("c1"), Id(s), x>>) :
            s \in {"error", "missing", "failed"}, x \in {Failure, Plain(1)}}
    \cup {Rec(<<"record_id", "result">>, <<Id("c1"), V(1)>>),
          Rec(<<"id", "output">>, <<Id("c9"), V(1)>>),
          Rec(<<"id", "output">>, <<Word("c1", "padded"), V(1)>>),
          Rec(<<"id", "output">>, <<Plain(1), V(1)>>),
          Rec(<<"case_id", "output">>, <<Id("c2"), V(1)>>),
          [Output1 EXCEPT !.form = "oversized"], [form |-> "blank"], [form |-> "malformed"]}

ExportedOutputs ==
    {<<>>} \cup {<<r>> : r \in ExportedRows} \cup {<<Output1, r>> : r \in ExportedRows}

FieldRule(key, kind) ==
    [pointer |-> At(key), kind |-> kind, formats |-> <<"iso">>,
     tolerance |-> {Numeral("plain", 1)}, case_insensitive |-> FALSE]
KeyedRule ==
    [pointer |-> At("items"), kind |-> "keyed_array",
     keys |-> {[pointer |-> At("id"), comparator |-> {"normalized_string"}]},
     fields |-> {[pointer |-> At("x"), evaluator |-> "decimal_tolerance",
                  absolute |-> {Numeral("plain", 1)}]}]
Rules == {FieldRule("v", k) : k \in {"exact", "required_fields", "decimal_tolerance"}}
         \cup {FieldRule("w", "normalized_string"), FieldRule("d", "canonical_date"), KeyedRule}

RichExport ==
    [PlainExport EXCEPT !.dataset = <<Rec(Names, <<Id("c1"), Plain(0), Rich>>)>>,
                        !.outputs["candidate"] = <<Rec(<<"id", "output">>, <<Id("c1"), Rich>>)>>,
                        !.schema.properties = {At("v"), At("items")},
                        !.correctness_pointers = <<>>]

ExportsByRules ==
    {[RichExport EXCEPT !.rules = s] :
        s \in {<<a, b>> : a, b \in Rules} \cup {<<a, KeyedRule, b>> : a, b \in Rules}}
ExportsByOptions ==
    {[RichExport EXCEPT !.field_evaluators = <<r>>, !.gate_mode = "release"] : r \in
        {FieldRule("v", "exact_integer"), FieldRule("v", "decimal_exact"), FieldRule("v", "other"),
         FieldRule("none", "exact"), FieldRule("w", "decimal_exact"),
         [FieldRule("v", "decimal_tolerance") EXCEPT !.tolerance = {}],
         [FieldRule("v", "decimal_tolerance") EXCEPT !.tolerance = {Numeral("plain", -1)}],
         [FieldRule("d", "canonical_date") EXCEPT !.formats = <<"iso", "other">>]}}
    \cup {[RichExport EXCEPT !.keyed_arrays = <<r>>] : r \in
        {[KeyedRule EXCEPT !.fields = {}], [KeyedRule EXCEPT !.keys = {}],
         [KeyedRule EXCEPT !.pointer = At("none")], [KeyedRule EXCEPT !.pointer = At("v")]}}
    \cup {RichExport, [RichExport EXCEPT !.exact_json = TRUE],
          [RichExport EXCEPT !.correctness_pointers = <<At("v"), At("none")>>],
          [RichExport EXCEPT !.financial = {[line_items |-> At("items"), quantity |-> At("q"),
              unit_price |-> At("p"), amount |-> At("a"), subtotal |-> At("sub"),
              tax |-> At("tax"), total |-> At("sum"), tolerance |-> Numeral("plain", 1)]}],
          [PlainExport EXCEPT !.min_cases = 0], [PlainExport EXCEPT !.schema.form = "invalid"],
          [PlainExport EXCEPT !.dataset_fields.expected = Field("truth")],
          [PlainExport EXCEPT !.dataset_fields.expected = Field("input")]}

MCSessions ==
    {<<e>> : e \in ExportsByRules \cup ExportsByOptions}
    \cup {<<[PlainExport EXCEPT !.dataset = d, !.outputs["candidate"] = o]>> :
            d \in {<<Case1>>, <<Case1, Rec(Names, <<Id("c2"), Plain(1), V(2)>>)>>},
            o \in ExportedOutputs}
    \cup {<<[PlainExport EXCEPT !.dataset = d]>> : d \in ExportedDatasets}
    \cup {<<[PlainExport EXCEPT !.kind = a], [RichExport EXCEPT !.exact_json = TRUE, !.kind = b]>> :
            a, b \in {"from_outputs", "extraction", "recorded", "program"}}

MCOccupied == {{}, {"readme"}, {"onboarding"}, {"baseline"}}

-----------------------------------------------------------------------------
Comparisons ==
    ScoringInit \/ NumericChoice \/ TextChoice \/ PairChoice \/ KeyedChoice \/ FinancialChoice

MCInit ==
    \/ OnboardingInit
    \/ Comparisons /\ session = <<>> /\ attempt = 0 /\ plan = <<>>
       /\ made = Nothing /\ directory = Nothing

MCSpec == MCInit /\ [][Onboarding]_<<scoringVars, initVars>>

=============================================================================
