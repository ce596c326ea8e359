-------------------------- MODULE BuiltinEvaluators --------------------------
(***************************************************************************)
(* The built-in evaluators of evaluation.rs: what each of them says of an  *)
(* output and the reference of its case, with the facts about single       *)
(* fields that hotspots are counted from, and the check of the references  *)
(* that runs before anything is scored.  A reference or an output that is  *)
(* not there is Absent.                                                    *)
(***************************************************************************)
EXTENDS JsonValues, FiniteSets

PairKinds == {"json_pointer_exact", "enum_accuracy", "tool_selection",
              "json_pointers_exact", "tool_arguments"}
TextKinds == {"normalized_string", "canonical_date"}
ExternalKinds == {"command", "python"}

Fact(pointer, status) == [pointer |-> pointer, status |-> status]
Result(status, facts) == [status |-> status, facts |-> facts]
Alone(e, status) == Result(status, {Fact(e.pointer, status)})
Judged(holds) == IF holds THEN "passed" ELSE "failed"

\* Mutant of Compared: an output that cannot be read is an error.
ComparedOrError(reference, actual) ==
    IF reference = {} \/ actual = {} THEN "error" ELSE Judged(actual = reference)

\* The read reference decides first, then the read output, then whether they
\* agree.
Compared(reference, actual) ==
    IF reference = {} THEN "error"
    ELSE Judged(actual # {} /\ actual = reference)

Found(v) == {v} \ {Absent}
Strings(v) == IF IsA(v, "text") THEN {v} ELSE {}

-----------------------------------------------------------------------------
ExactJson(e, expected, output) ==
    Result(Compared(Found(expected), {output}), {})

\* compare_pointer and compare_pointer_list: a reference that is missing
\* makes the whole result an error.
ComparePointers(e, expected, output) ==
    LET facts == {Fact(p.pointer, Compared(Found(Resolve(expected, p.expected_pointer)),
                                           Found(Resolve(output, p.pointer)))) :
                  p \in e.pairs}
        statuses == {f.status : f \in facts}
    IN  Result(IF "error" \in statuses THEN "error" ELSE Judged("failed" \notin statuses),
               facts)

RequiredFields(e, expected, output) ==
    LET Here(p) == Resolve(output, p) \notin {Absent, Null}
    IN  Result(Judged(\A p \in e.required : Here(p)),
               {Fact(p, Judged(Here(p))) : p \in e.required})

\* What a field comparator reads in a value.
ReadAs(f, v) ==
    CASE f.evaluator = "normalized_string" ->
             {NormalizedText(s, f.case_insensitive) : s \in Strings(v)}
      [] f.evaluator = "canonical_date" -> CanonicalDate(v, f.formats)
      [] f.evaluator = "exact_integer" -> CanonicalInteger(v)
      [] f.evaluator \in {"decimal_exact", "decimal_tolerance"} -> ExactDecimal(v)
      [] f.evaluator = "exact" -> Found(v)

TextEvaluator(e, expected, output) ==
    LET f == [evaluator |-> e.kind, case_insensitive |-> e.case_insensitive,
              formats |-> e.formats]
    IN  Alone(e, Compared(ReadAs(f, Resolve(expected, e.expected_pointer)),
                          ReadAs(f, Resolve(output, e.pointer))))

\* evaluate_numeric after both values were read: limits that cannot be read,
\* a difference or a relative bound out of range are errors.
WithinTolerance(e, reference, actual) ==
    LET limits   == e.absolute \cup e.relative
        absolute == UNION {ExactDecimal(t) : t \in e.absolute}
        relative == UNION {ExactDecimal(t) : t \in e.relative}
        gap      == Checked(actual - reference)
        bounds   == {r * Magnitude(reference) : r \in relative}
    IN  IF \/ \E t \in limits : ExactDecimal(t) = {}
           \/ gap = {} \/ \E b \in bounds : ~Fits(b)
        THEN "error"
        ELSE Judged(\A d \in gap :
                d = 0 \/ \E limit \in absolute \cup bounds : Magnitude(d) <= limit)

\* An output that is not there fails before the reference is looked at.
NumericTolerance(e, expected, output) ==
    LET reference == Resolve(expected, e.expected_pointer)
        actual    == Resolve(output, e.pointer)
        Read(v)   == IF e.exact_integer THEN CanonicalInteger(v) ELSE ExactDecimal(v)
        Spelling(v) == IsA(v, "text") \/ IsA(v, "number")
    IN  Alone(e,
          IF ~Present(expected) THEN "error"
          ELSE IF ~Present(actual) THEN "failed"
          ELSE IF ~Spelling(reference) THEN "error"
          ELSE IF ~Spelling(actual) THEN "failed"
          ELSE IF Read(reference) = {} THEN "error"
          ELSE IF Read(actual) = {} THEN "failed"
          ELSE IF e.exact_integer THEN Judged(Read(actual) = Read(reference))
          ELSE LET r == CHOOSE n \in Read(reference) : TRUE
                   a == CHOOSE n \in Read(actual) : TRUE
               IN  WithinTolerance(e, r, a))

-----------------------------------------------------------------------------
\* compare_keyed_field.
CompareField(f, expected, actual) ==
    LET reference == ReadAs(f, expected)
        read      == ReadAs(f, actual)
    IN  IF ~Present(expected) THEN "error"
        ELSE IF ~Present(actual) THEN "failed"
        ELSE IF f.evaluator # "decimal_tolerance" THEN Compared(reference, read)
        ELSE IF reference = {} \/ \A t \in f.absolute : ExactDecimal(t) = {} THEN "error"
        ELSE IF read = {} THEN "failed"
        ELSE IF \E r \in reference, a \in read : Checked(a - r) = {} THEN "error"
        ELSE Judged(\E r \in reference, a \in read, t \in f.absolute :
                       \E limit \in ExactDecimal(t) : Magnitude(a - r) <= limit)

\* keyed_items: each item under the normalized values of its keys; keys that
\* are missing, malformed or taken spoil the whole array.  One policy decides
\* how a key is normalized: of several, the first one that is listed, which a
\* set of policies leaves open.
KeyValue(e, item, key) ==
    LET policies == {f \in e.key_fields : f.pointer = key}
        v == Resolve(item, key)
    IN  IF policies = {} THEN Found(v)
        ELSE ReadAs(CHOOSE f \in policies : TRUE, v)

Identity(e, item) == [key \in e.keys |-> KeyValue(e, item, key)]
KeyedItems(e, items) ==
    LET Keyed(i) == \A key \in e.keys : KeyValue(e, items[i], key) # {}
        ids == {Identity(e, items[i]) : i \in DOMAIN items}
    IN  IF (\A i \in DOMAIN items : Keyed(i)) /\ Cardinality(ids) = Len(items)
        THEN {[id \in ids |-> CHOOSE i \in DOMAIN items : Identity(e, items[i]) = id]}
        ELSE {}

Items(v) == IF IsA(v, "items") THEN {v.items} ELSE {}

MatchedFacts(e, expected, actual, byKey, byKeyActual) ==
    {Fact(<<byKeyActual[id], f.pointer>>,
          CompareField(f, Resolve(expected[byKey[id]], f.pointer),
                          Resolve(actual[byKeyActual[id]], f.pointer))) :
     id \in DOMAIN byKey \cap DOMAIN byKeyActual, f \in e.fields}

\* Mutant of CompareItems: items the reference does not have are passed over.
CompareItemsOfReference(e, expected, actual) ==
    LET byKey   == CHOOSE m \in KeyedItems(e, expected) : TRUE
        byKeyActual == CHOOSE m \in KeyedItems(e, actual) : TRUE
        facts   == MatchedFacts(e, expected, actual, byKey, byKeyActual)
                   \cup (IF DOMAIN byKey \subseteq DOMAIN byKeyActual THEN {}
                         ELSE {Fact(e.pointer, "failed")})
        statuses == {f.status : f \in facts}
    IN  Result(IF "error" \in statuses THEN "error" ELSE Judged(statuses \subseteq {"passed"}),
               facts)

CompareItems(e, expected, actual) ==
    LET byKey   == CHOOSE m \in KeyedItems(e, expected) : TRUE
        byKeyActual == CHOOSE m \in KeyedItems(e, actual) : TRUE
        matched == MatchedFacts(e, expected, actual, byKey, byKeyActual)
        facts   == matched \cup (IF DOMAIN byKey = DOMAIN byKeyActual THEN {}
                                 ELSE {Fact(e.pointer, "failed")})
        statuses == {f.status : f \in facts}
    IN  Result(IF "error" \in statuses THEN "error" ELSE Judged(statuses \subseteq {"passed"}),
               facts)

KeyedArray(e, expected, output) ==
    LET reference == Items(Resolve(expected, e.expected_pointer))
        actual    == Items(Resolve(output, e.pointer))
        Keyed(arrays) == \A items \in arrays : KeyedItems(e, items) # {}
    IN  IF ~Present(expected) \/ reference = {} THEN Alone(e, "error")
        ELSE IF actual = {} THEN Alone(e, "failed")
        ELSE IF ~Keyed(reference) THEN Alone(e, "error")
        ELSE IF ~Keyed(actual) THEN Alone(e, "failed")
        ELSE CompareItems(e, CHOOSE s \in reference : TRUE, CHOOSE s \in actual : TRUE)

-----------------------------------------------------------------------------
\* Mutant of LineItem: a line that cannot be computed leaves the sum complete.
LineItemSkipped(e, tolerance, acc, item) ==
    LET Amount(p) == ExactDecimal(Resolve(item, p))
        index == acc.index + 1
        line == {<<q * u, a>> : q \in Amount(e.quantity), u \in Amount(e.unit_price),
                                a \in Amount(e.amount)}
        Line(status) == acc.facts \cup {Fact(<<index, e.amount>>, status)}
    IN  IF line = {} THEN [acc EXCEPT !.index = index, !.facts = Line("error")]
        ELSE LET c == CHOOSE c \in line : TRUE
             IN  [acc EXCEPT !.index = index, !.sum = @ + c[2],
                             !.facts = Line(Judged(Magnitude(c[1] - c[2]) <= tolerance))]

\* evaluate_financial_invariants, one line item at a time: the sum of the
\* amounts is complete only if every line could be read and computed.
LineItem(e, tolerance, acc, item) ==
    LET Amount(p) == ExactDecimal(Resolve(item, p))
        computed  == {<<q * u, a, q * u - a, acc.sum + a>> : q \in Amount(e.quantity),
                          u \in Amount(e.unit_price), a \in Amount(e.amount)}
        line == {c \in computed : Fits(c[1]) /\ Fits(c[3]) /\ Fits(c[4])}
        index == acc.index + 1
        Line(status) == acc.facts \cup {Fact(<<index, e.amount>>, status)}
    IN  IF line = {}
        THEN [acc EXCEPT !.index = index, !.complete = FALSE, !.facts = Line("error")]
        ELSE LET c == CHOOSE c \in line : TRUE
             IN  [acc EXCEPT !.index = index, !.sum = c[4],
                             !.facts = Line(Judged(Magnitude(c[3]) <= tolerance))]

LineItems(e, tolerance, items) ==
    LET Add(acc, item) == LineItem(e, tolerance, acc, item)
    IN  FoldLeft(Add, [index |-> 0, sum |-> 0, complete |-> TRUE, facts |-> {}], items)

\* A total and what it should be, each readable or not.
TotalFact(pointer, tolerance, actual, due) ==
    LET gaps == UNION {Checked(a - d) : a \in actual, d \in due}
    IN  Fact(pointer, IF gaps = {} THEN "error"
                      ELSE Judged(\A g \in gaps : Magnitude(g) <= tolerance))

\* The facts about the lines and the totals of an output.
FinancialFacts(e, tolerance, items, output) ==
    LET lines    == LineItems(e, tolerance, items)
        subtotal == ExactDecimal(Resolve(output, e.subtotal))
        tax      == ExactDecimal(Resolve(output, e.tax))
        total    == ExactDecimal(Resolve(output, e.total))
        due      == UNION {Checked(s + t) : s \in subtotal, t \in tax}
    IN  lines.facts
        \cup (IF tax = {} THEN {Fact(e.tax, "error")} ELSE {})
        \cup {TotalFact(e.subtotal, tolerance, subtotal,
                        IF lines.complete THEN {lines.sum} ELSE {}),
              TotalFact(e.total, tolerance, total, due)}

FinancialInvariants(e, expected, output) ==
    LET tolerance == ExactDecimal(e.tolerance)
        items     == Items(Resolve(output, e.line_items))
        facts     == FinancialFacts(e, CHOOSE t \in tolerance : TRUE,
                                    CHOOSE s \in items : TRUE, output)
        statuses  == {f.status : f \in facts}
    IN  IF tolerance = {} \/ items = {} THEN Result("error", {})
        ELSE Result(IF "error" \in statuses THEN "error"
                    ELSE Judged(statuses = {"passed"}), facts)

-----------------------------------------------------------------------------
\* evaluate_builtin of a parsed output.
Evaluate(e, expected, output) ==
    CASE e.kind = "exact_json" -> ExactJson(e, expected, output)
      [] e.kind \in PairKinds -> ComparePointers(e, expected, output)
      [] e.kind \in TextKinds -> TextEvaluator(e, expected, output)
      [] e.kind = "numeric_tolerance" -> NumericTolerance(e, expected, output)
      [] e.kind = "required_fields" -> RequiredFields(e, expected, output)
      [] e.kind = "keyed_array" -> KeyedArray(e, expected, output)
      [] e.kind = "financial_invariants" -> FinancialInvariants(e, expected, output)

\* The fields of an evaluator whose output did not parse are errors.
FieldsOf(e) ==
    CASE e.kind \in {"exact_json"} \cup ExternalKinds -> {}
      [] e.kind \in PairKinds -> {p.pointer : p \in e.pairs}
      [] e.kind = "required_fields" -> e.required
      [] e.kind = "financial_invariants" -> {e.line_items, e.subtotal, e.tax, e.total}
      [] OTHER -> {e.pointer}

Unparsed(e) == Result("error", {Fact(p, "error") : p \in FieldsOf(e)})

\* validate_references, of one case and one evaluator.
GoodReference(e, expected) ==
    LET at == Resolve(expected, e.expected_pointer)
        Consumed(items) == \A i \in DOMAIN items, f \in e.fields :
            LET v == Resolve(items[i], f.pointer) IN CompareField(f, v, v) # "error"
        Numeric(v) == IF e.exact_integer THEN CanonicalInteger(v) ELSE ExactDecimal(v)
    IN  CASE e.kind = "exact_json" -> Present(expected)
          [] e.kind \in PairKinds ->
                 \A p \in e.pairs : Present(Resolve(expected, p.expected_pointer))
          [] e.kind = "normalized_string" -> Strings(at) # {}
          [] e.kind = "canonical_date" -> CanonicalDate(at, e.formats) # {}
          [] e.kind = "numeric_tolerance" -> Numeric(at) # {}
          [] e.kind = "keyed_array" ->
                 /\ Items(at) # {}
                 /\ \A items \in Items(at) : KeyedItems(e, items) # {} /\ Consumed(items)
          [] OTHER -> TRUE

=============================================================================
