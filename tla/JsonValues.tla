----------------------------- MODULE JsonValues ------------------------------
(***************************************************************************)
(* The JSON values that references and outputs consist of, as far as the   *)
(* evaluators tell them apart: how a number or a string is spelled, what   *)
(* the exact parsers of evaluation.rs read in it, and JSON Pointers.       *)
(*                                                                         *)
(* A value that may be missing is a set of at most one element.            *)
(***************************************************************************)
EXTENDS Integers, Sequences, SequencesExt

CONSTANT MaxDecimal  \* the largest magnitude of rust_decimal

ASSUME DecimalAssumption == MaxDecimal \in Nat

\* A number keeps its spelling (arbitrary_precision): 1 and 1.0 differ.  A
\* string is a spelled number, a date, or a word in a base form that is
\* written plainly, with other blanks, in other characters, or in upper case.
Null               == [null |-> TRUE]
Number(form, n)    == [number |-> <<form, n>>]
Numeral(form, n)   == [text |-> <<"numeral", form, n>>]
Word(base, form)   == [text |-> <<"word", base, form>>]
Date(sep, a, b, c) == [text |-> <<"date", sep, a, b, c>>]
Array(seq)         == [items |-> seq]
Object(f)          == [members |-> f]
Absent             == [absent |-> TRUE]

IsA(v, kind)   == kind \in DOMAIN v
Present(v)     == v # Absent
Child(v, key) == IF IsA(v, "members") /\ key \in DOMAIN v.members
                 THEN v.members[key] ELSE Absent

\* Value::pointer, for paths that lead through objects.
Resolve(v, path) == FoldLeft(Child, v, path)

\* number_text, of the values that spell a number.
NumberText(v) ==
    IF IsA(v, "number") THEN {v.number}
    ELSE IF IsA(v, "text") /\ v.text[1] = "numeral" THEN {Tail(v.text)}
    ELSE {}

Spelled(texts, forms) == {t[2] : t \in {t \in texts : t[1] \in forms}}
Fits(n) == n \in -MaxDecimal .. MaxDecimal

\* Digits of any length, with zeros in front or blanks around them.
CanonicalInteger(v) == Spelled(NumberText(v), {"plain", "padded", "spaced"})

\* What rust_decimal represents exactly: also 1.0 and 1e0, no blanks, and
\* neither +1 nor .5 ("loose").
ExactDecimal(v) ==
    {n \in Spelled(NumberText(v), {"plain", "padded", "fraction", "scientific"}) :
        Fits(n)}

\* Decimal::from_str, with which a configured limit is checked, reads the
\* loose spellings and no exponent.
ConfiguredDecimal(v) ==
    {n \in Spelled(NumberText(v), {"plain", "padded", "fraction", "loose"}) : Fits(n)}

\* checked_add, checked_sub and checked_mul.
Checked(n) == {n} \cap -MaxDecimal .. MaxDecimal
Magnitude(n) == IF n < 0 THEN -n ELSE n

\* normalize_text: NFKC, collapsed blanks and, if asked for, lower case.
NormalizedText(v, insensitive) ==
    LET written == v.text[3]
    IN  CASE v.text[1] = "word" ->
               Word(v.text[2], IF written = "upper" /\ ~insensitive
                               THEN "upper" ELSE "plain")
          [] v.text[1] = "numeral" /\ v.text[2] = "spaced" -> Numeral("plain", written)
          [] OTHER -> v

\* canonical_date: the first accepted format in which the text is a date.
LeapYear(y) == y % 4 = 0 /\ (y % 100 # 0 \/ y % 400 = 0)
DaysIn(y, m) == CASE m = 2 -> IF LeapYear(y) THEN 29 ELSE 28
                  [] m \in {4, 6, 9, 11} -> 30
                  [] OTHER -> 31
ValidDate(d) == d[1] > 0 /\ d[2] \in 1..12 /\ d[3] \in 1..DaysIn(d[1], d[2])

DateIn(v, format) ==
    LET t == v.text
    IN  IF t[1] # "date" \/ t[2] # (IF format = "iso" THEN "-" ELSE "/") THEN {}
        ELSE {d \in {CASE format = "iso"       -> <<t[3], t[4], t[5]>>
                       [] format = "dmy_slash" -> <<t[5], t[4], t[3]>>
                       [] format = "mdy_slash" -> <<t[5], t[3], t[4]>>} : ValidDate(d)}

CanonicalDate(v, formats) ==
    LET read == SelectSeq(formats, LAMBDA f : DateIn(v, f) # {})
    IN  IF ~IsA(v, "text") \/ read = <<>> THEN {} ELSE DateIn(v, Head(read))

-----------------------------------------------------------------------------
\* A pointer as it is written in a configuration: a sequence of characters.
ValidPointer(text) ==
    /\ text = <<>> \/ Head(text) = "/"
    /\ \A i \in DOMAIN text :
          text[i] = "~" => i < Len(text) /\ text[i + 1] \in {"0", "1"}

\* pointers_overlap: one text continues the other after a slash.
Continues(left, right) ==
    IsStrictPrefix(right, left) /\ left[Len(right) + 1] = "/"
PointersOverlap(left, right) ==
    left = right \/ left = <<>> \/ right = <<>>
    \/ Continues(left, right) \/ Continues(right, left)

\* The n-th of a set of positions.
Nth(positions, n) ==
    CHOOSE i \in positions : Cardinality({j \in positions : j <= i}) = n

\* A token with ~1 and ~0 read back.
Decoded(token) ==
    LET kept == {i \in DOMAIN token : token[i] # "~"}
        Read(i) == IF i = 1 \/ token[i - 1] # "~" THEN token[i]
                   ELSE IF token[i] = "0" THEN "~" ELSE "/"
    IN  [n \in 1..Cardinality(kept) |-> Read(Nth(kept, n))]

\* What stands between the slash at i and the next one.
TokenAt(text, i) ==
    LET end == CHOOSE j \in i..Len(text) :
                   /\ \A k \in (i + 1)..j : text[k] # "/"
                   /\ j < Len(text) => text[j + 1] = "/"
    IN  SubSeq(text, i + 1, end)

\* Where a pointer leads (serde_json): the decoded tokens after its slashes.
Tokens(text) ==
    LET slashes == {i \in DOMAIN text : text[i] = "/"}
    IN  [n \in 1..Cardinality(slashes) |-> Decoded(TokenAt(text, Nth(slashes, n)))]

=============================================================================
