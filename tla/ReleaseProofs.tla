--------------------------- MODULE ReleaseProofs ----------------------------
(***************************************************************************)
(* Theorems about what leads to a release: how recorded outputs are        *)
(* imported (ProjectInitialization) and judged (CaseScoring), what the     *)
(* gate decides from the judgements (ReleaseGate), and the promotion of a  *)
(* run under the labels of the saved cases (RegressionSuite), each for all *)
(* its inputs.                                                             *)
(*                                                                         *)
(* Scoring goes through the phases of a comparison; its invariant says     *)
(* that whatever was accepted stays as it was accepted and that results    *)
(* follow from it, so that each property is one about the evaluators.      *)
(* Folds over lines and items are dealt with by a least place at which     *)
(* they differ from what is claimed, in place of an induction.             *)
(*                                                                         *)
(* The invariant of an import follows the directory through attempts that  *)
(* are killed and repeated, until a first run reads what one of them has   *)
(* written.  Rules are taken apart and paired again by position; that this *)
(* is a bijection is a matter of counting.                                 *)
(*                                                                         *)
(* The counts of the gate are sums over sets of rows: a sum is shown to be *)
(* the number of cells of a bar chart, and the rest is about               *)
(* cardinalities.  That order and copies do not matter follows from a      *)
(* correspondence between the representatives of two datasets; that a loss *)
(* never helps, from each rule's growth with the count it compares.        *)
(***************************************************************************)
EXTENDS ReleaseGate, RegressionSuite, ProjectInitialization, FiniteSetTheorems,
        SequenceTheorems, WellFoundedInduction, TLAPS

-----------------------------------------------------------------------------
(* Numbers                                                                 *)

\* The order of the natural numbers, as a set of pairs, is well-founded.
Below == {pair \in Nat \X Nat : pair[1] < pair[2]}

LEMMA BelowWellFounded == IsWellFoundedOn(Below, Nat)
<1>1. OpToRel(<, Nat) = Below
  BY Zenon DEF OpToRel, Below
<1> QED
  BY <1>1, NatLessThanWellFounded, Zenon

\* A set of natural numbers that is not empty has a least element.
LEMMA LeastNumber ==
  ASSUME NEW T \in SUBSET Nat, T # {}
  PROVE  \E m \in T : \A k \in T : m <= k
<1>1. PICK m \in T : \A k \in T : <<k, m>> \notin Below
  BY BelowWellFounded, WFMin, Zenon
<1>2. ASSUME NEW k \in T PROVE m <= k
  <2>1. ~(k < m)
    BY <1>1 DEF Below
  <2> QED
    BY <2>1
<1> QED
  BY <1>2

\* And a greatest one, if it is bounded.
LEMMA GreatestNumber ==
  ASSUME NEW N \in Nat, NEW S \in SUBSET (0..N), S # {}
  PROVE  \E n \in S : \A m \in S : m <= n
<1> DEFINE T == {n \in Nat : \A m \in S : m <= n}
<1>1. N \in T /\ T \in SUBSET Nat
  OBVIOUS
<1>2. PICK n \in T : \A m \in T : n <= m
  <2> HIDE DEF T
  <2> QED
    BY <1>1, LeastNumber
<1>3. ASSUME n \notin S PROVE FALSE
  <2>1. PICK s \in S : TRUE
    OBVIOUS
  <2>2. \A m \in S : m < n /\ m \in Nat
    BY <1>2, <1>3
  <2>3. n - 1 \in T
    BY <1>2, <2>1, <2>2
  <2> QED
    BY <1>2, <2>3
<1> QED
  BY <1>2, <1>3

-----------------------------------------------------------------------------
(* Folds                                                                   *)

\* A set of numbers that contains 0 and the successor of each of its elements
\* below n contains everything up to n.
LEMMA UpTo ==
  ASSUME NEW n \in Nat, NEW T, 0 \in T,
         \A k \in 0..n : k \in T /\ k < n => k + 1 \in T
  PROVE  \A k \in 0..n : k \in T
<1> DEFINE out == {k \in 0..n : k \notin T}
<1>1. SUFFICES ASSUME out # {} PROVE FALSE
  OBVIOUS
<1>2. PICK m \in out : \A k \in out : m <= k
  <2>1. out \in SUBSET Nat
    OBVIOUS
  <2> HIDE DEF out
  <2> QED
    BY <1>1, <2>1, LeastNumber
<1>3. m # 0 /\ m \in 1..n
  BY <1>2
<1>4. m - 1 \in T
  BY <1>2, <1>3
<1> QED
  BY <1>2, <1>3, <1>4

\* The element that FoldLeft takes from a set of positions.
LEMMA MaxOfSet ==
  ASSUME NEW n \in Nat, NEW s \in SUBSET (1..n), s # {}
  PROVE  Max(s) \in s /\ \A y \in s : y <= Max(s)
<1>1. s \in SUBSET (0..n)
  OBVIOUS
<1> PICK m \in s : \A y \in s : y <= m
  BY <1>1, GreatestNumber, Zenon
<1>2. \A y \in s : m >= y
  OBVIOUS
<1>3. \E x \in s : \A y \in s : x >= y
  BY <1>2
<1>4. Max(s) \in s /\ \A y \in s : Max(s) >= y
  BY <1>3, Zenon DEF Max
<1> QED
  BY <1>4

\* Of the first k positions it is the last.
LEMMA LastOfFirst ==
  ASSUME NEW k \in Nat, k # 0
  PROVE  Max(1..k) = k /\ (1..k) \ {Max(1..k)} = 1..(k - 1)
<1>1. 1..k \in SUBSET (1..k) /\ k \in 1..k
  OBVIOUS
<1>2. Max(1..k) \in 1..k /\ \A y \in 1..k : y <= Max(1..k)
  BY <1>1, MaxOfSet
<1>3. Max(1..k) = k
  BY <1>1, <1>2
<1> QED
  BY <1>3

\* So it is of any positions up to k + 1 with this one among them.
LEMMA LastOfSome ==
  ASSUME NEW k \in Nat, NEW s \in SUBSET (1..(k + 1)), k + 1 \in s
  PROVE  s \ {k + 1} \in SUBSET (1..k) /\ Max(s) = k + 1
<1>1. k + 1 \in Nat /\ s # {}
  OBVIOUS
<1>2. Max(s) \in s /\ \A y \in s : y <= Max(s)
  BY <1>1, MaxOfSet, Zenon
<1>3. Max(s) = k + 1
  <2>1. Max(s) \in 1..(k + 1) /\ k + 1 <= Max(s)
    BY <1>2
  <2> QED
    BY <2>1
<1>4. \A y \in s \ {k + 1} : y \in 1..k
  <2>1. \A y \in 1..(k + 1) : y # k + 1 => y \in 1..k
    OBVIOUS
  <2> QED
    BY <2>1
<1> QED
  BY <1>3, <1>4

\* A function on sets of positions that folds them from left to right.
Folds(h, base, step, n) ==
    \A s \in SUBSET (1..n) :
        h[s] = IF s = {} THEN base ELSE step[<<h[s \ {Max(s)}], Max(s)>>]

\* There is one for each step function.
LEMMA FoldExists ==
  ASSUME NEW A, NEW n \in Nat, NEW base \in A, NEW step \in [A \X (1..n) -> A]
  PROVE  \E h \in [SUBSET (1..n) -> A] : Folds(h, base, step, n)
<1> DEFINE T == {k \in 0..n : \E h \in [SUBSET (1..k) -> A] : Folds(h, base, step, k)}
<1>1. 0 \in T
  <2> DEFINE h == [s \in SUBSET (1..0) |-> base]
  <2>1. h \in [SUBSET (1..0) -> A]
    OBVIOUS
  <2>2. Folds(h, base, step, 0)
    BY DEF Folds
  <2> QED
    BY <2>1, <2>2
<1>2. ASSUME NEW k \in 0..n, k \in T, k < n PROVE k + 1 \in T
  <2>1. PICK g \in [SUBSET (1..k) -> A] : Folds(g, base, step, k)
    BY <1>2
  <2> DEFINE m == k + 1
             h == [s \in SUBSET (1..m) |->
                     IF m \in s THEN step[<<g[s \ {m}], m>>] ELSE g[s]]
  <2>2. ASSUME NEW s \in SUBSET (1..m), m \in s
        PROVE  s \ {m} \in SUBSET (1..k) /\ Max(s) = m /\ s # {}
    <3>1. k \in Nat /\ m = k + 1 /\ s # {}
      BY <2>2
    <3> HIDE DEF h, m, T
    <3> QED
      BY <2>2, <3>1, LastOfSome
  <2>3. ASSUME NEW s \in SUBSET (1..m), m \notin s
        PROVE  s \in SUBSET (1..k)
    BY <2>3
  <2>4. h \in [SUBSET (1..m) -> A]
    <3>1. ASSUME NEW s \in SUBSET (1..m) PROVE h[s] \in A
      <4>1. CASE m \in s
        <5>1. g[s \ {m}] \in A /\ m \in 1..n
          BY <4>1, <1>2, <2>2
        <5>2. h[s] = step[<<g[s \ {m}], m>>]
          BY <4>1
        <5> QED
          BY <5>1, <5>2
      <4>2. CASE m \notin s
        BY <4>2, <2>3
      <4> QED
        BY <4>1, <4>2
    <3> QED
      BY <3>1
  <2>5. ASSUME NEW s \in SUBSET (1..m)
        PROVE  h[s] = IF s = {} THEN base ELSE step[<<h[s \ {Max(s)}], Max(s)>>]
    <3>1. CASE m \in s
      <4>1. h[s \ {m}] = g[s \ {m}]
        BY <3>1
      <4> QED
        BY <3>1, <2>2, <4>1
    <3>2. CASE m \notin s
      <4>1. s \in SUBSET (1..k) /\ h[s] = g[s]
        BY <3>2, <2>3
      <4>2. CASE s = {}
        BY <2>1, <4>1, <4>2 DEF Folds
      <4>3. CASE s # {}
        <5>1. Max(s) \in s
          <6>1. k \in Nat
            OBVIOUS
          <6> QED
            BY <4>1, <4>3, <6>1, MaxOfSet, Zenon
        <5>2. h[s \ {Max(s)}] = g[s \ {Max(s)}] /\ s \ {Max(s)} \in SUBSET (1..k)
          BY <3>2, <4>1
        <5> QED
          BY <2>1, <4>1, <4>3, <5>2 DEF Folds
      <4> QED
        BY <4>2, <4>3
    <3> QED
      BY <3>1, <3>2
  <2>6. Folds(h, base, step, m)
    BY <2>5 DEF Folds
  <2> HIDE DEF h
  <2> QED
    BY <1>2, <2>4, <2>6
<1>3. n \in T
  <2> HIDE DEF T
  <2> QED
    BY <1>1, <1>2, UpTo
<1> QED
  BY <1>3

\* What it says of the first positions.
LEMMA FoldSteps ==
  ASSUME NEW n \in Nat, NEW base, NEW step, NEW h, Folds(h, base, step, n)
  PROVE  /\ h[1..0] = base
         /\ \A k \in 1..n : h[1..k] = step[<<h[1..(k - 1)], k>>]
<1>1. h[1..0] = base
  <2>1. 1..0 = {} /\ {} \in SUBSET (1..n)
    OBVIOUS
  <2>2. h[{}] = base
    BY <2>1 DEF Folds
  <2> QED
    BY <2>1, <2>2
<1>2. ASSUME NEW k \in 1..n PROVE h[1..k] = step[<<h[1..(k - 1)], k>>]
  <2>1. 1..k \in SUBSET (1..n) /\ 1..k # {}
    OBVIOUS
  <2>2. Max(1..k) = k /\ (1..k) \ {Max(1..k)} = 1..(k - 1)
    BY LastOfFirst
  <2>3. h[1..k] = step[<<h[(1..k) \ {Max(1..k)}], Max(1..k)>>]
    BY <2>1 DEF Folds
  <2> QED
    BY <2>2, <2>3
<1> QED
  BY <1>1, <1>2

-----------------------------------------------------------------------------
(* What is not there                                                       *)

\* The recursive function in Resolve.
Walk(v, path) ==
    CHOOSE h : h = [s \in SUBSET DOMAIN path |->
        IF s = {} THEN v ELSE Child(h[s \ {Max(s)}], path[Max(s)])]

\* Whatever computes so finds nothing in what is absent.
LEMMA AbsentStays ==
  ASSUME NEW n \in Nat, NEW path, NEW h,
         \A s \in SUBSET (1..n) : h[s] = IF s = {} THEN Absent
                                        ELSE Child(h[s \ {Max(s)}], path[Max(s)])
  PROVE  h[1..n] = Absent
<1> DEFINE T == {k \in 0..n : h[1..k] = Absent}
<1>1. \A key : Child(Absent, key) = Absent
  BY DEF Child, IsA, Absent
<1>2. 0 \in T
  <2>1. 1..0 = {} /\ {} \in SUBSET (1..n)
    OBVIOUS
  <2>2. h[{}] = Absent
    BY <2>1
  <2> QED
    BY <2>1, <2>2
<1>3. ASSUME NEW k \in 0..n, k \in T, k < n PROVE k + 1 \in T
  <2>1. 1..(k + 1) \in SUBSET (1..n) /\ 1..(k + 1) # {}
    BY <1>3
  <2>2. Max(1..(k + 1)) = k + 1 /\ (1..(k + 1)) \ {Max(1..(k + 1))} = 1..k
    BY LastOfFirst
  <2>3. h[1..(k + 1)] = Child(h[1..k], path[k + 1])
    BY <2>1, <2>2
  <2> QED
    BY <1>1, <1>3, <2>3
<1>4. n \in T
  <2> HIDE DEF T
  <2> QED
    BY <1>2, <1>3, UpTo
<1> QED
  BY <1>4

\* No pointer finds anything in what is absent.
LEMMA NothingInAbsent ==
  ASSUME NEW path, Sequential(path)
  PROVE  Resolve(Absent, path) = Absent
<1> DEFINE Walks(h) == h = [s \in SUBSET DOMAIN path |->
                    IF s = {} THEN Absent ELSE Child(h[s \ {Max(s)}], path[Max(s)])]
           nothing == [s \in SUBSET DOMAIN path |-> Absent]
<1>1. DOMAIN path = 1..Len(path) /\ Len(path) \in Nat
  BY LenProperties DEF Sequential
<1>2. Resolve(Absent, path) = Walk(Absent, path)[DOMAIN path]
  BY DEF Resolve, FoldLeft, MapThenFoldSet, Walk
<1>3. \A key : Child(Absent, key) = Absent
  BY DEF Child, IsA, Absent
<1>4. Walks(nothing)
  BY <1>1, <1>3, MaxOfSet
<1>5. Walks(Walk(Absent, path))
  <2> HIDE DEF nothing
  <2>1. \E h : Walks(h)
    BY <1>4, Zenon
  <2> QED
    BY <2>1, Zenon DEF Walk
<1> DEFINE h == Walk(Absent, path)
<1>6. \A s \in SUBSET DOMAIN path : h[s] = IF s = {} THEN Absent
                                    ELSE Child(h[s \ {Max(s)}], path[Max(s)])
  <2> HIDE DEF h
  <2> QED
    BY <1>5, Zenon DEF h
<1> HIDE DEF h
<1>7. h[1..Len(path)] = Absent
  BY <1>1, <1>6, AbsentStays
<1> QED
  BY <1>1, <1>2, <1>7 DEF h

-----------------------------------------------------------------------------
(* What a comparison says                                                  *)

\* A reference that was read is never an error, and agrees with itself.
LEMMA ComparedRead ==
  ASSUME NEW reference, NEW actual, reference # {}
  PROVE  /\ Compared(reference, actual) \in {"passed", "failed"}
         /\ Compared(reference, reference) = "passed"
BY DEF Compared, Judged

\* What a comparison can say.
LEMMA ComparedStatus ==
  ASSUME NEW reference, NEW actual
  PROVE  Compared(reference, actual) \in {"passed", "failed", "error"}
BY DEF Compared, Judged

\* A value that is there is found.
LEMMA FoundPresent ==
  ASSUME NEW v, Present(v)
  PROVE  Found(v) # {}
BY DEF Found, Present

\* Numbers are read in one way, whatever spellings are accepted.
LEMMA OneNumber ==
  ASSUME NEW v, NEW n \in ExactDecimal(v)
  PROVE  /\ ExactDecimal(v) = {n} /\ n \in Int /\ Fits(n)
         /\ ConfiguredDecimal(v) \subseteq {n}
         /\ IsA(v, "number") \/ IsA(v, "text")
<1>1. PICK t \in NumberText(v) : t[2] = n /\ Fits(n)
  BY DEF ExactDecimal, Spelled
<1>2. NumberText(v) = {t}
  BY DEF NumberText
<1>3. ExactDecimal(v) \subseteq {n} /\ ConfiguredDecimal(v) \subseteq {n}
  BY <1>1, <1>2 DEF ExactDecimal, ConfiguredDecimal, Spelled
<1>4. IsA(v, "number") \/ IsA(v, "text")
  BY <1>1 DEF NumberText
<1>5. n \in Int
  BY <1>1, DecimalAssumption DEF Fits
<1> QED
  BY <1>1, <1>3, <1>4, <1>5

\* What an accepted evaluator and a checked reference have in common.
Settled(e, expected) ==
    /\ ValidEvaluator(e) /\ GoodReference(e, expected)
    /\ expected # Malformed
    /\ e.kind \in {"numeric_tolerance", "keyed_array"} => Sequential(e.expected_pointer)

\* A comparison of pairs of pointers never ends in an error.
LEMMA PairsBad ==
  ASSUME NEW e, NEW expected, NEW output, Settled(e, expected), e.kind \in PairKinds
  PROVE  ComparePointers(e, expected, output).status # "error"
BY ComparedRead, FoundPresent
   DEF Settled, GoodReference, ComparePointers, PairKinds, Result, Fact, Judged

\* A reference passes the comparison with itself.
LEMMA PairsGolden ==
  ASSUME NEW e, NEW expected, Settled(e, expected), e.kind \in PairKinds, Symmetric(e)
  PROVE  ComparePointers(e, expected, expected).status = "passed"
BY ComparedRead, FoundPresent
   DEF Settled, GoodReference, ComparePointers, PairKinds, Result, Fact, Judged, Symmetric,
       TextKinds

\* A comparison of texts never ends in an error.
LEMMA TextBad ==
  ASSUME NEW e, NEW expected, NEW output, Settled(e, expected), e.kind \in TextKinds
  PROVE  TextEvaluator(e, expected, output).status # "error"
BY ComparedRead
   DEF Settled, GoodReference, TextEvaluator, TextKinds, PairKinds, Result, Fact, Alone, ReadAs

\* A reference passes the comparison of texts with itself.
LEMMA TextGolden ==
  ASSUME NEW e, NEW expected, Settled(e, expected), e.kind \in TextKinds, Symmetric(e)
  PROVE  TextEvaluator(e, expected, expected).status = "passed"
BY ComparedRead
   DEF Settled, GoodReference, TextEvaluator, TextKinds, PairKinds, Result, Fact, Alone, ReadAs,
       Symmetric

\* Integers are read in one way, too.
LEMMA OneInteger ==
  ASSUME NEW v, NEW n \in CanonicalInteger(v)
  PROVE  IsA(v, "number") \/ IsA(v, "text")
BY DEF CanonicalInteger, Spelled, NumberText

\* A readable number is a value that is there, at a pointer into one.
LEMMA NumberPresent ==
  ASSUME NEW v, IsA(v, "number") \/ IsA(v, "text")
  PROVE  Present(v)
BY DEF IsA, Present, Absent

\* A numeric comparison ends in an error only out of the exact range.
LEMMA NumericBad ==
  ASSUME NEW e, NEW expected, NEW row, Settled(e, expected), e.kind = "numeric_tolerance",
         ~LooseLimits(e), NumericTolerance(e, expected, row.source).status = "error"
  PROVE  OutOfRange(e, expected, row)
<1> DEFINE reference == Resolve(expected, e.expected_pointer)
           actual == Resolve(row.source, e.pointer)
           Read(v) == IF e.exact_integer THEN CanonicalInteger(v) ELSE ExactDecimal(v)
<1>1. Read(reference) # {}
  BY DEF Settled, GoodReference, PairKinds
<1>2. IsA(reference, "text") \/ IsA(reference, "number")
  BY <1>1, OneNumber, OneInteger
<1>3. Present(expected)
  BY <1>2, NothingInAbsent, NumberPresent DEF Settled, Present
<1>4. Present(reference)
  BY <1>2, NumberPresent
<1> DEFINE r == CHOOSE n \in Read(reference) : TRUE
           a == CHOOSE n \in Read(actual) : TRUE
<1>5. ~e.exact_integer /\ Read(actual) # {} /\ WithinTolerance(e, r, a) = "error"
  BY <1>1, <1>2, <1>3 DEF NumericTolerance, Alone, Result, Judged
<1>6. r \in ExactDecimal(reference) /\ a \in ExactDecimal(actual)
  BY <1>1, <1>5
<1>7. ~Fits(a - r) \/ \E t \in e.relative : \E limit \in ExactDecimal(t) :
                         ~Fits(limit * Magnitude(r))
  <2> HIDE DEF r, a
  <2> QED
    BY <1>5 DEF WithinTolerance, LooseLimits, Judged, Checked, Fits
<1> HIDE DEF r, a, Read
<1> QED
  BY <1>5, <1>6, <1>7 DEF OutOfRange

\* A reference is within every tolerance of itself.
LEMMA NumericGolden ==
  ASSUME NEW e, NEW expected, Settled(e, expected), e.kind = "numeric_tolerance",
         ~LooseLimits(e), ~Unbounded(e, expected), Symmetric(e)
  PROVE  NumericTolerance(e, expected, expected).status = "passed"
<1> DEFINE reference == Resolve(expected, e.expected_pointer)
           Read(v) == IF e.exact_integer THEN CanonicalInteger(v) ELSE ExactDecimal(v)
<1>1. Read(reference) # {}
  BY DEF Settled, GoodReference, PairKinds
<1>2. IsA(reference, "text") \/ IsA(reference, "number")
  BY <1>1, OneNumber, OneInteger
<1>3. Present(expected)
  BY <1>2, NothingInAbsent, NumberPresent DEF Settled, Present
<1>4. Present(reference)
  BY <1>2, NumberPresent
<1>5. e.pointer = e.expected_pointer
  BY DEF Symmetric, PairKinds
<1> DEFINE r == CHOOSE n \in Read(reference) : TRUE
<1>6. CASE e.exact_integer
  BY <1>1, <1>2, <1>3, <1>4, <1>5, <1>6 DEF NumericTolerance, Alone, Result, Judged
<1>7. CASE ~e.exact_integer
  <2>1. r \in ExactDecimal(reference)
    BY <1>1, <1>7
  <2> HIDE DEF r
  <2>2. r \in Int /\ r - r = 0 /\ Fits(0)
    BY <2>1, OneNumber, DecimalAssumption DEF Fits
  <2>3. WithinTolerance(e, r, r) = "passed"
    BY <1>7, <2>1, <2>2 DEF WithinTolerance, LooseLimits, Unbounded, Judged, Checked, Fits
  <2> QED
    BY <1>1, <1>2, <1>3, <1>4, <1>5, <1>7, <2>3 DEF NumericTolerance, Alone, Result, Judged, r
<1> QED
  BY <1>6, <1>7

\* What a field comparator can say.
LEMMA FieldStatus ==
  ASSUME NEW f, NEW v, NEW w
  PROVE  CompareField(f, v, w) \in {"passed", "failed", "error"}
BY ComparedStatus DEF CompareField, Judged

\* A field that can be compared with itself is in error for its reach only.
LEMMA FieldBad ==
  ASSUME NEW f, NEW v, NEW w, \A t \in f.absolute : ExactDecimal(t) # {},
         CompareField(f, v, v) # "error", CompareField(f, v, w) = "error"
  PROVE  /\ f.evaluator = "decimal_tolerance"
         /\ \E r \in ExactDecimal(v), n \in ExactDecimal(w) : ~Fits(n - r)
<1>1. Present(v)
  BY DEF CompareField
<1>2. f.evaluator = "decimal_tolerance"
  BY <1>1, ComparedRead DEF CompareField, Compared, Judged
<1>3. \E r \in ReadAs(f, v), a \in ReadAs(f, w) : Checked(a - r) = {}
  BY <1>1, <1>2 DEF CompareField, Judged
<1> QED
  BY <1>2, <1>3 DEF ReadAs, Checked, Fits

\* It also passes against itself, if its tolerance is valid.
LEMMA FieldGolden ==
  ASSUME NEW f, NEW v, \A t \in f.absolute : ExactDecimal(t) # {},
         ValidField(f, ItemComparators), CompareField(f, v, v) # "error"
  PROVE  CompareField(f, v, v) = "passed"
<1>1. Present(v)
  BY DEF CompareField
<1>2. CASE f.evaluator # "decimal_tolerance"
  BY <1>1, <1>2, ComparedRead DEF CompareField, Compared, Judged
<1>3. CASE f.evaluator = "decimal_tolerance"
  <2>1. PICK t \in f.absolute : ValidLimit(t)
    BY <1>3 DEF ValidField
  <2>2. PICK limit \in ExactDecimal(t) : TRUE
    OBVIOUS
  <2>3. limit \in Int /\ limit >= 0
    BY <2>1, <2>2, OneNumber DEF ValidLimit
  <2>4. ReadAs(f, v) # {}
    BY <1>1, <1>3 DEF CompareField
  <2>5. PICK r \in ReadAs(f, v) : TRUE
    BY <2>4
  <2>6. r \in Int
    BY <1>3, <2>5, OneNumber DEF ReadAs
  <2>7. Magnitude(r - r) <= limit
    BY <2>3, <2>6 DEF Magnitude
  <2> QED
    BY <1>1, <1>3, <2>2, <2>4, <2>5, <2>7 DEF CompareField, Judged
<1> QED
  BY <1>2, <1>3

\* The items under their keys.
TheKeyed(e, items) == CHOOSE m \in KeyedItems(e, items) : TRUE

\* Items that can be keyed have all their keys, and each has its own.
LEMMA KeyedMap ==
  ASSUME NEW e, NEW items, KeyedItems(e, items) # {}
  PROVE  /\ \A i \in DOMAIN items : \A key \in e.keys : KeyValue(e, items[i], key) # {}
         /\ DOMAIN TheKeyed(e, items) = {Identity(e, items[i]) : i \in DOMAIN items}
         /\ \A id \in DOMAIN TheKeyed(e, items) :
               /\ TheKeyed(e, items)[id] \in DOMAIN items
               /\ Identity(e, items[TheKeyed(e, items)[id]]) = id
         /\ Cardinality({Identity(e, items[i]) : i \in DOMAIN items}) = Len(items)
<1> DEFINE ids == {Identity(e, items[i]) : i \in DOMAIN items}
           m == [id \in ids |-> CHOOSE i \in DOMAIN items : Identity(e, items[i]) = id]
<1>1. /\ \A i \in DOMAIN items : \A key \in e.keys : KeyValue(e, items[i], key) # {}
      /\ Cardinality(ids) = Len(items)
      /\ KeyedItems(e, items) = {m}
  BY DEF KeyedItems
<1>2. TheKeyed(e, items) = m
  <2> HIDE DEF m
  <2> QED
    BY <1>1 DEF TheKeyed
<1>3. ASSUME NEW id \in ids
      PROVE  m[id] \in DOMAIN items /\ Identity(e, items[m[id]]) = id
  OBVIOUS
<1> QED
  BY <1>1, <1>2, <1>3

\* The facts of an array comparison and its status.
LEMMA ItemsStatus ==
  ASSUME NEW e, NEW expected, NEW actual
  PROVE  LET verdict   == CompareItems(e, expected, actual)
             statuses == {f.status : f \in verdict.facts}
             keyed    == TheKeyed(e, expected)
             keyedActual == TheKeyed(e, actual)
         IN  /\ statuses \subseteq {"passed", "failed", "error"}
             /\ verdict.status = IF "error" \in statuses THEN "error"
                                ELSE IF statuses \subseteq {"passed"} THEN "passed" ELSE "failed"
             /\ "error" \in statuses =>
                    \E id \in DOMAIN keyed \cap DOMAIN keyedActual, f \in e.fields :
                        CompareField(f, Resolve(expected[keyed[id]], f.pointer),
                                     Resolve(actual[keyedActual[id]], f.pointer)) = "error"
             /\ verdict.status = "passed" <=>
                    /\ DOMAIN keyed = DOMAIN keyedActual
                    /\ \A id \in DOMAIN keyed, f \in e.fields :
                        CompareField(f, Resolve(expected[keyed[id]], f.pointer),
                                     Resolve(actual[keyedActual[id]], f.pointer)) = "passed"
<1> DEFINE keyed    == TheKeyed(e, expected)
           keyedActual == TheKeyed(e, actual)
           Says(id, f) == CompareField(f, Resolve(expected[keyed[id]], f.pointer),
                                       Resolve(actual[keyedActual[id]], f.pointer))
           both == DOMAIN keyed \cap DOMAIN keyedActual
           matched == {Fact(<<keyedActual[id], f.pointer>>, Says(id, f)) :
                          id \in both, f \in e.fields}
           facts == matched \cup (IF DOMAIN keyed = DOMAIN keyedActual THEN {}
                                  ELSE {Fact(e.pointer, "failed")})
           statuses == {f.status : f \in facts}
<1>1. CompareItems(e, expected, actual) =
        Result(IF "error" \in statuses THEN "error" ELSE Judged(statuses \subseteq {"passed"}),
               facts)
  BY DEF CompareItems, MatchedFacts, TheKeyed
<1>2. statuses = {Says(id, f) : id \in both, f \in e.fields}
                 \cup (IF DOMAIN keyed = DOMAIN keyedActual THEN {} ELSE {"failed"})
  <2> HIDE DEF both, keyed, keyedActual
  <2>1. \A p, s : Fact(p, s).status = s
    BY DEF Fact
  <2> DEFINE said == {Says(id, f) : id \in both, f \in e.fields}
  <2>2. {f.status : f \in matched} = said
    <3>1. ASSUME NEW g \in matched PROVE g.status \in said
      <4>1. PICK id \in both, f \in e.fields :
                g = Fact(<<keyedActual[id], f.pointer>>, Says(id, f))
        OBVIOUS
      <4> QED
        BY <2>1, <4>1
    <3>2. ASSUME NEW id \in both, NEW f \in e.fields
          PROVE  \E g \in matched : g.status = Says(id, f)
      <4>1. Fact(<<keyedActual[id], f.pointer>>, Says(id, f)) \in matched
        <5> HIDE DEF Says
        <5> QED
          OBVIOUS
      <4> HIDE DEF matched, Says
      <4> QED
        BY <2>1, <4>1
    <3>3. ASSUME NEW s \in said PROVE \E g \in matched : g.status = s
      <4>1. PICK id \in both, f \in e.fields : s = Says(id, f)
        OBVIOUS
      <4> HIDE DEF matched, Says
      <4> QED
        BY <3>2, <4>1
    <3> HIDE DEF matched, said
    <3> QED
      BY <3>1, <3>3
  <2>3. statuses = {f.status : f \in matched}
                   \cup {f.status : f \in IF DOMAIN keyed = DOMAIN keyedActual THEN {}
                                          ELSE {Fact(e.pointer, "failed")}}
    <3> HIDE DEF matched
    <3> QED
      OBVIOUS
  <2> HIDE DEF matched, statuses
  <2> QED
    BY <2>1, <2>2, <2>3
<1>3. \A id, f : Says(id, f) \in {"passed", "failed", "error"}
  BY FieldStatus
<1> HIDE DEF facts, Says, keyed, keyedActual
<1>4. /\ CompareItems(e, expected, actual).facts = facts
      /\ CompareItems(e, expected, actual).status =
            IF "error" \in statuses THEN "error"
            ELSE IF statuses \subseteq {"passed"} THEN "passed" ELSE "failed"
  <2> HIDE DEF statuses
  <2> QED
    BY <1>1 DEF Result, Judged
<1>5. "error" \in statuses => \E id \in both, f \in e.fields : Says(id, f) = "error"
  <2> HIDE DEF statuses
  <2> QED
    BY <1>2
<1>6. /\ statuses \subseteq {"passed", "failed", "error"}
      /\ (("error" \notin statuses) /\ statuses \subseteq {"passed"}) <=>
            /\ DOMAIN keyed = DOMAIN keyedActual
            /\ \A id \in DOMAIN keyed, f \in e.fields : Says(id, f) = "passed"
  <2> HIDE DEF statuses
  <2> QED
    BY <1>2, <1>3
<1>7. CompareItems(e, expected, actual).status = "passed" <=>
          ("error" \notin statuses) /\ statuses \subseteq {"passed"}
  <2> HIDE DEF statuses
  <2> QED
    BY <1>4
<1> QED
  BY <1>4, <1>5, <1>6, <1>7 DEF Says, keyed, keyedActual

\* The only array that a value is.
LEMMA ItemsOnly ==
  ASSUME NEW v, NEW s \in Items(v)
  PROVE  Items(v) = {s} /\ (CHOOSE x \in Items(v) : TRUE) = s
BY DEF Items

\* How a comparison of arrays goes whose reference was accepted.
KeyedOutcome(e, expected, output) ==
    \E s \in Items(Resolve(expected, e.expected_pointer)) :
        /\ KeyedItems(e, s) # {}
        /\ \A i \in DOMAIN s : \A f \in e.fields :
              LET v == Resolve(s[i], f.pointer) IN CompareField(f, v, v) # "error"
        /\ \/ /\ KeyedArray(e, expected, output) = Alone(e, "failed")
              /\ \A a \in Items(Resolve(output, e.pointer)) : KeyedItems(e, a) = {}
           \/ \E a \in Items(Resolve(output, e.pointer)) :
                 /\ KeyedItems(e, a) # {}
                 /\ KeyedArray(e, expected, output) = CompareItems(e, s, a)

\* What the comparison of keyed arrays comes to, after its checks.
LEMMA KeyedSteps ==
  ASSUME NEW e, NEW expected, NEW output, Settled(e, expected), e.kind = "keyed_array"
  PROVE  KeyedOutcome(e, expected, output)
<1> DEFINE reference == Items(Resolve(expected, e.expected_pointer))
           actual    == Items(Resolve(output, e.pointer))
<1>1. /\ reference # {}
      /\ \A s \in reference :
            /\ KeyedItems(e, s) # {}
            /\ \A i \in DOMAIN s, f \in e.fields :
                  LET v == Resolve(s[i], f.pointer) IN CompareField(f, v, v) # "error"
  BY DEF Settled, GoodReference, PairKinds
<1>2. PICK s \in reference : TRUE
  BY <1>1
<1>3. Present(expected)
  <2>1. Items(Absent) = {}
    BY DEF Items, IsA, Absent
  <2> QED
    BY <1>1, <2>1, NothingInAbsent DEF Settled, Present
<1>4. reference = {s} /\ (CHOOSE x \in reference : TRUE) = s
  BY ItemsOnly
<1>5. CASE actual = {}
  <2>1. KeyedArray(e, expected, output) = Alone(e, "failed")
    BY <1>1, <1>3, <1>5 DEF KeyedArray
  <2> QED
    BY <1>1, <1>5, <2>1 DEF KeyedOutcome
<1>6. CASE actual # {}
  <2>1. PICK a \in actual : TRUE
    BY <1>6
  <2>2. actual = {a} /\ (CHOOSE x \in actual : TRUE) = a
    BY ItemsOnly
  <2>3. CASE KeyedItems(e, a) = {}
    <3>1. KeyedArray(e, expected, output) = Alone(e, "failed")
      BY <1>1, <1>3, <1>6, <2>1, <2>3 DEF KeyedArray
    <3> QED
      BY <1>1, <2>2, <2>3, <3>1 DEF KeyedOutcome
  <2>4. CASE KeyedItems(e, a) # {}
    <3>1. KeyedArray(e, expected, output) = CompareItems(e, s, a)
      BY <1>1, <1>3, <1>4, <1>6, <2>2, <2>4 DEF KeyedArray
    <3> QED
      BY <1>1, <2>4, <3>1 DEF KeyedOutcome
  <2> QED
    BY <2>3, <2>4
<1> QED
  BY <1>5, <1>6

\* A keyed array ends in an error only out of the exact range.
LEMMA KeyedBad ==
  ASSUME NEW e, NEW expected, NEW row, Settled(e, expected), e.kind = "keyed_array",
         ~LooseLimits(e), KeyedArray(e, expected, row.source).status = "error"
  PROVE  OutOfRange(e, expected, row)
<1>1. PICK s \in Items(Resolve(expected, e.expected_pointer)) :
            /\ KeyedItems(e, s) # {}
            /\ \A i \in DOMAIN s : \A f \in e.fields :
                  LET v == Resolve(s[i], f.pointer) IN CompareField(f, v, v) # "error"
            /\ \/ KeyedArray(e, expected, row.source) = Alone(e, "failed")
               \/ \E a \in Items(Resolve(row.source, e.pointer)) :
                     /\ KeyedItems(e, a) # {}
                     /\ KeyedArray(e, expected, row.source) = CompareItems(e, s, a)
  <2>1. KeyedOutcome(e, expected, row.source)
    BY KeyedSteps
  <2> QED
    BY <2>1 DEF KeyedOutcome
<1>2. Alone(e, "failed").status # "error"
  BY DEF Alone, Result
<1>3. PICK a \in Items(Resolve(row.source, e.pointer)) :
            /\ KeyedItems(e, a) # {}
            /\ CompareItems(e, s, a).status = "error"
  BY <1>1, <1>2
<1>4. PICK id \in DOMAIN TheKeyed(e, s) \cap DOMAIN TheKeyed(e, a), f \in e.fields :
            CompareField(f, Resolve(s[TheKeyed(e, s)[id]], f.pointer),
                         Resolve(a[TheKeyed(e, a)[id]], f.pointer)) = "error"
  BY <1>3, ItemsStatus
<1> DEFINE i == TheKeyed(e, s)[id]
           j == TheKeyed(e, a)[id]
<1>5. i \in DOMAIN s /\ j \in DOMAIN a
  BY <1>1, <1>3, <1>4, KeyedMap
<1>6. \A t \in f.absolute : ExactDecimal(t) # {}
  BY DEF LooseLimits
<1> HIDE DEF i, j
<1>7. /\ f.evaluator = "decimal_tolerance"
      /\ \E r \in ExactDecimal(Resolve(s[i], f.pointer)),
            n \in ExactDecimal(Resolve(a[j], f.pointer)) : ~Fits(n - r)
  BY <1>1, <1>4, <1>5, <1>6, FieldBad DEF i, j
<1>8. s[i] \in ToSet(s) /\ a[j] \in ToSet(a)
  BY <1>5 DEF ToSet
<1> QED
  BY <1>7, <1>8 DEF OutOfRange

\* A keyed reference passes the comparison with itself.
LEMMA KeyedGolden ==
  ASSUME NEW e, NEW expected, Settled(e, expected), e.kind = "keyed_array",
         ~LooseLimits(e), Symmetric(e)
  PROVE  KeyedArray(e, expected, expected).status = "passed"
<1>1. e.pointer = e.expected_pointer
  BY DEF Symmetric, PairKinds
<1>2. PICK s \in Items(Resolve(expected, e.expected_pointer)) :
            /\ KeyedItems(e, s) # {}
            /\ \A i \in DOMAIN s : \A f \in e.fields :
                  LET v == Resolve(s[i], f.pointer) IN CompareField(f, v, v) # "error"
            /\ \/ /\ KeyedArray(e, expected, expected) = Alone(e, "failed")
                  /\ \A a \in Items(Resolve(expected, e.pointer)) : KeyedItems(e, a) = {}
               \/ \E a \in Items(Resolve(expected, e.pointer)) :
                     /\ KeyedItems(e, a) # {}
                     /\ KeyedArray(e, expected, expected) = CompareItems(e, s, a)
  <2>1. KeyedOutcome(e, expected, expected)
    BY KeyedSteps
  <2> QED
    BY <2>1 DEF KeyedOutcome
<1>3. KeyedArray(e, expected, expected) = CompareItems(e, s, s)
  BY <1>1, <1>2, ItemsOnly
<1>4. \A f \in e.fields : /\ ValidField(f, ItemComparators)
                          /\ \A t \in f.absolute : ExactDecimal(t) # {}
  BY DEF Settled, ValidEvaluator, ValidKeyedArray, LooseLimits, PairKinds, ExternalKinds
<1>5. \A id \in DOMAIN TheKeyed(e, s), f \in e.fields :
         LET v == Resolve(s[TheKeyed(e, s)[id]], f.pointer) IN CompareField(f, v, v) = "passed"
  BY <1>2, <1>4, KeyedMap, FieldGolden
<1> QED
  BY <1>3, <1>5, ItemsStatus

\* One evaluator for each kind.
LEMMA EvaluateByKind ==
  ASSUME NEW e, NEW expected, NEW output
  PROVE  /\ e.kind = "exact_json" => Evaluate(e, expected, output) = ExactJson(e, expected, output)
         /\ e.kind \in PairKinds =>
                Evaluate(e, expected, output) = ComparePointers(e, expected, output)
         /\ e.kind \in TextKinds =>
                Evaluate(e, expected, output) = TextEvaluator(e, expected, output)
         /\ e.kind = "numeric_tolerance" =>
                Evaluate(e, expected, output) = NumericTolerance(e, expected, output)
         /\ e.kind = "required_fields" =>
                Evaluate(e, expected, output) = RequiredFields(e, expected, output)
         /\ e.kind = "keyed_array" =>
                Evaluate(e, expected, output) = KeyedArray(e, expected, output)
         /\ e.kind = "financial_invariants" =>
                Evaluate(e, expected, output) = FinancialInvariants(e, expected, output)
BY DEF Evaluate, PairKinds, TextKinds

\* A bad output is a failure.
LEMMA EvaluateBad ==
  ASSUME NEW e, NEW expected, NEW row, Settled(e, expected),
         e.kind \notin {"financial_invariants"} \cup ExternalKinds, ~LooseLimits(e),
         Evaluate(e, expected, row.source).status = "error"
  PROVE  OutOfRange(e, expected, row)
<1>1. e.kind \in {"exact_json", "numeric_tolerance", "required_fields", "keyed_array"}
                 \cup PairKinds \cup TextKinds
  BY DEF Settled, ValidEvaluator, EvaluatorKinds
<1>2. CASE e.kind = "exact_json"
  <2>1. Present(expected)
    BY <1>2 DEF Settled, GoodReference, PairKinds
  <2>2. ExactJson(e, expected, row.source).status # "error"
    BY <2>1, FoundPresent, ComparedRead DEF ExactJson, Result
  <2> QED
    BY <1>2, <2>2, EvaluateByKind
<1>3. CASE e.kind \in PairKinds
  BY <1>3, PairsBad, EvaluateByKind
<1>4. CASE e.kind \in TextKinds
  BY <1>4, TextBad, EvaluateByKind
<1>5. CASE e.kind = "numeric_tolerance"
  BY <1>5, NumericBad, EvaluateByKind
<1>6. CASE e.kind = "required_fields"
  <2>1. RequiredFields(e, expected, row.source).status # "error"
    BY DEF RequiredFields, Result, Judged
  <2> QED
    BY <1>6, <2>1, EvaluateByKind
<1>7. CASE e.kind = "keyed_array"
  BY <1>7, KeyedBad, EvaluateByKind
<1> QED
  BY <1>1, <1>2, <1>3, <1>4, <1>5, <1>6, <1>7

\* The reference passes.
LEMMA EvaluateGolden ==
  ASSUME NEW e, NEW expected, Settled(e, expected), Symmetric(e),
         ~LooseLimits(e), ~Unbounded(e, expected)
  PROVE  Evaluate(e, expected, expected).status = "passed"
<1>1. e.kind \in {"exact_json", "numeric_tolerance", "keyed_array"} \cup PairKinds \cup TextKinds
  BY DEF Symmetric
<1>2. CASE e.kind = "exact_json"
  <2>1. Present(expected)
    BY <1>2 DEF Settled, GoodReference, PairKinds
  <2>2. Found(expected) = {expected}
    BY <2>1 DEF Found, Present
  <2>3. ExactJson(e, expected, expected).status = "passed"
    BY <2>2 DEF ExactJson, Result, Compared, Judged
  <2> QED
    BY <1>2, <2>3, EvaluateByKind
<1>3. CASE e.kind \in PairKinds
  BY <1>3, PairsGolden, EvaluateByKind
<1>4. CASE e.kind \in TextKinds
  BY <1>4, TextGolden, EvaluateByKind
<1>5. CASE e.kind = "numeric_tolerance"
  BY <1>5, NumericGolden, EvaluateByKind
<1>6. CASE e.kind = "keyed_array"
  BY <1>6, KeyedGolden, EvaluateByKind
<1> QED
  BY <1>1, <1>2, <1>3, <1>4, <1>5, <1>6

-----------------------------------------------------------------------------
(* Keyed arrays as matchings                                               *)

\* Items whose keys are all different are found under their keys.
LEMMA KeysDiffer ==
  ASSUME NEW e, NEW items, Sequential(items),
         Cardinality({Identity(e, items[i]) : i \in DOMAIN items}) = Len(items)
  PROVE  \A i, j \in DOMAIN items : Identity(e, items[i]) = Identity(e, items[j]) => i = j
<1> DEFINE ids == {Identity(e, items[i]) : i \in DOMAIN items}
           id == [i \in DOMAIN items |-> Identity(e, items[i])]
<1>1. DOMAIN items = 1..Len(items) /\ Len(items) \in Nat
  BY LenProperties DEF Sequential
<1>2. IsFiniteSet(DOMAIN items) /\ Cardinality(DOMAIN items) = Len(items)
  <2>1. \A n \in Nat : IsFiniteSet(1..n) /\ Cardinality(1..n) = n
    BY FS_Interval
  <2> QED
    BY <1>1, <2>1, Zenon
<1>3. id \in Surjection(DOMAIN items, ids)
  BY DEF Surjection
<1>4. IsFiniteSet(ids)
  <2> HIDE DEF id, ids
  <2> QED
    BY <1>2, <1>3, FS_Surjection
<1>5. id \in Injection(DOMAIN items, ids)
  <2> HIDE DEF id, ids
  <2> QED
    BY <1>2, <1>3, <1>4, FS_SurjSameCardinalityImpliesInj DEF ids
<1>6. \A i, j \in DOMAIN items : id[i] = id[j] => i = j
  <2> HIDE DEF id, ids
  <2> QED
    BY <1>5 DEF Injection, IsInjective
<1> QED
  BY <1>6

\* And as many as there are items.
LEMMA KeysCounted ==
  ASSUME NEW e, NEW items, Sequential(items),
         \A i, j \in DOMAIN items : Identity(e, items[i]) = Identity(e, items[j]) => i = j
  PROVE  Cardinality({Identity(e, items[i]) : i \in DOMAIN items}) = Len(items)
<1> DEFINE ids == {Identity(e, items[i]) : i \in DOMAIN items}
           id == [i \in DOMAIN items |-> Identity(e, items[i])]
<1>1. DOMAIN items = 1..Len(items) /\ Len(items) \in Nat
  BY LenProperties DEF Sequential
<1>2. IsFiniteSet(DOMAIN items) /\ Cardinality(DOMAIN items) = Len(items)
  <2>1. \A n \in Nat : IsFiniteSet(1..n) /\ Cardinality(1..n) = n
    BY FS_Interval
  <2> QED
    BY <1>1, <2>1, Zenon
<1>3. id \in Bijection(DOMAIN items, ids)
  BY DEF Bijection, Surjection, Injection, IsInjective
<1> HIDE DEF id, ids
<1> QED
  BY <1>2, <1>3, FS_Bijection DEF ExistsBijection, ids

\* Identities are equal exactly if the values of all keys are.
LEMMA SameIdentity ==
  ASSUME NEW e, NEW a, NEW b
  PROVE  Identity(e, a) = Identity(e, b) <=>
             \A key \in e.keys : KeyValue(e, a, key) = KeyValue(e, b, key)
BY DEF Identity

\* Everything that is known of an array under its keys.
KeyedWell(e, items) ==
    /\ \A i \in DOMAIN items : \A key \in e.keys : KeyValue(e, items[i], key) # {}
    /\ \A i \in DOMAIN items : /\ Identity(e, items[i]) \in DOMAIN TheKeyed(e, items)
                               /\ TheKeyed(e, items)[Identity(e, items[i])] = i
    /\ \A id \in DOMAIN TheKeyed(e, items) :
          /\ TheKeyed(e, items)[id] \in DOMAIN items
          /\ Identity(e, items[TheKeyed(e, items)[id]]) = id
    /\ \A i, j \in DOMAIN items : Identity(e, items[i]) = Identity(e, items[j]) => i = j

\* The keyed items of a sequence are well keyed.
LEMMA KeyedIsWell ==
  ASSUME NEW e, NEW items, Sequential(items), KeyedItems(e, items) # {}
  PROVE  KeyedWell(e, items)
<1> DEFINE ids == {Identity(e, items[i]) : i \in DOMAIN items}
<1>0. DOMAIN TheKeyed(e, items) = ids /\ Cardinality(ids) = Len(items)
  BY KeyedMap
<1>1. \A i, j \in DOMAIN items : Identity(e, items[i]) = Identity(e, items[j]) => i = j
  BY <1>0, KeysDiffer
<1>2. \A i \in DOMAIN items : Identity(e, items[i]) \in DOMAIN TheKeyed(e, items)
  BY <1>0
<1>3. \A id \in DOMAIN TheKeyed(e, items) :
          /\ TheKeyed(e, items)[id] \in DOMAIN items
          /\ Identity(e, items[TheKeyed(e, items)[id]]) = id
  BY KeyedMap
<1>4. \A i \in DOMAIN items : TheKeyed(e, items)[Identity(e, items[i])] = i
  BY <1>1, <1>2, <1>3
<1>5. \A i \in DOMAIN items : \A key \in e.keys : KeyValue(e, items[i], key) # {}
  BY KeyedMap
<1> QED
  BY <1>1, <1>2, <1>3, <1>4, <1>5 DEF KeyedWell

\* A comparison that passes pairs the items.
LEMMA PassedIsMatching ==
  ASSUME NEW e, NEW s, NEW a, KeyedWell(e, s), KeyedWell(e, a),
         CompareItems(e, s, a).status = "passed"
  PROVE  Matching(e, s, a)
<1> DEFINE ks == TheKeyed(e, s)
           ka == TheKeyed(e, a)
           order == [i \in DOMAIN s |-> ka[Identity(e, s[i])]]
<1>1. /\ DOMAIN ks = DOMAIN ka
      /\ \A id \in DOMAIN ks, f \in e.fields :
            CompareField(f, Resolve(s[ks[id]], f.pointer), Resolve(a[ka[id]], f.pointer)) = "passed"
  BY ItemsStatus
<1> HIDE DEF ks, ka
<1>2. ASSUME NEW i \in DOMAIN s
      PROVE  /\ Identity(e, s[i]) \in DOMAIN ka /\ order[i] \in DOMAIN a
             /\ Identity(e, a[order[i]]) = Identity(e, s[i])
  BY <1>1 DEF KeyedWell, ks, ka
<1>3. order \in [DOMAIN s -> DOMAIN a]
  BY <1>2
<1>4. \A i, j \in DOMAIN s : order[i] = order[j] => i = j
  <2> HIDE DEF order
  <2> QED
    BY <1>2 DEF KeyedWell
<1>5. \A j \in DOMAIN a : \E i \in DOMAIN s : order[i] = j
  <2> TAKE j \in DOMAIN a
  <2>1. Identity(e, a[j]) \in DOMAIN ks
    BY <1>1 DEF KeyedWell, ks, ka
  <2>2. /\ ks[Identity(e, a[j])] \in DOMAIN s
        /\ Identity(e, s[ks[Identity(e, a[j])]]) = Identity(e, a[j])
    BY <2>1 DEF KeyedWell, ks
  <2> HIDE DEF order
  <2>3. order[ks[Identity(e, a[j])]] = j
    BY <1>2, <2>2 DEF KeyedWell
  <2> QED
    BY <2>2, <2>3
<1>6. order \in Bijection(DOMAIN s, DOMAIN a)
  <2> HIDE DEF order
  <2> QED
    BY <1>3, <1>4, <1>5 DEF Bijection, Injection, Surjection, IsInjective
<1>7. ASSUME NEW i \in DOMAIN s PROVE SameItem(e, s[i], a[order[i]])
  <2>1. \A key \in e.keys : KeyValue(e, s[i], key) # {}
                            /\ KeyValue(e, s[i], key) = KeyValue(e, a[order[i]], key)
    <3> HIDE DEF order
    <3> QED
      BY <1>2, SameIdentity DEF KeyedWell
  <2>2. /\ Identity(e, s[i]) \in DOMAIN ks /\ ks[Identity(e, s[i])] = i
        /\ ka[Identity(e, s[i])] = order[i]
    BY DEF KeyedWell, ks
  <2>3. \A f \in e.fields :
          CompareField(f, Resolve(s[i], f.pointer), Resolve(a[order[i]], f.pointer)) = "passed"
    <3> HIDE DEF order
    <3> QED
      BY <1>1, <2>2
  <2> HIDE DEF order
  <2> QED
    BY <2>1, <2>3 DEF SameItem
<1> HIDE DEF order
<1> QED
  BY <1>6, <1>7 DEF Matching

\* A pairing makes the comparison pass.
LEMMA MatchingPasses ==
  ASSUME NEW e, NEW s, NEW a, KeyedWell(e, s), KeyedWell(e, a), Matching(e, s, a)
  PROVE  CompareItems(e, s, a).status = "passed"
<1> DEFINE ks == TheKeyed(e, s)
           ka == TheKeyed(e, a)
<1>1. PICK order \in Bijection(DOMAIN s, DOMAIN a) :
          \A i \in DOMAIN s : SameItem(e, s[i], a[order[i]])
  BY DEF Matching
<1>2. /\ \A i \in DOMAIN s : order[i] \in DOMAIN a
      /\ \A j \in DOMAIN a : \E i \in DOMAIN s : order[i] = j
  BY DEF Bijection, Injection, Surjection
<1>3. \A i \in DOMAIN s : Identity(e, s[i]) = Identity(e, a[order[i]])
  BY <1>1, SameIdentity DEF SameItem
<1>4. \A id : id \in DOMAIN ks <=> id \in DOMAIN ka
  BY <1>2, <1>3 DEF KeyedWell
<1>5. DOMAIN ks = DOMAIN ka
  BY <1>4
<1>6. ASSUME NEW id \in DOMAIN ks, NEW f \in e.fields
      PROVE  CompareField(f, Resolve(s[ks[id]], f.pointer),
                          Resolve(a[ka[id]], f.pointer)) = "passed"
  <2>1. ks[id] \in DOMAIN s /\ Identity(e, s[ks[id]]) = id
    BY DEF KeyedWell
  <2>2. ka[id] \in DOMAIN a /\ Identity(e, a[ka[id]]) = id
    BY <1>5 DEF KeyedWell
  <2> HIDE DEF ks, ka
  <2>3. order[ks[id]] = ka[id]
    BY <1>2, <1>3, <2>1, <2>2 DEF KeyedWell
  <2> QED
    BY <1>1, <2>1, <2>3 DEF SameItem
<1> QED
  BY <1>5, <1>6, ItemsStatus

\* Whatever is paired with an array under its keys has keys of its own.
LEMMA MatchedIsKeyed ==
  ASSUME NEW e, NEW s, NEW a, KeyedWell(e, s), Sequential(a), Matching(e, s, a)
  PROVE  KeyedItems(e, a) # {}
<1>1. PICK order \in Bijection(DOMAIN s, DOMAIN a) :
          \A i \in DOMAIN s : SameItem(e, s[i], a[order[i]])
  BY DEF Matching
<1>2. /\ \A i \in DOMAIN s : order[i] \in DOMAIN a
      /\ \A j \in DOMAIN a : \E i \in DOMAIN s : order[i] = j
  BY DEF Bijection, Injection, Surjection
<1>3. \A i \in DOMAIN s : Identity(e, s[i]) = Identity(e, a[order[i]])
  BY <1>1, SameIdentity DEF SameItem
<1>4. \A j \in DOMAIN a : \A key \in e.keys : KeyValue(e, a[j], key) # {}
  <2> TAKE j \in DOMAIN a
  <2> TAKE key \in e.keys
  <2>1. PICK i \in DOMAIN s : order[i] = j
    BY <1>2
  <2> QED
    BY <1>1, <2>1 DEF SameItem
<1>5. \A i, j \in DOMAIN a : Identity(e, a[i]) = Identity(e, a[j]) => i = j
  BY <1>2, <1>3 DEF KeyedWell
<1> QED
  BY <1>4, <1>5, KeysCounted DEF KeyedItems

\* An array comparison passes exactly if there is a pairing.
LEMMA KeyedMatches ==
  ASSUME NEW e, NEW expected, NEW output, Settled(e, expected), e.kind = "keyed_array",
         \A s \in Items(Resolve(expected, e.expected_pointer)) : Sequential(s),
         \A a \in Items(Resolve(output, e.pointer)) : Sequential(a)
  PROVE  KeyedArray(e, expected, output).status = "passed" <=>
             \E s \in Items(Resolve(expected, e.expected_pointer)),
                a \in Items(Resolve(output, e.pointer)) : Matching(e, s, a)
<1>1. KeyedOutcome(e, expected, output)
  BY KeyedSteps
<1>2. PICK s \in Items(Resolve(expected, e.expected_pointer)) :
        /\ KeyedItems(e, s) # {}
        /\ \/ /\ KeyedArray(e, expected, output) = Alone(e, "failed")
              /\ \A a \in Items(Resolve(output, e.pointer)) : KeyedItems(e, a) = {}
           \/ \E a \in Items(Resolve(output, e.pointer)) :
                 /\ KeyedItems(e, a) # {}
                 /\ KeyedArray(e, expected, output) = CompareItems(e, s, a)
  BY <1>1 DEF KeyedOutcome
<1>3. Items(Resolve(expected, e.expected_pointer)) = {s} /\ KeyedWell(e, s)
  BY <1>2, ItemsOnly, KeyedIsWell
<1>4. CASE /\ KeyedArray(e, expected, output) = Alone(e, "failed")
           /\ \A a \in Items(Resolve(output, e.pointer)) : KeyedItems(e, a) = {}
  <2>1. KeyedArray(e, expected, output).status # "passed"
    BY <1>4 DEF Alone, Result
  <2> QED
    BY <1>3, <1>4, <2>1, MatchedIsKeyed
<1>5. ASSUME NEW a \in Items(Resolve(output, e.pointer)), KeyedItems(e, a) # {},
             KeyedArray(e, expected, output) = CompareItems(e, s, a)
      PROVE  KeyedArray(e, expected, output).status = "passed" <=>
             \E x \in Items(Resolve(expected, e.expected_pointer)),
                y \in Items(Resolve(output, e.pointer)) : Matching(e, x, y)
  <2>1. Items(Resolve(output, e.pointer)) = {a} /\ KeyedWell(e, a)
    BY <1>5, ItemsOnly, KeyedIsWell
  <2>2. CompareItems(e, s, a).status = "passed" <=> Matching(e, s, a)
    BY <1>3, <2>1, PassedIsMatching, MatchingPasses
  <2> QED
    BY <1>3, <1>5, <2>1, <2>2
<1> QED
  BY <1>2, <1>4, <1>5

-----------------------------------------------------------------------------
(* Financial invariants                                                    *)

\* What a comparison says.
Verdicts == {"passed", "failed", "error"}

\* What the sum over line items can be.
LineSums(e) ==
    [index : Nat, sum : Int, complete : BOOLEAN,
     facts : SUBSET {Fact(<<i, e.amount>>, status) : i \in Nat, status \in Verdicts}]

\* Before the first line.
NoLines == [index |-> 0, sum |-> 0, complete |-> TRUE, facts |-> {}]

\* A line that is computed, and its amount.
AddsLine(e, t, acc, item, next, q, u, a) ==
    /\ q \in ReadAt(item, e.quantity) /\ u \in ReadAt(item, e.unit_price)
    /\ a \in ReadAt(item, e.amount)
    /\ next.sum = acc.sum + a /\ next.complete = acc.complete
    /\ next.facts = acc.facts \cup
           {Fact(<<acc.index + 1, e.amount>>, Judged(Magnitude(q * u - a) <= t))}

\* What the next line does.
NextLine(e, t, acc, item, next) ==
    /\ next \in LineSums(e)
    /\ next.index = acc.index + 1
    /\ \/ /\ ~next.complete
          /\ next.facts = acc.facts \cup {Fact(<<acc.index + 1, e.amount>>, "error")}
       \/ \E q, u, a \in Int : AddsLine(e, t, acc, item, next, q, u, a)

\* So LineItem does it.
LEMMA LineStep ==
  ASSUME NEW e, NEW t, NEW acc \in LineSums(e), NEW item
  PROVE  NextLine(e, t, acc, item, LineItem(e, t, acc, item))
<1> DEFINE Amount(p) == ExactDecimal(Resolve(item, p))
           computed  == {<<q * u, a, q * u - a, acc.sum + a>> : q \in Amount(e.quantity),
                            u \in Amount(e.unit_price), a \in Amount(e.amount)}
           line == {c \in computed : Fits(c[1]) /\ Fits(c[3]) /\ Fits(c[4])}
           place == acc.index + 1
           Line(status) == acc.facts \cup {Fact(<<place, e.amount>>, status)}
           next == LineItem(e, t, acc, item)
<1>1. /\ acc.index \in Nat /\ acc.sum \in Int /\ acc.complete \in BOOLEAN
      /\ acc = [index |-> acc.index, sum |-> acc.sum, complete |-> acc.complete,
                facts |-> acc.facts]
      /\ acc.facts \in SUBSET {Fact(<<i, e.amount>>, status) : i \in Nat, status \in Verdicts}
  BY DEF LineSums
<1>2. \A status \in Verdicts : Line(status) \in
          SUBSET {Fact(<<i, e.amount>>, s) : i \in Nat, s \in Verdicts}
  BY <1>1
<1>3. CASE line = {}
  <2>1. next = [acc EXCEPT !.index = place, !.complete = FALSE, !.facts = Line("error")]
    BY <1>3 DEF LineItem
  <2>2. next = [index |-> place, sum |-> acc.sum, complete |-> FALSE, facts |-> Line("error")]
    BY <1>1, <2>1
  <2>3. place \in Nat /\ "error" \in Verdicts
    BY <1>1 DEF Verdicts
  <2> HIDE DEF next
  <2>4. next \in LineSums(e)
    BY <1>1, <1>2, <2>2, <2>3 DEF LineSums
  <2>5. /\ next.index = acc.index + 1 /\ ~next.complete
        /\ next.facts = acc.facts \cup {Fact(<<acc.index + 1, e.amount>>, "error")}
    BY <2>2
  <2> QED
    BY <2>4, <2>5 DEF next, NextLine
<1>4. CASE line # {}
  <2> DEFINE c == CHOOSE c \in line : TRUE
  <2>1. next = [acc EXCEPT !.index = place, !.sum = c[4],
                           !.facts = Line(Judged(Magnitude(c[3]) <= t))]
    BY <1>4 DEF LineItem
  <2>2. c \in line
    BY <1>4
  <2> HIDE DEF c
  <2>3. PICK q \in Amount(e.quantity), u \in Amount(e.unit_price), a \in Amount(e.amount) :
            c = <<q * u, a, q * u - a, acc.sum + a>>
    BY <2>2
  <2>4. q \in Int /\ u \in Int /\ a \in Int
    BY <2>3, OneNumber
  <2>5. c[3] = q * u - a /\ c[4] = acc.sum + a
    BY <2>3
  <2>6. Judged(Magnitude(q * u - a) <= t) \in Verdicts
    BY DEF Judged, Verdicts
  <2>7. next = [index |-> place, sum |-> acc.sum + a, complete |-> acc.complete,
                facts |-> Line(Judged(Magnitude(q * u - a) <= t))]
    BY <1>1, <2>1, <2>5
  <2>8. acc.sum + a \in Int /\ place \in Nat
    BY <1>1, <2>4
  <2> HIDE DEF next
  <2>9. next \in LineSums(e)
    BY <1>1, <1>2, <2>6, <2>7, <2>8 DEF LineSums
  <2>10. AddsLine(e, t, acc, item, next, q, u, a)
    BY <2>3, <2>7 DEF AddsLine, ReadAt
  <2>11. next.index = acc.index + 1
    BY <2>7
  <2> QED
    BY <2>4, <2>9, <2>10, <2>11 DEF next, NextLine
<1> QED
  BY <1>3, <1>4

\* The recursive functions in LineItems and Due.
LineFold(e, t, s) ==
    CHOOSE h : h = [p \in SUBSET DOMAIN s |->
        IF p = {} THEN NoLines ELSE LineItem(e, t, h[p \ {Max(p)}], s[Max(p)])]

\* What a line adds to what is due.
AddDue(e, sum, line) ==
    sum + CHOOSE n \in {q * u : q \in ReadAt(line, e.quantity),
                               u \in ReadAt(line, e.unit_price)} : TRUE

\* The sums over subsets of the lines.
DueFold(e, s) ==
    CHOOSE h : h = [p \in SUBSET DOMAIN s |->
        IF p = {} THEN 0 ELSE AddDue(e, h[p \ {Max(p)}], s[Max(p)])]

\* The sums after each line.
LinesAddUp(e, t, s) ==
    \E l \in [0..Len(s) -> LineSums(e)] :
        /\ l[0] = NoLines
        /\ \A k \in 1..Len(s) : l[k] = LineItem(e, t, l[k - 1], s[k])
        /\ LineItems(e, t, s) = l[Len(s)]

\* The lines are added one after the other.
LEMMA LinesInOrder ==
  ASSUME NEW e, NEW t, NEW s, Sequential(s)
  PROVE  LinesAddUp(e, t, s)
<1> DEFINE n == Len(s)
           A == LineSums(e)
           step == [p \in A \X (1..n) |-> LineItem(e, t, p[1], s[p[2]])]
           IsFold(h) == h = [p \in SUBSET DOMAIN s |->
                IF p = {} THEN NoLines ELSE LineItem(e, t, h[p \ {Max(p)}], s[Max(p)])]
<1>1. DOMAIN s = 1..n /\ n \in Nat
  BY LenProperties DEF Sequential
<1>2. NoLines \in A
  BY DEF NoLines, LineSums
<1>3. step \in [A \X (1..n) -> A]
  BY LineStep DEF NextLine
<1>4. PICK g \in [SUBSET (1..n) -> A] : Folds(g, NoLines, step, n)
  <2> HIDE DEF step, A
  <2> QED
    BY <1>1, <1>2, <1>3, FoldExists
<1>5. ASSUME NEW p \in SUBSET (1..n)
      PROVE  g[p] = IF p = {} THEN NoLines ELSE LineItem(e, t, g[p \ {Max(p)}], s[Max(p)])
  <2>1. g[p] = IF p = {} THEN NoLines ELSE step[<<g[p \ {Max(p)}], Max(p)>>]
    <3> HIDE DEF step
    <3> QED
      BY <1>4 DEF Folds
  <2>2. CASE p # {}
    <3>1. Max(p) \in p
      BY <1>1, <2>2, MaxOfSet
    <3>2. <<g[p \ {Max(p)}], Max(p)>> \in A \X (1..n)
      BY <1>4, <3>1
    <3>3. step[<<g[p \ {Max(p)}], Max(p)>>] = LineItem(e, t, g[p \ {Max(p)}], s[Max(p)])
      BY <3>2
    <3> HIDE DEF step
    <3> QED
      BY <2>1, <2>2, <3>3
  <2> HIDE DEF step
  <2> QED
    BY <2>1, <2>2
<1> HIDE DEF step
<1>6. IsFold(g)
  BY <1>1, <1>4, <1>5
<1>7. IsFold(LineFold(e, t, s))
  <2>1. \E h : IsFold(h)
    BY <1>6, Zenon
  <2> QED
    BY <2>1, Zenon DEF LineFold
<1> DEFINE h == LineFold(e, t, s)
           l == [k \in 0..n |-> h[1..k]]
<1>8. LineItems(e, t, s) = h[DOMAIN s]
  BY DEF LineItems, FoldLeft, MapThenFoldSet, LineFold, NoLines
<1>9. \A p \in SUBSET (1..n) :
        h[p] = IF p = {} THEN NoLines ELSE LineItem(e, t, h[p \ {Max(p)}], s[Max(p)])
  <2> HIDE DEF h
  <2> QED
    BY <1>1, <1>7 DEF h
<1> HIDE DEF h
<1>10. l[0] = NoLines
  <2>1. 1..0 = {} /\ {} \in SUBSET (1..n)
    OBVIOUS
  <2>2. h[{}] = NoLines
    BY <1>9, <2>1
  <2> QED
    BY <1>1, <2>1, <2>2
<1>11. ASSUME NEW k \in 1..n PROVE l[k] = LineItem(e, t, l[k - 1], s[k])
  <2>1. 1..k \in SUBSET (1..n) /\ 1..k # {} /\ k \in 0..n /\ k - 1 \in 0..n
    BY <1>1
  <2>2. Max(1..k) = k /\ (1..k) \ {Max(1..k)} = 1..(k - 1)
    BY LastOfFirst
  <2>3. h[1..k] = LineItem(e, t, h[1..(k - 1)], s[k])
    BY <1>9, <2>1, <2>2
  <2> QED
    BY <2>1, <2>3
<1> DEFINE T == {k \in 0..n : l[k] \in A}
<1>12. \A k \in 0..n : k \in T
  <2>1. 0 \in T
    BY <1>1, <1>2, <1>10
  <2>2. ASSUME NEW k \in 0..n, k \in T, k < n PROVE k + 1 \in T
    <3>1. k + 1 \in 1..n /\ k + 1 \in 0..n /\ (k + 1) - 1 = k
      BY <2>2
    <3> HIDE DEF l
    <3>2. l[k + 1] = LineItem(e, t, l[k], s[k + 1])
      BY <1>11, <3>1
    <3>3. l[k] \in A
      BY <2>2
    <3>4. k + 1 \in 1..n /\ LineItem(e, t, l[k], s[k + 1]) \in A
      BY <3>1, <3>3, LineStep DEF NextLine
    <3>5. l[k + 1] \in A
      BY <3>2, <3>4
    <3> QED
      BY <3>1, <3>5
  <2> HIDE DEF T
  <2> QED
    BY <1>1, <2>1, <2>2, UpTo
<1>13. l \in [0..n -> A]
  BY <1>12
<1>14. LineItems(e, t, s) = l[n]
  BY <1>1, <1>8
<1> HIDE DEF l
<1> QED
  BY <1>10, <1>11, <1>13, <1>14 DEF LinesAddUp

\* A line with a quantity and a price is worth their product.
LEMMA DueStep ==
  ASSUME NEW e, NEW sum, NEW line,
         NEW x \in ReadAt(line, e.quantity), NEW y \in ReadAt(line, e.unit_price)
  PROVE  AddDue(e, sum, line) = sum + x * y
<1> DEFINE worth == {q * u : q \in ReadAt(line, e.quantity), u \in ReadAt(line, e.unit_price)}
<1>1. ReadAt(line, e.quantity) = {x} /\ ReadAt(line, e.unit_price) = {y}
  BY OneNumber DEF ReadAt
<1>2. worth = {x * y}
  BY <1>1
<1>3. AddDue(e, sum, line) = sum + CHOOSE n \in worth : TRUE
  BY DEF AddDue
<1>4. (CHOOSE n \in worth : TRUE) = x * y
  <2> HIDE DEF worth
  <2> QED
    BY <1>2
<1> HIDE DEF worth
<1> QED
  BY <1>3, <1>4

\* What is due after each line.
DueAddsUp(e, s) ==
    \E d \in [0..Len(s) -> Int] :
        /\ d[0] = 0
        /\ \A k \in 1..Len(s) :
              \A q \in ReadAt(s[k], e.quantity), u \in ReadAt(s[k], e.unit_price) :
                  d[k] = d[k - 1] + q * u
        /\ Due(e, s) = d[Len(s)]

\* What is due adds up line by line.
LEMMA DueInOrder ==
  ASSUME NEW e, NEW s, Sequential(s),
         \A i \in DOMAIN s : ReadAt(s[i], e.quantity) # {} /\ ReadAt(s[i], e.unit_price) # {}
  PROVE  DueAddsUp(e, s)
<1> DEFINE n == Len(s)
           step == [p \in Int \X (1..n) |-> AddDue(e, p[1], s[p[2]])]
           IsFold(h) == h = [p \in SUBSET DOMAIN s |->
                IF p = {} THEN 0 ELSE AddDue(e, h[p \ {Max(p)}], s[Max(p)])]
<1>1. DOMAIN s = 1..n /\ n \in Nat
  BY LenProperties DEF Sequential
<1>2. ASSUME NEW i \in 1..n, NEW sum \in Int PROVE AddDue(e, sum, s[i]) \in Int
  <2>1. PICK q \in ReadAt(s[i], e.quantity), u \in ReadAt(s[i], e.unit_price) : TRUE
    BY <1>1
  <2>2. q \in Int /\ u \in Int
    BY OneNumber DEF ReadAt
  <2>3. AddDue(e, sum, s[i]) = sum + q * u
    BY DueStep
  <2> QED
    BY <2>2, <2>3
<1>3. step \in [Int \X (1..n) -> Int]
  BY <1>2
<1>4. PICK g \in [SUBSET (1..n) -> Int] : Folds(g, 0, step, n)
  <2>1. 0 \in Int
    OBVIOUS
  <2> HIDE DEF step
  <2> QED
    BY <1>1, <1>3, <2>1, FoldExists
<1>5. ASSUME NEW p \in SUBSET (1..n)
      PROVE  g[p] = IF p = {} THEN 0 ELSE AddDue(e, g[p \ {Max(p)}], s[Max(p)])
  <2>1. g[p] = IF p = {} THEN 0 ELSE step[<<g[p \ {Max(p)}], Max(p)>>]
    <3> HIDE DEF step
    <3> QED
      BY <1>4 DEF Folds
  <2>2. CASE p # {}
    <3>1. Max(p) \in p
      BY <1>1, <2>2, MaxOfSet
    <3>2. <<g[p \ {Max(p)}], Max(p)>> \in Int \X (1..n)
      BY <1>4, <3>1
    <3>3. step[<<g[p \ {Max(p)}], Max(p)>>] = AddDue(e, g[p \ {Max(p)}], s[Max(p)])
      BY <3>2
    <3> HIDE DEF step
    <3> QED
      BY <2>1, <2>2, <3>3
  <2> HIDE DEF step
  <2> QED
    BY <2>1, <2>2
<1> HIDE DEF step
<1>6. IsFold(g)
  BY <1>1, <1>4, <1>5
<1>7. IsFold(DueFold(e, s))
  <2>1. \E h : IsFold(h)
    BY <1>6, Zenon
  <2> QED
    BY <2>1, Zenon DEF DueFold
<1> DEFINE h == DueFold(e, s)
           d == [k \in 0..n |-> h[1..k]]
<1>8. Due(e, s) = h[DOMAIN s]
  BY DEF Due, FoldLeft, MapThenFoldSet, DueFold, AddDue
<1>9. \A p \in SUBSET (1..n) :
        h[p] = IF p = {} THEN 0 ELSE AddDue(e, h[p \ {Max(p)}], s[Max(p)])
  <2> HIDE DEF h
  <2> QED
    BY <1>1, <1>7 DEF h
<1> HIDE DEF h
<1>10. d[0] = 0
  <2>1. 1..0 = {} /\ {} \in SUBSET (1..n)
    OBVIOUS
  <2>2. h[{}] = 0
    BY <1>9, <2>1
  <2> QED
    BY <1>1, <2>1, <2>2
<1>11. ASSUME NEW k \in 1..n PROVE d[k] = AddDue(e, d[k - 1], s[k])
  <2>1. 1..k \in SUBSET (1..n) /\ 1..k # {} /\ k \in 0..n /\ k - 1 \in 0..n
    BY <1>1
  <2>2. Max(1..k) = k /\ (1..k) \ {Max(1..k)} = 1..(k - 1)
    BY LastOfFirst
  <2>3. h[1..k] = AddDue(e, h[1..(k - 1)], s[k])
    BY <1>9, <2>1, <2>2
  <2> QED
    BY <2>1, <2>3
<1> DEFINE T == {k \in 0..n : d[k] \in Int}
<1>12. \A k \in 0..n : k \in T
  <2>1. 0 \in T
    BY <1>1, <1>10
  <2>2. ASSUME NEW k \in 0..n, k \in T, k < n PROVE k + 1 \in T
    <3>1. k + 1 \in 1..n /\ k + 1 \in 0..n /\ (k + 1) - 1 = k
      BY <2>2
    <3>2. d[k] \in Int
      BY <2>2
    <3> HIDE DEF d
    <3>3. d[k + 1] = AddDue(e, d[k], s[k + 1])
      BY <1>11, <3>1
    <3>4. d[k + 1] \in Int
      BY <1>2, <3>1, <3>2, <3>3
    <3> QED
      BY <3>1, <3>4
  <2> HIDE DEF T
  <2> QED
    BY <1>1, <2>1, <2>2, UpTo
<1>13. d \in [0..n -> Int]
  BY <1>12
<1>14. Due(e, s) = d[n]
  BY <1>1, <1>8
<1> HIDE DEF d
<1>15. \A k \in 1..n : \A q \in ReadAt(s[k], e.quantity), u \in ReadAt(s[k], e.unit_price) :
          d[k] = d[k - 1] + q * u
  BY <1>11, DueStep
<1> QED
  BY <1>10, <1>13, <1>14, <1>15 DEF DueAddsUp

\* The lines that a sum has gone through: each has left a fact, all can be read
\* as long as the sum is complete, and if every fact is a pass the sum is off
\* by at most one tolerance for each line.
LinesRead(e, t, s, acc, k) ==
    /\ acc.index = k
    /\ {f.pointer : f \in acc.facts} \subseteq {<<i, e.amount>> : i \in 1..k}
    /\ k > 0 => acc.facts # {}
    /\ acc.complete => \A i \in 1..k : \A p \in {e.quantity, e.unit_price, e.amount} :
                          ReadAt(s[i], p) # {}
    /\ {f.status : f \in acc.facts} \subseteq {"passed"} => acc.complete

\* One more line.
LEMMA ReadsLine ==
  ASSUME NEW e, NEW t, NEW s, NEW k \in Nat, NEW acc \in LineSums(e), NEW next,
         LinesRead(e, t, s, acc, k), next = LineItem(e, t, acc, s[k + 1])
  PROVE  LinesRead(e, t, s, next, k + 1)
<1> DEFINE new == Fact(<<k + 1, e.amount>>, "error")
<1>0. /\ next \in LineSums(e)
      /\ next.index = acc.index + 1
      /\ \/ /\ ~next.complete
            /\ next.facts = acc.facts \cup {Fact(<<acc.index + 1, e.amount>>, "error")}
         \/ \E q, u, a \in Int : AddsLine(e, t, acc, s[k + 1], next, q, u, a)
  <2> DEFINE item == s[k + 1]
  <2> HIDE DEF item
  <2>1. NextLine(e, t, acc, item, LineItem(e, t, acc, item))
    BY LineStep, Zenon
  <2>2. NextLine(e, t, acc, item, next)
    BY <2>1 DEF item
  <2> QED
    BY <2>2 DEF NextLine, item
<1>1. next.index = k + 1 /\ next \in LineSums(e) /\ acc.index = k
  BY <1>0 DEF LinesRead
<1>2. PICK status : next.facts = acc.facts \cup {Fact(<<k + 1, e.amount>>, status)}
  BY <1>0, <1>1 DEF AddsLine
<1>3. {f.pointer : f \in next.facts} \subseteq {<<i, e.amount>> : i \in 1..(k + 1)}
  <2>1. ASSUME NEW f \in next.facts PROVE f.pointer \in {<<i, e.amount>> : i \in 1..(k + 1)}
    <3>1. CASE f \in acc.facts
      <4>1. PICK i \in 1..k : f.pointer = <<i, e.amount>>
        BY <3>1 DEF LinesRead
      <4> QED
        BY <4>1
    <3>2. CASE f = Fact(<<k + 1, e.amount>>, status)
      <4>1. f.pointer = <<k + 1, e.amount>> /\ k + 1 \in 1..(k + 1)
        BY <3>2 DEF Fact
      <4> QED
        BY <4>1
    <3> QED
      BY <1>2, <3>1, <3>2
  <2> QED
    BY <2>1
<1>4. \A status2 : Fact(<<k + 1, e.amount>>, status2).status = status2
  BY DEF Fact
<1>5. CASE ~next.complete /\ next.facts = acc.facts \cup {new}
  <2>1. new \in next.facts /\ new.status = "error"
    BY <1>4, <1>5
  <2>2. "error" \in {f.status : f \in next.facts}
    <3> HIDE DEF new
    <3> QED
      BY <2>1
  <2> QED
    BY <1>1, <1>2, <1>3, <1>5, <2>2 DEF LinesRead
<1>6. ASSUME NEW q \in Int, NEW u \in Int, NEW a \in Int,
             AddsLine(e, t, acc, s[k + 1], next, q, u, a)
      PROVE  LinesRead(e, t, s, next, k + 1)
  <2>1. \A p \in {e.quantity, e.unit_price, e.amount} : ReadAt(s[k + 1], p) # {}
    BY <1>6 DEF AddsLine
  <2>2. next.complete = acc.complete
    BY <1>6 DEF AddsLine
  <2>3. next.complete => \A i \in 1..(k + 1) :
            \A p \in {e.quantity, e.unit_price, e.amount} : ReadAt(s[i], p) # {}
    <3>1. \A i \in 1..(k + 1) : i = k + 1 \/ i \in 1..k
      OBVIOUS
    <3> QED
      BY <2>1, <2>2, <3>1 DEF LinesRead
  <2>4. {f.status : f \in acc.facts} \subseteq {f.status : f \in next.facts}
    BY <1>2
  <2> QED
    BY <1>1, <1>2, <1>3, <2>2, <2>3, <2>4 DEF LinesRead
<1> QED
  BY <1>0, <1>1, <1>5, <1>6

\* The sum is off by at most one tolerance for each of k lines if all passed.
SumClose(t, acc, due, k) ==
    {f.status : f \in acc.facts} \subseteq {"passed"} => Magnitude(acc.sum - due) <= k * t

\* One more line, one more tolerance.
LEMMA CloseLine ==
  ASSUME NEW e, NEW t \in Int, NEW item, NEW k \in Nat, NEW acc \in LineSums(e), NEW due \in Int,
         NEW next, NextLine(e, t, acc, item, next), NEW sum,
         \A q \in ReadAt(item, e.quantity), u \in ReadAt(item, e.unit_price) : sum = due + q * u,
         SumClose(t, acc, due, k)
  PROVE  SumClose(t, next, sum, k + 1)
<1>1. SUFFICES ASSUME {f.status : f \in next.facts} \subseteq {"passed"}
               PROVE  Magnitude(next.sum - sum) <= (k + 1) * t
  BY DEF SumClose
<1>2. \A p, status : Fact(p, status).status = status
  BY DEF Fact
<1>3. \A f \in next.facts : f.status = "passed"
  BY <1>1
<1>4. PICK q \in Int, u \in Int, a \in Int : AddsLine(e, t, acc, item, next, q, u, a)
  <2> DEFINE new == Fact(<<acc.index + 1, e.amount>>, "error")
  <2>1. new.status = "error"
    BY <1>2
  <2> HIDE DEF new
  <2>2. next.facts # acc.facts \cup {new}
    BY <1>3, <2>1
  <2> QED
    BY <2>2 DEF NextLine, new
<1>5. sum = due + q * u /\ next.sum = acc.sum + a
  BY <1>4 DEF AddsLine
<1>6. Magnitude(q * u - a) <= t
  <2> DEFINE new == Fact(<<acc.index + 1, e.amount>>, Judged(Magnitude(q * u - a) <= t))
  <2>1. new.status = Judged(Magnitude(q * u - a) <= t)
    BY <1>2
  <2>2. next.facts = acc.facts \cup {new}
    BY <1>4 DEF AddsLine
  <2> HIDE DEF new
  <2>3. new.status = "passed"
    BY <1>3, <2>2
  <2> QED
    BY <2>1, <2>3 DEF Judged
<1>7. Magnitude(acc.sum - due) <= k * t
  <2>1. acc.facts \subseteq next.facts
    BY <1>4 DEF AddsLine
  <2>2. {f.status : f \in acc.facts} \subseteq {"passed"}
    BY <1>3, <2>1
  <2> QED
    BY <2>2 DEF SumClose
<1> DEFINE x == k * t
           y == q * u
<1>8. acc.sum \in Int /\ x \in Int /\ y \in Int /\ (k + 1) * t = x + t
  BY DEF LineSums
<1> HIDE DEF x, y
<1>9. Magnitude(y - a) <= t /\ Magnitude(acc.sum - due) <= x
  BY <1>6, <1>7 DEF x, y
<1>10. Magnitude((acc.sum + a) - (due + y)) <= x + t
  BY <1>8, <1>9 DEF Magnitude
<1> QED
  BY <1>5, <1>8, <1>10 DEF y

\* The lines of an invoice: what is read of them, and what they sum up to.
LEMMA LinesSound ==
  ASSUME NEW e, NEW t \in Int, NEW s, Sequential(s)
  PROVE  /\ LineItems(e, t, s) \in LineSums(e)
         /\ LinesRead(e, t, s, LineItems(e, t, s), Len(s))
         /\ {f.status : f \in LineItems(e, t, s).facts} \subseteq {"passed"} =>
                Magnitude(LineItems(e, t, s).sum - Due(e, s)) <= Len(s) * t
<1> DEFINE n == Len(s)
<1>1. DOMAIN s = 1..n /\ n \in Nat
  BY LenProperties DEF Sequential
<1> HIDE DEF n
<1>2. PICK l \in [0..n -> LineSums(e)] :
            /\ l[0] = NoLines
            /\ \A k \in 1..n : l[k] = LineItem(e, t, l[k - 1], s[k])
            /\ LineItems(e, t, s) = l[n]
  <2>1. LinesAddUp(e, t, s)
    BY LinesInOrder
  <2> QED
    BY <2>1 DEF LinesAddUp, n
<1> USE DEF n
<1>3. ASSUME NEW k \in 0..n, k < n
      PROVE  /\ k + 1 \in 1..n /\ k \in Nat /\ l[k] \in LineSums(e)
             /\ l[k + 1] = LineItem(e, t, l[k], s[k + 1])
  <2>1. k + 1 \in 1..n /\ (k + 1) - 1 = k /\ k \in Nat
    BY <1>1, <1>3
  <2> QED
    BY <1>2, <2>1
<1>4. \A k \in 0..n : LinesRead(e, t, s, l[k], k)
  <2> DEFINE T == {k \in 0..n : LinesRead(e, t, s, l[k], k)}
  <2>1. 0 \in T
    <3>1. LinesRead(e, t, s, NoLines, 0)
      BY DEF LinesRead, NoLines
    <3> QED
      BY <1>1, <1>2, <3>1
  <2>2. ASSUME NEW k \in 0..n, k \in T, k < n PROVE k + 1 \in T
    <3>1. LinesRead(e, t, s, l[k], k)
      BY <2>2
    <3>2. LinesRead(e, t, s, l[k + 1], k + 1)
      BY <1>3, <2>2, <3>1, ReadsLine
    <3> QED
      BY <1>3, <2>2, <3>2
  <2> HIDE DEF T
  <2>3. \A k \in 0..n : k \in T
    BY <1>1, <2>1, <2>2, UpTo
  <2> QED
    BY <2>3 DEF T
<1>5. n \in 0..n
  BY <1>1
<1>6. ASSUME {f.status : f \in l[n].facts} \subseteq {"passed"}
      PROVE  Magnitude(l[n].sum - Due(e, s)) <= n * t
  <2>1. \A i \in DOMAIN s : \A p \in {e.quantity, e.unit_price, e.amount} : ReadAt(s[i], p) # {}
    <3>1. LinesRead(e, t, s, l[n], n)
      BY <1>4, <1>5
    <3>2. l[n].complete
      BY <1>6, <3>1 DEF LinesRead
    <3> QED
      BY <1>1, <3>1, <3>2 DEF LinesRead
  <2>2. PICK d \in [0..n -> Int] :
            /\ d[0] = 0
            /\ \A k \in 1..n : \A q \in ReadAt(s[k], e.quantity), u \in ReadAt(s[k], e.unit_price) :
                      d[k] = d[k - 1] + q * u
            /\ Due(e, s) = d[n]
    <3>1. DueAddsUp(e, s)
      BY <2>1, DueInOrder
    <3> QED
      BY <3>1 DEF DueAddsUp
  <2> DEFINE T == {k \in 0..n : SumClose(t, l[k], d[k], k)}
  <2>3. 0 \in T
    <3>1. SumClose(t, NoLines, 0, 0)
      BY DEF SumClose, NoLines, Magnitude
    <3> QED
      BY <1>1, <1>2, <2>2, <3>1
  <2>4. ASSUME NEW k \in 0..n, k \in T, k < n PROVE k + 1 \in T
    <3>1. SumClose(t, l[k], d[k], k) /\ d[k] \in Int /\ (k + 1) - 1 = k
      BY <2>4
    <3>2. \A q \in ReadAt(s[k + 1], e.quantity), u \in ReadAt(s[k + 1], e.unit_price) :
              d[k + 1] = d[k] + q * u
      BY <1>3, <2>2, <2>4, <3>1
    <3> DEFINE item == s[k + 1]
    <3>3. NextLine(e, t, l[k], item, l[k + 1])
      <4>1. l[k + 1] = LineItem(e, t, l[k], item) /\ l[k] \in LineSums(e)
        BY <1>3, <2>4
      <4> HIDE DEF item
      <4> QED
        BY <4>1, LineStep
    <3>4. k \in Nat /\ k + 1 \in 0..n
      BY <1>3, <2>4
    <3>5. l[k] \in LineSums(e)
      BY <1>3, <2>4
    <3> HIDE DEF T, item
    <3>6. SumClose(t, l[k + 1], d[k + 1], k + 1)
      <4>1. \A q \in ReadAt(item, e.quantity), u \in ReadAt(item, e.unit_price) :
              d[k + 1] = d[k] + q * u
        BY <3>2 DEF item
      <4> QED
        BY <3>1, <3>3, <3>4, <3>5, <4>1, CloseLine
    <3> QED
      BY <3>4, <3>6 DEF T
  <2> HIDE DEF T
  <2>5. \A k \in 0..n : k \in T
    BY <1>1, <2>3, <2>4, UpTo
  <2>6. SumClose(t, l[n], d[n], n)
    BY <1>5, <2>5 DEF T
  <2> QED
    BY <1>6, <2>2, <2>6 DEF SumClose
<1> QED
  BY <1>2, <1>4, <1>5, <1>6

\* What the fact about a total says.
LEMMA TotalSays ==
  ASSUME NEW p, NEW t, NEW actual, NEW due
  PROVE  LET fact == TotalFact(p, t, actual, due) IN
         /\ fact.pointer = p /\ fact.status \in Verdicts
         /\ fact.status # "error" => \E a \in actual, d \in due : Fits(a - d)
         /\ fact.status = "passed" => \E a \in actual, d \in due : Magnitude(a - d) <= t
<1> DEFINE gaps == UNION {Checked(a - d) : a \in actual, d \in due}
           fact == TotalFact(p, t, actual, due)
<1>1. fact = Fact(p, IF gaps = {} THEN "error"
                     ELSE Judged(\A g \in gaps : Magnitude(g) <= t))
  BY DEF TotalFact
<1>2. ASSUME NEW g \in gaps PROVE \E a \in actual, d \in due : g = a - d /\ Fits(a - d)
  BY DEF Checked, Fits
<1> HIDE DEF gaps, fact
<1>3. /\ fact.pointer = p
      /\ fact.status = IF gaps = {} THEN "error"
                       ELSE Judged(\A g \in gaps : Magnitude(g) <= t)
  BY <1>1 DEF Fact
<1>4. fact.status \in Verdicts
  BY <1>3 DEF Judged, Verdicts
<1>5. fact.status # "error" => gaps # {}
  BY <1>3
<1>6. fact.status = "passed" => gaps # {} /\ \A g \in gaps : Magnitude(g) <= t
  BY <1>3 DEF Judged
<1> QED
  BY <1>2, <1>3, <1>4, <1>5, <1>6 DEF fact

\* The verdict of the financial invariants, by what each part of it says.
FinancialSound(e, output, verdict) ==
    LET statuses == {f.status : f \in verdict.facts} IN
    /\ verdict.status \in Verdicts
    /\ verdict.status = "passed" => statuses \subseteq {"passed"}
    /\ verdict.status = "failed" => "failed" \in statuses /\ "error" \notin statuses
    /\ TotalsApart(e, output) =>
           /\ Fact(e.subtotal, "failed") \in verdict.facts => CompleteLines(e, output)
           /\ Fact(e.total, "failed") \in verdict.facts
                  => ReadAt(output, e.subtotal) # {} /\ ReadAt(output, e.tax) # {}
    /\ verdict.status = "passed" =>
           \A s \in Items(Resolve(output, e.line_items)),
              tax \in ReadAt(output, e.tax), total \in ReadAt(output, e.total),
              tolerance \in ExactDecimal(e.tolerance) :
              Magnitude(total - tax - Due(e, s)) <= (Len(s) + 2) * tolerance

\* The evaluator is sound.
LEMMA FinancialHolds ==
  ASSUME NEW e, NEW expected, NEW output,
         \A s \in Items(Resolve(output, e.line_items)) : Sequential(s)
  PROVE  FinancialSound(e, output, FinancialInvariants(e, expected, output))
<1> DEFINE tolerance == ExactDecimal(e.tolerance)
           items     == Items(Resolve(output, e.line_items))
           verdict    == FinancialInvariants(e, expected, output)
<1>1. CASE tolerance = {} \/ items = {}
  <2>1. verdict = Result("error", {})
    BY <1>1 DEF FinancialInvariants
  <2>2. verdict.status = "error" /\ verdict.facts = {}
    BY <2>1 DEF Result
  <2> HIDE DEF verdict
  <2>3. FinancialSound(e, output, verdict)
    BY <2>2 DEF FinancialSound, Verdicts
  <2> QED
    BY <2>3 DEF verdict
<1>2. CASE tolerance # {} /\ items # {}
  <2>1. PICK t \in tolerance, s \in items : TRUE
    BY <1>2
  <2>2. tolerance = {t} /\ t \in Int /\ items = {s} /\ Sequential(s)
    BY <2>1, OneNumber, ItemsOnly
  <2> DEFINE lines    == LineItems(e, t, s)
             subtotal == ReadAt(output, e.subtotal)
             tax      == ReadAt(output, e.tax)
             total    == ReadAt(output, e.total)
             due      == UNION {Checked(x + y) : x \in subtotal, y \in tax}
             sums     == IF lines.complete THEN {lines.sum} ELSE {}
             sub      == TotalFact(e.subtotal, t, subtotal, sums)
             all      == TotalFact(e.total, t, total, due)
             taxFacts == IF tax = {} THEN {Fact(e.tax, "error")} ELSE {}
             facts    == lines.facts \cup taxFacts \cup {sub, all}
             statuses == {f.status : f \in facts}
             n        == Len(s)
  <2>3. verdict = Result(IF "error" \in statuses THEN "error"
                        ELSE Judged(statuses = {"passed"}), facts)
    <3>1. (CHOOSE x \in tolerance : TRUE) = t /\ (CHOOSE x \in items : TRUE) = s
      <4> HIDE DEF tolerance, items
      <4> QED
        BY <2>2
    <3> DEFINE Says(f) == Result(IF "error" \in {g.status : g \in f} THEN "error"
                                 ELSE Judged({g.status : g \in f} = {"passed"}), f)
    <3>2. verdict = Says(FinancialFacts(e, CHOOSE x \in tolerance : TRUE,
                                       CHOOSE x \in items : TRUE, output))
      BY <1>2 DEF FinancialInvariants
    <3>3. FinancialFacts(e, t, s, output) = facts
      BY DEF FinancialFacts, ReadAt
    <3>4. Says(facts) = Result(IF "error" \in statuses THEN "error"
                               ELSE Judged(statuses = {"passed"}), facts)
      OBVIOUS
    <3> HIDE DEF Says, verdict, tolerance, items, statuses, facts
    <3> QED
      BY <3>1, <3>2, <3>3, <3>4
  <2>4. /\ lines \in LineSums(e) /\ LinesRead(e, t, s, lines, n)
        /\ {f.status : f \in lines.facts} \subseteq {"passed"} =>
                Magnitude(lines.sum - Due(e, s)) <= n * t
    BY <2>2, LinesSound
  <2>5. /\ sub.pointer = e.subtotal /\ sub.status \in Verdicts
        /\ sub.status # "error" => \E a \in subtotal, d \in sums : Fits(a - d)
        /\ sub.status = "passed" => \E a \in subtotal, d \in sums : Magnitude(a - d) <= t
    BY TotalSays
  <2>6. /\ all.pointer = e.total /\ all.status \in Verdicts
        /\ all.status # "error" => \E a \in total, d \in due : Fits(a - d)
        /\ all.status = "passed" => \E a \in total, d \in due : Magnitude(a - d) <= t
    BY TotalSays
  <2>7. \A p, status : Fact(p, status).status = status /\ Fact(p, status).pointer = p
    BY DEF Fact
  <2>8. \A f \in taxFacts : f.status = "error"
    BY <2>7
  <2>9. ASSUME NEW f \in lines.facts PROVE f.status \in Verdicts
    <3> HIDE DEF lines
    <3>1. lines.facts \in SUBSET {Fact(<<i, e.amount>>, status) : i \in Nat, status \in Verdicts}
      BY <2>4 DEF LineSums
    <3>2. PICK i \in Nat, status \in Verdicts : f = Fact(<<i, e.amount>>, status)
      BY <3>1
    <3> QED
      BY <2>7, <3>2
  <2>10. DOMAIN s = 1..n /\ n \in Nat
    BY <2>2, LenProperties DEF Sequential
  <2>11. \A d \in sums : lines.complete /\ d = lines.sum
    OBVIOUS
  <2>12. \A d \in due : \E x \in subtotal, y \in tax : d = x + y
    BY DEF Checked
  <2> HIDE DEF sub, all, taxFacts, lines, sums, due, n
  <2>13. /\ statuses \subseteq Verdicts
         /\ verdict.facts = facts /\ sub \in facts /\ all \in facts
         /\ verdict.status = IF "error" \in statuses THEN "error"
                            ELSE IF statuses = {"passed"} THEN "passed" ELSE "failed"
    <3>1. \A f \in facts : f.status \in Verdicts
      BY <2>5, <2>6, <2>8, <2>9 DEF Verdicts
    <3>2. statuses \subseteq Verdicts
      BY <3>1
    <3> HIDE DEF statuses
    <3>3. sub \in facts /\ all \in facts
      OBVIOUS
    <3> HIDE DEF facts
    <3> QED
      BY <2>3, <3>2, <3>3 DEF Result, Judged
  <2>14. ASSUME TotalsApart(e, output), Fact(e.subtotal, "failed") \in facts
         PROVE  CompleteLines(e, output)
    <3> DEFINE f == Fact(e.subtotal, "failed")
    <3>1. f.pointer = e.subtotal /\ f.status = "failed"
      BY <2>7
    <3>2. f \notin lines.facts
      <4>1. ASSUME f \in lines.facts PROVE FALSE
        <5>1. PICK i \in 1..n : f.pointer = <<i, e.amount>>
          BY <2>4, <4>1 DEF LinesRead
        <5> QED
          BY <2>2, <2>10, <2>14, <3>1, <5>1 DEF TotalsApart
      <4> QED
        BY <4>1
    <3>3. f \notin taxFacts /\ f # all
      BY <2>6, <2>8, <2>14, <3>1 DEF TotalsApart
    <3>4. f = sub
      BY <2>14, <3>2, <3>3
    <3>5. lines.complete
      BY <2>5, <2>11, <3>1, <3>4
    <3>6. \A i \in DOMAIN s : \A p \in {e.quantity, e.unit_price, e.amount} : ReadAt(s[i], p) # {}
      BY <2>4, <2>10, <3>5 DEF LinesRead
    <3>7. \A line \in ToSet(s) : \E i \in DOMAIN s : line = s[i]
      BY DEF ToSet
    <3>8. UNION {ToSet(x) : x \in items} = ToSet(s)
      BY <2>2
    <3> HIDE DEF items
    <3> QED
      BY <3>6, <3>7, <3>8 DEF CompleteLines, items
  <2>15. ASSUME TotalsApart(e, output), Fact(e.total, "failed") \in facts
         PROVE  ReadAt(output, e.subtotal) # {} /\ ReadAt(output, e.tax) # {}
    <3> DEFINE f == Fact(e.total, "failed")
    <3>1. f.pointer = e.total /\ f.status = "failed"
      BY <2>7
    <3>2. f \notin lines.facts
      <4>1. ASSUME f \in lines.facts PROVE FALSE
        <5>1. PICK i \in 1..n : f.pointer = <<i, e.amount>>
          BY <2>4, <4>1 DEF LinesRead
        <5> QED
          BY <2>2, <2>10, <2>15, <3>1, <5>1 DEF TotalsApart
      <4> QED
        BY <4>1
    <3>3. f \notin taxFacts /\ f # sub
      BY <2>5, <2>8, <2>15, <3>1 DEF TotalsApart
    <3>4. f = all
      BY <2>15, <3>2, <3>3
    <3> QED
      BY <2>6, <2>12, <3>1, <3>4
  <2>16. ASSUME verdict.status = "passed"
         PROVE  \A f \in facts : f.status = "passed"
    BY <2>13, <2>16
  <2>17. ASSUME verdict.status = "passed",
                NEW y \in tax, NEW z \in total
         PROVE  Magnitude(z - y - Due(e, s)) <= (n + 2) * t
    <3>1. sub.status = "passed" /\ all.status = "passed"
      BY <2>16, <2>17
    <3>2. {f.status : f \in lines.facts} \subseteq {"passed"}
      BY <2>16, <2>17
    <3>3. PICK x \in subtotal : lines.complete /\ Magnitude(x - lines.sum) <= t
      BY <2>5, <2>11, <3>1
    <3>4. Magnitude(z - (x + y)) <= t
      <4>1. PICK a \in total, d \in due : Magnitude(a - d) <= t
        BY <2>6, <3>1
      <4>2. total = {z} /\ tax = {y} /\ subtotal = {x}
        BY <2>17, <3>3, OneNumber DEF ReadAt
      <4> QED
        BY <2>12, <4>1, <4>2
    <3>5. PICK d \in Int : Due(e, s) = d /\ Magnitude(lines.sum - d) <= n * t
      <4>1. \A i \in DOMAIN s : ReadAt(s[i], e.quantity) # {} /\ ReadAt(s[i], e.unit_price) # {}
        BY <2>4, <2>10, <3>3 DEF LinesRead
      <4>2. Due(e, s) \in Int
        <5>1. DueAddsUp(e, s)
          BY <2>2, <4>1, DueInOrder
        <5>2. Len(s) \in 0..Len(s)
          BY <2>10 DEF n
        <5> QED
          BY <5>1, <5>2 DEF DueAddsUp
      <4> QED
        BY <2>4, <3>2, <4>2
    <3>6. x \in Int /\ y \in Int /\ z \in Int /\ lines.sum \in Int
      BY <2>4, OneNumber DEF ReadAt, LineSums
    <3> DEFINE w == n * t
               l == lines.sum
    <3>7. w \in Int /\ (n + 2) * t = w + t + t /\ l \in Int
      BY <2>2, <2>10, <3>6
    <3>8. Magnitude(l - d) <= w /\ Magnitude(x - l) <= t
      BY <3>3, <3>5
    <3> HIDE DEF w, l
    <3>9. Magnitude(z - y - d) <= w + t + t
      BY <2>2, <3>4, <3>6, <3>7, <3>8 DEF Magnitude
    <3> QED
      BY <3>5, <3>7, <3>9
  <2> HIDE DEF facts, verdict, items, tolerance
  <2>18. /\ verdict.status \in Verdicts
         /\ verdict.status = "passed" => statuses \subseteq {"passed"}
         /\ verdict.status = "failed" => "failed" \in statuses /\ "error" \notin statuses
    <3>1. sub.status \in statuses
      BY <2>13
    <3> HIDE DEF statuses
    <3> QED
      BY <2>13, <3>1 DEF Verdicts
  <2>19. verdict.status = "passed" =>
             \A s2 \in items, y \in tax, z \in total, t2 \in tolerance :
                Magnitude(z - y - Due(e, s2)) <= (Len(s2) + 2) * t2
    BY <2>2, <2>17 DEF n
  <2> QED
    BY <2>13, <2>14, <2>15, <2>18, <2>19 DEF FinancialSound, items, tolerance, verdict
<1> QED
  BY <1>1, <1>2

-----------------------------------------------------------------------------
(* Facts and statuses                                                      *)

\* The facts of a verdict bear out its status.
Explained(verdict) ==
    LET statuses == {f.status : f \in verdict.facts} IN
    /\ verdict.status \in Verdicts
    /\ verdict.status = "passed" => statuses \subseteq {"passed"}
    /\ verdict.status = "failed" => "failed" \in statuses /\ "error" \notin statuses

\* A verdict that is about one field alone.
LEMMA AloneExplained ==
  ASSUME NEW e, NEW status \in Verdicts
  PROVE  Explained(Alone(e, status))
<1>1. Alone(e, status).status = status /\ Alone(e, status).facts = {Fact(e.pointer, status)}
  BY DEF Alone, Result
<1>2. Fact(e.pointer, status).status = status
  BY DEF Fact
<1>3. {f.status : f \in Alone(e, status).facts} = {status}
  BY <1>1, <1>2
<1> QED
  BY <1>1, <1>3 DEF Explained

\* Pointers that are compared one by one.
LEMMA PairsExplained ==
  ASSUME NEW e, NEW expected, NEW output
  PROVE  Explained(ComparePointers(e, expected, output))
<1> DEFINE Says(p) == Compared(Found(Resolve(expected, p.expected_pointer)),
                               Found(Resolve(output, p.pointer)))
           facts == {Fact(p.pointer, Says(p)) : p \in e.pairs}
           statuses == {f.status : f \in facts}
           status == IF "error" \in statuses THEN "error" ELSE Judged("failed" \notin statuses)
           verdict == ComparePointers(e, expected, output)
<1>1. verdict = Result(status, facts)
  BY DEF ComparePointers
<1>2. ASSUME NEW f \in facts PROVE f.status \in Verdicts
  <2>1. PICK p \in e.pairs : f = Fact(p.pointer, Says(p))
    OBVIOUS
  <2>2. Says(p) \in Verdicts
    BY ComparedStatus DEF Verdicts
  <2> HIDE DEF Says
  <2> QED
    BY <2>1, <2>2 DEF Fact
<1> HIDE DEF facts, verdict
<1>3. statuses \subseteq Verdicts
  BY <1>2
<1>4. verdict.status = status /\ verdict.facts = facts
  BY <1>1 DEF Result
<1>5. {f.status : f \in verdict.facts} = statuses
  BY <1>4
<1> HIDE DEF statuses
<1>6. Explained(verdict)
  BY <1>3, <1>4, <1>5 DEF Explained, Judged, Verdicts
<1> QED
  BY <1>6 DEF verdict

\* Fields that have to be there.
LEMMA RequiredExplained ==
  ASSUME NEW e, NEW expected, NEW output
  PROVE  Explained(RequiredFields(e, expected, output))
<1> DEFINE Here(p) == Resolve(output, p) \notin {Absent, Null}
           facts == {Fact(p, Judged(Here(p))) : p \in e.required}
           verdict == RequiredFields(e, expected, output)
<1>1. verdict = Result(Judged(\A p \in e.required : Here(p)), facts)
  BY DEF RequiredFields
<1>2. verdict.status = Judged(\A p \in e.required : Here(p)) /\ verdict.facts = facts
  BY <1>1 DEF Result
<1>3. ASSUME NEW f \in facts
      PROVE  \E p \in e.required : f.status = Judged(Here(p))
  BY DEF Fact
<1>4. ASSUME NEW p \in e.required PROVE \E f \in facts : f.status = Judged(Here(p))
  <2>1. Fact(p, Judged(Here(p))) \in facts
    OBVIOUS
  <2>2. Fact(p, Judged(Here(p))).status = Judged(Here(p))
    BY DEF Fact
  <2> HIDE DEF facts
  <2> QED
    BY <2>1, <2>2
<1> HIDE DEF facts, verdict, Here
<1>5. Explained(verdict)
  BY <1>2, <1>3, <1>4 DEF Explained, Judged, Verdicts
<1> QED
  BY <1>5 DEF verdict

\* Arrays that are compared item by item.
LEMMA KeyedExplained ==
  ASSUME NEW e, NEW expected, NEW output
  PROVE  Explained(KeyedArray(e, expected, output))
<1> DEFINE s == CHOOSE x \in Items(Resolve(expected, e.expected_pointer)) : TRUE
           a == CHOOSE x \in Items(Resolve(output, e.pointer)) : TRUE
<1>1. \/ KeyedArray(e, expected, output) = Alone(e, "error")
      \/ KeyedArray(e, expected, output) = Alone(e, "failed")
      \/ KeyedArray(e, expected, output) = CompareItems(e, s, a)
  BY DEF KeyedArray
<1>2. Explained(CompareItems(e, s, a))
  <2> DEFINE verdict == CompareItems(e, s, a)
             statuses == {f.status : f \in verdict.facts}
  <2> HIDE DEF s, a
  <2>1. /\ statuses \subseteq {"passed", "failed", "error"}
        /\ verdict.status = IF "error" \in statuses THEN "error"
                           ELSE IF statuses \subseteq {"passed"} THEN "passed" ELSE "failed"
    BY ItemsStatus
  <2> HIDE DEF verdict
  <2>2. \/ verdict.status = "error" /\ "error" \in statuses
        \/ verdict.status = "passed" /\ statuses \subseteq {"passed"}
        \/ verdict.status = "failed" /\ "error" \notin statuses /\ "failed" \in statuses
    <3> HIDE DEF statuses
    <3> QED
      BY <2>1
  <2>3. Explained(verdict)
    BY <2>2 DEF Explained, Verdicts
  <2> QED
    BY <2>3 DEF verdict
<1>3. "error" \in Verdicts /\ "failed" \in Verdicts
  BY DEF Verdicts
<1> QED
  BY <1>1, <1>2, <1>3, AloneExplained

\* Numbers.
LEMMA NumericExplained ==
  ASSUME NEW e, NEW expected, NEW output
  PROVE  Explained(NumericTolerance(e, expected, output))
<1>1. \E status \in Verdicts : NumericTolerance(e, expected, output) = Alone(e, status)
  BY DEF NumericTolerance, WithinTolerance, Judged, Verdicts
<1> QED
  BY <1>1, AloneExplained

\* Strings and dates.
LEMMA TextExplained ==
  ASSUME NEW e, NEW expected, NEW output
  PROVE  Explained(TextEvaluator(e, expected, output))
<1>1. \E status \in Verdicts : TextEvaluator(e, expected, output) = Alone(e, status)
  BY ComparedStatus DEF TextEvaluator, Verdicts
<1> QED
  BY <1>1, AloneExplained

\* Every verdict of a built-in evaluator on a parsed output.
LEMMA EvaluateExplained ==
  ASSUME NEW e, NEW expected, NEW output,
         e.kind \in EvaluatorKinds \ ({"exact_json"} \cup ExternalKinds),
         e.kind = "financial_invariants" =>
             \A s \in Items(Resolve(output, e.line_items)) : Sequential(s)
  PROVE  Explained(Evaluate(e, expected, output))
<1>1. e.kind \in {"numeric_tolerance", "required_fields", "keyed_array", "financial_invariants"}
                 \cup PairKinds \cup TextKinds
  BY DEF EvaluatorKinds
<1>2. CASE e.kind \in PairKinds
  BY <1>2, PairsExplained, EvaluateByKind
<1>3. CASE e.kind \in TextKinds
  BY <1>3, TextExplained, EvaluateByKind
<1>4. CASE e.kind = "numeric_tolerance"
  BY <1>4, NumericExplained, EvaluateByKind
<1>5. CASE e.kind = "required_fields"
  BY <1>5, RequiredExplained, EvaluateByKind
<1>6. CASE e.kind = "keyed_array"
  BY <1>6, KeyedExplained, EvaluateByKind
<1>7. CASE e.kind = "financial_invariants"
  <2>1. FinancialSound(e, output, FinancialInvariants(e, expected, output))
    BY <1>7, FinancialHolds
  <2>2. Explained(FinancialInvariants(e, expected, output))
    BY <2>1 DEF FinancialSound, Explained
  <2> QED
    BY <1>7, <2>2, EvaluateByKind
<1> QED
  BY <1>1, <1>2, <1>3, <1>4, <1>5, <1>6, <1>7

\* An output that did not parse leaves an error in every field of the evaluator.
LEMMA UnparsedExplained ==
  ASSUME NEW e, ValidEvaluator(e), e.kind \notin {"exact_json"} \cup ExternalKinds
  PROVE  /\ Unparsed(e).status = "error"
         /\ {f.status : f \in Unparsed(e).facts} = {"error"}
<1>1. FieldsOf(e) # {}
  <2>1. e.kind \in PairKinds => e.pairs # {}
    BY DEF ValidEvaluator, PairKinds, TextKinds, ExternalKinds
  <2>2. e.kind = "required_fields" => e.required # {}
    BY DEF ValidEvaluator, PairKinds, TextKinds, ExternalKinds
  <2>3. CASE e.kind \in PairKinds
    BY <2>1, <2>3 DEF FieldsOf, PairKinds, ExternalKinds
  <2>4. CASE e.kind = "required_fields"
    BY <2>2, <2>4 DEF FieldsOf, PairKinds, ExternalKinds
  <2>5. CASE e.kind = "financial_invariants"
    BY <2>5 DEF FieldsOf, PairKinds, ExternalKinds
  <2>6. CASE e.kind \notin PairKinds \cup {"required_fields", "financial_invariants"}
    <3>1. FieldsOf(e) = {e.pointer}
      BY <2>6 DEF FieldsOf
    <3> QED
      BY <3>1
  <2> QED
    BY <2>3, <2>4, <2>5, <2>6
<1>2. Unparsed(e).status = "error"
      /\ Unparsed(e).facts = {Fact(p, "error") : p \in FieldsOf(e)}
  BY DEF Unparsed, Result
<1>3. \A p : Fact(p, "error").status = "error"
  BY DEF Fact
<1>4. PICK p \in FieldsOf(e) : TRUE
  BY <1>1
<1>5. Fact(p, "error") \in Unparsed(e).facts
  BY <1>2
<1>6. \A f \in Unparsed(e).facts : f.status = "error"
  BY <1>2, <1>3
<1> QED
  BY <1>2, <1>3, <1>5, <1>6

-----------------------------------------------------------------------------
(* The invariant of a scored comparison                                    *)

\* The phases that follow the acceptance of the configuration, of the dataset,
\* of its references, and of the rows of a variant.
PastConfiguration ==
    {"dataset", "references", "schema", "baseline", "candidate", "scoring", "scored"}
PastDataset    == PastConfiguration \ {"dataset"}
PastReferences == PastDataset \ {"references"}
Past(v) == IF v = "baseline" THEN {"candidate", "scoring", "scored"} ELSE {"scoring", "scored"}

\* The cases are those of a dataset that was accepted.
CasesRead ==
    /\ ValidLines(given.dataset) /\ Consistent(given.dataset)
    /\ cases = [i \in DOMAIN given.dataset |-> CaseOf(given.dataset[i])]

\* The rows of v are those of its outputs, and belong to the cases.
RowsRead(v) ==
    /\ \A i \in DOMAIN given.outputs[v] : given.outputs[v][i].form = "row"
    /\ rowsOf[v] = [c \in DOMAIN cases |-> RowFor(given.outputs[v], cases[c])]

\* What an external evaluator may say.
Answers == {"passed", "failed", "error", "not_applicable"}

\* The results of row i are what the evaluators say of it.
RowScored(v, i) ==
    \A k \in DOMAIN configuration.evaluators :
        LET e == configuration.evaluators[k]
        IN  \E external \in Answers :
                results[v][i][e.id] = ResultOf(e, rowsOf[v][i], cases[i].expected, external)

\* The first n rows of v have results.
Judgement(v, n) ==
    /\ DOMAIN results[v] = 1..n /\ Sequential(results[v])
    /\ \A i \in 1..n : RowScored(v, i)

\* Everything that was accepted on the way stays as it was accepted, and the
\* results follow from it.
ScoringInvariant ==
    /\ given \in Inputs /\ phase \in Phases
    /\ DOMAIN rowsOf = BothVariants
    /\ phase \in PastConfiguration => Valid(configuration)
    /\ phase \in PastDataset => CasesRead
    /\ phase \in PastReferences =>
          \A i \in DOMAIN cases, k \in DOMAIN configuration.evaluators :
              GoodReference(configuration.evaluators[k], cases[i].expected)
    /\ \A v \in BothVariants : phase \in Past(v) => RowsRead(v)
    /\ phase \notin {"scoring", "scored", "refused"} => results = [v \in BothVariants |-> <<>>]
    /\ phase = "scoring" =>
          \E n \in Nat : n < Len(cases) /\ \A v \in BothVariants : Judgement(v, n)
    /\ phase = "scored" => \A v \in BothVariants : Judgement(v, Len(cases))

\* A sequence whose domain is known, and one more element.
LEMMA OneMore ==
  ASSUME NEW s, Sequential(s), NEW x, NEW n \in Nat, DOMAIN s = 1..n
  PROVE  /\ Len(s) = n
         /\ DOMAIN Append(s, x) = 1..(n + 1) /\ Sequential(Append(s, x))
         /\ \A i \in 1..n : Append(s, x)[i] = s[i]
         /\ Append(s, x)[n + 1] = x
<1> DEFINE S == ToSet(s) \cup {x}
           t == Append(s, x)
<1>1. s \in Seq(ToSet(s))
  BY DEF Sequential
<1>2. DOMAIN s = 1..Len(s) /\ Len(s) \in Nat
  BY <1>1, LenProperties
<1>3. Len(s) = n
  <2>1. n \in 1..n \/ n = 0
    OBVIOUS
  <2>2. Len(s) \in 1..Len(s) \/ Len(s) = 0
    BY <1>2
  <2> QED
    BY <1>2, <2>1, <2>2
<1>4. s \in Seq(S)
  BY <1>1, SeqMonotonic
<1> HIDE DEF S
<1>5. x \in S
  BY DEF S
<1>6. /\ t \in Seq(S) /\ Len(t) = Len(s) + 1
      /\ \A i \in 1..Len(s) : t[i] = s[i]
      /\ t[Len(s) + 1] = x
  BY <1>4, <1>5, AppendProperties
<1> HIDE DEF t
<1>7. DOMAIN t = 1..(n + 1) /\ t \in [1..(n + 1) -> S]
  BY <1>3, <1>6, LenProperties
<1>8. t \in [1..(n + 1) -> ToSet(t)]
  BY <1>7 DEF ToSet
<1>9. t \in Seq(ToSet(t))
  <2>1. n + 1 \in Nat
    OBVIOUS
  <2> QED
    BY <1>8, <2>1, SeqDef
<1> QED
  BY <1>3, <1>6, <1>7, <1>9 DEF Sequential, t

\* There is a case for each line, and there are some.
LEMMA SomeCases ==
  ASSUME given \in Inputs, CasesRead
  PROVE  /\ Len(cases) \in Nat \ {0} /\ DOMAIN cases = 1..Len(cases)
         /\ DOMAIN cases = DOMAIN given.dataset
<1> DEFINE lines == given.dataset
           n == Len(lines)
<1>1. lines \in Seq(ToSet(lines)) /\ lines # <<>>
  BY InputAssumption DEF WellFormed, Sequential, CasesRead, ValidLines
<1>2. n \in Nat /\ DOMAIN lines = 1..n /\ n # 0
  BY <1>1, LenProperties, EmptySeq
<1>3. cases = [i \in 1..n |-> CaseOf(lines[i])]
  BY <1>2 DEF CasesRead
<1> DEFINE S == {CaseOf(lines[i]) : i \in 1..n}
<1>4. cases \in [1..n -> S]
  BY <1>3
<1>5. cases \in Seq(S)
  BY <1>2, <1>4, SeqDef
<1>6. DOMAIN cases = 1..n /\ DOMAIN cases = 1..Len(cases) /\ Len(cases) \in Nat
  <2> HIDE DEF S, n
  <2> QED
    BY <1>4, <1>5, LenProperties
<1> HIDE DEF n, lines
<1>7. Len(cases) # 0
  BY <1>2, <1>6
<1> QED
  BY <1>2, <1>6, <1>7 DEF lines

\* Different evaluators have different ids.
LEMMA IdsDiffer ==
  ASSUME given \in Inputs, Valid(configuration)
  PROVE  \A k, l \in DOMAIN configuration.evaluators :
            configuration.evaluators[k].id = configuration.evaluators[l].id => k = l
<1> DEFINE s == configuration.evaluators
           ids == Ids(s)
           f == [k \in DOMAIN s |-> s[k].id]
<1>1. s \in Seq(ToSet(s)) /\ Cardinality(ids) = Len(s)
  BY InputAssumption DEF WellFormed, Sequential, configuration, Valid
<1>2. Len(s) \in Nat /\ DOMAIN s = 1..Len(s)
  BY <1>1, LenProperties
<1>3. IsFiniteSet(DOMAIN s) /\ Cardinality(DOMAIN s) = Len(s)
  <2>1. \A n \in Nat : IsFiniteSet(1..n) /\ Cardinality(1..n) = n
    BY FS_Interval
  <2> QED
    BY <1>2, <2>1
<1>4. f \in Surjection(DOMAIN s, ids)
  <2>1. f \in [DOMAIN s -> ids] /\ \A x \in ids : \E k \in DOMAIN s : f[k] = x
    BY DEF Ids
  <2> HIDE DEF f
  <2> QED
    BY <2>1 DEF Surjection
<1>5. IsFiniteSet(ids)
  BY <1>3, <1>4, FS_Surjection
<1>6. f \in Injection(DOMAIN s, ids)
  <2> HIDE DEF f, ids, s
  <2> QED
    BY <1>1, <1>3, <1>4, <1>5, FS_SurjSameCardinalityImpliesInj
<1>7. \A k, l \in DOMAIN s : f[k] = f[l] => k = l
  <2> HIDE DEF f
  <2> QED
    BY <1>6 DEF Injection, IsInjective
<1> QED
  BY <1>7

\* The invariant holds at first.
LEMMA ScoringStarts == ScoringInit => ScoringInvariant
<1> SUFFICES ASSUME ScoringInit PROVE ScoringInvariant
  OBVIOUS
<1>1. /\ given \in Inputs /\ phase = "configuration"
      /\ rowsOf = [v \in BothVariants |-> <<>>] /\ results = [v \in BothVariants |-> <<>>]
  BY DEF ScoringInit, Start
<1> QED
  BY <1>1 DEF ScoringInvariant, Phases, PastConfiguration, PastDataset, PastReferences, Past,
              BothVariants

\* The steps before anything is scored leave what was accepted alone.
LEMMA LoadConfigurationKeeps ==
  ScoringInvariant /\ LoadConfiguration => ScoringInvariant'
<1> SUFFICES ASSUME ScoringInvariant, LoadConfiguration PROVE ScoringInvariant'
  OBVIOUS
<1>1. /\ phase = "configuration" /\ phase' \in {"dataset", "refused"}
      /\ phase' = "dataset" => Valid(configuration)
      /\ UNCHANGED <<given, cases, rowsOf, results>>
  BY DEF LoadConfiguration, Proceed
<1> QED
  BY <1>1 DEF ScoringInvariant, Phases, PastConfiguration, PastDataset, PastReferences, Past,
              BothVariants, configuration

\* Reading the dataset keeps it.
LEMMA ReadDatasetKeeps ==
  ScoringInvariant /\ ReadDataset => ScoringInvariant'
<1> SUFFICES ASSUME ScoringInvariant, ReadDataset PROVE ScoringInvariant'
  OBVIOUS
<1>1. /\ phase = "dataset" /\ phase' \in {"references", "refused"}
      /\ phase' = "references" => CasesRead'
      /\ UNCHANGED <<given, rowsOf, results>>
  BY DEF ReadDataset, Proceed, CasesRead
<1> QED
  BY <1>1 DEF ScoringInvariant, Phases, PastConfiguration, PastDataset, PastReferences, Past,
              BothVariants, configuration

\* So does the check of the references,
LEMMA CheckReferencesKeeps ==
  ScoringInvariant /\ CheckReferences => ScoringInvariant'
<1> SUFFICES ASSUME ScoringInvariant, CheckReferences PROVE ScoringInvariant'
  OBVIOUS
<1>1. /\ phase = "references" /\ phase' \in {"schema", "refused"}
      /\ phase' = "schema" =>
            \A i \in DOMAIN cases, k \in DOMAIN configuration.evaluators :
                GoodReference(configuration.evaluators[k], cases[i].expected)
      /\ UNCHANGED <<given, cases, rowsOf, results>>
  BY DEF CheckReferences, Proceed
<1>2. (phase' \in PastDataset => CasesRead') /\ configuration' = configuration
  BY <1>1 DEF ScoringInvariant, CasesRead, PastConfiguration, PastDataset, configuration
<1> QED
  BY <1>1, <1>2 DEF ScoringInvariant, Phases, PastConfiguration, PastDataset, PastReferences, Past,
              BothVariants

\* and the loading of the schema.
LEMMA LoadSchemaKeeps ==
  ScoringInvariant /\ LoadSchema => ScoringInvariant'
<1> SUFFICES ASSUME ScoringInvariant, LoadSchema PROVE ScoringInvariant'
  OBVIOUS
<1>1. /\ phase = "schema" /\ phase' \in {"baseline", "refused"}
      /\ UNCHANGED <<given, cases, rowsOf, results>>
  BY DEF LoadSchema, Proceed
<1>2. (phase' \in PastDataset => CasesRead') /\ configuration' = configuration
  BY <1>1 DEF ScoringInvariant, CasesRead, PastConfiguration, PastDataset, configuration
<1> QED
  BY <1>1, <1>2 DEF ScoringInvariant, Phases, PastConfiguration, PastDataset, PastReferences, Past,
              BothVariants

\* The rows of a variant are read, and scoring begins when both are.
LEMMA ReadOutputsKeeps ==
  ASSUME NEW v \in BothVariants, ScoringInvariant, ReadOutputs(v)
  PROVE  ScoringInvariant'
<1> DEFINE next == IF v = "baseline" THEN "candidate" ELSE "scoring"
<1>1. /\ phase = v /\ phase' \in {next, "refused"}
      /\ phase' = next =>
            /\ \A i \in DOMAIN given.outputs[v] : given.outputs[v][i].form = "row"
            /\ rowsOf' = [rowsOf EXCEPT ![v] = [c \in DOMAIN cases |->
                                                    RowFor(given.outputs[v], cases[c])]]
      /\ phase' = "refused" => rowsOf' = rowsOf
      /\ UNCHANGED <<given, cases, results>>
  BY DEF ReadOutputs, Proceed, ValidOutputs, Recordable, BothVariants
<1>2. DOMAIN rowsOf = BothVariants /\ CasesRead /\ given \in Inputs
  BY <1>1 DEF ScoringInvariant, PastConfiguration, PastDataset, BothVariants
<1>3. (phase' \in PastDataset => CasesRead') /\ configuration' = configuration
  BY <1>1, <1>2 DEF CasesRead, configuration
<1>4. ASSUME NEW w \in BothVariants, phase' \in Past(w) PROVE RowsRead(w)'
  <2>1. phase' = next
    BY <1>1, <1>4 DEF Past
  <2>2. CASE w = v
    <3>1. rowsOf'[w] = [c \in DOMAIN cases |-> RowFor(given.outputs[v], cases[c])]
      BY <1>1, <1>2, <2>1, <2>2
    <3> QED
      BY <1>1, <2>1, <2>2, <3>1 DEF RowsRead
  <2>3. CASE w # v
    <3>1. v = "candidate" /\ w = "baseline"
      BY <1>4, <2>1, <2>3 DEF Past, BothVariants
    <3>2. RowsRead(w)
      BY <1>1, <3>1 DEF ScoringInvariant, Past, BothVariants
    <3>3. rowsOf'[w] = rowsOf[w]
      BY <1>1, <1>2, <2>1, <2>3
    <3> QED
      BY <1>1, <3>2, <3>3 DEF RowsRead
  <2> QED
    BY <2>2, <2>3
<1>5. results = [w \in BothVariants |-> <<>>] /\ results' = results
  BY <1>1 DEF ScoringInvariant, BothVariants
<1>6. phase' = "scoring" => \A w \in BothVariants : Judgement(w, 0)'
  <2>1. Sequential(<<>>) /\ DOMAIN <<>> = 1..0
    BY EmptySeq DEF Sequential
  <2>2. \A w \in BothVariants : results'[w] = <<>>
    BY <1>5
  <2> QED
    BY <2>1, <2>2 DEF Judgement
<1>7. 0 < Len(cases) /\ Len(cases') = Len(cases)
  BY <1>1, <1>2, SomeCases
<1>8. phase' = "scoring" =>
          \E n \in Nat : n < Len(cases') /\ \A w \in BothVariants : Judgement(w, n)'
  BY <1>6, <1>7
<1>9. phase \in PastReferences /\ phase \in PastConfiguration
  BY <1>1 DEF PastReferences, PastDataset, PastConfiguration, BothVariants
<1>10. /\ Valid(configuration)'
       /\ \A i \in DOMAIN cases', k \in DOMAIN configuration'.evaluators :
              GoodReference(configuration'.evaluators[k], cases'[i].expected)
  BY <1>1, <1>3, <1>9 DEF ScoringInvariant
<1>11. phase' \in Phases /\ phase' # "scored" /\ DOMAIN rowsOf' = BothVariants
  BY <1>1, <1>2 DEF Phases, BothVariants
<1> QED
  BY <1>1, <1>2, <1>3, <1>4, <1>5, <1>8, <1>10, <1>11 DEF ScoringInvariant

\* One more case is scored.
LEMMA ScoreCaseKeeps ==
  ASSUME ScoringInvariant, ScoreCase
  PROVE  ScoringInvariant'
<1> DEFINE evaluators == configuration.evaluators
           Of(id) == evaluators[CHOOSE k \in DOMAIN evaluators : evaluators[k].id = id]
           Row(v, i, external) ==
               [id \in Ids(evaluators) |->
                   ResultOf(Of(id), rowsOf[v][i], cases[i].expected, external)]
<1>1. /\ phase = "scoring" /\ given \in Inputs /\ Valid(configuration) /\ CasesRead
      /\ DOMAIN rowsOf = BothVariants /\ \A v \in BothVariants : RowsRead(v)
      /\ \A i \in DOMAIN cases, k \in DOMAIN evaluators :
              GoodReference(evaluators[k], cases[i].expected)
      /\ UNCHANGED <<given, cases, rowsOf>>
  BY DEF ScoreCase, ScoringInvariant, PastConfiguration, PastDataset, PastReferences, Past
<1>2. PICK n \in Nat : n < Len(cases) /\ \A v \in BothVariants : Judgement(v, n)
  BY <1>1 DEF ScoringInvariant
<1>3. Len(results["baseline"]) = n
  BY <1>2, OneMore DEF Judgement, BothVariants
<1>4. PICK external \in [BothVariants -> Answers] :
          results' = [v \in BothVariants |-> Append(results[v], Row(v, n + 1, external[v]))]
  <2> DEFINE asked == \E k \in DOMAIN evaluators : evaluators[k].kind \in ExternalKinds
             local == IF asked THEN {"passed", "failed", "error", "not_applicable"}
                      ELSE {"error"}
             i == Len(results["baseline"]) + 1
  <2>1. PICK external \in [BothVariants -> local] :
          results' = [v \in BothVariants |-> Append(results[v], Row(v, i, external[v]))]
    BY Zenon DEF ScoreCase
  <2>2. local \subseteq Answers
    BY DEF Answers
  <2> HIDE DEF local, Row, Of
  <2>3. external \in [BothVariants -> Answers]
    BY <2>2
  <2> QED
    BY <1>3, <2>1, <2>3
<1>5. phase' = IF n + 1 = Len(cases) THEN "scored" ELSE phase
  BY <1>3 DEF ScoreCase
<1>6. configuration' = configuration
  BY <1>1 DEF configuration
<1>7. ASSUME NEW v \in BothVariants PROVE Judgement(v, n + 1)'
  <2>1. results'[v] = Append(results[v], Row(v, n + 1, external[v]))
    BY <1>4
  <2>2. DOMAIN results[v] = 1..n /\ Sequential(results[v])
    BY <1>2 DEF Judgement
  <2>3. /\ DOMAIN results'[v] = 1..(n + 1) /\ Sequential(results'[v])
        /\ \A i \in 1..n : results'[v][i] = results[v][i]
        /\ results'[v][n + 1] = Row(v, n + 1, external[v])
    <3> HIDE DEF Row
    <3> QED
      BY <2>1, <2>2, OneMore
  <2>4. ASSUME NEW i \in 1..n PROVE RowScored(v, i)'
    <3>1. RowScored(v, i)
      BY <1>2 DEF Judgement
    <3> QED
      BY <1>1, <1>6, <2>3, <3>1 DEF RowScored
  <2>5. RowScored(v, n + 1)'
    <3>1. ASSUME NEW k \in DOMAIN evaluators
          PROVE  results'[v][n + 1][evaluators[k].id] =
                     ResultOf(evaluators[k], rowsOf[v][n + 1], cases[n + 1].expected, external[v])
      <4>1. evaluators[k].id \in Ids(evaluators)
        BY DEF Ids
      <4>2. Of(evaluators[k].id) = evaluators[k]
        <5>1. \A l \in DOMAIN evaluators : evaluators[l].id = evaluators[k].id => l = k
          BY <1>1, IdsDiffer
        <5> QED
          BY <5>1
      <4>3. Row(v, n + 1, external[v])[evaluators[k].id] =
                ResultOf(Of(evaluators[k].id), rowsOf[v][n + 1], cases[n + 1].expected,
                         external[v])
        BY <4>1
      <4> HIDE DEF Row, Of
      <4> QED
        BY <2>3, <4>2, <4>3
    <3>2. external[v] \in Answers
      BY <1>4
    <3> QED
      BY <1>1, <1>6, <3>1, <3>2 DEF RowScored
  <2>6. \A i \in 1..(n + 1) : i \in 1..n \/ i = n + 1
    OBVIOUS
  <2> QED
    BY <2>3, <2>4, <2>5, <2>6 DEF Judgement
<1>8. Len(cases) \in Nat /\ n + 1 \in Nat /\ n + 1 <= Len(cases)
  BY <1>1, <1>2, SomeCases
<1>9. /\ phase' \in {"scoring", "scored"}
      /\ phase' = "scoring" => n + 1 < Len(cases)
      /\ phase' = "scored" => n + 1 = Len(cases)
  BY <1>1, <1>5, <1>8
<1>10. CasesRead' /\ \A v \in BothVariants : RowsRead(v)'
  BY <1>1 DEF CasesRead, RowsRead
<1>11. /\ Valid(configuration)' /\ given' \in Inputs /\ cases' = cases
       /\ DOMAIN rowsOf' = BothVariants
       /\ \A i \in DOMAIN cases', k \in DOMAIN configuration'.evaluators :
              GoodReference(configuration'.evaluators[k], cases'[i].expected)
  BY <1>1, <1>6
<1>12. phase' = "scoring" =>
          \E m \in Nat : m < Len(cases') /\ \A v \in BothVariants : Judgement(v, m)'
  BY <1>7, <1>8, <1>9, <1>11
<1>13. phase' = "scored" => \A v \in BothVariants : Judgement(v, Len(cases))'
  BY <1>7, <1>9, <1>11
<1>14. phase' \in Phases /\ phase' \in {"scoring", "scored", "refused"}
  BY <1>9 DEF Phases
<1> QED
  BY <1>10, <1>11, <1>12, <1>13, <1>14 DEF ScoringInvariant

\* Every step keeps the invariant.
LEMMA ScoringKeeps ==
  ScoringInvariant /\ [ScoringNext]_scoringVars => ScoringInvariant'
<1> SUFFICES ASSUME ScoringInvariant, [ScoringNext]_scoringVars PROVE ScoringInvariant'
  OBVIOUS
<1>1. CASE UNCHANGED scoringVars
  BY <1>1 DEF scoringVars, ScoringInvariant, CasesRead, RowsRead, Judgement, RowScored,
              configuration
<1>2. CASE LoadConfiguration
  BY <1>2, LoadConfigurationKeeps
<1>3. CASE ReadDataset
  BY <1>3, ReadDatasetKeeps
<1>4. CASE CheckReferences
  BY <1>4, CheckReferencesKeeps
<1>5. CASE LoadSchema
  BY <1>5, LoadSchemaKeeps
<1>6. ASSUME NEW v \in BothVariants, ReadOutputs(v) PROVE ScoringInvariant'
  BY <1>6, ReadOutputsKeeps
<1>7. CASE ScoreCase
  BY <1>7, ScoreCaseKeeps
<1> QED
  BY <1>1, <1>2, <1>3, <1>4, <1>5, <1>6, <1>7 DEF ScoringNext

\* So it holds throughout.
THEOREM ScoringFollows == ScoringSpec => []ScoringInvariant
BY ScoringStarts, ScoringKeeps, PTL DEF ScoringSpec

\* What is known of a scored row, its case and an evaluator.
RowKnown(v, i, k) ==
    LET e == configuration.evaluators[k] IN
    /\ \E external \in Answers :
          results[v][i][e.id] = ResultOf(e, rowsOf[v][i], cases[i].expected, external)
    /\ Settled(e, cases[i].expected)
    /\ \A items \in ArraysOf(e, cases[i].expected) : Sequential(items)
    /\ ParsedOutput(rowsOf[v][i]) =>
          \A items \in ArraysOf(e, rowsOf[v][i].source) : Sequential(items)

\* It follows from the invariant.
LEMMA RowsKnown ==
  ASSUME ScoringInvariant, phase = "scored", NEW v \in BothVariants, NEW i \in DOMAIN cases,
         NEW k \in DOMAIN configuration.evaluators
  PROVE  RowKnown(v, i, k)
<1> DEFINE e == configuration.evaluators[k]
           line == given.dataset[i]
           row == rowsOf[v][i]
<1>1. /\ given \in Inputs /\ Valid(configuration) /\ CasesRead /\ RowsRead(v)
      /\ GoodReference(e, cases[i].expected) /\ Judgement(v, Len(cases))
  BY DEF ScoringInvariant, PastConfiguration, PastDataset, PastReferences, Past
<1>2. /\ Len(cases) \in Nat \ {0} /\ DOMAIN cases = 1..Len(cases)
      /\ DOMAIN cases = DOMAIN given.dataset
  BY <1>1, SomeCases
<1>3. WellFormed(given)
  BY <1>1, InputAssumption
<1>4. \E external \in Answers :
          results[v][i][e.id] = ResultOf(e, row, cases[i].expected, external)
  BY <1>1, <1>2 DEF Judgement, RowScored
<1>5. ValidEvaluator(e)
  BY <1>1 DEF Valid
<1>6. line.form = "row" /\ cases[i].expected = line.expected
  BY <1>1, <1>2 DEF CasesRead, ValidLines, CaseOf
<1>7. /\ cases[i].expected # Malformed
      /\ \A items \in ArraysOf(e, cases[i].expected) : Sequential(items)
  BY <1>2, <1>3, <1>6 DEF WellFormed, configuration
<1>8. e.kind \in {"numeric_tolerance", "keyed_array"} => Sequential(e.expected_pointer)
  BY <1>3 DEF WellFormed, ReferencePointers, PairKinds, configuration
<1>9. ASSUME ParsedOutput(row), NEW items \in ArraysOf(e, row.source) PROVE Sequential(items)
  <2> DEFINE lines == given.outputs[v]
             own == {j \in DOMAIN lines : lines[j].case_id = <<cases[i].id, "plain">>}
             j == CHOOSE j \in own : TRUE
  <2>1. row = RowFor(lines, cases[i])
    BY <1>1 DEF RowsRead
  <2>2. own # {}
    <3>1. ASSUME own = {} PROVE FALSE
      <4>1. row.status = "missing"
        BY <2>1, <3>1 DEF RowFor
      <4> QED
        BY <1>9, <4>1 DEF ParsedOutput
    <3> QED
      BY <3>1
  <2>3. row.source = Source(lines[j])
    <3>1. RowFor(lines, cases[i]) = [status |-> lines[j].status, source |-> Source(lines[j])]
      BY <2>2, Zenon DEF RowFor
    <3> HIDE DEF j, lines, row
    <3> QED
      BY <2>1, <3>1
  <2>4. j \in DOMAIN lines /\ lines[j].form = "row"
    <3>1. j \in own
      BY <2>2
    <3> HIDE DEF j
    <3> QED
      BY <1>1, <3>1 DEF RowsRead
  <2> HIDE DEF j, own
  <2>5. ArraysOf(e, row.source) = ArraysOf(e, Source(lines[j]))
    BY <2>3
  <2> QED
    BY <1>3, <1>9, <2>4, <2>5 DEF WellFormed, configuration
<1> QED
  BY <1>1, <1>4, <1>5, <1>7, <1>8, <1>9 DEF RowKnown, Settled

\* Bad outputs fail, and the reference passes.
LEMMA JudgedWell ==
  ScoringInvariant => OutputsAreJudged
<1> SUFFICES ASSUME ScoringInvariant PROVE OutputsAreJudged
  OBVIOUS
<1>1. ASSUME phase = "scored", NEW v \in BothVariants, NEW i \in DOMAIN cases,
             NEW k \in DOMAIN configuration.evaluators
      PROVE  LET e == configuration.evaluators[k]
                 row == rowsOf[v][i]
                 verdict == results[v][i][e.id]
             IN  /\ (/\ verdict.status = "error" /\ ParsedOutput(row)
                     /\ e.kind \notin {"financial_invariants"} \cup ExternalKinds
                     /\ ~LooseLimits(e)) => OutOfRange(e, cases[i].expected, row)
                 /\ (/\ row.status = "ok" /\ row.source = cases[i].expected /\ Symmetric(e)
                     /\ ~LooseLimits(e) /\ ~Unbounded(e, cases[i].expected))
                        => verdict.status = "passed"
  <2> DEFINE e == configuration.evaluators[k]
             row == rowsOf[v][i]
             expected == cases[i].expected
             verdict == results[v][i][e.id]
  <2>1. RowKnown(v, i, k)
    BY <1>1, RowsKnown
  <2>2. PICK external \in Answers : verdict = ResultOf(e, row, expected, external)
    BY <2>1 DEF RowKnown
  <2>3. Settled(e, expected)
    BY <2>1 DEF RowKnown
  <2> HIDE DEF e, row, expected, verdict
  <2>4. ASSUME ParsedOutput(row), e.kind \notin ExternalKinds
        PROVE  verdict = Evaluate(e, expected, row.source)
    BY <2>2, <2>4 DEF ResultOf
  <2>5. (/\ verdict.status = "error" /\ ParsedOutput(row)
         /\ e.kind \notin {"financial_invariants"} \cup ExternalKinds
         /\ ~LooseLimits(e)) => OutOfRange(e, expected, row)
    BY <2>3, <2>4, EvaluateBad
  <2>6. ASSUME row.status = "ok", row.source = expected, Symmetric(e),
               ~LooseLimits(e), ~Unbounded(e, expected)
        PROVE  verdict.status = "passed"
    <3>1. ParsedOutput(row)
      BY <2>3, <2>6 DEF Settled, ParsedOutput
    <3>2. e.kind \notin ExternalKinds
      BY <2>6 DEF Symmetric, ExternalKinds, PairKinds, TextKinds
    <3>3. Evaluate(e, expected, expected).status = "passed"
      BY <2>3, <2>6, EvaluateGolden
    <3> QED
      BY <2>4, <2>6, <3>1, <3>2, <3>3
  <2> QED
    BY <2>5, <2>6 DEF e, row, expected, verdict
<1> QED
  BY <1>1 DEF OutputsAreJudged, BadOutputsFail, GoldenPasses, Scored

\* Facts add up to statuses.
LEMMA FactsExplain ==
  ScoringInvariant => FactsAddUp
<1> SUFFICES ASSUME ScoringInvariant PROVE FactsAddUp
  OBVIOUS
<1>1. ASSUME phase = "scored", NEW v \in BothVariants, NEW i \in DOMAIN cases,
             NEW k \in DOMAIN configuration.evaluators
      PROVE  LET e == configuration.evaluators[k]
                 row == rowsOf[v][i]
                 verdict == results[v][i][e.id]
                 statuses == {f.status : f \in verdict.facts}
             IN  /\ e.kind = "keyed_array" /\ ParsedOutput(row) =>
                        (verdict.status = "passed" <=>
                            \E s \in Items(Resolve(cases[i].expected, e.expected_pointer)),
                               a \in Items(Resolve(row.source, e.pointer)) : Matching(e, s, a))
                 /\ e.kind \notin {"exact_json"} \cup ExternalKinds =>
                        CASE verdict.status = "passed" -> statuses \subseteq {"passed"}
                          [] verdict.status = "failed" ->
                                 "failed" \in statuses /\ "error" \notin statuses
                          [] verdict.status = "error" ->
                                 ParsedOutput(row) \/ statuses = {"error"}
  <2> DEFINE e == configuration.evaluators[k]
             row == rowsOf[v][i]
             expected == cases[i].expected
             verdict == results[v][i][e.id]
             statuses == {f.status : f \in verdict.facts}
  <2>1. RowKnown(v, i, k)
    BY <1>1, RowsKnown
  <2>2. PICK external \in Answers : verdict = ResultOf(e, row, expected, external)
    BY <2>1 DEF RowKnown
  <2>3. /\ Settled(e, expected)
        /\ \A items \in ArraysOf(e, expected) : Sequential(items)
        /\ ParsedOutput(row) => \A items \in ArraysOf(e, row.source) : Sequential(items)
    BY <2>1 DEF RowKnown
  <2> HIDE DEF e, row, expected, verdict
  <2>4. ASSUME ParsedOutput(row), e.kind \notin ExternalKinds
        PROVE  verdict = Evaluate(e, expected, row.source)
    BY <2>2, <2>4 DEF ResultOf
  <2>5. ASSUME ~ParsedOutput(row), e.kind \notin ExternalKinds
        PROVE  verdict = Unparsed(e)
    BY <2>2, <2>5 DEF ResultOf
  <2>6. ASSUME e.kind = "keyed_array", ParsedOutput(row)
        PROVE  verdict.status = "passed" <=>
                    \E s \in Items(Resolve(expected, e.expected_pointer)),
                       a \in Items(Resolve(row.source, e.pointer)) : Matching(e, s, a)
    <3>1. verdict = KeyedArray(e, expected, row.source)
      BY <2>4, <2>6, EvaluateByKind DEF ExternalKinds
    <3>2. /\ \A s \in Items(Resolve(expected, e.expected_pointer)) : Sequential(s)
          /\ \A a \in Items(Resolve(row.source, e.pointer)) : Sequential(a)
      BY <2>3, <2>6 DEF ArraysOf
    <3> QED
      BY <2>3, <2>6, <3>1, <3>2, KeyedMatches
  <2>7. ASSUME e.kind \notin {"exact_json"} \cup ExternalKinds
        PROVE  /\ verdict.status \in Verdicts
               /\ verdict.status = "passed" => statuses \subseteq {"passed"}
               /\ verdict.status = "failed" => "failed" \in statuses /\ "error" \notin statuses
               /\ verdict.status = "error" => ParsedOutput(row) \/ statuses = {"error"}
    <3>1. CASE ParsedOutput(row)
      <4>1. e.kind \in EvaluatorKinds
        BY <2>3 DEF Settled, ValidEvaluator
      <4>2. e.kind = "financial_invariants" =>
                \A s \in Items(Resolve(row.source, e.line_items)) : Sequential(s)
        BY <2>3, <3>1 DEF ArraysOf
      <4>3. Explained(Evaluate(e, expected, row.source))
        BY <2>7, <4>1, <4>2, EvaluateExplained
      <4>4. Explained(verdict)
        BY <2>4, <2>7, <3>1, <4>3
      <4> QED
        BY <3>1, <4>4 DEF Explained
    <3>2. CASE ~ParsedOutput(row)
      <4>1. verdict.status = "error" /\ statuses = {"error"}
        BY <2>3, <2>5, <2>7, <3>2, UnparsedExplained DEF Settled
      <4> QED
        BY <4>1 DEF Verdicts
    <3> QED
      BY <3>1, <3>2
  <2>8. ASSUME e.kind \notin {"exact_json"} \cup ExternalKinds
        PROVE  CASE verdict.status = "passed" -> statuses \subseteq {"passed"}
                 [] verdict.status = "failed" -> "failed" \in statuses /\ "error" \notin statuses
                 [] verdict.status = "error" -> ParsedOutput(row) \/ statuses = {"error"}
    <3> HIDE DEF statuses
    <3> QED
      BY <2>7, <2>8 DEF Verdicts
  <2> QED
    BY <2>6, <2>8 DEF e, row, expected, verdict
<1> QED
  BY <1>1 DEF FactsAddUp, KeyedIsAMatching, FactsExplainStatus, Scored

\* Financial totals are consistent.
LEMMA FinancialConsistent ==
  ScoringInvariant => FinancialIsConsistent
<1>1. ASSUME ScoringInvariant, phase = "scored", NEW v \in BothVariants, NEW i \in DOMAIN cases,
             NEW k \in DOMAIN configuration.evaluators,
             configuration.evaluators[k].kind = "financial_invariants",
             ParsedOutput(rowsOf[v][i])
      PROVE  FinancialSound(configuration.evaluators[k], rowsOf[v][i].source,
                            results[v][i][configuration.evaluators[k].id])
  <2> DEFINE e == configuration.evaluators[k]
             row == rowsOf[v][i]
             expected == cases[i].expected
             verdict == results[v][i][e.id]
  <2>1. RowKnown(v, i, k)
    BY <1>1, RowsKnown
  <2>2. PICK external \in Answers : verdict = ResultOf(e, row, expected, external)
    BY <2>1 DEF RowKnown
  <2>3. \A items \in ArraysOf(e, row.source) : Sequential(items)
    BY <1>1, <2>1 DEF RowKnown
  <2>4. e.kind = "financial_invariants" /\ ParsedOutput(row)
    BY <1>1
  <2> HIDE DEF e, row, expected, verdict
  <2>5. verdict = FinancialInvariants(e, expected, row.source)
    BY <2>2, <2>4, EvaluateByKind DEF ResultOf, ExternalKinds
  <2>6. \A s \in Items(Resolve(row.source, e.line_items)) : Sequential(s)
    BY <2>3, <2>4 DEF ArraysOf
  <2>7. FinancialSound(e, row.source, verdict)
    BY <2>5, <2>6, FinancialHolds
  <2> QED
    BY <2>7 DEF e, row, verdict
<1> SUFFICES ASSUME ScoringInvariant, phase = "scored", NEW v \in BothVariants,
                    NEW i \in DOMAIN cases, NEW k \in DOMAIN configuration.evaluators,
                    configuration.evaluators[k].kind = "financial_invariants",
                    ParsedOutput(rowsOf[v][i])
             PROVE  LET e       == configuration.evaluators[k]
                        row     == rowsOf[v][i]
                        verdict == results[v][i][e.id]
                    IN  /\ TotalsApart(e, row.source) =>
                               /\ Fact(e.subtotal, "failed") \in verdict.facts
                                      => CompleteLines(e, row.source)
                               /\ Fact(e.total, "failed") \in verdict.facts
                                      => ReadAt(row.source, e.subtotal) # {}
                                         /\ ReadAt(row.source, e.tax) # {}
                        /\ verdict.status = "passed" =>
                               \A s \in Items(Resolve(row.source, e.line_items)),
                                  tax \in ReadAt(row.source, e.tax),
                                  total \in ReadAt(row.source, e.total),
                                  tolerance \in ExactDecimal(e.tolerance) :
                                  Magnitude(total - tax - Due(e, s)) <= (Len(s) + 2) * tolerance
  BY DEF FinancialIsConsistent, Scored
<1>2. FinancialSound(configuration.evaluators[k], rowsOf[v][i].source,
                     results[v][i][configuration.evaluators[k].id])
  BY <1>1
<1> QED
  BY <1>2 DEF FinancialSound

\* An evaluator that reads the reference is accepted only with one.
LEMMA ReferenceThere ==
  ASSUME NEW e, NEW expected, ValidEvaluator(e), GoodReference(e, expected),
         e.kind \notin {"required_fields", "financial_invariants"} \cup ExternalKinds,
         \A path \in ReferencePointers(e) : Sequential(path)
  PROVE  Present(expected)
<1> SUFFICES ASSUME expected = Absent PROVE FALSE
  BY DEF Present
<1>1. e.kind \in {"exact_json", "numeric_tolerance", "keyed_array"} \cup PairKinds \cup TextKinds
  BY DEF ValidEvaluator, EvaluatorKinds
<1>2. \A path \in ReferencePointers(e) : Resolve(expected, path) = Absent
  BY NothingInAbsent
<1>3. CASE e.kind = "exact_json"
  BY <1>3 DEF GoodReference, PairKinds, Present
<1>4. CASE e.kind \in PairKinds
  <2>1. PICK p \in e.pairs : TRUE
    BY <1>4 DEF ValidEvaluator, PairKinds
  <2> QED
    BY <1>2, <1>4, <2>1 DEF GoodReference, ReferencePointers, PairKinds, Present
<1>5. CASE e.kind \in {"numeric_tolerance", "keyed_array"} \cup TextKinds
  <2>1. Resolve(expected, e.expected_pointer) = Absent
    BY <1>2, <1>5 DEF ReferencePointers, PairKinds, TextKinds
  <2>2. /\ CanonicalInteger(Absent) = {} /\ ExactDecimal(Absent) = {} /\ Items(Absent) = {}
        /\ Strings(Absent) = {} /\ \A formats : CanonicalDate(Absent, formats) = {}
    BY DEF CanonicalInteger, ExactDecimal, Items, Strings, CanonicalDate, Spelled, NumberText,
           IsA, Absent
  <2> QED
    BY <1>5, <2>1, <2>2 DEF GoodReference, PairKinds, TextKinds
<1> QED
  BY <1>1, <1>3, <1>4, <1>5

\* What looks the same is judged alike.
LEMMA SameVerdict ==
  ScoringInvariant => SameStimulusSameVerdict
<1> SUFFICES ASSUME ScoringInvariant, phase = "scored", NEW v \in BothVariants,
                    NEW i \in DOMAIN cases, NEW j \in DOMAIN cases,
                    NEW k \in DOMAIN configuration.evaluators,
                    Stimulus(cases[i]) = Stimulus(cases[j]),
                    rowsOf[v][i] = rowsOf[v][j],
                    configuration.evaluators[k].kind \notin ExternalKinds
             PROVE  results[v][i][configuration.evaluators[k].id] =
                        results[v][j][configuration.evaluators[k].id]
  BY DEF SameStimulusSameVerdict
<1> DEFINE e == configuration.evaluators[k]
<1>1. RowKnown(v, i, k) /\ RowKnown(v, j, k)
  BY RowsKnown
<1>2. PICK x, y \in Answers :
          /\ results[v][i][e.id] = ResultOf(e, rowsOf[v][i], cases[i].expected, x)
          /\ results[v][j][e.id] = ResultOf(e, rowsOf[v][j], cases[j].expected, y)
  BY <1>1 DEF RowKnown
<1>3. CasesRead /\ given \in Inputs
  BY DEF ScoringInvariant, PastConfiguration, PastDataset
<1>4. DOMAIN cases = DOMAIN given.dataset
  BY <1>3, SomeCases
<1>5. OrNull(cases[i].expected) = OrNull(cases[j].expected)
  <2>1. /\ cases[i] = CaseOf(given.dataset[i]) /\ cases[j] = CaseOf(given.dataset[j])
        /\ i \in DOMAIN given.dataset /\ j \in DOMAIN given.dataset
    BY <1>3, <1>4 DEF CasesRead
  <2>2. \A line : /\ Stimulus(CaseOf(line)) = Stimulus(line)
                  /\ CaseOf(line).expected = line.expected
    BY DEF CaseOf, Stimulus
  <2> QED
    BY <1>3, <2>1, <2>2 DEF CasesRead, Consistent
<1>6. e.kind \notin ExternalKinds
  OBVIOUS
<1>7. e.kind \notin {"required_fields", "financial_invariants"} \cup ExternalKinds =>
          cases[i].expected = cases[j].expected
  <2>1. \A path \in ReferencePointers(e) : Sequential(path)
    BY <1>3, InputAssumption DEF WellFormed, configuration
  <2>2. /\ ValidEvaluator(e)
        /\ GoodReference(e, cases[i].expected) /\ GoodReference(e, cases[j].expected)
    BY <1>1 DEF RowKnown, Settled
  <2> HIDE DEF e
  <2> QED
    BY <1>5, <2>1, <2>2, ReferenceThere DEF OrNull
<1> HIDE DEF e
<1>8. results[v][i][e.id] = results[v][j][e.id]
  <2>1. CASE e.kind \in {"required_fields", "financial_invariants"}
    <3>1. \A expected, output :
             /\ RequiredFields(e, expected, output) = RequiredFields(e, Null, output)
             /\ FinancialInvariants(e, expected, output) = FinancialInvariants(e, Null, output)
      BY Zenon DEF RequiredFields, FinancialInvariants
    <3>2. ASSUME NEW expected, NEW output
          PROVE  Evaluate(e, expected, output) = Evaluate(e, Null, output)
      <4>1. CASE e.kind = "required_fields"
        BY <3>1, <4>1, EvaluateByKind
      <4>2. CASE e.kind = "financial_invariants"
        BY <3>1, <4>2, EvaluateByKind
      <4> QED
        BY <2>1, <4>1, <4>2
    <3> QED
      BY <1>2, <1>6, <3>2 DEF ResultOf
  <2>2. CASE e.kind \notin {"required_fields", "financial_invariants"}
    BY <1>2, <1>6, <1>7, <2>2 DEF ResultOf
  <2> QED
    BY <2>1, <2>2
<1> QED
  BY <1>8 DEF e

\* For every configuration, dataset and recorded output that evaluate_pair is
\* given: an output is judged by what it says.  Bad outputs fail, they are no
\* evaluator errors, and the reference itself passes.
THEOREM OutputsJudged == ScoringSpec => []OutputsAreJudged
BY ScoringFollows, JudgedWell, PTL

\* For the same inputs: a keyed array passes exactly if its items match those of
\* the reference, and the facts of a result explain its status.
THEOREM FactsAgree == ScoringSpec => []FactsAddUp
BY ScoringFollows, FactsExplain, PTL

\* For the same inputs: no financial total is blamed for a line that cannot be
\* read, and passed totals add up, however many lines an invoice has.
THEOREM FinancialAgrees == ScoringSpec => []FinancialIsConsistent
BY ScoringFollows, FinancialConsistent, PTL

-----------------------------------------------------------------------------
(* Pointers and their tokens                                               *)

\* The elements of a set of positions up to one of them.
NotBeyond(s, i) == {j \in s : j <= i}

\* They count which one it is.
LEMMA NthIs ==
  ASSUME NEW n \in Nat, NEW s \in SUBSET (1..n), NEW i \in s
  PROVE  /\ Cardinality(s) \in Nat
         /\ Cardinality(NotBeyond(s, i)) \in 1..Cardinality(s)
         /\ Nth(s, Cardinality(NotBeyond(s, i))) = i
<1>0. \A k \in s : k \in Nat
  OBVIOUS
<1>1. IsFiniteSet(s)
  <2>1. IsFiniteSet(1..n)
    BY FS_Interval
  <2> QED
    BY <2>1, FS_Subset
<1>2. \A k \in s : IsFiniteSet(NotBeyond(s, k)) /\ Cardinality(NotBeyond(s, k)) \in Nat
  BY <1>1, FS_Subset, FS_CardinalityType DEF NotBeyond
<1>3. Cardinality(s) \in Nat /\ Cardinality(NotBeyond(s, i)) <= Cardinality(s)
  BY <1>1, FS_Subset, FS_CardinalityType DEF NotBeyond
<1>4. Cardinality(NotBeyond(s, i)) # 0
  <2>1. i \in NotBeyond(s, i)
    BY DEF NotBeyond
  <2> QED
    BY <1>2, <2>1, FS_EmptySet
<1>5. ASSUME NEW j \in s, NEW k \in s, j < k
      PROVE  Cardinality(NotBeyond(s, j)) # Cardinality(NotBeyond(s, k))
  <2>1. j \in Nat /\ k \in Nat /\ j <= k /\ ~(k <= j) /\ k <= k
    BY <1>0, <1>5
  <2>2. \A l \in NotBeyond(s, j) : l \in NotBeyond(s, k)
    BY <1>0, <2>1 DEF NotBeyond
  <2>3. k \in NotBeyond(s, k) /\ k \notin NotBeyond(s, j)
    BY <2>1 DEF NotBeyond
  <2>4. NotBeyond(s, j) \in SUBSET NotBeyond(s, k)
    BY <2>2
  <2> QED
    BY <1>2, <2>3, <2>4, FS_Subset
<1>6. ASSUME NEW k \in s, Cardinality(NotBeyond(s, k)) = Cardinality(NotBeyond(s, i)) PROVE k = i
  <2>1. k \in Nat /\ i \in Nat
    OBVIOUS
  <2> QED
    BY <1>5, <1>6, <2>1
<1>7. Nth(s, Cardinality(NotBeyond(s, i))) = i
  <2> DEFINE r == Cardinality(NotBeyond(s, i))
  <2>1. Nth(s, r) = CHOOSE k \in s : Cardinality(NotBeyond(s, k)) = r
    BY DEF Nth, NotBeyond
  <2> HIDE DEF r
  <2>2. \E k \in s : Cardinality(NotBeyond(s, k)) = r
    BY DEF r
  <2>3. Nth(s, r) \in s /\ Cardinality(NotBeyond(s, Nth(s, r))) = r
    BY <2>1, <2>2
  <2> QED
    BY <1>6, <2>3 DEF r
<1> QED
  BY <1>2, <1>3, <1>4, <1>7

\* Where two texts part.
PartAt(x, y, m) ==
    /\ m \in Nat \ {0}
    /\ \A i \in 1..(m - 1) : i \in DOMAIN x /\ i \in DOMAIN y /\ x[i] = y[i]
    /\ \/ m \in DOMAIN x /\ m \in DOMAIN y /\ x[m] # y[m]
       \/ m = Len(x) + 1 /\ m \in DOMAIN y
       \/ m = Len(y) + 1 /\ m \in DOMAIN x

\* Texts that differ part somewhere.
LEMMA TextsPart ==
  ASSUME NEW x, NEW y, Sequential(x), Sequential(y), x # y
  PROVE  \E m : PartAt(x, y, m)
<1>1. /\ Len(x) \in Nat /\ DOMAIN x = 1..Len(x) /\ x = [i \in 1..Len(x) |-> x[i]]
      /\ Len(y) \in Nat /\ DOMAIN y = 1..Len(y) /\ y = [i \in 1..Len(y) |-> y[i]]
  BY LenProperties DEF Sequential
<1> DEFINE a == Len(x)
           b == Len(y)
           D == {i \in 1..a : i <= b /\ x[i] # y[i]}
<1>2. CASE D # {}
  <2>1. D \in SUBSET Nat
    OBVIOUS
  <2>2. PICK m \in D : \A i \in D : m <= i
    <3> HIDE DEF D
    <3> QED
      BY <1>2, <2>1, LeastNumber
  <2>3. PartAt(x, y, m)
    BY <1>1, <2>2 DEF PartAt
  <2> QED
    BY <2>3
<1>3. CASE D = {}
  <2>1. \A i \in 1..a : i <= b => x[i] = y[i]
    BY <1>3
  <2>2. ASSUME a = b PROVE FALSE
    <3>1. \A i \in 1..a : x[i] = y[i]
      BY <1>1, <2>1, <2>2
    <3> HIDE DEF a, b
    <3>2. x = [i \in 1..a |-> x[i]] /\ y = [i \in 1..a |-> y[i]]
      BY <1>1, <2>2 DEF a, b
    <3>3. [i \in 1..a |-> x[i]] = [i \in 1..a |-> y[i]]
      BY <3>1
    <3> QED
      BY <3>2, <3>3
  <2>3. CASE a < b
    <3>1. a + 1 \in Nat \ {0} /\ (a + 1) - 1 = a /\ a + 1 \in DOMAIN y
      BY <1>1, <2>3
    <3>2. \A i \in 1..a : i \in DOMAIN x /\ i \in DOMAIN y /\ x[i] = y[i]
      BY <1>1, <2>1, <2>3
    <3>3. PartAt(x, y, a + 1)
      BY <3>1, <3>2 DEF PartAt
    <3> QED
      BY <3>3
  <2>4. CASE b < a
    <3>1. b + 1 \in Nat \ {0} /\ (b + 1) - 1 = b /\ b + 1 \in DOMAIN x
      BY <1>1, <2>4
    <3>2. \A i \in 1..b : i \in DOMAIN x /\ i \in DOMAIN y /\ x[i] = y[i]
      BY <1>1, <2>1, <2>4
    <3>3. PartAt(x, y, b + 1)
      BY <3>1, <3>2 DEF PartAt
    <3> QED
      BY <3>3
  <2>5. a < b \/ b < a
    <3>1. a \in Nat /\ b \in Nat /\ a # b
      BY <1>1, <2>2
    <3> HIDE DEF a, b
    <3> QED
      BY <3>1
  <2> QED
    BY <2>3, <2>4, <2>5
<1> QED
  BY <1>2, <1>3

\* The characters of a token that are left when it is decoded, and what is
\* read in them.
Kept(x) == {i \in DOMAIN x : x[i] # "~"}
ReadBack(x, i) == IF i = 1 \/ x[i - 1] # "~" THEN x[i]
                  ELSE IF x[i] = "0" THEN "~" ELSE "/"

\* A token of a valid pointer.
IsToken(x) ==
    /\ Sequential(x)
    /\ \A i \in DOMAIN x :
          x[i] # "/" /\ (x[i] = "~" => i < Len(x) /\ x[i + 1] \in {"0", "1"})

\* A character that is left is found at its place.
LEMMA DecodedAt ==
  ASSUME NEW x, IsToken(x), NEW i \in Kept(x)
  PROVE  /\ Cardinality(NotBeyond(Kept(x), i)) \in DOMAIN Decoded(x)
         /\ Decoded(x)[Cardinality(NotBeyond(Kept(x), i))] = ReadBack(x, i)
<1>1. Len(x) \in Nat /\ Kept(x) \in SUBSET (1..Len(x))
  BY LenProperties DEF IsToken, Sequential, Kept
<1> DEFINE r == Cardinality(NotBeyond(Kept(x), i))
<1>2. r \in 1..Cardinality(Kept(x)) /\ Nth(Kept(x), r) = i
  BY <1>1, NthIs
<1>3. Decoded(x) = [n \in 1..Cardinality(Kept(x)) |-> ReadBack(x, Nth(Kept(x), n))]
  BY DEF Decoded, Kept, ReadBack
<1> HIDE DEF r
<1> QED
  BY <1>2, <1>3 DEF r

\* Two tokens with different characters where they part, none of them an escape.
LEMMA DecodedPart ==
  ASSUME NEW x, NEW y, IsToken(x), IsToken(y), NEW m, PartAt(x, y, m),
         m \in Kept(x), m \in Kept(y), x[m] # y[m]
  PROVE  Decoded(x) # Decoded(y)
<1>1. DOMAIN x = 1..Len(x) /\ Len(x) \in Nat /\ DOMAIN y = 1..Len(y) /\ Len(y) \in Nat
  BY LenProperties DEF IsToken, Sequential
<1>2. NotBeyond(Kept(x), m) = NotBeyond(Kept(y), m)
  BY <1>1 DEF NotBeyond, Kept, PartAt
<1>3. ReadBack(x, m) # ReadBack(y, m)
  <2>1. CASE m = 1 \/ x[m - 1] # "~"
    BY <1>1, <2>1 DEF ReadBack, PartAt
  <2>2. CASE m # 1 /\ x[m - 1] = "~"
    <3>1. m - 1 \in DOMAIN x /\ m - 1 \in DOMAIN y /\ y[m - 1] = "~" /\ (m - 1) + 1 = m
      BY <1>1, <2>2 DEF PartAt
    <3>2. x[m] \in {"0", "1"} /\ y[m] \in {"0", "1"}
      BY <2>2, <3>1 DEF IsToken
    <3> QED
      BY <2>2, <3>1, <3>2 DEF ReadBack
  <2> QED
    BY <2>1, <2>2
<1> QED
  BY <1>2, <1>3, DecodedAt

\* An escape against a plain character.
LEMMA DecodedEscape ==
  ASSUME NEW x, NEW y, IsToken(x), IsToken(y), NEW m, PartAt(x, y, m),
         m \in DOMAIN x, x[m] = "~", m \in Kept(y)
  PROVE  Decoded(x) # Decoded(y)
<1>1. DOMAIN x = 1..Len(x) /\ Len(x) \in Nat /\ DOMAIN y = 1..Len(y) /\ Len(y) \in Nat
      /\ m \in Nat \ {0}
  BY LenProperties DEF IsToken, Sequential, PartAt
<1>2. m + 1 \in DOMAIN x /\ x[m + 1] \in {"0", "1"} /\ m + 1 \in Kept(x)
  BY <1>1 DEF IsToken, Kept
<1> DEFINE L == {j \in Kept(y) : j < m}
<1>3. NotBeyond(Kept(x), m + 1) = L \cup {m + 1} /\ NotBeyond(Kept(y), m) = L \cup {m}
  BY <1>1, <1>2 DEF NotBeyond, Kept, PartAt
<1>4. m + 1 \notin L /\ m \notin L /\ IsFiniteSet(L)
  <2>1. \A j \in L : j \in 1..m /\ j < m
    BY <1>1 DEF Kept
  <2>2. IsFiniteSet(1..m)
    BY <1>1, FS_Interval
  <2> HIDE DEF L
  <2>3. L \in SUBSET (1..m)
    BY <2>1
  <2>4. IsFiniteSet(L)
    BY <2>2, <2>3, FS_Subset
  <2>5. m + 1 \notin L /\ m \notin L
    BY <1>1, <2>1
  <2> QED
    BY <2>4, <2>5
<1>5. Cardinality(NotBeyond(Kept(x), m + 1)) = Cardinality(NotBeyond(Kept(y), m))
  <2> HIDE DEF L
  <2>1. /\ Cardinality(L \cup {m + 1}) = Cardinality(L) + 1
        /\ Cardinality(L \cup {m}) = Cardinality(L) + 1
    BY <1>4, FS_AddElement
  <2> QED
    BY <1>3, <2>1
<1>6. ReadBack(x, m + 1) \in {"~", "/"}
  <2>1. (m + 1) - 1 = m /\ m + 1 # 1
    BY <1>1
  <2> QED
    BY <2>1 DEF ReadBack
<1>7. ReadBack(y, m) = y[m] /\ y[m] \notin {"~", "/"}
  <2>1. m = 1 \/ y[m - 1] # "~"
    <3>1. ASSUME m # 1, y[m - 1] = "~" PROVE FALSE
      <4>1. m - 1 \in DOMAIN x /\ x[m - 1] = "~" /\ (m - 1) + 1 = m
        BY <1>1, <3>1 DEF PartAt
      <4>2. x[m] \in {"0", "1"}
        BY <4>1 DEF IsToken
      <4> QED
        BY <4>2
    <3> QED
      BY <3>1
  <2>2. y[m] \notin {"~", "/"}
    BY DEF Kept, IsToken
  <2> QED
    BY <2>1, <2>2 DEF ReadBack
<1> QED
  BY <1>2, <1>5, <1>6, <1>7, DecodedAt

\* A token that goes on after the other has ended.
LEMMA DecodedLonger ==
  ASSUME NEW x, NEW y, IsToken(x), IsToken(y), NEW m, PartAt(x, y, m),
         m = Len(x) + 1, m \in DOMAIN y
  PROVE  Decoded(x) # Decoded(y)
<1>1. DOMAIN x = 1..Len(x) /\ Len(x) \in Nat /\ DOMAIN y = 1..Len(y) /\ Len(y) \in Nat
      /\ m \in Nat \ {0}
  BY LenProperties DEF IsToken, Sequential, PartAt
<1>2. Kept(x) \subseteq Kept(y)
  BY <1>1 DEF Kept, PartAt
<1>3. \E k \in Kept(y) : k \notin Kept(x)
  <2>1. CASE y[m] # "~"
    BY <1>1, <2>1 DEF Kept
  <2>2. CASE y[m] = "~"
    <3>0. m < Len(y) /\ y[m + 1] \in {"0", "1"}
      BY <2>2 DEF IsToken
    <3>1. m + 1 \in DOMAIN y /\ y[m + 1] # "~"
      BY <1>1, <3>0
    <3>2. m + 1 \in Kept(y) /\ m + 1 \notin Kept(x)
      BY <1>1, <3>1 DEF Kept
    <3> QED
      BY <3>2
  <2> QED
    BY <2>1, <2>2
<1>4. IsFiniteSet(Kept(y)) /\ IsFiniteSet(Kept(x))
  <2>1. Kept(x) \in SUBSET (1..Len(y)) /\ Kept(y) \in SUBSET (1..Len(y))
    BY <1>1, <1>2 DEF Kept
  <2>2. IsFiniteSet(1..Len(y))
    BY <1>1, FS_Interval
  <2> QED
    BY <2>1, <2>2, FS_Subset
<1> DEFINE c == Cardinality(Kept(x))
           d == Cardinality(Kept(y))
<1>5. c \in Nat /\ d \in Nat /\ c # d
  BY <1>2, <1>3, <1>4, FS_Subset, FS_CardinalityType
<1>6. DOMAIN Decoded(x) = 1..c /\ DOMAIN Decoded(y) = 1..d
  BY DEF Decoded, Kept
<1> HIDE DEF c, d
<1>7. 1..c # 1..d
  <2>1. \A n \in Nat : n # 0 => n \in 1..n
    OBVIOUS
  <2> QED
    BY <1>5, <2>1
<1> QED
  BY <1>6, <1>7

\* Decoding never makes two tokens one.
LEMMA DecodedDiffer ==
  ASSUME NEW x, NEW y, IsToken(x), IsToken(y), x # y
  PROVE  Decoded(x) # Decoded(y)
<1>1. PICK m : PartAt(x, y, m)
  BY TextsPart DEF IsToken
<1>2. PartAt(y, x, m)
  BY <1>1 DEF PartAt
<1>3. CASE m \in DOMAIN x /\ m \in DOMAIN y /\ x[m] # y[m]
  <2>1. (m \in Kept(x) <=> x[m] # "~") /\ (m \in Kept(y) <=> y[m] # "~")
    BY <1>3 DEF Kept
  <2> QED
    BY <1>1, <1>2, <1>3, <2>1, DecodedPart, DecodedEscape
<1>4. CASE m = Len(x) + 1 /\ m \in DOMAIN y
  BY <1>1, <1>4, DecodedLonger
<1>5. CASE m = Len(y) + 1 /\ m \in DOMAIN x
  BY <1>2, <1>5, DecodedLonger
<1> QED
  BY <1>1, <1>3, <1>4, <1>5 DEF PartAt

\* What stands between two slashes is a token.
LEMMA TokenIs ==
  ASSUME NEW text, Sequential(text), ValidPointer(text),
         NEW i \in DOMAIN text, text[i] = "/"
  PROVE  \E end \in i..Len(text) :
            /\ \A k \in (i + 1)..end : text[k] # "/"
            /\ end < Len(text) => text[end + 1] = "/"
            /\ Len(TokenAt(text, i)) = end - i
            /\ \A k \in 1..(end - i) : TokenAt(text, i)[k] = text[i + k]
            /\ IsToken(TokenAt(text, i))
<1> DEFINE n == Len(text)
           Ends(j) == /\ \A k \in (i + 1)..j : text[k] # "/"
                      /\ j < n => text[j + 1] = "/"
           T == {j \in i..n : j < n => text[j + 1] = "/"}
           token == TokenAt(text, i)
<1>1. n \in Nat /\ DOMAIN text = 1..n /\ i \in 1..n
  BY LenProperties DEF Sequential
<1>2. \E j \in i..n : Ends(j)
  <2>1. n \in T /\ T \in SUBSET Nat
    BY <1>1
  <2>2. PICK j \in T : \A k \in T : j <= k
    <3> HIDE DEF T
    <3> QED
      BY <2>1, LeastNumber
  <2>3. ASSUME NEW k \in (i + 1)..j, text[k] = "/" PROVE FALSE
    <3>1. k - 1 \in T
      <4>1. (k - 1) + 1 = k /\ k - 1 \in i..n
        BY <1>1
      <4> QED
        BY <2>3, <4>1
    <3>2. j <= k - 1
      BY <2>2, <3>1
    <3> QED
      BY <1>1, <3>2
  <2> QED
    BY <2>2, <2>3
<1>3. PICK end \in i..n : Ends(end) /\ token = SubSeq(text, i + 1, end)
  <2>1. token = SubSeq(text, i + 1, CHOOSE j \in i..n : Ends(j))
    BY DEF TokenAt
  <2> HIDE DEF Ends, token
  <2> QED
    BY <1>2, <2>1
<1> HIDE DEF token
<1>4. end \in Nat /\ i + 1 \in Int /\ end - (i + 1) + 1 = end - i /\ end - i \in Nat
  BY <1>1
<1>5. /\ token \in Seq(ToSet(text)) /\ Len(token) = end - i
      /\ \A k \in 1..(end - i) : token[k] = text[i + k]
  <2>1. \A k \in (i + 1)..end : text[k] \in ToSet(text)
    BY <1>1 DEF ToSet
  <2>2. \A k \in 1..(end - i) : (i + 1) + k - 1 = i + k
    BY <1>1
  <2>3. /\ token \in Seq(ToSet(text))
        /\ Len(token) = IF i + 1 <= end THEN end - (i + 1) + 1 ELSE 0
        /\ \A k \in 1..(end - (i + 1) + 1) : token[k] = text[(i + 1) + k - 1]
    <3>1. token = SubSeq(text, i + 1, end) /\ i + 1 \in Int /\ end \in Int
      BY <1>3, <1>4
    <3> QED
      BY <2>1, <3>1, SubSeqProperties, SMTT(30)
  <2>4. Len(token) = end - i
    BY <1>1, <2>3
  <2>5. \A k \in 1..(end - i) : token[k] = text[(i + 1) + k - 1]
    BY <1>4, <2>3, Zenon
  <2>6. \A k \in 1..(end - i) : token[k] = text[i + k]
    BY <2>2, <2>5, Zenon
  <2> QED
    BY <2>3, <2>4, <2>6, Zenon
<1>6. DOMAIN token = 1..(end - i)
  BY <1>5, LenProperties
<1>7. Sequential(token)
  <2>1. token = [k \in 1..(end - i) |-> token[k]]
    BY <1>5, LenProperties
  <2>2. \A k \in 1..(end - i) : token[k] \in ToSet(token)
    BY <1>6 DEF ToSet
  <2>3. [k \in 1..(end - i) |-> token[k]] \in Seq(ToSet(token))
    BY <1>4, <2>2, IsASeq
  <2> QED
    BY <2>1, <2>3 DEF Sequential
<1>8. ASSUME NEW k \in DOMAIN token
      PROVE  token[k] # "/" /\ (token[k] = "~" => k < Len(token) /\ token[k + 1] \in {"0", "1"})
  <2>1. k \in 1..(end - i) /\ i + k \in (i + 1)..end /\ i + k \in 1..n
    BY <1>1, <1>6
  <2>2. token[k] = text[i + k] /\ text[i + k] # "/"
    BY <1>3, <1>5, <2>1
  <2>3. ASSUME text[i + k] = "~" PROVE k < end - i /\ token[k + 1] \in {"0", "1"}
    <3>1. i + k < n /\ text[(i + k) + 1] \in {"0", "1"}
      BY <1>1, <2>1, <2>3 DEF ValidPointer
    <3>2. i + k # end
      BY <1>3, <3>1
    <3>3. k < end - i /\ k + 1 \in 1..(end - i) /\ i + (k + 1) = (i + k) + 1
      BY <1>1, <2>1, <3>2
    <3> QED
      BY <1>5, <3>1, <3>3
  <2> QED
    BY <1>5, <2>2, <2>3
<1>9. IsToken(token)
  BY <1>7, <1>8 DEF IsToken
<1> QED
  BY <1>3, <1>5, <1>9 DEF token

\* Where the slashes of a text are.
Slashes(text) == {i \in DOMAIN text : text[i] = "/"}

\* A token is found at the place of its slash.
LEMMA TokensAt ==
  ASSUME NEW text, Sequential(text), NEW i \in Slashes(text)
  PROVE  LET r == Cardinality(NotBeyond(Slashes(text), i)) IN
         /\ r \in 1..Len(Tokens(text))
         /\ Tokens(text)[r] = Decoded(TokenAt(text, i))
<1>1. Len(text) \in Nat /\ Slashes(text) \in SUBSET (1..Len(text))
  BY LenProperties DEF Sequential, Slashes
<1> DEFINE r == Cardinality(NotBeyond(Slashes(text), i))
           c == Cardinality(Slashes(text))
<1>2. c \in Nat /\ r \in 1..c /\ Nth(Slashes(text), r) = i
  BY <1>1, NthIs
<1>3. Tokens(text) = [n \in 1..c |-> Decoded(TokenAt(text, Nth(Slashes(text), n)))]
  BY DEF Tokens, Slashes
<1> HIDE DEF r, c
<1>4. Len(Tokens(text)) = c
  BY <1>2, <1>3
<1> QED
  BY <1>2, <1>3, <1>4 DEF r

\* A text that ends, or meets a slash, and one that goes on.
Stops(x, m)  == m = Len(x) + 1 \/ (m \in DOMAIN x /\ x[m] = "/")
GoesOn(x, m) == m \in DOMAIN x /\ x[m] # "/"

\* The token that the next character of a text belongs to.
LEMMA TokenReaches ==
  ASSUME NEW text, Sequential(text), ValidPointer(text), NEW m \in Nat,
         NEW p \in Slashes(text), p < m, m <= Len(text) + 1,
         \A k \in (p + 1)..(m - 1) : text[k] # "/"
  PROVE  /\ IsToken(TokenAt(text, p))
         /\ Stops(text, m) => Len(TokenAt(text, p)) = m - 1 - p
         /\ GoesOn(text, m) => /\ Len(TokenAt(text, p)) >= m - p
                               /\ TokenAt(text, p)[m - p] = text[m]
<1> DEFINE n == Len(text)
           token == TokenAt(text, p)
<1>1. n \in Nat /\ DOMAIN text = 1..n /\ p \in 1..n
  BY LenProperties DEF Sequential, Slashes
<1>2. PICK end \in p..n :
         /\ \A k \in (p + 1)..end : text[k] # "/"
         /\ end < n => text[end + 1] = "/"
         /\ Len(token) = end - p
         /\ \A k \in 1..(end - p) : token[k] = text[p + k]
         /\ IsToken(token)
  BY TokenIs DEF Slashes
<1> HIDE DEF token
<1>3. end \in Nat
  BY <1>1
<1>4. ASSUME end < m - 1 PROVE FALSE
  <2>1. end < n /\ end + 1 \in (p + 1)..(m - 1)
    BY <1>1, <1>3, <1>4
  <2> QED
    BY <1>2, <2>1
<1>5. ASSUME Stops(text, m) PROVE Len(token) = m - 1 - p
  <2>1. end < m
    <3>1. CASE m = n + 1
      BY <1>1, <1>3, <3>1
    <3>2. CASE m \in DOMAIN text /\ text[m] = "/"
      <4>1. m \notin (p + 1)..end
        BY <1>2, <3>2
      <4> QED
        BY <1>1, <1>3, <4>1
    <3> QED
      BY <1>5, <3>1, <3>2 DEF Stops
  <2>2. end = m - 1
    BY <1>1, <1>3, <1>4, <2>1
  <2> QED
    BY <1>1, <1>2, <2>2
<1>6. ASSUME GoesOn(text, m) PROVE Len(token) >= m - p /\ token[m - p] = text[m]
  <2>1. m \in 1..n /\ text[m] # "/"
    BY <1>1, <1>6 DEF GoesOn
  <2>2. end # m - 1
    <3>1. ASSUME end = m - 1 PROVE FALSE
      <4>1. end < n /\ end + 1 = m
        BY <1>1, <2>1, <3>1
      <4> QED
        BY <1>2, <2>1, <4>1
    <3> QED
      BY <3>1
  <2>3. end >= m
    BY <1>1, <1>3, <1>4, <2>2
  <2>4. m - p \in 1..(end - p) /\ p + (m - p) = m
    BY <1>1, <1>3, <2>3
  <2> QED
    BY <1>1, <1>2, <1>3, <2>3, <2>4
<1> QED
  BY <1>2, <1>5, <1>6 DEF token

\* Of two pointers that part, neither continuing the other after a slash, some
\* token differs at the same place.
LEMMA TokenDiffers ==
  ASSUME NEW a, NEW b, Sequential(a), Sequential(b), ValidPointer(a), ValidPointer(b),
         NEW m, PartAt(a, b, m), m # 1, a[1] = "/", b[1] = "/",
         \/ Stops(a, m) /\ GoesOn(b, m)
         \/ GoesOn(a, m) /\ Stops(b, m)
         \/ GoesOn(a, m) /\ GoesOn(b, m)
  PROVE  \E r \in 1..Len(Tokens(a)) : r \in 1..Len(Tokens(b)) /\ Tokens(a)[r] # Tokens(b)[r]
<1>1. /\ Len(a) \in Nat /\ DOMAIN a = 1..Len(a) /\ Len(b) \in Nat /\ DOMAIN b = 1..Len(b)
      /\ m \in Nat /\ m > 1
  BY LenProperties DEF Sequential, PartAt
<1>2. m <= Len(a) + 1 /\ m <= Len(b) + 1
  BY <1>1 DEF Stops, GoesOn
<1>3. \A k \in 1..(m - 1) : k \in DOMAIN a /\ k \in DOMAIN b /\ a[k] = b[k]
  BY DEF PartAt
<1> DEFINE S == {k \in 1..(m - 1) : a[k] = "/"}
<1>4. PICK p \in S : \A k \in S : k <= p
  <2>1. 1 \in S /\ m \in Nat /\ S \in SUBSET (0..m)
    BY <1>1
  <2> HIDE DEF S
  <2> QED
    BY <2>1, GreatestNumber
<1>5. p \in 1..(m - 1) /\ p \in Slashes(a) /\ p \in Slashes(b) /\ p < m /\ p \in Nat
  BY <1>1, <1>3, <1>4 DEF Slashes
<1>6. \A k \in (p + 1)..(m - 1) : a[k] # "/" /\ b[k] # "/"
  <2> SUFFICES ASSUME NEW k \in (p + 1)..(m - 1) PROVE a[k] # "/" /\ b[k] # "/"
    OBVIOUS
  <2>1. k \in 1..(m - 1) /\ ~(k <= p)
    BY <1>1, <1>5
  <2>2. k \notin S
    BY <1>4, <2>1
  <2> QED
    BY <1>3, <2>1, <2>2
<1>7. NotBeyond(Slashes(a), p) = NotBeyond(Slashes(b), p)
  <2>1. \A k \in 1..Len(a) : k <= p => k \in 1..(m - 1)
    BY <1>1, <1>5
  <2>2. \A k \in 1..Len(b) : k <= p => k \in 1..(m - 1)
    BY <1>1, <1>5
  <2>3. \A k : k \in NotBeyond(Slashes(a), p) <=> k \in NotBeyond(Slashes(b), p)
    BY <1>1, <1>3, <2>1, <2>2 DEF NotBeyond, Slashes
  <2> QED
    BY <2>3
<1> DEFINE x == TokenAt(a, p)
           y == TokenAt(b, p)
<1>0. m \in Nat /\ p < m
  BY <1>1, <1>5
<1>8. /\ IsToken(x)
      /\ Stops(a, m) => Len(x) = m - 1 - p
      /\ GoesOn(a, m) => Len(x) >= m - p /\ x[m - p] = a[m]
  <2>1. \A k \in (p + 1)..(m - 1) : a[k] # "/"
    BY <1>6, Zenon
  <2> QED
    BY <1>0, <1>2, <1>5, <2>1, TokenReaches, Zenon
<1>9. /\ IsToken(y)
      /\ Stops(b, m) => Len(y) = m - 1 - p
      /\ GoesOn(b, m) => Len(y) >= m - p /\ y[m - p] = b[m]
  <2>1. \A k \in (p + 1)..(m - 1) : b[k] # "/"
    BY <1>6, Zenon
  <2> QED
    BY <1>0, <1>2, <1>5, <2>1, TokenReaches, Zenon
<1> HIDE DEF x, y
<1>10. x # y
  <2>1. CASE Stops(a, m) /\ GoesOn(b, m)
    BY <1>1, <1>5, <1>8, <1>9, <2>1
  <2>2. CASE GoesOn(a, m) /\ Stops(b, m)
    BY <1>1, <1>5, <1>8, <1>9, <2>2
  <2>3. CASE GoesOn(a, m) /\ GoesOn(b, m)
    <3>1. a[m] # b[m]
      BY <1>1, <2>3 DEF PartAt, GoesOn
    <3> QED
      BY <1>8, <1>9, <2>3, <3>1
  <2> QED
    BY <2>1, <2>2, <2>3
<1>11. Decoded(x) # Decoded(y)
  BY <1>8, <1>9, <1>10, DecodedDiffer
<1> DEFINE r == Cardinality(NotBeyond(Slashes(a), p))
<1>12. r \in 1..Len(Tokens(a)) /\ Tokens(a)[r] = Decoded(x)
  BY <1>5, TokensAt DEF x
<1>13. r \in 1..Len(Tokens(b)) /\ Tokens(b)[r] = Decoded(y)
  BY <1>5, <1>7, TokensAt DEF y
<1> HIDE DEF r
<1> QED
  BY <1>11, <1>12, <1>13

\* A sequence that another one follows up to its end is a prefix of it.
LEMMA PrefixOf ==
  ASSUME NEW s, NEW t, Sequential(s), Sequential(t), Len(s) <= Len(t),
         \A i \in 1..Len(s) : s[i] = t[i]
  PROVE  IsPrefix(s, t)
<1> DEFINE n == Len(s)
           S == ToSet(s) \cup ToSet(t)
<1>1. n \in Nat /\ DOMAIN s = 1..n /\ Len(t) \in Nat /\ DOMAIN t = 1..Len(t)
  BY LenProperties DEF Sequential
<1>2. /\ \A i \in 1..n : s[i] \in S /\ t[i] \in S
      /\ n - 1 + 1 = n /\ \A i \in 1..n : 1 + i - 1 = i
  BY <1>1 DEF ToSet
<1> HIDE DEF n, S
<1>3. /\ SubSeq(s, 1, n) \in Seq(S) /\ Len(SubSeq(s, 1, n)) = n
      /\ \A i \in 1..n : SubSeq(s, 1, n)[i] = s[i]
  <2>1. /\ SubSeq(s, 1, n) \in Seq(S)
        /\ Len(SubSeq(s, 1, n)) = IF 1 <= n THEN n - 1 + 1 ELSE 0
        /\ \A i \in 1..(n - 1 + 1) : SubSeq(s, 1, n)[i] = s[1 + i - 1]
    BY <1>1, <1>2, SubSeqProperties
  <2> QED
    BY <1>1, <1>2, <2>1
<1>4. /\ SubSeq(t, 1, n) \in Seq(S) /\ Len(SubSeq(t, 1, n)) = n
      /\ \A i \in 1..n : SubSeq(t, 1, n)[i] = t[i]
  <2>1. /\ SubSeq(t, 1, n) \in Seq(S)
        /\ Len(SubSeq(t, 1, n)) = IF 1 <= n THEN n - 1 + 1 ELSE 0
        /\ \A i \in 1..(n - 1 + 1) : SubSeq(t, 1, n)[i] = t[1 + i - 1]
    BY <1>1, <1>2, SubSeqProperties
  <2> QED
    BY <1>1, <1>2, <2>1
<1>5. SubSeq(s, 1, n) = SubSeq(t, 1, n)
  <2>1. \A i \in 1..n : SubSeq(s, 1, n)[i] = SubSeq(t, 1, n)[i]
    BY <1>3, <1>4 DEF n
  <2> QED
    BY <1>3, <1>4, <2>1, SeqEqual
<1> QED
  BY <1>5 DEF IsPrefix, n

\* A prefix agrees with what it is a prefix of.
LEMMA PrefixAgrees ==
  ASSUME NEW s, NEW t, IsPrefix(s, t), Len(s) \in Nat, DOMAIN s = 1..Len(s),
         Len(t) \in Nat, DOMAIN t = 1..Len(t), NEW r \in 1..Len(s)
  PROVE  s[r] = t[r]
<1> DEFINE n == Len(s)
           S == ToSet(s) \cup ToSet(t)
<1>1. n <= Len(t) /\ SubSeq(s, 1, n) = SubSeq(t, 1, n)
  BY DEF IsPrefix
<1>2. /\ \A i \in 1..n : s[i] \in S /\ t[i] \in S
      /\ n \in Nat /\ n - 1 + 1 = n /\ r \in 1..n /\ 1 + r - 1 = r
  BY <1>1 DEF ToSet
<1> HIDE DEF n, S
<1>3. \A i \in 1..(n - 1 + 1) : SubSeq(s, 1, n)[i] = s[1 + i - 1]
  BY <1>2, SubSeqProperties
<1>4. \A i \in 1..(n - 1 + 1) : SubSeq(t, 1, n)[i] = t[1 + i - 1]
  BY <1>2, SubSeqProperties
<1>5. SubSeq(s, 1, n)[r] = s[r] /\ SubSeq(t, 1, n)[r] = t[r]
  BY <1>2, <1>3, <1>4
<1> QED
  BY <1>1, <1>5

\* There are as many tokens as slashes.
LEMMA TokensCounted ==
  ASSUME NEW text, Sequential(text)
  PROVE  Len(Tokens(text)) \in Nat /\ DOMAIN Tokens(text) = 1..Len(Tokens(text))
<1>0. Len(text) \in Nat /\ DOMAIN text = 1..Len(text)
  BY LenProperties DEF Sequential
<1>1. Slashes(text) \in SUBSET (1..Len(text)) /\ IsFiniteSet(1..Len(text))
  BY <1>0, FS_Interval DEF Slashes
<1> DEFINE c == Cardinality(Slashes(text))
<1>2. c \in Nat
  BY <1>1, FS_Subset, FS_CardinalityType
<1>3. Tokens(text) = [n \in 1..c |-> Decoded(TokenAt(text, Nth(Slashes(text), n)))]
  BY DEF Tokens, Slashes
<1> HIDE DEF c
<1> QED
  BY <1>2, <1>3

\* Pointers that do not overlap lead to places none of which is inside another:
\* in no notation does one name what the other does.
LEMMA PointersApart ==
  ASSUME NEW a, NEW b, Sequential(a), Sequential(b), ValidPointer(a), ValidPointer(b),
         ~PointersOverlap(a, b)
  PROVE  ~IsPrefix(Tokens(a), Tokens(b))
<1>1. a # b /\ a # <<>> /\ b # <<>> /\ ~Continues(a, b) /\ ~Continues(b, a)
  BY DEF PointersOverlap
<1>2. /\ Len(a) \in Nat /\ DOMAIN a = 1..Len(a) /\ Len(b) \in Nat /\ DOMAIN b = 1..Len(b)
      /\ Len(a) # 0 /\ Len(b) # 0 /\ a[1] = "/" /\ b[1] = "/"
  <2>1. a \in Seq(ToSet(a)) /\ b \in Seq(ToSet(b)) /\ Head(a) = "/" /\ Head(b) = "/"
    BY <1>1 DEF Sequential, ValidPointer
  <2> QED
    BY <1>1, <2>1, LenProperties, EmptySeq, HeadTailProperties
<1>3. PICK m : PartAt(a, b, m)
  BY <1>1, TextsPart
<1>4. m \in Nat /\ m # 1 /\ m # 0 /\ \A k \in 1..(m - 1) : a[k] = b[k]
  BY <1>2, <1>3 DEF PartAt
<1>5. ASSUME m = Len(a) + 1, m \in DOMAIN b PROVE Stops(a, m) /\ GoesOn(b, m)
  <2>1. IsPrefix(a, b)
    BY <1>2, <1>4, <1>5, PrefixOf
  <2>2. b[m] # "/"
    BY <1>1, <1>5, <2>1 DEF Continues, IsStrictPrefix
  <2> QED
    BY <1>5, <2>2 DEF Stops, GoesOn
<1>6. ASSUME m = Len(b) + 1, m \in DOMAIN a PROVE Stops(b, m) /\ GoesOn(a, m)
  <2>1. IsPrefix(b, a)
    BY <1>2, <1>4, <1>6, PrefixOf
  <2>2. a[m] # "/"
    BY <1>1, <1>6, <2>1 DEF Continues, IsStrictPrefix
  <2> QED
    BY <1>6, <2>2 DEF Stops, GoesOn
<1>7. \/ Stops(a, m) /\ GoesOn(b, m)
      \/ GoesOn(a, m) /\ Stops(b, m)
      \/ GoesOn(a, m) /\ GoesOn(b, m)
  <2>1. CASE m \in DOMAIN a /\ m \in DOMAIN b /\ a[m] # b[m]
    BY <2>1 DEF Stops, GoesOn
  <2> QED
    BY <1>3, <1>5, <1>6, <2>1 DEF PartAt
<1>8. PICK r \in 1..Len(Tokens(a)) : r \in 1..Len(Tokens(b)) /\ Tokens(a)[r] # Tokens(b)[r]
  BY <1>2, <1>3, <1>4, <1>7, TokenDiffers
<1>9. /\ Len(Tokens(a)) \in Nat /\ DOMAIN Tokens(a) = 1..Len(Tokens(a))
      /\ Len(Tokens(b)) \in Nat /\ DOMAIN Tokens(b) = 1..Len(Tokens(b))
  BY <1>2, TokensCounted
<1> QED
  BY <1>8, <1>9, PrefixAgrees

\* None of what is shown is inside what is hidden, nor the other way round.
LEMMA HiddenFields ==
  ScoringInvariant => HiddenFieldsStayHidden
<1> DEFINE fields == configuration.dataset.fields
<1> SUFFICES ASSUME ScoringInvariant, phase \notin {"onboarding", "configuration", "refused"},
                    NEW a \in FieldNames, NEW b \in FieldNames, a # b
             PROVE  ~IsPrefix(Tokens(fields[a]), Tokens(fields[b]))
  BY DEF HiddenFieldsStayHidden, FieldNames
<1>1. Valid(configuration)
  BY DEF ScoringInvariant, Phases, PastConfiguration
<1>2. ValidPointer(fields[a]) /\ ValidPointer(fields[b])
      /\ ~PointersOverlap(fields[a], fields[b])
  BY <1>1 DEF Valid, ValidDataset, FieldsIsolated
<1>3. Sequential(fields[a]) /\ Sequential(fields[b])
  BY InputAssumption DEF ScoringInvariant, WellFormed, configuration
<1> QED
  BY <1>2, <1>3, PointersApart

\* For every pointer notation, dataset and recorded output: what is hidden from
\* a model lies apart from what it is shown, and cannot turn the verdict on what
\* it answers.
THEOREM StimulusAlone == ScoringSpec => []StimulusDecides
BY ScoringFollows, HiddenFields, SameVerdict, PTL DEF StimulusDecides

-----------------------------------------------------------------------------
(* The files of an import                                                  *)

\* A function over 1..n is a sequence.
LEMMA FunctionIsSequence ==
  ASSUME NEW n \in Nat, NEW s, s = [i \in 1..n |-> s[i]]
  PROVE  Sequential(s) /\ Len(s) = n /\ DOMAIN s = 1..n
<1>0. DOMAIN s = 1..n
  OBVIOUS
<1>1. s \in [1..n -> ToSet(s)]
  BY <1>0 DEF ToSet
<1>2. s \in Seq(ToSet(s))
  BY <1>1, SeqDef
<1>3. DOMAIN s = 1..Len(s) /\ Len(s) \in Nat
  BY <1>2, LenProperties
<1> QED
  BY <1>0, <1>2, <1>3 DEF Sequential

\* What can be initialized, and the files that an import fills.
Initializations == {"from_outputs", "extraction", "recorded", "program"}
Sources == {"dataset", "baseline", "candidate", "schema", "configuration"}

\* s is an order of n files, with the dataset in place d and the configuration
\* in place c.
OrderOK(s, n, d, c) ==
  /\ s = [i \in 1..n |-> s[i]]
  /\ \A i, j \in 1..n : s[i] = s[j] => i = j
  /\ d \in 1..n /\ c \in 1..n /\ s[d] = "dataset" /\ s[c] = "configuration"

\* There are four of them.
LEMMA OrdersListed ==
  /\ OrderOK(ImportOrder, 8, 1, 5)
  /\ OrderOK(PresetOrder, 7, 3, 1)
  /\ OrderOK(TemplateOrder("recorded"), 7, 3, 1)
  /\ OrderOK(TemplateOrder("program"), 6, 3, 1)
<1>1. OrderOK(ImportOrder, 8, 1, 5)
  BY DEF ImportOrder, OrderOK
<1>2. OrderOK(PresetOrder, 7, 3, 1)
  BY DEF PresetOrder, OrderOK
<1>3. OrderOK(TemplateOrder("recorded"), 7, 3, 1)
  BY DEF TemplateOrder, OrderOK
<1>4. OrderOK(TemplateOrder("program"), 6, 3, 1)
  BY DEF TemplateOrder, OrderOK
<1> QED
  BY <1>1, <1>2, <1>3, <1>4

\* An import writes its sources first, and the configuration last of them.
LEMMA ImportFirst ==
  /\ \A i \in 1..5 : ImportOrder[i] \in Sources
  /\ \A f \in Sources : \E i \in 1..5 : ImportOrder[i] = f
<1>1. /\ ImportOrder[1] = "dataset" /\ ImportOrder[2] = "baseline" /\ ImportOrder[3] = "candidate"
      /\ ImportOrder[4] = "schema" /\ ImportOrder[5] = "configuration"
  BY DEF ImportOrder
<1> QED
  BY <1>1 DEF Sources

\* No file is written twice, and each order has a dataset and a configuration,
\* of which one is written first.
LEMMA Orders ==
  ASSUME NEW kind \in Initializations
  PROVE  LET order == Order(kind) IN
         /\ Sequential(order) /\ DOMAIN order = 1..Len(order) /\ Len(order) \in 6..8
         /\ \A i, j \in 1..Len(order) : order[i] = order[j] => i = j
         /\ \E i \in 1..Len(order) : order[i] = "dataset"
         /\ \E i \in 1..Len(order) : order[i] = "configuration"
         /\ order[1] \in {"dataset", "configuration"}
         /\ kind = "from_outputs" => order = ImportOrder
<1> DEFINE order == Order(kind)
<1>1. kind = "from_outputs" => order = ImportOrder
  BY DEF Order
<1>2. \E n \in 6..8, d, c \in Nat : OrderOK(order, n, d, c) /\ 1 \in {c, d}
  <2>1. CASE kind = "from_outputs"
    BY <2>1, OrdersListed, <1>1
  <2>2. CASE kind = "extraction"
    <3>1. order = PresetOrder
      BY <2>2 DEF Order
    <3> QED
      BY <3>1, OrdersListed
  <2>3. CASE kind = "recorded"
    <3>1. order = TemplateOrder("recorded")
      BY <2>3 DEF Order
    <3> QED
      BY <3>1, OrdersListed
  <2>4. CASE kind = "program"
    <3>1. order = TemplateOrder("program")
      BY <2>4 DEF Order
    <3> QED
      BY <3>1, OrdersListed
  <2> QED
    BY <2>1, <2>2, <2>3, <2>4 DEF Initializations
<1> HIDE DEF order
<1>3. PICK n \in 6..8, d \in Nat, c \in Nat : OrderOK(order, n, d, c) /\ 1 \in {c, d}
  BY <1>2
<1>4. Sequential(order) /\ Len(order) = n /\ DOMAIN order = 1..n
  BY <1>3, FunctionIsSequence DEF OrderOK
<1> QED
  BY <1>1, <1>3, <1>4 DEF OrderOK, order

\* What is written to file f in attempt n, which has made m of its sources.
Made(n, m, f) == IF f \in DOMAIN m THEN File(n, "imported", m[f]) ELSE Fixture(n)

\* Attempt n has written the first k files of its order, into a directory where
\* none of them was.
Wrote(dir, n, m, order, k) ==
    /\ \A i \in 1..Len(order) : order[i] \in DOMAIN dir <=> i <= k
    /\ \A i \in 1..k : dir[order[i]] = Made(n, m, order[i])
    /\ \A f \in DOMAIN dir : \/ dir[f] = Fixture(0)
                             \/ dir[f].by = n /\ f \in ToSet(order)

\* What an initialization makes of its sources.
MadeOf(e, m) == IF e.kind = "from_outputs" THEN m \in Prepared(e) ELSE m = Nothing

\* Nothing was written by an initialization.
FromBefore(dir) == \A f \in DOMAIN dir : dir[f] = Fixture(0)

\* The sources of an import as attempt n has written them.
Holds(dir, n, m) ==
    \A f \in Sources : f \in DOMAIN dir /\ dir[f] = File(n, "imported", m[f])

\* The files of dir are those of attempt n, a request for e, which may have been
\* killed.
Rests(dir, n, e) ==
    /\ \A f \in DOMAIN dir : dir[f].by \in {0, n}
    /\ \A f \in DOMAIN dir : f \in ToSet(Order(e.kind)) => dir[f].by = n
    /\ Order(e.kind)[1] \in DOMAIN dir
    /\ "configuration" \in DOMAIN dir /\ dir["configuration"].state = "imported"
          => e.kind = "from_outputs" /\ \E m \in Prepared(e) : Holds(dir, n, m)

\* An import fills its sources and nothing else.
LEMMA PreparedFiles ==
  ASSUME NEW e, NEW m \in Prepared(e)
  PROVE  DOMAIN m = Sources
BY DEF Prepared, Sources

\* next has one more file than attempt n had written.
Extended(dir, f, x) == And(dir, [y \in {f} |-> x])
WroteMore(next, n, m, order, k, x) ==
    /\ \A i \in 1..Len(order) : order[i] \in DOMAIN next <=> i <= k + 1
    /\ \A i \in 1..k : next[order[i]] = Made(n, m, order[i])
    /\ next[order[k + 1]] = x
    /\ \A f \in DOMAIN next : \/ next[f] = Fixture(0)
                              \/ next[f].by = n /\ f \in ToSet(order)

\* The next file did not exist, and is the only one that changes.
LEMMA WroteOne ==
  ASSUME NEW dir, NEW n \in Nat \ {0}, NEW m, NEW kind \in Initializations,
         NEW k \in 0..(Len(Order(kind)) - 1), Wrote(dir, n, m, Order(kind), k),
         NEW x, x.by = n
  PROVE  /\ Order(kind)[k + 1] \notin DOMAIN dir
         /\ WroteMore(Extended(dir, Order(kind)[k + 1], x), n, m, Order(kind), k, x)
<1> DEFINE order == Order(kind)
           f == order[k + 1]
           next == Extended(dir, f, x)
<1>1. /\ DOMAIN order = 1..Len(order) /\ Len(order) \in 6..8
      /\ \A i, j \in 1..Len(order) : order[i] = order[j] => i = j
  BY Orders
<1>2. k + 1 \in 1..Len(order) /\ ~(k + 1 <= k) /\ k \in Nat
  BY <1>1
<1>3. f \notin DOMAIN dir
  BY <1>2 DEF Wrote
<1>4. f \in ToSet(order)
  BY <1>1, <1>2 DEF ToSet
<1> HIDE DEF order, f
<1>5. /\ DOMAIN next = DOMAIN dir \cup {f} /\ next[f] = x
      /\ \A g \in DOMAIN dir : next[g] = dir[g]
  BY <1>3 DEF Extended, And
<1> HIDE DEF next
<1>6. /\ \A i \in 1..Len(order) : order[i] \in DOMAIN dir <=> i <= k
      /\ \A i \in 1..k : dir[order[i]] = Made(n, m, order[i])
      /\ \A g \in DOMAIN dir : \/ dir[g] = Fixture(0)
                               \/ dir[g].by = n /\ g \in ToSet(order)
  BY DEF Wrote, order
<1>7. ASSUME NEW i \in 1..Len(order) PROVE order[i] \in DOMAIN next <=> i <= k + 1
  <2>1. order[i] = f <=> i = k + 1
    BY <1>1, <1>2 DEF f
  <2> QED
    BY <1>1, <1>2, <1>5, <1>6, <2>1
<1>8. ASSUME NEW i \in 1..k PROVE next[order[i]] = Made(n, m, order[i])
  <2>1. i \in 1..Len(order) /\ i <= k
    BY <1>1, <1>2
  <2> QED
    BY <1>5, <1>6, <2>1
<1>9. \A g \in DOMAIN next : \/ next[g] = Fixture(0)
                             \/ next[g].by = n /\ g \in ToSet(order)
  BY <1>4, <1>5, <1>6
<1> QED
  BY <1>3, <1>5, <1>7, <1>8, <1>9 DEF WroteMore, order, f, next

\* A directory that has the first k files of attempt n, of which the last one
\* may be partial, is that attempt's.
LEMMA WroteRests ==
  ASSUME NEW dir, NEW n \in Nat \ {0}, NEW e, e.kind \in Initializations, NEW m, MadeOf(e, m),
         NEW k \in 1..Len(Order(e.kind)),
         \A i \in 1..Len(Order(e.kind)) : Order(e.kind)[i] \in DOMAIN dir <=> i <= k,
         \A i \in 1..(k - 1) : dir[Order(e.kind)[i]] = Made(n, m, Order(e.kind)[i]),
         \/ dir[Order(e.kind)[k]] = Made(n, m, Order(e.kind)[k])
         \/ dir[Order(e.kind)[k]].by = n /\ dir[Order(e.kind)[k]].state = "partial",
         \A f \in DOMAIN dir : \/ dir[f] = Fixture(0)
                               \/ dir[f].by = n /\ f \in ToSet(Order(e.kind))
  PROVE  Rests(dir, n, e)
<1> DEFINE order == Order(e.kind)
<1>1. /\ DOMAIN order = 1..Len(order) /\ Len(order) \in 6..8
      /\ \A i, j \in 1..Len(order) : order[i] = order[j] => i = j
      /\ \E i \in 1..Len(order) : order[i] = "configuration"
      /\ e.kind = "from_outputs" => order = ImportOrder
  BY Orders
<1> HIDE DEF order
<1>2. \A f : Made(n, m, f).by = n
  BY DEF Made, File, Fixture
<1>3. Fixture(0).by = 0 /\ Fixture(0).state = "fixture"
  BY DEF File, Fixture
<1>4. order[1] \in DOMAIN dir
  BY <1>1 DEF order
<1>5. ASSUME NEW f \in DOMAIN dir, f \in ToSet(order) PROVE dir[f].by = n
  <2>1. PICK i \in 1..Len(order) : f = order[i]
    BY <1>1, <1>5 DEF ToSet
  <2>2. i \in 1..k
    BY <1>1, <2>1 DEF order
  <2>3. i \in 1..(k - 1) \/ i = k
    BY <1>1, <2>2
  <2> QED
    BY <1>2, <2>1, <2>3 DEF order
<1>6. ASSUME "configuration" \in DOMAIN dir, dir["configuration"].state = "imported"
      PROVE  e.kind = "from_outputs" /\ \E h \in Prepared(e) : Holds(dir, n, h)
  <2>1. PICK c \in 1..Len(order) : order[c] = "configuration"
    BY <1>1
  <2>2. c \in 1..k
    BY <1>1, <1>6, <2>1 DEF order
  <2>3. dir["configuration"] = Made(n, m, "configuration")
    <3>1. c \in 1..(k - 1) \/ c = k
      BY <1>1, <2>2
    <3>2. dir["configuration"].state # "partial"
      BY <1>6
    <3> QED
      BY <2>1, <3>1, <3>2 DEF order
  <2>4. "configuration" \in DOMAIN m
    BY <1>6, <2>3 DEF Made, Fixture, File
  <2>5. e.kind = "from_outputs" /\ m \in Prepared(e)
    BY <2>4 DEF MadeOf, Nothing
  <2>6. DOMAIN m = Sources /\ order = ImportOrder
    BY <1>1, <2>5, PreparedFiles
  <2>7. c = 5
    <3>1. order[5] = "configuration" /\ 5 \in 1..Len(order)
      BY <1>1, <2>6, OrdersListed DEF OrderOK
    <3> QED
      BY <1>1, <2>1, <3>1
  <2>8. ASSUME NEW f \in Sources PROVE f \in DOMAIN dir /\ dir[f] = File(n, "imported", m[f])
    <3>1. PICK i \in 1..5 : order[i] = f
      BY <2>6, ImportFirst
    <3>2. i \in 1..Len(order) /\ i \in 1..k
      BY <1>1, <2>2, <2>7
    <3>3. f \in DOMAIN dir
      BY <3>1, <3>2 DEF order
    <3>4. dir[f] = Made(n, m, f)
      <4>1. CASE i = 5
        BY <2>1, <2>3, <2>7, <3>1, <4>1
      <4>2. CASE i # 5
        <5>1. i \in 1..(k - 1)
          BY <1>1, <2>2, <2>7, <4>2
        <5> QED
          BY <3>1, <5>1 DEF order
      <4> QED
        BY <4>1, <4>2
    <3> QED
      BY <2>6, <3>3, <3>4 DEF Made
  <2> QED
    BY <2>5, <2>8 DEF Holds
<1>7. \A f \in DOMAIN dir : dir[f].by \in {0, n}
  BY <1>3
<1> QED
  BY <1>4, <1>5, <1>6, <1>7 DEF Rests, order

-----------------------------------------------------------------------------
(* What an import has accepted                                             *)

\* The configuration is valid, and the files fit each other.
LEMMA PreparedIs ==
  ASSUME NEW e, NEW m \in Prepared(e)
  PROVE  /\ m.dataset = e.dataset /\ m.schema.form = "valid" /\ Valid(m.configuration)
         /\ \E s \in AcceptedSources(e) :
               /\ m.configuration = Configured(Requested(e), s.fields)
               /\ \A v \in BothVariants : m[v] = s[v]
               /\ ValidSelection(Requested(e), e.schema.properties, ValuesIn(s))
BY DEF Prepared, BothVariants

\* Its dataset and its outputs.
LEMMA SourcesAre ==
  ASSUME NEW e, NEW s \in AcceptedSources(e)
  PROVE  /\ s.lines = DatasetLines(s.fields, e.dataset)
         /\ ValidLines(s.lines) /\ Consistent(s.lines)
         /\ \A v \in BothVariants : s[v] \in ReadExport(e.outputs[v], e.output_fields,
                                               {LineId(line) : line \in ToSet(s.lines)})
<1>1. PICK d \in AcceptedDataset(e) :
          \E b \in Exported(e, d, "baseline"), c \in Exported(e, d, "candidate") :
              s = [fields |-> d.fields, lines |-> d.lines, baseline |-> b, candidate |-> c]
  BY DEF AcceptedSources
<1>2. d.lines = DatasetLines(d.fields, e.dataset) /\ ValidLines(d.lines) /\ Consistent(d.lines)
  BY DEF AcceptedDataset
<1>3. /\ s.fields = d.fields /\ s.lines = d.lines
      /\ \A v \in BothVariants : s[v] \in Exported(e, d, v)
  BY <1>1 DEF BothVariants
<1> QED
  BY <1>2, <1>3 DEF Exported

\* An export is read in one of two formats.
LEMMA ExportIs ==
  ASSUME NEW lines, NEW fields, NEW known, NEW file \in ReadExport(lines, fields, known)
  PROVE  /\ Recordable(file, known)
         /\ \/ file = [i \in DOMAIN lines |-> EnvelopeIn(lines[i])]
            \/ \E first :
                 /\ file = [i \in DOMAIN lines |->
                               SimpleRow(InferredOutput(first, fields), lines[i])]
                 /\ \A i \in DOMAIN lines :
                       ValidSimple(InferredOutput(first, fields), lines[i])
BY DEF ReadExport

-----------------------------------------------------------------------------
\* The n-th elements of a set of positions are all of them, each once.
LEMMA NthBijection ==
  ASSUME NEW n \in Nat, NEW s \in SUBSET (1..n)
  PROVE  /\ Cardinality(s) \in 0..n /\ IsFiniteSet(s)
         /\ [k \in 1..Cardinality(s) |-> Nth(s, k)] \in Bijection(1..Cardinality(s), s)
<1> DEFINE c == Cardinality(s)
           rank == [i \in s |-> Cardinality(NotBeyond(s, i))]
           nth == [k \in 1..c |-> Nth(s, k)]
<1>1. IsFiniteSet(1..n) /\ Cardinality(1..n) = n
  BY FS_Interval
<1>2. IsFiniteSet(s) /\ c \in 0..n
  <2>1. IsFiniteSet(s) /\ c <= n
    BY <1>1, FS_Subset
  <2>2. c \in Nat
    BY <2>1, FS_CardinalityType
  <2> QED
    BY <2>1, <2>2
<1>3. IsFiniteSet(1..c) /\ Cardinality(1..c) = c
  BY <1>2, FS_Interval
<1>4. \A i \in s : Cardinality(NotBeyond(s, i)) \in 1..c
                   /\ Nth(s, Cardinality(NotBeyond(s, i))) = i
  BY NthIs, Zenon
<1>5. rank \in Injection(s, 1..c)
  <2>1. rank \in [s -> 1..c]
    BY <1>4
  <2>2. ASSUME NEW i \in s, NEW j \in s, rank[i] = rank[j] PROVE i = j
    BY <1>4, <2>2
  <2> HIDE DEF rank
  <2> QED
    BY <2>1, <2>2 DEF Injection, IsInjective
<1>6. rank \in Surjection(s, 1..c)
  <2> HIDE DEF rank
  <2> QED
    BY <1>3, <1>5, FS_Injection
<1>7. \A k \in 1..c : \E i \in s : rank[i] = k
  <2> HIDE DEF rank
  <2> QED
    BY <1>6 DEF Surjection
<1>8. \A k \in 1..c : \E i \in s : Nth(s, k) = i /\ Cardinality(NotBeyond(s, i)) = k
  BY <1>4, <1>7
<1>9. nth \in [1..c -> s]
  BY <1>8
<1>10. \A i \in s : \E k \in 1..c : nth[k] = i
  BY <1>4
<1>11. \A k, l \in 1..c : nth[k] = nth[l] => k = l
  BY <1>8
<1> HIDE DEF nth
<1>12. nth \in Bijection(1..c, s)
  BY <1>9, <1>10, <1>11 DEF Bijection, Injection, Surjection, IsInjective
<1> QED
  BY <1>2, <1>12 DEF nth

-----------------------------------------------------------------------------
(* The evaluators that are chosen                                          *)

\* One sequence after another.
LEMMA Joined ==
  ASSUME NEW s, NEW t, Sequential(s), Sequential(t)
  PROVE  /\ Sequential(s \o t) /\ Len(s \o t) = Len(s) + Len(t)
         /\ Len(s) \in Nat /\ DOMAIN s = 1..Len(s) /\ Len(t) \in Nat /\ DOMAIN t = 1..Len(t)
         /\ \A i \in 1..Len(s) : (s \o t)[i] = s[i]
         /\ \A i \in 1..Len(t) : (s \o t)[Len(s) + i] = t[i]
<1> DEFINE S == ToSet(s) \cup ToSet(t)
           u == s \o t
<1>1. s \in Seq(ToSet(s)) /\ t \in Seq(ToSet(t))
  BY DEF Sequential
<1>2. s \in Seq(S) /\ t \in Seq(S)
  BY <1>1, SeqMonotonic
<1> HIDE DEF S
<1>3. /\ Len(s) \in Nat /\ DOMAIN s = 1..Len(s)
      /\ Len(t) \in Nat /\ DOMAIN t = 1..Len(t)
  BY <1>1, LenProperties
<1>4. /\ u \in Seq(S) /\ Len(u) = Len(s) + Len(t)
      /\ \A i \in 1..(Len(s) + Len(t)) : u[i] = IF i <= Len(s) THEN s[i] ELSE t[i - Len(s)]
  BY <1>2, ConcatProperties
<1> HIDE DEF u
<1>5. DOMAIN u = 1..Len(u) /\ u \in [1..Len(u) -> S] /\ Len(u) \in Nat
  BY <1>4, LenProperties
<1>6. Sequential(u)
  <2>1. u = [i \in 1..Len(u) |-> u[i]]
    BY <1>5
  <2> QED
    BY <1>5, <2>1, FunctionIsSequence
<1>7. ASSUME NEW i \in 1..Len(s) PROVE u[i] = s[i]
  <2>1. i \in 1..(Len(s) + Len(t)) /\ i <= Len(s)
    BY <1>3
  <2> QED
    BY <1>4, <2>1
<1>8. ASSUME NEW i \in 1..Len(t) PROVE u[Len(s) + i] = t[i]
  <2>1. /\ Len(s) + i \in 1..(Len(s) + Len(t)) /\ ~(Len(s) + i <= Len(s))
        /\ (Len(s) + i) - Len(s) = i
    BY <1>3
  <2> QED
    BY <1>4, <2>1
<1> QED
  BY <1>3, <1>4, <1>6, <1>7, <1>8 DEF u

\* None and one are sequences.
LEMMA ShortSequences ==
  /\ Sequential(<<>>) /\ Len(<<>>) = 0
  /\ \A x : Sequential(<<x>>) /\ Len(<<x>>) = 1 /\ <<x>>[1] = x
<1>1. Sequential(<<>>) /\ Len(<<>>) = 0
  BY EmptySeq DEF Sequential
<1>2. ASSUME NEW x PROVE Sequential(<<x>>) /\ Len(<<x>>) = 1 /\ <<x>>[1] = x
  <2>1. <<x>> = [i \in 1..1 |-> <<x>>[i]]
    OBVIOUS
  <2> QED
    BY <2>1, FunctionIsSequence
<1> QED
  BY <1>1, <1>2

\* So are the evaluators of an import, in each of its parts.
LEMMA PartsSequential ==
  ASSUME NEW e, Sequential(e.field_evaluators), Sequential(e.keyed_arrays)
  PROVE  /\ Sequential(EvaluatorsOfValues(e))
         /\ Sequential(EvaluatorsOfFields(e))
         /\ Len(EvaluatorsOfFields(e)) = Len(e.field_evaluators)
         /\ Sequential(EvaluatorsOfArrays(e))
         /\ Len(EvaluatorsOfArrays(e)) = Len(e.keyed_arrays)
         /\ Sequential(EvaluatorsOfTotals(e))
         /\ DOMAIN e.field_evaluators = 1..Len(e.field_evaluators)
         /\ DOMAIN e.keyed_arrays = 1..Len(e.keyed_arrays)
         /\ Len(e.field_evaluators) \in Nat /\ Len(e.keyed_arrays) \in Nat
<1>1. /\ DOMAIN e.field_evaluators = 1..Len(e.field_evaluators)
      /\ DOMAIN e.keyed_arrays = 1..Len(e.keyed_arrays)
      /\ Len(e.field_evaluators) \in Nat /\ Len(e.keyed_arrays) \in Nat
  BY LenProperties DEF Sequential
<1>2. Sequential(EvaluatorsOfFields(e)) /\ Len(EvaluatorsOfFields(e)) = Len(e.field_evaluators)
  <2> DEFINE s == EvaluatorsOfFields(e)
  <2>1. s = [i \in 1..Len(e.field_evaluators) |-> s[i]]
    BY <1>1 DEF EvaluatorsOfFields
  <2> HIDE DEF s
  <2> QED
    BY <1>1, <2>1, FunctionIsSequence DEF s
<1>3. Sequential(EvaluatorsOfArrays(e)) /\ Len(EvaluatorsOfArrays(e)) = Len(e.keyed_arrays)
  <2> DEFINE s == EvaluatorsOfArrays(e)
  <2>1. s = [i \in 1..Len(e.keyed_arrays) |-> s[i]]
    BY <1>1 DEF EvaluatorsOfArrays
  <2> HIDE DEF s
  <2> QED
    BY <1>1, <2>1, FunctionIsSequence DEF s
<1>4. Sequential(EvaluatorsOfTotals(e))
  BY ShortSequences DEF EvaluatorsOfTotals
<1>5. Sequential(EvaluatorsOfValues(e))
  BY ShortSequences, Joined DEF EvaluatorsOfValues
<1> QED
  BY <1>1, <1>2, <1>3, <1>4, <1>5

\* And in all of them.
LEMMA ChosenSequential ==
  ASSUME NEW e, Sequential(e.field_evaluators), Sequential(e.keyed_arrays)
  PROVE  Sequential(ChosenEvaluators(e))
<1>1. Sequential(EvaluatorsOfValues(e) \o EvaluatorsOfFields(e))
  BY PartsSequential, Joined
<1>2. Sequential((EvaluatorsOfValues(e) \o EvaluatorsOfFields(e)) \o EvaluatorsOfArrays(e))
  BY <1>1, PartsSequential, Joined
<1> QED
  BY <1>2, PartsSequential, Joined DEF ChosenEvaluators

\* Where whole values are not compared, fields come first, then arrays, and at
\* last the totals of an invoice.
LEMMA ChosenByRules ==
  ASSUME NEW e, Sequential(e.field_evaluators), Sequential(e.keyed_arrays),
         e.exact_json = FALSE, e.correctness_pointers = <<>>
  PROVE  LET s == ChosenEvaluators(e)
             n == Len(e.field_evaluators)
             m == Len(e.keyed_arrays)
         IN  /\ n \in Nat /\ m \in Nat /\ Len(s) \in Nat /\ n + m <= Len(s)
             /\ DOMAIN s = 1..Len(s)
             /\ \A i \in 1..n : \E id : s[i] = FieldEvaluator(e.field_evaluators[i], id)
             /\ \A i \in 1..m : \E id : s[n + i] = KeyedEvaluator(e.keyed_arrays[i], id)
             /\ \A k \in (n + m + 1)..Len(s) : s[k].kind = "financial_invariants"
<1> DEFINE f == EvaluatorsOfFields(e)
           a == EvaluatorsOfArrays(e)
           t == EvaluatorsOfTotals(e)
           n == Len(e.field_evaluators)
           m == Len(e.keyed_arrays)
<1>1. /\ Sequential(f) /\ Len(f) = n /\ Sequential(a) /\ Len(a) = m /\ Sequential(t)
      /\ n \in Nat /\ m \in Nat
      /\ DOMAIN e.field_evaluators = 1..n /\ DOMAIN e.keyed_arrays = 1..m
  BY PartsSequential
<1>2. EvaluatorsOfValues(e) = <<>> \o <<>>
  BY DEF EvaluatorsOfValues
<1>3. <<>> \o <<>> = <<>> /\ <<>> \o f = f
  <2>1. f \in Seq(ToSet(f))
    BY <1>1 DEF Sequential
  <2> HIDE DEF f
  <2> QED
    BY <2>1, EmptySeq, ConcatEmptySeq
<1>4. ChosenEvaluators(e) = (f \o a) \o t
  <2>1. EvaluatorsOfValues(e) \o f = f
    BY <1>2, <1>3
  <2> QED
    BY <2>1 DEF ChosenEvaluators
<1>5. ASSUME NEW i \in 1..n PROVE \E id : f[i] = FieldEvaluator(e.field_evaluators[i], id)
  BY <1>1 DEF EvaluatorsOfFields
<1>6. ASSUME NEW i \in 1..m PROVE \E id : a[i] = KeyedEvaluator(e.keyed_arrays[i], id)
  BY <1>1 DEF EvaluatorsOfArrays
<1>7. ASSUME NEW i \in 1..Len(t) PROVE t[i].kind = "financial_invariants"
  <2>1. t # <<>>
    BY ShortSequences, <1>7
  <2>2. t = <<Named("financial_invariants", "financial_invariants",
                    CHOOSE x \in e.financial : TRUE)>>
    BY <2>1 DEF EvaluatorsOfTotals
  <2>3. i = 1
    BY <2>2, ShortSequences, <1>7
  <2> QED
    BY <2>2, <2>3, ShortSequences DEF Named, And
<1> HIDE DEF f, a, t, n, m
<1> DEFINE g == f \o a
           s == g \o t
<1>8. /\ Sequential(g) /\ Len(g) = n + m
      /\ \A i \in 1..n : g[i] = f[i]
      /\ \A i \in 1..m : g[n + i] = a[i]
  BY <1>1, Joined
<1> HIDE DEF g
<1>9. /\ Sequential(s) /\ Len(s) = n + m + Len(t) /\ Len(t) \in Nat
      /\ \A i \in 1..(n + m) : s[i] = g[i]
      /\ \A i \in 1..Len(t) : s[n + m + i] = t[i]
  BY <1>1, <1>8, Joined
<1> HIDE DEF s
<1>10. DOMAIN s = 1..Len(s)
  BY <1>9, LenProperties DEF Sequential
<1>11. ASSUME NEW i \in 1..n PROVE \E id : s[i] = FieldEvaluator(e.field_evaluators[i], id)
  <2>1. i \in 1..(n + m)
    BY <1>1
  <2>2. s[i] = f[i]
    BY <1>8, <1>9, <2>1
  <2> QED
    BY <1>5, <2>2
<1>12. ASSUME NEW i \in 1..m PROVE \E id : s[n + i] = KeyedEvaluator(e.keyed_arrays[i], id)
  <2>1. n + i \in 1..(n + m)
    BY <1>1
  <2>2. s[n + i] = a[i]
    BY <1>8, <1>9, <2>1
  <2> QED
    BY <1>6, <2>2
<1>13. ASSUME NEW k \in (n + m + 1)..Len(s) PROVE s[k].kind = "financial_invariants"
  <2>1. k - (n + m) \in 1..Len(t) /\ n + m + (k - (n + m)) = k
    BY <1>1, <1>9
  <2>2. s[k] = t[k - (n + m)]
    BY <1>9, <2>1
  <2> QED
    BY <1>7, <2>1, <2>2
<1>14. n + m <= Len(s) /\ Len(s) \in Nat
  BY <1>1, <1>9
<1> QED
  BY <1>1, <1>4, <1>10, <1>11, <1>12, <1>13, <1>14 DEF s, g, n, m

-----------------------------------------------------------------------------
(* What rules make of the evaluators                                       *)

\* The members that all evaluators have,
LEMMA NamedIs ==
  \A id, kind, options :
      /\ Named(id, kind, options).id = id
      /\ Named(id, kind, options).kind = kind
      /\ Named(id, kind, options).implementation =
             [sources |-> "within", digest |-> {}, paths |-> {}]
BY DEF Named, And

\* and those of its kind.
LEMMA NamedOptions ==
  \A id, kind, options, x :
      x \in DOMAIN options /\ x \notin {"id", "kind", "implementation"} =>
          /\ x \in DOMAIN Named(id, kind, options)
          /\ Named(id, kind, options)[x] = options[x]
BY DEF Named, And

\* What a field evaluator is for a rule, before it is adjusted.
LEMMA FieldIs ==
  ASSUME NEW f, NEW id, f.kind \in FieldKinds
  PROVE  LET e == FieldEvaluator(f, id) IN
         /\ f.kind = "exact" => e.kind = "json_pointer_exact" /\ e.pairs = {Both(f.pointer)}
         /\ f.kind \in TextKinds =>
               /\ e.kind = f.kind /\ e.pointer = f.pointer
               /\ e.case_insensitive = TRUE /\ "case_insensitive" \in DOMAIN e
         /\ f.kind \in {"exact_integer", "decimal_exact", "decimal_tolerance"} =>
               e.kind = "numeric_tolerance" /\ e.pointer = f.pointer
<1> DEFINE e == FieldEvaluator(f, id)
<1>1. CASE f.kind = "exact"
  <2> DEFINE o == [pairs |-> {Both(f.pointer)}]
  <2>1. e = Named(id, "json_pointer_exact", o)
    BY <1>1 DEF FieldEvaluator, TextKinds
  <2>2. DOMAIN o = {"pairs"} /\ o.pairs = {Both(f.pointer)}
    OBVIOUS
  <2> HIDE DEF e, o
  <2>3. e.kind = "json_pointer_exact"
    BY <2>1, NamedIs
  <2>4. e.pairs = {Both(f.pointer)}
    BY <2>1, <2>2, NamedOptions
  <2> QED
    BY <1>1, <2>3, <2>4 DEF TextKinds, e
<1>2. CASE f.kind \in TextKinds
  <2> DEFINE o == And(Both(f.pointer), [case_insensitive |-> TRUE, formats |-> f.formats])
  <2>1. e = Named(id, f.kind, o)
    BY <1>2 DEF FieldEvaluator, TextKinds
  <2>2. /\ {"pointer", "case_insensitive"} \subseteq DOMAIN o
        /\ o.pointer = f.pointer /\ o.case_insensitive = TRUE
    BY DEF And, Both
  <2> HIDE DEF o, e
  <2>3. /\ e.kind = f.kind /\ e.pointer = f.pointer
        /\ e.case_insensitive = TRUE /\ "case_insensitive" \in DOMAIN e
    BY <2>1, <2>2, NamedIs, NamedOptions
  <2> QED
    BY <1>2, <2>3 DEF TextKinds, e
<1>3. CASE f.kind \in {"exact_integer", "decimal_exact", "decimal_tolerance"}
  <2> DEFINE a == CASE f.kind = "exact_integer" -> {}
                    [] f.kind = "decimal_exact" -> {Numeral("plain", 0)}
                    [] f.kind = "decimal_tolerance" -> f.tolerance
             o == And(Both(f.pointer), [relative |-> {}, exact_integer |-> f.kind = "exact_integer",
                                        absolute |-> a])
  <2>1. e = Named(id, "numeric_tolerance", o)
    BY <1>3 DEF FieldEvaluator, TextKinds
  <2> HIDE DEF a
  <2>2. "pointer" \in DOMAIN o /\ o.pointer = f.pointer
    BY DEF And, Both
  <2> HIDE DEF o, e
  <2>3. e.kind = "numeric_tolerance" /\ e.pointer = f.pointer
    BY <2>1, <2>2, NamedIs, NamedOptions
  <2> QED
    BY <1>3, <2>3 DEF TextKinds, e
<1> QED
  BY <1>1, <1>2, <1>3 DEF FieldKinds, TextKinds

\* The evaluator of an ordinary rule, when it is adjusted, keeps its id, is as
\* valid as it was, and means what the rule says.
LEMMA AdjustedIs ==
  ASSUME NEW rule, "kind" \in DOMAIN rule, ~IsKeyed(rule), NEW id,
         rule.kind = "normalized_string" => rule.case_insensitive \in BOOLEAN,
         AsField(rule).kind \in FieldKinds
  PROVE  LET e == FieldEvaluator(AsField(rule), id)
             a == AdjustedTo(rule, e)
         IN  /\ a.id = e.id /\ a.kind # "financial_invariants" /\ Meant(rule, a)
             /\ ValidEvaluator(e) /\ ValidImplementation(e.implementation) =>
                    ValidEvaluator(a) /\ ValidImplementation(a.implementation)
<1> DEFINE f == AsField(rule)
           e == FieldEvaluator(f, id)
           a == AdjustedTo(rule, e)
<1>1. /\ f.kind = (IF rule.kind = "required_fields" THEN "exact" ELSE rule.kind)
      /\ f.pointer = rule.pointer
  BY DEF AsField
<1>2. /\ f.kind = "exact" => e.kind = "json_pointer_exact" /\ e.pairs = {Both(f.pointer)}
      /\ f.kind \in TextKinds =>
            /\ e.kind = f.kind /\ e.pointer = f.pointer
            /\ e.case_insensitive = TRUE /\ "case_insensitive" \in DOMAIN e
      /\ f.kind \in {"exact_integer", "decimal_exact", "decimal_tolerance"} =>
            e.kind = "numeric_tolerance" /\ e.pointer = f.pointer
  BY FieldIs
<1>3. f.kind \in FieldKinds /\ rule.kind # "keyed_array"
  BY DEF IsKeyed
<1> HIDE DEF f, e
<1>4. CASE rule.kind = "required_fields"
  <2> DEFINE o == [required |-> {rule.pointer}]
  <2>1. a = Named(e.id, "required_fields", o)
    BY <1>4 DEF AdjustedTo
  <2>o. DOMAIN o = {"required"} /\ o.required = {rule.pointer}
    OBVIOUS
  <2> HIDE DEF a, o
  <2>2. /\ a.id = e.id /\ a.kind = "required_fields" /\ a.required = {rule.pointer}
        /\ a.implementation = [sources |-> "within", digest |-> {}, paths |-> {}]
    BY <2>1, <2>o, NamedIs, NamedOptions
  <2>3. Meant(rule, a)
    BY <1>4, <2>2 DEF Meant, TextKinds
  <2>4. ValidImplementation(a.implementation)
    BY <2>2 DEF ValidImplementation
  <2>5. ASSUME ValidEvaluator(e) PROVE ValidEvaluator(a)
    <3>1. e.kind = "json_pointer_exact" /\ e.pairs = {Both(rule.pointer)}
      BY <1>1, <1>2, <1>4
    <3>2. ValidPaths(UNION {{p.pointer, p.expected_pointer} : p \in e.pairs})
      BY <2>5, <3>1 DEF ValidEvaluator, EvaluatorKinds, PairKinds, TextKinds, ExternalKinds
    <3>3. rule.pointer \in UNION {{p.pointer, p.expected_pointer} : p \in e.pairs}
      BY <3>1 DEF Both
    <3>4. ValidPaths({rule.pointer})
      BY <3>2, <3>3 DEF ValidPaths
    <3> QED
      BY <2>2, <3>4 DEF ValidEvaluator, EvaluatorKinds, PairKinds, TextKinds, ExternalKinds
  <2> QED
    BY <2>2, <2>3, <2>4, <2>5 DEF a, e, f
<1>5. CASE rule.kind = "normalized_string" /\ ~rule.case_insensitive
  <2>1. a = [e EXCEPT !.case_insensitive = FALSE]
    BY <1>5 DEF AdjustedTo
  <2>2. e.kind = "normalized_string" /\ e.pointer = rule.pointer /\ "case_insensitive" \in DOMAIN e
    BY <1>1, <1>2, <1>5 DEF TextKinds
  <2>3. /\ a.id = e.id /\ a.kind = e.kind /\ a.pointer = e.pointer
        /\ a.expected_pointer = e.expected_pointer
        /\ a.implementation = e.implementation /\ a.case_insensitive = FALSE
    BY <2>1, <2>2
  <2> HIDE DEF a
  <2>4. Meant(rule, a)
    BY <1>5, <2>2, <2>3 DEF Meant, TextKinds
  <2>5. ValidEvaluator(e) => ValidEvaluator(a)
    BY <2>2, <2>3 DEF ValidEvaluator, EvaluatorKinds, PairKinds, TextKinds, ExternalKinds
  <2> QED
    BY <2>2, <2>3, <2>4, <2>5 DEF a, e, f
<1>6. CASE /\ rule.kind # "required_fields"
           /\ ~(rule.kind = "normalized_string" /\ ~rule.case_insensitive)
  <2>1. a = e
    BY <1>6 DEF AdjustedTo
  <2>2. f.kind = rule.kind
    BY <1>1, <1>6
  <2>3. Meant(rule, e) /\ e.kind # "financial_invariants"
    BY <1>1, <1>2, <1>3, <1>6, <2>2 DEF Meant, FieldKinds, TextKinds
  <2> HIDE DEF a
  <2> QED
    BY <2>1, <2>3 DEF a, e, f
<1> QED
  BY <1>4, <1>5, <1>6

\* Everything but the evaluators is as it was, and these are as valid.
LEMMA ValidAgain ==
  ASSUME NEW c, Valid(c), NEW s, Sequential(s), Len(s) = Len(c.evaluators),
         DOMAIN s = DOMAIN c.evaluators, "evaluators" \in DOMAIN c,
         \A k \in DOMAIN s :
            /\ s[k].id = c.evaluators[k].id
            /\ ValidEvaluator(c.evaluators[k])
                  /\ ValidImplementation(c.evaluators[k].implementation)
               => ValidEvaluator(s[k]) /\ ValidImplementation(s[k].implementation)
  PROVE  Valid([c EXCEPT !.evaluators = s])
<1> DEFINE d == [c EXCEPT !.evaluators = s]
<1>1. /\ d.evaluators = s /\ d.version = c.version /\ d.project = c.project
      /\ d.variants = c.variants /\ d.primary_outcome = c.primary_outcome
      /\ d.outcomes = c.outcomes /\ d.bootstrap = c.bootstrap /\ d.limits = c.limits
      /\ d.storage = c.storage /\ d.dataset = c.dataset /\ d.schema = c.schema
      /\ d.gate_mode = c.gate_mode /\ d.report = c.report
  OBVIOUS
<1> HIDE DEF d
<1>2. Ids(s) = Ids(c.evaluators)
  BY DEF Ids
<1>3. \A k \in DOMAIN s : /\ ~Blank(c.evaluators[k].id) /\ ValidEvaluator(c.evaluators[k])
                          /\ ValidImplementation(c.evaluators[k].implementation)
  BY DEF Valid
<1>4. \A k \in DOMAIN s : ~Blank(s[k].id) /\ ValidEvaluator(s[k])
                          /\ ValidImplementation(s[k].implementation)
  BY <1>3
<1> QED
  BY <1>1, <1>2, <1>4 DEF Valid, d

\* Without rules, nothing is adjusted.
LEMMA NothingAdjusted ==
  ASSUME NEW s, Sequential(s)
  PROVE  Adjusted(s, <<>>) = s
<1>1. DOMAIN Ordinary(<<>>) = {}
  <2>1. OrdinaryAt(<<>>) = {}
    BY DEF OrdinaryAt, KeyedAt
  <2>2. Cardinality(OrdinaryAt(<<>>)) = 0
    BY <2>1, FS_EmptySet
  <2> QED
    BY <2>2 DEF Ordinary, InOrder
<1>2. s = [k \in DOMAIN s |-> s[k]]
  BY LenProperties DEF Sequential
<1> QED
  BY <1>1, <1>2 DEF Adjusted

\* What rules ask for, in two sequences.
LEMMA RequestedIs ==
  ASSUME NEW e, WellFormedImport(e), e.rules # <<>>
  PROVE  LET r == Requested(e)
             o == OrdinaryAt(e.rules)
             q == KeyedAt(e.rules)
         IN  /\ r.exact_json = FALSE /\ r.correctness_pointers = <<>>
             /\ DOMAIN e.rules = 1..Len(e.rules) /\ Len(e.rules) \in Nat
             /\ o \in SUBSET (1..Len(e.rules)) /\ q \in SUBSET (1..Len(e.rules))
             /\ o \cup q = 1..Len(e.rules) /\ o \cap q = {}
             /\ Cardinality(o) \in Nat /\ Cardinality(q) \in Nat
             /\ Sequential(r.field_evaluators) /\ Len(r.field_evaluators) = Cardinality(o)
             /\ Sequential(r.keyed_arrays) /\ Len(r.keyed_arrays) = Cardinality(q)
             /\ DOMAIN r.field_evaluators = 1..Cardinality(o)
             /\ DOMAIN r.keyed_arrays = 1..Cardinality(q)
             /\ \A k \in 1..Cardinality(o) : r.field_evaluators[k] = AsField(e.rules[Nth(o, k)])
             /\ \A k \in 1..Cardinality(q) : r.keyed_arrays[k] = e.rules[Nth(q, k)]
             /\ DOMAIN Ordinary(e.rules) = 1..Cardinality(o)
             /\ \A k \in 1..Cardinality(o) : Ordinary(e.rules)[k] = e.rules[Nth(o, k)]
<1> DEFINE r == Requested(e)
           o == OrdinaryAt(e.rules)
           q == KeyedAt(e.rules)
           f == Ordinary(e.rules)
           a == InOrder(e.rules, q)
<1>1. DOMAIN e.rules = 1..Len(e.rules) /\ Len(e.rules) \in Nat
  BY LenProperties DEF WellFormedImport, Sequential
<1>2. /\ o \in SUBSET (1..Len(e.rules)) /\ q \in SUBSET (1..Len(e.rules))
      /\ o \cup q = 1..Len(e.rules) /\ o \cap q = {}
  BY <1>1 DEF OrdinaryAt, KeyedAt
<1>3. Cardinality(o) \in Nat /\ Cardinality(q) \in Nat
  <2> HIDE DEF o, q
  <2>1. Cardinality(o) \in 0..Len(e.rules)
    BY <1>1, <1>2, NthBijection
  <2>2. Cardinality(q) \in 0..Len(e.rules)
    BY <1>1, <1>2, NthBijection
  <2> QED
    BY <1>1, <2>1, <2>2
<1>4. /\ DOMAIN f = 1..Cardinality(o)
      /\ \A k \in 1..Cardinality(o) : f[k] = e.rules[Nth(o, k)]
  BY DEF Ordinary, InOrder
<1>5. /\ a = [k \in 1..Cardinality(q) |-> a[k]]
      /\ \A k \in 1..Cardinality(q) : a[k] = e.rules[Nth(q, k)]
  BY DEF InOrder
<1>6. /\ r.exact_json = FALSE /\ r.correctness_pointers = <<>>
      /\ r.field_evaluators = [i \in DOMAIN f |-> AsField(f[i])]
      /\ r.keyed_arrays = a
  BY DEF Requested, WellFormedImport
<1> HIDE DEF r, f, a, o, q
<1>7. /\ r.field_evaluators = [k \in 1..Cardinality(o) |-> r.field_evaluators[k]]
      /\ \A k \in 1..Cardinality(o) : r.field_evaluators[k] = AsField(e.rules[Nth(o, k)])
  BY <1>4, <1>6
<1>8. /\ Sequential(r.field_evaluators) /\ Len(r.field_evaluators) = Cardinality(o)
      /\ DOMAIN r.field_evaluators = 1..Cardinality(o)
  BY <1>3, <1>7, FunctionIsSequence
<1>9. /\ Sequential(r.keyed_arrays) /\ Len(r.keyed_arrays) = Cardinality(q)
      /\ DOMAIN r.keyed_arrays = 1..Cardinality(q)
  BY <1>3, <1>5, <1>6, FunctionIsSequence
<1> QED
  BY <1>1, <1>2, <1>3, <1>4, <1>5, <1>6, <1>7, <1>8, <1>9 DEF r, f, o, q

\* What becomes of the evaluators of an import with rules.
LEMMA AdjustedByRules ==
  ASSUME NEW e, WellFormedImport(e), e.rules # <<>>, NEW m \in Prepared(e)
  PROVE  LET t == m.configuration.evaluators
             s == Adjusted(t, e.rules)
             o == OrdinaryAt(e.rules)
             q == KeyedAt(e.rules)
             n == Cardinality(o)
         IN  /\ Sequential(s) /\ Len(s) = Len(t) /\ DOMAIN s = 1..Len(s) /\ DOMAIN t = DOMAIN s
             /\ n + Cardinality(q) <= Len(s) /\ Len(s) \in Nat
             /\ \A k \in DOMAIN s :
                   /\ s[k].id = t[k].id
                   /\ ValidEvaluator(t[k]) /\ ValidImplementation(t[k].implementation)
                         => ValidEvaluator(s[k]) /\ ValidImplementation(s[k].implementation)
             /\ \A k \in 1..n :
                   s[k].kind # "financial_invariants" /\ Meant(e.rules[Nth(o, k)], s[k])
             /\ \A k \in 1..Cardinality(q) :
                   /\ s[n + k].kind # "financial_invariants"
                   /\ Meant(e.rules[Nth(q, k)], s[n + k])
             /\ \A k \in (n + Cardinality(q) + 1)..Len(s) : s[k].kind = "financial_invariants"
<1> DEFINE c == m.configuration
           t == c.evaluators
           s == Adjusted(t, e.rules)
           r == Requested(e)
           o == OrdinaryAt(e.rules)
           q == KeyedAt(e.rules)
           n == Cardinality(o)
           z == Cardinality(q)
           f == Ordinary(e.rules)
<1>1. PICK source \in AcceptedSources(e) :
          /\ c = Configured(r, source.fields)
          /\ ValidSelection(r, e.schema.properties, ValuesIn(source))
  BY PreparedIs
<1>2. t = ChosenEvaluators(r)
  BY <1>1 DEF Configured
<1> HIDE DEF c, r
<1>3. /\ r.exact_json = FALSE /\ r.correctness_pointers = <<>>
      /\ Sequential(r.field_evaluators) /\ Len(r.field_evaluators) = n
      /\ Sequential(r.keyed_arrays) /\ Len(r.keyed_arrays) = z
      /\ n \in Nat /\ o \in SUBSET (1..Len(e.rules))
      /\ z \in Nat /\ q \in SUBSET (1..Len(e.rules))
      /\ Len(e.rules) \in Nat /\ DOMAIN e.rules = 1..Len(e.rules)
      /\ DOMAIN r.field_evaluators = 1..n /\ DOMAIN f = 1..n
      /\ \A k \in 1..n : r.field_evaluators[k] = AsField(e.rules[Nth(o, k)])
      /\ \A k \in 1..z : r.keyed_arrays[k] = e.rules[Nth(q, k)]
      /\ \A k \in 1..n : f[k] = e.rules[Nth(o, k)]
  BY RequestedIs DEF r
<1> HIDE DEF n, f, z
<1>4. /\ Sequential(t) /\ DOMAIN t = 1..Len(t) /\ Len(t) \in Nat /\ n + z <= Len(t)
      /\ \A k \in 1..n : \E id : t[k] = FieldEvaluator(r.field_evaluators[k], id)
      /\ \A k \in 1..z : \E id : t[n + k] = KeyedEvaluator(r.keyed_arrays[k], id)
      /\ \A k \in (n + z + 1)..Len(t) : t[k].kind = "financial_invariants"
  <2>1. Sequential(t)
    BY <1>2, <1>3, ChosenSequential
  <2>2. LET u == ChosenEvaluators(r)
            i == Len(r.field_evaluators)
            j == Len(r.keyed_arrays)
        IN  /\ i \in Nat /\ j \in Nat /\ Len(u) \in Nat /\ i + j <= Len(u)
            /\ DOMAIN u = 1..Len(u)
            /\ \A k \in 1..i : \E id : u[k] = FieldEvaluator(r.field_evaluators[k], id)
            /\ \A k \in 1..j : \E id : u[i + k] = KeyedEvaluator(r.keyed_arrays[k], id)
            /\ \A k \in (i + j + 1)..Len(u) : u[k].kind = "financial_invariants"
    BY <1>3, ChosenByRules
  <2> HIDE DEF t
  <2> QED
    BY <1>2, <1>3, <2>1, <2>2
<1>5. \A k \in 1..n : Nth(o, k) \in o
  <2>1. [i \in 1..n |-> Nth(o, i)] \in Bijection(1..n, o)
    BY <1>3, NthBijection DEF n
  <2> QED
    BY <2>1 DEF Bijection, Injection
<1>6. \A k \in 1..z : Nth(q, k) \in q
  <2>1. [i \in 1..z |-> Nth(q, i)] \in Bijection(1..z, q)
    BY <1>3, NthBijection DEF z
  <2> QED
    BY <2>1 DEF Bijection, Injection
<1>7. ASSUME NEW k \in 1..n
      PROVE  LET a == AdjustedTo(f[k], t[k]) IN
             /\ a.id = t[k].id /\ a.kind # "financial_invariants" /\ Meant(f[k], a)
             /\ ValidEvaluator(t[k]) /\ ValidImplementation(t[k].implementation)
                   => ValidEvaluator(a) /\ ValidImplementation(a.implementation)
  <2>1. /\ f[k] = e.rules[Nth(o, k)] /\ Nth(o, k) \in DOMAIN e.rules /\ ~IsKeyed(f[k])
    BY <1>3, <1>5 DEF o, OrdinaryAt, KeyedAt
  <2>2. /\ "kind" \in DOMAIN f[k]
        /\ f[k].kind = "normalized_string" => f[k].case_insensitive \in BOOLEAN
    <3>1. f[k] \in ToSet(e.rules)
      BY <2>1 DEF ToSet
    <3> QED
      BY <3>1 DEF WellFormedImport
  <2>3. AsField(f[k]).kind \in FieldKinds
    <3>1. AsField(f[k]) \in ToSet(r.field_evaluators)
      BY <1>3, <2>1 DEF ToSet
    <3> QED
      BY <1>1, <3>1 DEF ValidSelection, r
  <2>4. PICK id : t[k] = FieldEvaluator(AsField(f[k]), id)
    <3>1. r.field_evaluators[k] = AsField(f[k])
      BY <1>3, <2>1
    <3> HIDE DEF t
    <3> QED
      BY <1>4, <3>1
  <2> HIDE DEF t
  <2> QED
    BY <2>1, <2>2, <2>3, <2>4, AdjustedIs
<1> HIDE DEF t
<1>8. /\ s = [k \in 1..Len(t) |-> s[k]]
      /\ \A k \in 1..n : s[k] = AdjustedTo(f[k], t[k])
      /\ \A k \in 1..Len(t) : k \notin 1..n => s[k] = t[k]
  BY <1>3, <1>4 DEF Adjusted, f
<1> HIDE DEF s
<1>9. Sequential(s) /\ Len(s) = Len(t) /\ DOMAIN s = 1..Len(t)
  BY <1>4, <1>8, FunctionIsSequence
<1>10. \A k \in DOMAIN s :
          /\ s[k].id = t[k].id
          /\ ValidEvaluator(t[k]) /\ ValidImplementation(t[k].implementation)
                => ValidEvaluator(s[k]) /\ ValidImplementation(s[k].implementation)
  BY <1>7, <1>8, <1>9
<1>11. \A k \in 1..n : s[k].kind # "financial_invariants" /\ Meant(e.rules[Nth(o, k)], s[k])
  BY <1>3, <1>7, <1>8
<1>12. ASSUME NEW k \in 1..z
       PROVE  s[n + k].kind # "financial_invariants" /\ Meant(e.rules[Nth(q, k)], s[n + k])
  <2> DEFINE rule == e.rules[Nth(q, k)]
  <2>1. n + k \in 1..Len(t) /\ n + k \notin 1..n
    BY <1>3, <1>4
  <2>2. PICK id : s[n + k] = KeyedEvaluator(rule, id)
    BY <1>3, <1>4, <1>8, <2>1
  <2>3. rule.kind = "keyed_array"
    BY <1>6 DEF q, KeyedAt, IsKeyed
  <2>4. s[n + k].kind = "keyed_array" /\ s[n + k].pointer = rule.pointer
    <3> HIDE DEF rule
    <3> DEFINE options == And(Both(rule.pointer),
            [keys |-> {y.pointer : y \in rule.keys},
             key_fields |-> UNION {{Compare(y.pointer, x, {}) : x \in y.comparator} :
                                   y \in rule.keys},
             fields |-> IF rule.fields = {} THEN {Compare(y.pointer, "exact", {}) : y \in rule.keys}
                        ELSE {Compare(y.pointer, y.evaluator, y.absolute) : y \in rule.fields}])
    <3>1. s[n + k] = Named(id, "keyed_array", options)
      BY <2>2 DEF KeyedEvaluator
    <3>2. "pointer" \in DOMAIN options /\ options.pointer = rule.pointer
      BY DEF And, Both
    <3> HIDE DEF options
    <3> QED
      BY <3>1, <3>2, NamedIs, NamedOptions
  <2> HIDE DEF rule
  <2>5. Meant(rule, s[n + k])
    BY <2>3, <2>4 DEF Meant, TextKinds
  <2> QED
    BY <2>4, <2>5 DEF rule
<1>13. \A k \in (n + z + 1)..Len(s) : s[k].kind = "financial_invariants"
  <2>1. ASSUME NEW k \in (n + z + 1)..Len(s) PROVE k \in 1..Len(t) /\ k \notin 1..n
    BY <1>3, <1>4, <1>9
  <2> QED
    BY <1>4, <1>8, <1>9, <2>1
<1> QED
  BY <1>3, <1>4, <1>9, <1>10, <1>11, <1>12, <1>13 DEF n, z, s, t, c

\* What is configured for an import is, once it has been adjusted, as valid as
\* it was.
LEMMA AdjustedValid ==
  ASSUME NEW e, WellFormedImport(e), NEW m \in Prepared(e)
  PROVE  LET c == m.configuration IN
         Valid([c EXCEPT !.evaluators = Adjusted(c.evaluators, e.rules)])
<1> DEFINE c == m.configuration
           t == c.evaluators
           s == Adjusted(t, e.rules)
<1>1. PICK source \in AcceptedSources(e) : c = Configured(Requested(e), source.fields)
  BY PreparedIs
<1>2. Valid(c)
  BY PreparedIs
<1>3. "evaluators" \in DOMAIN c /\ t = ChosenEvaluators(Requested(e))
  BY <1>1 DEF Configured
<1> HIDE DEF c
<1>4. CASE e.rules = <<>>
  <2>1. Requested(e) = e
    BY <1>4 DEF Requested
  <2>2. Sequential(t)
    BY <1>3, <2>1, ChosenSequential DEF WellFormedImport
  <2>3. s = t
    BY <1>4, <2>2, NothingAdjusted
  <2>4. Valid([c EXCEPT !.evaluators = t])
    BY <1>2, <1>3, <2>2, ValidAgain
  <2> QED
    BY <2>3, <2>4 DEF c
<1>5. CASE e.rules # <<>>
  <2>1. /\ Sequential(s) /\ Len(s) = Len(t) /\ DOMAIN t = DOMAIN s
        /\ \A k \in DOMAIN s :
              /\ s[k].id = t[k].id
              /\ ValidEvaluator(t[k]) /\ ValidImplementation(t[k].implementation)
                    => ValidEvaluator(s[k]) /\ ValidImplementation(s[k].implementation)
    BY <1>5, AdjustedByRules DEF c
  <2> HIDE DEF s
  <2> QED
    BY <1>2, <1>3, <2>1, ValidAgain DEF s, c
<1> QED
  BY <1>4, <1>5 DEF c

\* Each rule has one evaluator, and each evaluator but that of totals one rule.
LEMMA RulesPaired ==
  ASSUME NEW e, WellFormedImport(e), e.rules # <<>>, NEW m \in Prepared(e)
  PROVE  LET s == Adjusted(m.configuration.evaluators, e.rules)
             ruled == {k \in DOMAIN s : s[k].kind # "financial_invariants"}
         IN  \E rule \in Bijection(ruled, DOMAIN e.rules) :
                \A k \in ruled : Meant(e.rules[rule[k]], s[k])
<1> DEFINE s == Adjusted(m.configuration.evaluators, e.rules)
           ruled == {k \in DOMAIN s : s[k].kind # "financial_invariants"}
           o == OrdinaryAt(e.rules)
           q == KeyedAt(e.rules)
           n == Cardinality(o)
           z == Cardinality(q)
           rule == [k \in 1..(n + z) |-> IF k <= n THEN Nth(o, k) ELSE Nth(q, k - n)]
<1>1. /\ DOMAIN s = 1..Len(s) /\ n + z <= Len(s) /\ Len(s) \in Nat
      /\ \A k \in 1..n : s[k].kind # "financial_invariants" /\ Meant(e.rules[Nth(o, k)], s[k])
      /\ \A k \in 1..z : /\ s[n + k].kind # "financial_invariants"
                         /\ Meant(e.rules[Nth(q, k)], s[n + k])
      /\ \A k \in (n + z + 1)..Len(s) : s[k].kind = "financial_invariants"
  BY AdjustedByRules
<1>2. /\ n \in Nat /\ z \in Nat /\ Len(e.rules) \in Nat /\ DOMAIN e.rules = 1..Len(e.rules)
      /\ o \in SUBSET (1..Len(e.rules)) /\ q \in SUBSET (1..Len(e.rules))
      /\ o \cup q = DOMAIN e.rules /\ o \cap q = {}
  BY RequestedIs
<1>3. [k \in 1..n |-> Nth(o, k)] \in Bijection(1..n, o)
  BY <1>2, NthBijection
<1>4. [k \in 1..z |-> Nth(q, k)] \in Bijection(1..z, q)
  BY <1>2, NthBijection
<1> HIDE DEF s, o, q, n, z
<1>5. /\ \A k \in 1..n : Nth(o, k) \in o
      /\ \A k, l \in 1..n : Nth(o, k) = Nth(o, l) => k = l
      /\ \A i \in o : \E k \in 1..n : Nth(o, k) = i
  BY <1>3 DEF Bijection, Injection, Surjection, IsInjective
<1>6. /\ \A k \in 1..z : Nth(q, k) \in q
      /\ \A k, l \in 1..z : Nth(q, k) = Nth(q, l) => k = l
      /\ \A i \in q : \E k \in 1..z : Nth(q, k) = i
  BY <1>4 DEF Bijection, Injection, Surjection, IsInjective
<1>7. \A k \in 1..(n + z) : k \in 1..n \/ (~(k <= n) /\ k - n \in 1..z /\ n + (k - n) = k)
  BY <1>2
<1>8. ruled = 1..(n + z)
  <2>1. ASSUME NEW k \in 1..(n + z) PROVE k \in ruled
    <3>1. k \in DOMAIN s
      BY <1>1, <1>2
    <3> QED
      BY <1>1, <1>7, <3>1
  <2>2. ASSUME NEW k \in ruled PROVE k \in 1..(n + z)
    <3>1. k \in 1..(n + z) \/ k \in (n + z + 1)..Len(s)
      BY <1>1, <1>2
    <3> QED
      BY <1>1, <3>1
  <2> QED
    BY <2>1, <2>2
<1>9. /\ \A k \in 1..n : rule[k] = Nth(o, k)
      /\ \A k \in 1..z : rule[n + k] = Nth(q, k)
  <2>1. ASSUME NEW k \in 1..n PROVE rule[k] = Nth(o, k)
    BY <1>2
  <2>2. ASSUME NEW k \in 1..z PROVE rule[n + k] = Nth(q, k)
    <3>1. n + k \in 1..(n + z) /\ ~(n + k <= n) /\ (n + k) - n = k
      BY <1>2
    <3> QED
      BY <3>1
  <2> QED
    BY <2>1, <2>2
<1>10. \A k \in 1..(n + z) : \/ k \in 1..n /\ rule[k] = Nth(o, k)
                             \/ k - n \in 1..z /\ rule[k] = Nth(q, k - n) /\ n + (k - n) = k
  BY <1>7
<1>11. rule = [k \in 1..(n + z) |-> rule[k]]
  OBVIOUS
<1> HIDE DEF rule, ruled
<1>12. rule \in [1..(n + z) -> DOMAIN e.rules]
  BY <1>2, <1>5, <1>6, <1>10, <1>11
<1>13. ASSUME NEW k \in 1..(n + z), NEW l \in 1..(n + z), rule[k] = rule[l] PROVE k = l
  BY <1>2, <1>5, <1>6, <1>10, <1>13
<1>14. ASSUME NEW i \in DOMAIN e.rules PROVE \E k \in 1..(n + z) : rule[k] = i
  <2>1. CASE i \in o
    <3>1. PICK k \in 1..n : Nth(o, k) = i
      BY <1>5, <2>1
    <3>2. k \in 1..(n + z)
      BY <1>2
    <3> QED
      BY <1>9, <3>1, <3>2
  <2>2. CASE i \in q
    <3>1. PICK k \in 1..z : Nth(q, k) = i
      BY <1>6, <2>2
    <3>2. n + k \in 1..(n + z)
      BY <1>2
    <3> QED
      BY <1>9, <3>1, <3>2
  <2> QED
    BY <1>2, <2>1, <2>2
<1>15. rule \in Bijection(ruled, DOMAIN e.rules)
  BY <1>8, <1>12, <1>13, <1>14 DEF Bijection, Injection, Surjection, IsInjective
<1>16. \A k \in ruled : Meant(e.rules[rule[k]], s[k])
  BY <1>1, <1>8, <1>10
<1> QED
  BY <1>15, <1>16 DEF ruled, s

-----------------------------------------------------------------------------
(* The rows of an export                                                   *)

\* Which field of a line is tried: the configured one or one that is listed.
LEMMA TriedFields ==
  ASSUME NEW first, NEW configured, NEW names, Sequential(names)
  PROVE  FirstExisting(first, configured, names) \in ToSet(Tried(configured, names))
<1> DEFINE tried == Tried(configured, names)
           there == {i \in DOMAIN tried : Present(AtField(first, tried[i]))}
<1>1. Sequential(FieldList(names))
  <2> DEFINE list == FieldList(names)
  <2>1. DOMAIN names = 1..Len(names) /\ Len(names) \in Nat
    BY LenProperties DEF Sequential
  <2>2. list = [i \in 1..Len(names) |-> list[i]]
    BY <2>1 DEF FieldList
  <2> HIDE DEF list
  <2> QED
    BY <2>1, <2>2, FunctionIsSequence DEF list
<1>2. /\ Sequential(tried) /\ tried[1] = configured
      /\ Len(tried) = 1 + Len(FieldList(names)) /\ Len(FieldList(names)) \in Nat
  BY <1>1, ShortSequences, Joined DEF Tried
<1> HIDE DEF tried
<1>3. DOMAIN tried = 1..Len(tried) /\ Len(tried) \in Nat /\ 1 \in 1..Len(tried)
  BY <1>2, LenProperties DEF Sequential
<1>4. FirstExisting(first, configured, names) =
          IF there = {} THEN configured ELSE tried[Nth(there, 1)]
  BY DEF FirstExisting, tried
<1>5. ASSUME there # {} PROVE Nth(there, 1) \in DOMAIN tried
  <2>1. there \in SUBSET (1..Len(tried))
    BY <1>3
  <2> HIDE DEF there
  <2>2. /\ Cardinality(there) \in 0..Len(tried) /\ IsFiniteSet(there)
        /\ [k \in 1..Cardinality(there) |-> Nth(there, k)]
               \in Bijection(1..Cardinality(there), there)
    BY <1>3, <2>1, NthBijection
  <2>3. Cardinality(there) # 0
    BY <1>5, <2>2, FS_EmptySet
  <2>4. 1 \in 1..Cardinality(there)
    BY <1>3, <2>2, <2>3
  <2>5. Nth(there, 1) \in there
    BY <2>2, <2>4 DEF Bijection, Injection
  <2> QED
    BY <1>3, <2>1, <2>5
<1> HIDE DEF there
<1> QED
  BY <1>2, <1>3, <1>4, <1>5 DEF ToSet, tried

\* What the value of a row says, as RowsAreExported has it.
Told(v) == IF IsA(v, "text") THEN ReadText(v) ELSE v
\* Whether it is a result, a failure or a missing output.
Reported(v) ==
    CASE AtField(v, Field("status")) = Word("missing", "plain") -> "missing"
      [] AtField(v, Field("status")) \in {Word(s, "plain") : s \in {"error", "failed"}} -> "error"
      [] OTHER -> "ok"

\* A line that has become a good row, as the fields id and output say.
Says(line, row, id, output) ==
    /\ row.case_id = IdIn(AtField(line.value, id))
    /\ row.status = Reported(line.value)
    /\ row.status = "ok" => Source(row) \in {AtField(line.value, Field("parsed_output")),
                                             Told(AtField(line.value, output))}

\* Words are told apart by their base forms.
LEMMA Words ==
  /\ \A b, f, c, g : Word(b, f) = Word(c, g) => b = c
  /\ \A b, f : IsA(Word(b, f), "text") /\ Word(b, f).text[2] = b
BY DEF Word, IsA

\* A line in the format of StructTrace is not misread,
LEMMA EnvelopeSays ==
  ASSUME NEW line, EnvelopeIn(line).form = "row", Envelope(EnvelopeIn(line))
  PROVE  Says(line, EnvelopeIn(line), Field("case_id"), Field("raw_output"))
<1> DEFINE v == line.value
           row == EnvelopeIn(line)
           raw == Option(v, "raw_output")
           status == AtField(v, Field("status"))
<1>1. /\ status \in {Word(s, "plain") : s \in {"ok", "error", "missing"}}
      /\ ~Present(raw) \/ IsA(raw, "text")
      /\ row = [form |-> line.form, case_id |-> IdIn(AtField(v, Field("case_id"))),
                status |-> status.text[2],
                raw |-> IF Present(raw) THEN ReadText(raw) ELSE Absent,
                parsed |-> Option(v, "parsed_output"),
                error |-> Present(Option(v, "error")), cost |-> {}]
  <2>1. ASSUME row = [form |-> line.form], line.form \notin {"row", "oversized"} PROVE FALSE
    BY <2>1
  <2>2. row # [form |-> "malformed"]
    <3>1. [form |-> "malformed"].form = "malformed"
      OBVIOUS
    <3> QED
      BY <3>1
  <2> QED
    BY <2>1, <2>2 DEF EnvelopeIn
<1>2. /\ row.case_id = IdIn(AtField(v, Field("case_id"))) /\ row.status = status.text[2]
      /\ row.raw = (IF Present(raw) THEN ReadText(raw) ELSE Absent)
      /\ row.parsed = Option(v, "parsed_output")
  BY <1>1
<1>3. row.status = Reported(v)
  <2>1. PICK s \in {"ok", "error", "missing"} : status = Word(s, "plain")
    BY <1>1
  <2>2. row.status = s
    BY <1>2, <2>1, Words
  <2>3. status = Word("missing", "plain") <=> s = "missing"
    BY <2>1, Words
  <2>4. status \in {Word(w, "plain") : w \in {"error", "failed"}} <=> s = "error"
    BY <2>1, Words
  <2> QED
    BY <2>2, <2>3, <2>4 DEF Reported
<1>4. ASSUME row.status = "ok"
      PROVE  Source(row) \in {AtField(v, Field("parsed_output")),
                              Told(AtField(v, Field("raw_output")))}
  <2>1. Present(Source(row))
    BY <1>4 DEF Envelope
  <2> HIDE DEF row
  <2>2. CASE Present(row.raw)
    <3>1. Present(raw) /\ row.raw = ReadText(raw) /\ Source(row) = ReadText(raw)
      BY <1>2, <2>2 DEF Source, Present
    <3>2. IsA(raw, "text") /\ raw = AtField(v, Field("raw_output"))
      BY <1>1, <3>1 DEF Option, Present
    <3> QED
      BY <3>1, <3>2 DEF Told
  <2>3. CASE ~Present(row.raw)
    <3>1. Source(row) = Option(v, "parsed_output")
      BY <1>2, <2>3 DEF Source
    <3>2. Option(v, "parsed_output") = AtField(v, Field("parsed_output"))
      BY <2>1, <3>1 DEF Option, Present
    <3> QED
      BY <3>1, <3>2
  <2> QED
    BY <2>2, <2>3
<1> QED
  BY <1>2, <1>3, <1>4 DEF Says

\* and neither is one of the other format.
LEMMA SimpleSays ==
  ASSUME NEW line, NEW fields, ValidSimple(fields, line), Envelope(SimpleRow(fields, line))
  PROVE  Says(line, SimpleRow(fields, line), fields.id, fields.output)
<1> DEFINE v == line.value
           row == SimpleRow(fields, line)
           output == AtField(v, fields.output)
           status == AtField(v, Field("status"))
<1>1. /\ row.case_id = IdIn(AtField(v, fields.id)) /\ row.status = SimpleStatus(v)
      /\ row.raw = (IF IsA(output, "text") THEN ReadText(output) ELSE Absent)
      /\ row.parsed = (IF IsA(output, "text") \/ output = Null THEN Absent ELSE output)
  BY DEF SimpleRow
<1>2. SimpleStatus(v) \in {"ok", "error"}
  BY DEF ValidSimple
<1>3. SimpleStatus(v) = Reported(v)
  <2>1. CASE status = Word("missing", "plain")
    <3>1. IsA(status, "text") /\ status \notin {Word(s, "plain") : s \in {"ok", "success"}}
          /\ status \notin {Word(s, "plain") : s \in {"error", "failed"}}
      BY <2>1, Words
    <3>2. SimpleStatus(v) = "unsupported"
      BY <3>1 DEF SimpleStatus
    <3> QED
      BY <1>2, <3>2
  <2>2. CASE status \in {Word(s, "plain") : s \in {"error", "failed"}}
    <3>1. IsA(status, "text") /\ status \notin {Word(s, "plain") : s \in {"ok", "success"}}
          /\ status # Word("missing", "plain")
      BY <2>2, Words
    <3> QED
      BY <2>2, <3>1 DEF SimpleStatus, Reported
  <2>3. CASE /\ status # Word("missing", "plain")
             /\ status \notin {Word(s, "plain") : s \in {"error", "failed"}}
    <3>1. SimpleStatus(v) = "ok"
      BY <1>2, <2>3 DEF SimpleStatus
    <3> QED
      BY <2>3, <3>1 DEF Reported
  <2> QED
    BY <2>1, <2>2, <2>3
<1>4. ASSUME row.status = "ok" PROVE Source(row) = Told(output)
  <2>1. Present(Source(row))
    BY <1>4 DEF Envelope
  <2> HIDE DEF row, output
  <2> QED
    BY <1>1, <2>1 DEF Source, Present, Told
<1> QED
  BY <1>1, <1>3, <1>4 DEF Says

\* The cases cs have in the rows scored what an export says in id and output.
RowsSay(lines, cs, scored, id, output) ==
    LET Names(j, i) == IdIn(AtField(lines[j].value, id)) = <<cs[i].id, "plain">>
    IN  /\ \A j \in DOMAIN lines : \E i \in DOMAIN cs : Names(j, i)
        /\ \A i \in DOMAIN cs :
              /\ (\A j \in DOMAIN lines : ~Names(j, i)) => scored[i].status = "missing"
              /\ \A j \in DOMAIN lines : Names(j, i) =>
                    /\ scored[i].status = Reported(lines[j].value)
                    /\ scored[i].status = "ok" =>
                          scored[i].source \in {AtField(lines[j].value, Field("parsed_output")),
                                                Told(AtField(lines[j].value, output))}

\* If every line says its row, a case has the row of the line that names it.
LEMMA RowsOfLines ==
  ASSUME NEW n \in Nat, NEW lines, DOMAIN lines = 1..n, NEW file, DOMAIN file = 1..n,
         NEW cs, Recordable(file, {cs[c].id : c \in DOMAIN cs}), NEW id, NEW output,
         NEW scored, \A c \in DOMAIN cs : scored[c] = RowFor(file, cs[c]),
         \A j \in 1..n : Says(lines[j], file[j], id, output)
  PROVE  RowsSay(lines, cs, scored, id, output)
<1> DEFINE Names(j, i) == IdIn(AtField(lines[j].value, id)) = <<cs[i].id, "plain">>
<1>1. \A j \in 1..n : \A i : Names(j, i) <=> file[j].case_id = <<cs[i].id, "plain">>
  BY DEF Says
<1>2. \A j \in 1..n : \E i \in DOMAIN cs : file[j].case_id = <<cs[i].id, "plain">>
  BY DEF Recordable
<1>3. \A j, l \in 1..n : file[j].case_id = file[l].case_id => j = l
  <2>1. \A j \in 1..n : \A l \in 1..(j - 1) : file[l].case_id # file[j].case_id
    BY DEF Recordable
  <2>2. ASSUME NEW j \in 1..n, NEW l \in 1..n, j # l PROVE l \in 1..(j - 1) \/ j \in 1..(l - 1)
    BY <2>2
  <2> QED
    BY <2>1, <2>2
<1> HIDE DEF Names
<1>4. ASSUME NEW i \in DOMAIN cs, \A j \in 1..n : ~Names(j, i)
      PROVE  scored[i].status = "missing"
  <2>1. {j \in DOMAIN file : file[j].case_id = <<cs[i].id, "plain">>} = {}
    BY <1>1, <1>4
  <2>2. RowFor(file, cs[i]).status = "missing"
    BY <2>1 DEF RowFor
  <2> QED
    BY <2>2
<1>5. ASSUME NEW i \in DOMAIN cs, NEW j \in 1..n, Names(j, i)
      PROVE  scored[i].status = file[j].status /\ scored[i].source = Source(file[j])
  <2> DEFINE own == {l \in DOMAIN file : file[l].case_id = <<cs[i].id, "plain">>}
  <2>1. j \in own
    BY <1>1, <1>5
  <2>2. \A l \in own : l = j
    BY <1>3, <2>1
  <2> HIDE DEF own
  <2>3. (CHOOSE l \in own : TRUE) = j
    BY <2>1, <2>2
  <2>4. RowFor(file, cs[i]) = [status |-> file[j].status, source |-> Source(file[j])]
    BY <2>1, <2>3 DEF RowFor, own
  <2> QED
    BY <2>4
<1>6. ASSUME NEW i \in DOMAIN cs, NEW j \in 1..n, Names(j, i)
      PROVE  /\ scored[i].status = Reported(lines[j].value)
             /\ scored[i].status = "ok" =>
                   scored[i].source \in {AtField(lines[j].value, Field("parsed_output")),
                                         Told(AtField(lines[j].value, output))}
  BY <1>5, <1>6 DEF Says
<1> QED
  BY <1>1, <1>2, <1>4, <1>6 DEF RowsSay, Names

\* The names that are tried for the fields of an output.
LEMMA NamesListed == Sequential(OutputNames.id) /\ Sequential(OutputNames.output)
<1> DEFINE ids == OutputNames.id
           outputs == OutputNames.output
<1>1. ids = [i \in 1..5 |-> ids[i]] /\ outputs = [i \in 1..5 |-> outputs[i]]
  BY DEF OutputNames
<1> HIDE DEF ids, outputs
<1>2. Sequential(ids)
  BY <1>1, FunctionIsSequence
<1>3. Sequential(outputs)
  BY <1>1, FunctionIsSequence
<1> QED
  BY <1>2, <1>3 DEF ids, outputs

\* Whatever the format of an export is, its rows are scored as it has them.
LEMMA ExportedRows ==
  ASSUME NEW lines, Sequential(lines), NEW fields, NEW cs, NEW known,
         known = {cs[c].id : c \in DOMAIN cs}, NEW file \in ReadExport(lines, fields, known),
         NEW scored, \A c \in DOMAIN cs : scored[c] = RowFor(file, cs[c])
  PROVE  \E id \in {Field("case_id")} \cup ToSet(Tried(fields.id, OutputNames.id)),
            output \in {Field("raw_output")} \cup ToSet(Tried(fields.output, OutputNames.output)) :
             RowsSay(lines, cs, scored, id, output)
<1>1. DOMAIN lines = 1..Len(lines) /\ Len(lines) \in Nat
  BY LenProperties DEF Sequential
<1>2. /\ Recordable(file, known)
      /\ \/ file = [i \in DOMAIN lines |-> EnvelopeIn(lines[i])]
         \/ \E first :
              /\ file = [i \in DOMAIN lines |->
                            SimpleRow(InferredOutput(first, fields), lines[i])]
              /\ \A i \in DOMAIN lines :
                    ValidSimple(InferredOutput(first, fields), lines[i])
  BY ExportIs
<1>3. \A i \in DOMAIN file : file[i].form = "row" /\ Envelope(file[i])
  BY <1>2 DEF Recordable
<1>4. ASSUME NEW id, NEW output, DOMAIN file = 1..Len(lines),
             \A j \in 1..Len(lines) : Says(lines[j], file[j], id, output)
      PROVE  RowsSay(lines, cs, scored, id, output)
  BY <1>1, <1>2, <1>4, RowsOfLines
<1>5. CASE file = [i \in DOMAIN lines |-> EnvelopeIn(lines[i])]
  <2>1. DOMAIN file = 1..Len(lines)
    BY <1>1, <1>5
  <2>2. \A j \in 1..Len(lines) : Says(lines[j], file[j], Field("case_id"), Field("raw_output"))
    <3>1. \A j \in 1..Len(lines) : file[j] = EnvelopeIn(lines[j])
      BY <1>1, <1>5
    <3> QED
      BY <1>3, <2>1, <3>1, EnvelopeSays
  <2> QED
    BY <1>4, <2>1, <2>2
<1>6. ASSUME NEW first,
             file = [i \in DOMAIN lines |-> SimpleRow(InferredOutput(first, fields), lines[i])],
             \A i \in DOMAIN lines : ValidSimple(InferredOutput(first, fields), lines[i])
      PROVE  \E id \in ToSet(Tried(fields.id, OutputNames.id)),
                output \in ToSet(Tried(fields.output, OutputNames.output)) :
                 RowsSay(lines, cs, scored, id, output)
  <2> DEFINE f == InferredOutput(first, fields)
  <2>1. DOMAIN file = 1..Len(lines)
    BY <1>1, <1>6
  <2>2. \A j \in 1..Len(lines) : file[j] = SimpleRow(f, lines[j]) /\ ValidSimple(f, lines[j])
    BY <1>1, <1>6
  <2>3. f.id \in ToSet(Tried(fields.id, OutputNames.id))
    <3>1. f.id = FirstExisting(first, fields.id, OutputNames.id)
      BY DEF InferredOutput
    <3> QED
      BY <3>1, NamesListed, TriedFields
  <2>4. f.output \in ToSet(Tried(fields.output, OutputNames.output))
    <3>1. f.output = FirstExisting(first, fields.output, OutputNames.output)
      BY DEF InferredOutput
    <3> QED
      BY <3>1, NamesListed, TriedFields
  <2> HIDE DEF f
  <2>5. \A j \in 1..Len(lines) : Says(lines[j], file[j], f.id, f.output)
    BY <1>3, <2>1, <2>2, SimpleSays
  <2> QED
    BY <1>4, <2>1, <2>3, <2>4, <2>5
<1> QED
  BY <1>2, <1>5, <1>6

-----------------------------------------------------------------------------
(* The invariant of an import and the first run of what it wrote           *)

\* What the files of dir, by attempt n or from before, say of themselves.
OneAuthor(dir, n, e) ==
    /\ \A f \in DOMAIN dir : dir[f].by \in {0, n}
    /\ \A f \in DOMAIN dir : f \in ToSet(Order(e.kind)) => dir[f].by = n
    /\ "configuration" \in DOMAIN dir /\ dir["configuration"].state = "imported" =>
          \A f \in Sources : f \in DOMAIN dir /\ dir[f].state = "imported" /\ dir[f].by = n

\* The first run reads what import m of e has made, adjusted to the rules.
Ready(e, m) ==
    LET c == [m.configuration EXCEPT !.evaluators = Adjusted(@, e.rules)]
    IN  [config |-> c, dataset |-> DatasetLines(c.dataset.fields, m.dataset),
         schema |-> m.schema.form, outputs |-> [v \in BothVariants |-> m[v]]]

\* Attempt number attempt has begun to write.
Writing ==
    LET e     == session[attempt]
        order == Order(e.kind)
    IN  /\ attempt # 0 /\ MadeOf(e, made)
        /\ \E k \in 0..(Len(order) - 1) :
              plan = SubSeq(order, k + 1, Len(order)) /\ Wrote(directory, attempt, made, order, k)

\* Nobody is writing, and the first run has not begun.
Rest == \/ FromBefore(directory)
        \/ \E n \in 1..Len(session) : Rests(directory, n, session[n])

\* The first run is that of import m of attempt n, and has come as far as phase.
Ran(n, m) ==
    /\ session[n].kind = "from_outputs" /\ m \in Prepared(session[n])
    /\ OneAuthor(directory, n, session[n])
    /\ "configuration" \in DOMAIN directory /\ directory["configuration"].by = n
    /\ given = Ready(session[n], m) /\ DOMAIN rowsOf = BothVariants
    /\ phase \in PastDataset => cases = [i \in DOMAIN given.dataset |-> CaseOf(given.dataset[i])]
    /\ \A v \in BothVariants : phase \in Past(v) =>
          rowsOf[v] = [c \in DOMAIN cases |-> RowFor(given.outputs[v], cases[c])]
    /\ phase = "refused" =>
          \E i \in DOMAIN cases, k \in DOMAIN configuration.evaluators :
              ~GoodReference(configuration.evaluators[k], cases[i].expected)

\* Attempts write one after the other, and the first run reads one import.
ImportInvariant ==
    /\ session \in Sessions /\ attempt \in 0..Len(session) /\ phase \in Phases
    /\ plan # <<>> => phase = "onboarding" /\ Writing
    /\ plan = <<>> /\ phase = "onboarding" => Rest
    /\ phase = "onboarding" => DOMAIN rowsOf = BothVariants
    /\ phase # "onboarding" => \E n \in 1..Len(session) : \E m : Ran(n, m)

\* What is asked for is well-formed.
LEMMA SessionIs ==
  ASSUME session \in Sessions
  PROVE  /\ Len(session) \in Nat
         /\ \A n \in 1..Len(session) :
               /\ session[n].kind \in Initializations
               /\ session[n].kind = "from_outputs" => WellFormedImport(session[n])
<1>1. DOMAIN session = 1..Len(session) /\ Len(session) \in Nat
  BY SessionAssumption, LenProperties DEF Sequential
<1>2. \A n \in 1..Len(session) : session[n] \in ToSet(session)
  BY <1>1 DEF ToSet
<1> QED
  BY <1>1, <1>2, SessionAssumption DEF Initializations

\* At first nothing is written.
LEMMA ImportStarts == OnboardingInit => ImportInvariant
<1> SUFFICES ASSUME OnboardingInit PROVE ImportInvariant
  OBVIOUS
<1>1. /\ session \in Sessions /\ attempt = 0 /\ plan = <<>> /\ phase = "onboarding"
      /\ rowsOf = [v \in BothVariants |-> <<>>]
      /\ \E files \in Occupied : directory = [f \in files |-> Fixture(0)]
  BY DEF OnboardingInit
<1>2. FromBefore(directory)
  BY <1>1 DEF FromBefore
<1> QED
  BY <1>1, <1>2, SessionIs DEF ImportInvariant, Rest, Phases

\* Nothing is written unless none of the files exists.
LEMMA InitializeKeeps == ImportInvariant /\ Initialize => ImportInvariant'
<1> SUFFICES ASSUME ImportInvariant, Initialize PROVE ImportInvariant'
  OBVIOUS
<1> DEFINE e == session[attempt + 1]
           order == Order(e.kind)
           prepared == IF e.kind = "from_outputs" THEN Prepared(e) ELSE {Nothing}
           accepted == prepared # {} /\ ToSet(order) \cap DOMAIN directory = {}
<1>1. /\ phase = "onboarding" /\ plan = <<>> /\ attempt < Len(session) /\ attempt' = attempt + 1
      /\ plan' = (IF accepted THEN order ELSE <<>>)
      /\ made' = (IF accepted THEN CHOOSE m \in prepared : TRUE ELSE Nothing)
      /\ UNCHANGED <<session, directory, phase, rowsOf>>
  BY DEF Initialize, scoringVars
<1>2. /\ session \in Sessions /\ attempt \in 0..Len(session) /\ Rest /\ DOMAIN rowsOf = BothVariants
  BY <1>1 DEF ImportInvariant
<1>3. /\ attempt + 1 \in 1..Len(session) /\ attempt' \in 0..Len(session) /\ attempt' # 0
      /\ e.kind \in Initializations
  BY <1>1, <1>2, SessionIs
<1>4. Rest'
  BY <1>1, <1>2 DEF Rest
<1>5. CASE ~accepted
  <2>1. plan' = <<>>
    BY <1>1, <1>5
  <2> QED
    BY <1>1, <1>2, <1>3, <1>4, <2>1 DEF ImportInvariant
<1>6. CASE accepted
  <2>1. /\ Sequential(order) /\ DOMAIN order = 1..Len(order) /\ Len(order) \in 6..8
        /\ \E i \in 1..Len(order) : order[i] = "dataset"
        /\ \E i \in 1..Len(order) : order[i] = "configuration"
    BY <1>3, Orders
  <2>2. MadeOf(e, made')
    <3>1. made' \in prepared
      BY <1>1, <1>6
    <3> QED
      BY <3>1 DEF MadeOf
  <2> HIDE DEF e, prepared
  <2>3. \A i \in 1..Len(order) : order[i] \notin DOMAIN directory
    BY <1>6, <2>1 DEF ToSet
  <2>4. FromBefore(directory)
    <3>1. ASSUME NEW n \in 1..Len(session), Rests(directory, n, session[n]) PROVE FALSE
      <4>1. Order(session[n].kind)[1] \in {"dataset", "configuration"}
        BY <1>2, SessionIs, Orders
      <4>2. Order(session[n].kind)[1] \in DOMAIN directory
        BY <3>1 DEF Rests
      <4> QED
        BY <2>1, <2>3, <4>1, <4>2
    <3> QED
      BY <1>2, <3>1 DEF Rest
  <2>5. Wrote(directory, attempt', made', order, 0)
    BY <2>1, <2>3, <2>4 DEF Wrote, FromBefore
  <2>6. plan' = SubSeq(order, 0 + 1, Len(order))
    <3>1. plan' = order
      BY <1>1, <1>6
    <3>2. SubSeq(order, 1, Len(order)) = order
      <4> DEFINE s == SubSeq(order, 1, Len(order))
      <4>1. s = [i \in 1..Len(order) |-> order[i]]
        BY <2>1
      <4>2. order = [i \in 1..Len(order) |-> order[i]]
        BY <2>1 DEF Sequential
      <4> QED
        BY <4>1, <4>2
    <3> QED
      BY <3>1, <3>2
  <2>7. 0 \in 0..(Len(order) - 1)
    BY <2>1
  <2>8. Writing'
    BY <1>1, <1>3, <2>2, <2>5, <2>6, <2>7 DEF Writing, e
  <2>9. plan' # <<>>
    BY <1>1, <1>6, <2>1, EmptySeq
  <2> QED
    BY <1>1, <1>2, <1>3, <2>8, <2>9 DEF ImportInvariant
<1> QED
  BY <1>5, <1>6

\* The rest of an order, file by file.
LEMMA RestOfOrder ==
  ASSUME NEW s, Sequential(s), NEW k \in 0..(Len(s) - 1)
  PROVE  LET p == SubSeq(s, k + 1, Len(s)) IN
         /\ p # <<>> /\ Head(p) = s[k + 1]
         /\ Tail(p) = SubSeq(s, (k + 1) + 1, Len(s))
         /\ k + 1 = Len(s) <=> Tail(p) = <<>>
<1> DEFINE p == SubSeq(s, k + 1, Len(s))
           t == SubSeq(s, (k + 1) + 1, Len(s))
<1>1. s \in Seq(ToSet(s)) /\ Len(s) \in Nat
  BY LenProperties DEF Sequential
<1>2. /\ p \in Seq(ToSet(s)) /\ Len(p) = Len(s) - k
      /\ \A i \in 1..(Len(s) - k) : p[i] = s[k + i]
  BY <1>1
<1>3. /\ t \in Seq(ToSet(s)) /\ Len(t) = Len(s) - k - 1
      /\ \A i \in 1..(Len(s) - k - 1) : t[i] = s[k + 1 + i]
  BY <1>1
<1> HIDE DEF p, t
<1>4. p # <<>>
  BY <1>1, <1>2, EmptySeq
<1>5. /\ Head(p) = p[1] /\ Tail(p) \in Seq(ToSet(s)) /\ Len(Tail(p)) = Len(p) - 1
      /\ \A i \in 1..(Len(p) - 1) : Tail(p)[i] = p[i + 1]
  BY <1>2, <1>4, HeadTailProperties
<1>6. Tail(p) = t
  <2>1. Len(Tail(p)) = Len(t)
    BY <1>1, <1>2, <1>3, <1>5
  <2>2. ASSUME NEW i \in 1..Len(t) PROVE Tail(p)[i] = t[i]
    <3>1. /\ i \in 1..(Len(p) - 1) /\ i + 1 \in 1..(Len(s) - k) /\ i \in 1..(Len(s) - k - 1)
          /\ k + (i + 1) = k + 1 + i
      BY <1>1, <1>2, <1>3
    <3> QED
      BY <1>2, <1>3, <1>5, <3>1
  <2> QED
    BY <1>3, <1>5, <2>1, <2>2, SeqEqual
<1>7. Head(p) = s[k + 1]
  BY <1>1, <1>2, <1>5
<1>8. k + 1 = Len(s) <=> t = <<>>
  BY <1>1, <1>3, EmptySeq
<1> QED
  BY <1>4, <1>6, <1>7, <1>8 DEF p, t

\* What is still to be written, before and after a step.
LEMMA WritingIs ==
  ASSUME ImportInvariant, plan # <<>>
  PROVE  LET e     == session[attempt]
             order == Order(e.kind)
         IN  /\ phase = "onboarding" /\ attempt \in Nat \ {0} /\ attempt \in 1..Len(session)
             /\ session \in Sessions /\ DOMAIN rowsOf = BothVariants
             /\ e.kind \in Initializations /\ MadeOf(e, made)
             /\ \E k \in 0..(Len(order) - 1) :
                   /\ Head(plan) = order[k + 1]
                   /\ Tail(plan) = SubSeq(order, (k + 1) + 1, Len(order))
                   /\ k + 1 = Len(order) <=> Tail(plan) = <<>>
                   /\ Wrote(directory, attempt, made, order, k)
<1> DEFINE e == session[attempt]
           order == Order(e.kind)
<1>1. /\ phase = "onboarding" /\ Writing /\ attempt \in 0..Len(session) /\ session \in Sessions
      /\ DOMAIN rowsOf = BothVariants
  BY DEF ImportInvariant
<1>2. attempt # 0 /\ MadeOf(e, made)
  BY <1>1 DEF Writing
<1>3. PICK k \in 0..(Len(order) - 1) :
          plan = SubSeq(order, k + 1, Len(order)) /\ Wrote(directory, attempt, made, order, k)
  BY <1>1 DEF Writing
<1>4. attempt \in Nat \ {0} /\ attempt \in 1..Len(session) /\ e.kind \in Initializations
  BY <1>1, <1>2, SessionIs
<1>5. Sequential(order)
  BY <1>4, Orders
<1> HIDE DEF e, order
<1>6. /\ Head(plan) = order[k + 1]
      /\ Tail(plan) = SubSeq(order, (k + 1) + 1, Len(order))
      /\ k + 1 = Len(order) <=> Tail(plan) = <<>>
  BY <1>3, <1>5, RestOfOrder
<1> QED
  BY <1>1, <1>2, <1>3, <1>4, <1>6 DEF e, order

\* One file is written.
LEMMA WriteFileKeeps == ImportInvariant /\ WriteFile => ImportInvariant'
<1> SUFFICES ASSUME ImportInvariant, WriteFile PROVE ImportInvariant'
  OBVIOUS
<1> DEFINE e == session[attempt]
           order == Order(e.kind)
           f == Head(plan)
           file == IF f \in DOMAIN made THEN File(attempt, "imported", made[f])
                   ELSE Fixture(attempt)
<1>1. /\ plan # <<>> /\ directory' = And(directory, [x \in {f} |-> file])
      /\ plan' = (IF f \in DOMAIN directory THEN <<>> ELSE Tail(plan))
      /\ UNCHANGED <<session, attempt, made, phase, rowsOf>>
  BY DEF WriteFile, scoringVars
<1>2. /\ phase = "onboarding" /\ attempt \in Nat \ {0} /\ attempt \in 1..Len(session)
      /\ session \in Sessions /\ DOMAIN rowsOf = BothVariants
      /\ e.kind \in Initializations /\ MadeOf(e, made)
  BY <1>1, WritingIs
<1>3. PICK k \in 0..(Len(order) - 1) :
         /\ f = order[k + 1]
         /\ Tail(plan) = SubSeq(order, (k + 1) + 1, Len(order))
         /\ k + 1 = Len(order) <=> Tail(plan) = <<>>
         /\ Wrote(directory, attempt, made, order, k)
  BY <1>1, WritingIs
<1>4. file = Made(attempt, made, f) /\ file.by = attempt
  BY DEF Made, File, Fixture
<1> HIDE DEF f, file
<1>5. /\ f \notin DOMAIN directory
      /\ \A i \in 1..Len(order) : order[i] \in DOMAIN directory' <=> i <= k + 1
      /\ \A i \in 1..k : directory'[order[i]] = Made(attempt, made, order[i])
      /\ directory'[f] = file
      /\ \A g \in DOMAIN directory' : \/ directory'[g] = Fixture(0)
                                      \/ directory'[g].by = attempt /\ g \in ToSet(order)
  <2> DEFINE g == order[k + 1]
             next == Extended(directory, g, file)
  <2>1. g \notin DOMAIN directory /\ WroteMore(next, attempt, made, order, k, file)
    BY <1>2, <1>3, <1>4, WroteOne
  <2>2. directory' = next /\ f = g
    BY <1>1, <1>3 DEF Extended
  <2> HIDE DEF next
  <2> QED
    BY <2>1, <2>2 DEF WroteMore
<1>6. Len(order) \in 6..8
  BY <1>2, Orders
<1>7. k + 1 \in 1..Len(order) /\ (k + 1) - 1 = k
  BY <1>6
<1>8. CASE k + 1 = Len(order)
  <2>1. plan' = <<>>
    BY <1>1, <1>3, <1>5, <1>8
  <2>2. Rests(directory', attempt, e)
    BY <1>2, <1>3, <1>4, <1>5, <1>7, WroteRests
  <2> QED
    BY <1>1, <1>2, <2>1, <2>2 DEF ImportInvariant, Rest, Phases
<1>9. CASE k + 1 # Len(order)
  <2>1. plan' # <<>> /\ plan' = SubSeq(order, (k + 1) + 1, Len(order))
    BY <1>1, <1>3, <1>5, <1>9
  <2>2. k + 1 \in 0..(Len(order) - 1)
    BY <1>6, <1>9
  <2>3. \A i \in 1..(k + 1) : directory'[order[i]] = Made(attempt, made, order[i])
    <3>1. \A i \in 1..(k + 1) : i \in 1..k \/ i = k + 1
      BY <1>6
    <3> QED
      BY <1>3, <1>4, <1>5, <3>1
  <2>4. Wrote(directory', attempt, made, order, k + 1)
    BY <1>5, <2>3 DEF Wrote
  <2> HIDE DEF order
  <2>5. Writing'
    BY <1>1, <1>2, <2>1, <2>2, <2>4 DEF Writing, e, order
  <2> QED
    BY <1>1, <1>2, <2>1, <2>5 DEF ImportInvariant, Phases
<1> QED
  BY <1>8, <1>9

\* What an attempt has written, if anything, is a directory of its own.
LEMMA WroteIs ==
  ASSUME NEW dir, NEW n \in Nat \ {0}, NEW e, e.kind \in Initializations, NEW m, MadeOf(e, m),
         NEW k \in 0..(Len(Order(e.kind)) - 1), Wrote(dir, n, m, Order(e.kind), k)
  PROVE  FromBefore(dir) \/ Rests(dir, n, e)
<1> DEFINE order == Order(e.kind)
<1>1. Len(order) \in 6..8 /\ DOMAIN order = 1..Len(order)
  BY Orders
<1>2. CASE k = 0
  <2>1. \A g \in ToSet(order) : g \notin DOMAIN dir
    BY <1>1, <1>2 DEF Wrote, ToSet
  <2> QED
    BY <2>1 DEF Wrote, FromBefore
<1>3. CASE k # 0
  <2>1. k \in 1..Len(order) /\ \A i \in 1..(k - 1) : i \in 1..k
    BY <1>1, <1>3
  <2>2. /\ \A i \in 1..Len(order) : order[i] \in DOMAIN dir <=> i <= k
        /\ \A i \in 1..(k - 1) : dir[order[i]] = Made(n, m, order[i])
        /\ dir[order[k]] = Made(n, m, order[k])
        /\ \A f \in DOMAIN dir : \/ dir[f] = Fixture(0)
                                 \/ dir[f].by = n /\ f \in ToSet(order)
    BY <1>1, <1>3, <2>1 DEF Wrote
  <2> QED
    BY <2>1, <2>2, WroteRests
<1> QED
  BY <1>2, <1>3

\* A kill leaves what was written.
LEMMA KillKeeps == ImportInvariant /\ Kill => ImportInvariant'
<1> SUFFICES ASSUME ImportInvariant, Kill PROVE ImportInvariant'
  OBVIOUS
<1> DEFINE e == session[attempt]
           order == Order(e.kind)
           f == Head(plan)
           file == File(attempt, "partial", <<>>)
<1>1. /\ plan # <<>> /\ plan' = <<>>
      /\ directory' = directory \/ directory' = And(directory, [x \in {f} |-> file])
      /\ UNCHANGED <<session, attempt, made, phase, rowsOf>>
  BY DEF Kill, scoringVars
<1>2. /\ phase = "onboarding" /\ attempt \in Nat \ {0} /\ attempt \in 1..Len(session)
      /\ session \in Sessions /\ DOMAIN rowsOf = BothVariants
      /\ e.kind \in Initializations /\ MadeOf(e, made)
  BY <1>1, WritingIs
<1>3. PICK k \in 0..(Len(order) - 1) :
         f = order[k + 1] /\ Wrote(directory, attempt, made, order, k)
  BY <1>1, WritingIs
<1>4. /\ Len(order) \in 6..8 /\ DOMAIN order = 1..Len(order)
  BY <1>2, Orders
<1>5. file.by = attempt /\ file.state = "partial"
  BY DEF File
<1> HIDE DEF f, file
<1>6. ASSUME directory' = directory
      PROVE  FromBefore(directory') \/ Rests(directory', attempt, e)
  BY <1>2, <1>3, <1>6, WroteIs
<1>7. ASSUME directory' = And(directory, [x \in {f} |-> file])
      PROVE  Rests(directory', attempt, e)
  <2>1. /\ \A i \in 1..Len(order) : order[i] \in DOMAIN directory' <=> i <= k + 1
        /\ \A i \in 1..k : directory'[order[i]] = Made(attempt, made, order[i])
        /\ directory'[f] = file
        /\ \A g \in DOMAIN directory' : \/ directory'[g] = Fixture(0)
                                        \/ directory'[g].by = attempt /\ g \in ToSet(order)
    <3> DEFINE g == order[k + 1]
               next == Extended(directory, g, file)
    <3>1. WroteMore(next, attempt, made, order, k, file)
      BY <1>2, <1>3, <1>5, WroteOne
    <3>2. directory' = next /\ f = g
      BY <1>3, <1>7 DEF Extended
    <3> HIDE DEF next
    <3> QED
      BY <3>1, <3>2 DEF WroteMore
  <2>2. k + 1 \in 1..Len(order) /\ (k + 1) - 1 = k
    BY <1>4
  <2>3. directory'[order[k + 1]].by = attempt /\ directory'[order[k + 1]].state = "partial"
    BY <1>3, <1>5, <2>1
  <2>4. \A i \in 1..((k + 1) - 1) : directory'[order[i]] = Made(attempt, made, order[i])
    BY <2>1, <2>2
  <2> QED
    BY <1>2, <2>1, <2>2, <2>3, <2>4, WroteRests
<1>8. FromBefore(directory') \/ Rests(directory', attempt, e)
  BY <1>1, <1>6, <1>7
<1> QED
  BY <1>1, <1>2, <1>8 DEF ImportInvariant, Rest, Phases

\* What the first run reads is accepted but for references: it is what the
\* import accepted.
LEMMA ReadyIs ==
  ASSUME NEW e, WellFormedImport(e), NEW m \in Prepared(e)
  PROVE  LET g == Ready(e, m)
             known == {LineId(line) : line \in ToSet(g.dataset)}
         IN  /\ Valid(g.config) /\ ValidLines(g.dataset) /\ Consistent(g.dataset)
             /\ g.schema = "valid"
             /\ g.config.evaluators = Adjusted(m.configuration.evaluators, e.rules)
             /\ \A v \in BothVariants :
                   /\ g.config.variants[v].kind = "recorded"
                   /\ g.outputs[v] \in ReadExport(e.outputs[v], e.output_fields, known)
<1> DEFINE g == Ready(e, m)
           c == [m.configuration EXCEPT !.evaluators = Adjusted(@, e.rules)]
<1>1. PICK s \in AcceptedSources(e) :
          /\ m.configuration = Configured(Requested(e), s.fields)
          /\ \A v \in BothVariants : m[v] = s[v]
  BY PreparedIs
<1>2. m.dataset = e.dataset /\ m.schema.form = "valid"
  BY PreparedIs
<1>3. /\ s.lines = DatasetLines(s.fields, e.dataset)
      /\ ValidLines(s.lines) /\ Consistent(s.lines)
      /\ \A v \in BothVariants : s[v] \in ReadExport(e.outputs[v], e.output_fields,
                                            {LineId(line) : line \in ToSet(s.lines)})
  BY SourcesAre
<1>4. /\ "evaluators" \in DOMAIN m.configuration
      /\ m.configuration.variants = [v \in BothVariants |-> [kind |-> "recorded", path |-> v]]
      /\ m.configuration.dataset.fields = s.fields
  BY <1>1 DEF Configured
<1>5. /\ c.evaluators = Adjusted(m.configuration.evaluators, e.rules)
      /\ c.variants = m.configuration.variants /\ c.dataset = m.configuration.dataset
  BY <1>4
<1>6. Valid(c)
  BY AdjustedValid
<1> HIDE DEF c
<1>7. /\ g.config = c /\ g.dataset = DatasetLines(c.dataset.fields, m.dataset)
      /\ g.schema = m.schema.form /\ \A v \in BothVariants : g.outputs[v] = m[v]
  BY DEF Ready, c
<1> HIDE DEF g
<1>8. g.dataset = s.lines
  BY <1>2, <1>3, <1>4, <1>5, <1>7
<1>9. \A v \in BothVariants : g.config.variants[v].kind = "recorded"
  BY <1>4, <1>5, <1>7
<1> QED
  BY <1>1, <1>2, <1>3, <1>5, <1>6, <1>7, <1>8, <1>9 DEF g

\* The first run begins with what was imported.
LEMMA RunProjectKeeps == ImportInvariant /\ RunProject => ImportInvariant'
<1> SUFFICES ASSUME ImportInvariant, RunProject PROVE ImportInvariant'
  OBVIOUS
<1> DEFINE n == directory["configuration"].by
           c == [directory["configuration"].holds EXCEPT
                    !.evaluators = Adjusted(@, session[n].rules)]
<1>1. /\ phase = "onboarding" /\ plan = <<>> /\ "configuration" \in DOMAIN directory
      /\ directory["configuration"].state = "imported"
      /\ directory' = [directory EXCEPT !["configuration"].holds = c]
      /\ given' = [config |-> c,
                   dataset |-> DatasetLines(c.dataset.fields, directory["dataset"].holds),
                   schema |-> directory["schema"].holds.form,
                   outputs |-> [v \in BothVariants |-> directory[v].holds]]
      /\ phase' = "configuration" /\ UNCHANGED <<session, attempt, plan, rowsOf>>
  BY DEF RunProject, Imported
<1>2. /\ session \in Sessions /\ attempt \in 0..Len(session) /\ Rest /\ DOMAIN rowsOf = BothVariants
  BY <1>1 DEF ImportInvariant
<1>3. PICK i \in 1..Len(session) : Rests(directory, i, session[i])
  <2>1. ~FromBefore(directory)
    BY <1>1 DEF FromBefore, Fixture, File
  <2> QED
    BY <1>2, <2>1 DEF Rest
<1>4. PICK m \in Prepared(session[i]) : Holds(directory, i, m)
  BY <1>1, <1>3 DEF Rests
<1>5. session[i].kind = "from_outputs"
  BY <1>1, <1>3 DEF Rests
<1>6. \A f \in Sources : /\ f \in DOMAIN directory /\ directory[f].holds = m[f]
                         /\ directory[f].by = i /\ directory[f].state = "imported"
  <2>1. \A f \in Sources : f \in DOMAIN directory /\ directory[f] = File(i, "imported", m[f])
    BY <1>4 DEF Holds
  <2>2. \A f \in Sources : /\ File(i, "imported", m[f]).holds = m[f]
                           /\ File(i, "imported", m[f]).by = i
                           /\ File(i, "imported", m[f]).state = "imported"
    BY DEF File
  <2> QED
    BY <2>1, <2>2
<1>7. n = i /\ directory["configuration"].holds = m.configuration
  BY <1>6 DEF Sources
<1>8. given' = Ready(session[i], m)
  <2>1. c = [m.configuration EXCEPT !.evaluators = Adjusted(@, session[i].rules)]
    BY <1>7
  <2>2. /\ directory["dataset"].holds = m.dataset /\ directory["schema"].holds = m.schema
        /\ \A v \in BothVariants : directory[v].holds = m[v]
    BY <1>6 DEF Sources, BothVariants
  <2>3. [v \in BothVariants |-> directory[v].holds] = [v \in BothVariants |-> m[v]]
    BY <2>2
  <2> HIDE DEF c
  <2> QED
    BY <1>1, <2>1, <2>2, <2>3 DEF Ready
<1> HIDE DEF n, c
<1>9. /\ DOMAIN directory' = DOMAIN directory
      /\ \A f \in DOMAIN directory : directory'[f].by = directory[f].by
                                     /\ directory'[f].state = directory[f].state
  <2>1. \A f \in DOMAIN directory : f # "configuration" => directory'[f] = directory[f]
    BY <1>1
  <2>2. directory'["configuration"] = [directory["configuration"] EXCEPT !.holds = c]
    BY <1>1
  <2>3. /\ directory'["configuration"].by = directory["configuration"].by
        /\ directory'["configuration"].state = directory["configuration"].state
    BY <2>2
  <2>4. DOMAIN directory' = DOMAIN directory
    BY <1>1
  <2> QED
    BY <2>1, <2>3, <2>4
<1>10. OneAuthor(directory', i, session[i])
  BY <1>3, <1>6, <1>9 DEF OneAuthor, Rests
<1>11. "configuration" \in DOMAIN directory' /\ directory'["configuration"].by = i
  BY <1>6, <1>9 DEF Sources
<1>12. Ran(i, m)'
  BY <1>1, <1>2, <1>4, <1>5, <1>8, <1>10, <1>11
     DEF Ran, PastDataset, PastConfiguration, Past, BothVariants
<1>13. \E j \in 1..Len(session') : \E h : Ran(j, h)'
  BY <1>1, <1>12
<1> QED
  BY <1>1, <1>2, <1>13 DEF ImportInvariant, Phases

\* One step of the first run.
LEMMA FirstRunKeeps == ImportInvariant /\ FirstRun => ImportInvariant'
<1> SUFFICES ASSUME ImportInvariant, FirstRun PROVE ImportInvariant'
  OBVIOUS
<1>1. ScoringNext /\ UNCHANGED <<session, attempt, plan, made, directory>>
  BY DEF FirstRun, initVars
<1>2. phase # "onboarding" /\ phase' # "onboarding" /\ given' = given /\ phase' \in Phases
  BY <1>1 DEF ScoringNext, LoadConfiguration, ReadDataset, CheckReferences, LoadSchema,
              ReadOutputs, ScoreCase, Proceed, BothVariants, Phases
<1>n. PICK n \in 1..Len(session) : \E m : Ran(n, m)
  BY <1>2 DEF ImportInvariant
<1>3. PICK m : Ran(n, m)
  BY <1>n
<1>4. /\ session \in Sessions /\ attempt \in 0..Len(session) /\ plan = <<>>
  BY <1>2 DEF ImportInvariant
<1> DEFINE e == session[n]
           known == {LineId(line) : line \in ToSet(given.dataset)}
<1>5. /\ e.kind = "from_outputs" /\ m \in Prepared(e) /\ OneAuthor(directory, n, e)
      /\ "configuration" \in DOMAIN directory /\ directory["configuration"].by = n
      /\ given = Ready(e, m) /\ DOMAIN rowsOf = BothVariants
  BY <1>3 DEF Ran
<1>6. WellFormedImport(e)
  BY <1>4, <1>5, SessionIs
<1>7. /\ Valid(configuration) /\ ValidLines(given.dataset) /\ Consistent(given.dataset)
      /\ given.schema = "valid"
      /\ \A v \in BothVariants :
            /\ configuration.variants[v].kind = "recorded"
            /\ given.outputs[v] \in ReadExport(e.outputs[v], e.output_fields, known)
  BY <1>5, <1>6, ReadyIs DEF configuration
<1> HIDE DEF e
<1>8. SUFFICES /\ DOMAIN rowsOf' = BothVariants
               /\ phase' \in PastDataset =>
                     cases' = [i \in DOMAIN given.dataset |-> CaseOf(given.dataset[i])]
               /\ \A v \in BothVariants : phase' \in Past(v) =>
                     rowsOf'[v] = [c \in DOMAIN cases' |-> RowFor(given.outputs[v], cases'[c])]
               /\ phase' = "refused" =>
                     \E i \in DOMAIN cases', k \in DOMAIN configuration.evaluators :
                        ~GoodReference(configuration.evaluators[k], cases'[i].expected)
  <2>1. configuration' = configuration
    BY <1>2 DEF configuration
  <2>2. Ran(n, m)'
    BY <1>1, <1>2, <1>5, <1>8, <2>1 DEF Ran, e
  <2>3. \E i \in 1..Len(session') : \E h : Ran(i, h)'
    BY <1>1, <2>2
  <2> QED
    BY <1>1, <1>2, <1>4, <2>3 DEF ImportInvariant
<1>9. /\ phase \in PastDataset =>
            cases = [i \in DOMAIN given.dataset |-> CaseOf(given.dataset[i])]
      /\ \A v \in BothVariants : phase \in Past(v) =>
            rowsOf[v] = [c \in DOMAIN cases |-> RowFor(given.outputs[v], cases[c])]
  BY <1>3 DEF Ran
<1>10. CASE LoadConfiguration
  BY <1>5, <1>7, <1>10
     DEF LoadConfiguration, Proceed, PastDataset, PastConfiguration, Past, BothVariants
<1>11. CASE ReadDataset
  BY <1>2, <1>5, <1>7, <1>11
     DEF ReadDataset, Proceed, PastDataset, PastConfiguration, Past, BothVariants
<1>12. CASE CheckReferences
  <2>1. /\ phase = "references" /\ UNCHANGED <<cases, rowsOf>> /\ phase' \in {"schema", "refused"}
        /\ phase' = "refused" =>
              \E i \in DOMAIN cases, k \in DOMAIN configuration.evaluators :
                  ~GoodReference(configuration.evaluators[k], cases[i].expected)
    BY <1>12 DEF CheckReferences, Proceed
  <2> QED
    BY <1>5, <1>9, <2>1 DEF PastDataset, PastConfiguration, Past, BothVariants
<1>13. CASE LoadSchema
  <2>1. phase = "schema" /\ UNCHANGED <<cases, rowsOf>> /\ phase' = "baseline"
    BY <1>7, <1>13 DEF LoadSchema, Proceed
  <2> QED
    BY <1>5, <1>9, <2>1 DEF PastDataset, PastConfiguration, Past, BothVariants
<1>14. ASSUME NEW v \in BothVariants, ReadOutputs(v)
       PROVE  /\ DOMAIN rowsOf' = BothVariants
              /\ phase' \in PastDataset =>
                    cases' = [i \in DOMAIN given.dataset |-> CaseOf(given.dataset[i])]
              /\ \A w \in BothVariants : phase' \in Past(w) =>
                    rowsOf'[w] = [c \in DOMAIN cases' |-> RowFor(given.outputs[w], cases'[c])]
              /\ phase' # "refused"
  <2>1. phase = v /\ phase \in PastDataset
    BY <1>14 DEF ReadOutputs, PastDataset, PastConfiguration, BothVariants
  <2>2. cases = [i \in DOMAIN given.dataset |-> CaseOf(given.dataset[i])]
    BY <1>9, <2>1
  <2>3. {cases[c].id : c \in DOMAIN cases} = known
    BY <2>2 DEF CaseOf, ToSet
  <2>4. ValidOutputs(given.outputs[v])
    <3>1. Recordable(given.outputs[v], known)
      BY <1>7, ExportIs
    <3> QED
      BY <2>3, <3>1 DEF ValidOutputs
  <2>5. /\ phase' = (IF v = "baseline" THEN "candidate" ELSE "scoring") /\ cases' = cases
        /\ rowsOf' = [rowsOf EXCEPT ![v] = [c \in DOMAIN cases |->
                                                RowFor(given.outputs[v], cases[c])]]
    BY <1>7, <1>14, <2>4 DEF ReadOutputs, Proceed
  <2>6. ASSUME NEW w \in BothVariants, phase' \in Past(w)
        PROVE  rowsOf'[w] = [c \in DOMAIN cases |-> RowFor(given.outputs[w], cases[c])]
    <3>1. CASE w = v
      BY <1>5, <2>5, <3>1
    <3>2. CASE w # v
      <4>1. v = "candidate" /\ w = "baseline" /\ phase \in Past(w)
        BY <2>1, <2>5, <2>6, <3>2 DEF Past, BothVariants
      <4>2. rowsOf'[w] = rowsOf[w]
        BY <1>5, <2>5, <3>2
      <4> QED
        BY <1>9, <4>1, <4>2
    <3> QED
      BY <3>1, <3>2
  <2> QED
    BY <1>5, <2>2, <2>5, <2>6
<1>15. CASE ScoreCase
  <2>1. /\ phase = "scoring" /\ UNCHANGED <<cases, rowsOf>> /\ phase' \in {"scoring", "scored"}
    BY <1>15 DEF ScoreCase
  <2> QED
    BY <1>5, <1>9, <2>1 DEF PastDataset, PastConfiguration, Past, BothVariants
<1> QED
  BY <1>1, <1>10, <1>11, <1>12, <1>13, <1>14, <1>15 DEF ScoringNext

\* The invariant holds throughout.
THEOREM ImportFollows == OnboardingSpec => []ImportInvariant
<1>1. ImportInvariant /\ [Onboarding]_<<scoringVars, initVars>> => ImportInvariant'
  <2> SUFFICES ASSUME ImportInvariant, [Onboarding]_<<scoringVars, initVars>>
               PROVE  ImportInvariant'
    OBVIOUS
  <2>1. CASE UNCHANGED <<scoringVars, initVars>>
    <3>1. /\ UNCHANGED <<given, phase, cases, rowsOf>>
          /\ UNCHANGED <<session, attempt, plan, made, directory>>
      BY <2>1 DEF scoringVars, initVars
    <3>2. Writing' = Writing /\ Rest' = Rest
      BY <3>1 DEF Writing, Rest
    <3>3. \A n, m : Ran(n, m) => Ran(n, m)'
      BY <3>1 DEF Ran, configuration
    <3> QED
      BY <3>1, <3>2, <3>3 DEF ImportInvariant
  <2>2. CASE Initialize
    BY <2>2, InitializeKeeps
  <2>3. CASE WriteFile
    BY <2>3, WriteFileKeeps
  <2>4. CASE Kill
    BY <2>4, KillKeeps
  <2>5. CASE RunProject
    BY <2>5, RunProjectKeeps
  <2>6. CASE FirstRun
    BY <2>6, FirstRunKeeps
  <2> QED
    BY <2>1, <2>2, <2>3, <2>4, <2>5, <2>6 DEF Onboarding
<1> QED
  BY <1>1, ImportStarts, PTL DEF OnboardingSpec

\* The files of a directory that has one author.
LEMMA AuthorIs ==
  ASSUME session \in Sessions, NEW n \in 1..Len(session), OneAuthor(directory, n, session[n])
  PROVE  OneInitialization /\ ConfiguredIsWhole
<1> DEFINE authors == {directory[f].by : f \in DOMAIN directory} \ {0}
<1>1. authors \subseteq {n}
  BY DEF OneAuthor
<1>2. Cardinality(authors) <= 1
  <2> HIDE DEF authors
  <2>1. IsFiniteSet({n}) /\ Cardinality({n}) = 1
    BY FS_Singleton
  <2> QED
    BY <1>1, <2>1, FS_Subset
<1>3. \A a \in authors, f \in DOMAIN directory :
          f \in ToSet(Order(session[a].kind)) => directory[f].by = a
  BY <1>1 DEF OneAuthor
<1>4. ConfiguredIsWhole
  BY DEF ConfiguredIsWhole, Imported, OneAuthor, Sources, BothVariants
<1> QED
  BY <1>2, <1>3, <1>4 DEF OneInitialization

\* So are those of a directory that an initialization is writing, or that none
\* has written to.
LEMMA DirectoryIs ==
  ASSUME ImportInvariant
  PROVE  OneInitialization /\ ConfiguredIsWhole
<1>1. session \in Sessions
  BY DEF ImportInvariant
<1>2. ASSUME FromBefore(directory) PROVE OneInitialization /\ ConfiguredIsWhole
  <2>1. \A f \in DOMAIN directory : directory[f].by = 0 /\ directory[f].state = "fixture"
    BY <1>2 DEF FromBefore, Fixture, File
  <2>2. {directory[f].by : f \in DOMAIN directory} \ {0} = {}
    BY <2>1
  <2>3. OneInitialization
    BY <2>2, FS_EmptySet DEF OneInitialization
  <2>4. ConfiguredIsWhole
    BY <2>1 DEF ConfiguredIsWhole, Imported
  <2> QED
    BY <2>3, <2>4
<1>3. ASSUME NEW n \in 1..Len(session), Rests(directory, n, session[n])
      PROVE  OneInitialization /\ ConfiguredIsWhole
  <2>1. ASSUME NEW m, Holds(directory, n, m)
        PROVE  \A f \in Sources : /\ f \in DOMAIN directory /\ directory[f].state = "imported"
                                  /\ directory[f].by = n
    <3>1. \A f \in Sources : f \in DOMAIN directory /\ directory[f] = File(n, "imported", m[f])
      BY <2>1 DEF Holds
    <3>2. \A f \in Sources : /\ File(n, "imported", m[f]).by = n
                             /\ File(n, "imported", m[f]).state = "imported"
      BY DEF File
    <3> QED
      BY <3>1, <3>2
  <2>2. OneAuthor(directory, n, session[n])
    BY <1>3, <2>1 DEF Rests, OneAuthor
  <2> QED
    BY <1>1, <2>2, AuthorIs
<1>4. CASE plan # <<>>
  <2>1. /\ attempt \in 1..Len(session) /\ attempt \in Nat \ {0}
        /\ session[attempt].kind \in Initializations /\ MadeOf(session[attempt], made)
    BY <1>4, WritingIs
  <2> DEFINE order == Order(session[attempt].kind)
  <2>2. PICK k \in 0..(Len(order) - 1) : Wrote(directory, attempt, made, order, k)
    BY <1>4, WritingIs
  <2>3. FromBefore(directory) \/ Rests(directory, attempt, session[attempt])
    BY <2>1, <2>2, WroteIs
  <2> QED
    BY <1>2, <1>3, <2>1, <2>3
<1>5. CASE plan = <<>> /\ phase = "onboarding"
  BY <1>2, <1>3, <1>5 DEF ImportInvariant, Rest
<1>6. CASE phase # "onboarding"
  BY <1>1, <1>6, AuthorIs DEF ImportInvariant, Ran
<1> QED
  BY <1>4, <1>5, <1>6

\* The rows that are scored are those of the export.
LEMMA RowsExported ==
  ASSUME NEW n, NEW m, Ran(n, m), WellFormedImport(session[n]), phase \in {"scoring", "scored"},
         NEW v \in BothVariants
  PROVE  LET e == session[n] IN
         \E id \in {Field("case_id")} \cup ToSet(Tried(e.output_fields.id, OutputNames.id)),
            output \in {Field("raw_output")}
                      \cup ToSet(Tried(e.output_fields.output, OutputNames.output)) :
             RowsSay(e.outputs[v], cases, rowsOf[v], id, output)
<1> DEFINE e == session[n]
           known == {LineId(line) : line \in ToSet(given.dataset)}
<1>1. /\ m \in Prepared(e) /\ given = Ready(e, m)
      /\ cases = [i \in DOMAIN given.dataset |-> CaseOf(given.dataset[i])]
      /\ rowsOf[v] = [c \in DOMAIN cases |-> RowFor(given.outputs[v], cases[c])]
  BY DEF Ran, PastDataset, PastConfiguration, Past, BothVariants
<1>2. given.outputs[v] \in ReadExport(e.outputs[v], e.output_fields, known)
  BY <1>1, ReadyIs
<1>3. known = {cases[c].id : c \in DOMAIN cases}
  BY <1>1 DEF CaseOf, ToSet
<1>4. Sequential(e.outputs[v]) /\ \A c \in DOMAIN cases :
                                      rowsOf[v][c] = RowFor(given.outputs[v], cases[c])
  BY <1>1 DEF WellFormedImport
<1> HIDE DEF e, known
<1> QED
  BY <1>2, <1>3, <1>4, ExportedRows DEF e

\* An import is complete, is one import, and compares what was exported by the
\* rules that were chosen (ImportIsSound), whatever was asked for, in whatever
\* order it was killed and repeated.
THEOREM ImportsAreSound == OnboardingSpec => []ImportIsSound
<1>1. ASSUME ImportInvariant PROVE ImportIsSound
  <2>1. OneInitialization /\ ConfiguredIsWhole
    BY <1>1, DirectoryIs
  <2>2. ASSUME phase # "onboarding"
        PROVE  \E n \in 1..Len(session) : \E m : Ran(n, m) /\ WellFormedImport(session[n])
    <3>1. PICK n \in 1..Len(session) : \E m : Ran(n, m)
      BY <1>1, <2>2 DEF ImportInvariant
    <3>2. WellFormedImport(session[n])
      BY <1>1, <3>1, SessionIs DEF ImportInvariant, Ran
    <3> QED
      BY <3>1, <3>2
  <2>3. FirstRunIsAccepted
    BY <2>2 DEF FirstRunIsAccepted, Ran
  <2>4. ASSUME phase # "onboarding"
        PROVE  LET rules == session[directory["configuration"].by].rules
                   evaluators == configuration.evaluators
                   ruled == {k \in DOMAIN evaluators : evaluators[k].kind # "financial_invariants"}
               IN  rules # <<>> => \E rule \in Bijection(ruled, DOMAIN rules) :
                                      \A k \in ruled : Meant(rules[rule[k]], evaluators[k])
    <3>n. PICK n \in 1..Len(session) : \E m : Ran(n, m) /\ WellFormedImport(session[n])
      BY <2>2, <2>4
    <3>1. PICK m : Ran(n, m) /\ WellFormedImport(session[n])
      BY <3>n
    <3>2. /\ directory["configuration"].by = n /\ m \in Prepared(session[n])
          /\ given = Ready(session[n], m)
      BY <3>1 DEF Ran
    <3>3. configuration.evaluators = Adjusted(m.configuration.evaluators, session[n].rules)
      BY <3>1, <3>2, ReadyIs DEF configuration
    <3> QED
      BY <3>1, <3>2, <3>3, RulesPaired
  <2>5. RulesAreApplied
    BY <2>4 DEF RulesAreApplied
  <2>6. ASSUME phase \in {"scoring", "scored"}, NEW v \in BothVariants
        PROVE  LET e == session[directory["configuration"].by] IN
               \E id \in {Field("case_id")} \cup ToSet(Tried(e.output_fields.id, OutputNames.id)),
                  output \in {Field("raw_output")}
                            \cup ToSet(Tried(e.output_fields.output, OutputNames.output)) :
                   RowsSay(e.outputs[v], cases, rowsOf[v], id, output)
    <3>n. PICK n \in 1..Len(session) : \E m : Ran(n, m) /\ WellFormedImport(session[n])
      BY <2>2, <2>6
    <3>1. PICK m : Ran(n, m) /\ WellFormedImport(session[n])
      BY <3>n
    <3>2. directory["configuration"].by = n
      BY <3>1 DEF Ran
    <3> QED
      BY <2>6, <3>1, <3>2, RowsExported
  <2>7. RowsAreExported
    BY <2>6 DEF RowsAreExported, RowsSay, Reported, Told
  <2> QED
    BY <2>1, <2>3, <2>5, <2>7 DEF ImportIsSound
<1> QED
  BY <1>1, ImportFollows, PTL

-----------------------------------------------------------------------------
(* Sums as numbers of cells                                                *)

\* The cells of a bar chart over S in which the bar of x is w[x] high.
Area(w, S) == {p \in S \X Nat : p[2] \in 1..w[p[1]]}

\* A total is the number of those cells.
Total(w, S) == Cardinality(Area(w, S))

\* One bar.
LEMMA OneBar ==
  ASSUME NEW w, NEW x, w[x] \in Nat
  PROVE  /\ IsFiniteSet(Area(w, {x}))
         /\ Cardinality(Area(w, {x})) = w[x]
<1>1. Area(w, {x}) = {x} \X (1..w[x])
  BY DEF Area
<1>2. IsFiniteSet({x}) /\ Cardinality({x}) = 1
  BY FS_Singleton, Zenon
<1>3. IsFiniteSet(1..w[x]) /\ Cardinality(1..w[x]) = w[x]
  BY FS_Interval, SMTT(30)
<1>4. /\ IsFiniteSet({x} \X (1..w[x]))
      /\ Cardinality({x} \X (1..w[x])) = Cardinality({x}) * Cardinality(1..w[x])
  BY <1>2, <1>3, FS_Product, Zenon
<1>5. Cardinality({x}) * Cardinality(1..w[x]) = w[x]
  BY <1>2, <1>3
<1> QED
  BY <1>1, <1>4, <1>5, Zenon

\* Weights on a finite set.
Weighs(w, S) == IsFiniteSet(S) /\ \A x \in S : w[x] \in Nat

\* They are finitely many.
LEMMA FiniteArea ==
  ASSUME NEW w, NEW S, Weighs(w, S)
  PROVE  IsFiniteSet(Area(w, S))
<1> DEFINE bar  == [x \in S |-> Area(w, {x})]
           bars == {Area(w, {x}) : x \in S}
<1>1. bar \in Surjection(S, bars)
  BY DEF Surjection
<1>2. IsFiniteSet(bars)
  <2> HIDE DEF bar, bars
  <2> QED
    BY <1>1, FS_Surjection DEF Weighs
<1>3. \A b \in bars : IsFiniteSet(b)
  BY OneBar DEF Weighs
<1>4. Area(w, S) \subseteq UNION bars
  BY DEF Area
<1> HIDE DEF bar, bars
<1> QED
  BY <1>2, <1>3, <1>4, FS_UNION, FS_Subset

\* Totals are natural numbers; that of nothing is zero.
LEMMA TotalNat ==
  ASSUME NEW w, NEW S, Weighs(w, S)
  PROVE  Total(w, S) \in Nat
BY FiniteArea, FS_CardinalityType DEF Total

\* The total of nothing.
LEMMA TotalOfNone ==
  ASSUME NEW w
  PROVE  Total(w, {}) = 0
<1>1. Area(w, {}) = {}
  BY DEF Area
<1> QED
  BY <1>1, FS_EmptySet DEF Total

\* The total of a part is at most that of the whole.
LEMMA TotalOfPart ==
  ASSUME NEW w, NEW S, Weighs(w, S), NEW A \in SUBSET S
  PROVE  Weighs(w, A) /\ Total(w, A) <= Total(w, S)
<1>1. Area(w, A) \in SUBSET Area(w, S)
  BY DEF Area
<1>2. IsFiniteSet(A)
  BY FS_Subset DEF Weighs
<1> QED
  BY <1>1, <1>2, FiniteArea, FS_Subset DEF Total, Weighs

\* Totals of disjoint parts add up.
LEMMA TotalOfParts ==
  ASSUME NEW w, NEW A, NEW B, Weighs(w, A), Weighs(w, B), A \cap B = {}
  PROVE  Total(w, A \cup B) = Total(w, A) + Total(w, B)
<1>1. Area(w, A \cup B) = Area(w, A) \cup Area(w, B)
  BY DEF Area
<1>2. Area(w, A) \cap Area(w, B) = {}
  BY DEF Area
<1>3. /\ IsFiniteSet(Area(w, A)) /\ Cardinality(Area(w, A)) \in Nat
      /\ IsFiniteSet(Area(w, B)) /\ Cardinality(Area(w, B)) \in Nat
  BY FiniteArea, FS_CardinalityType
<1>4. Cardinality(Area(w, A) \cap Area(w, B)) = 0
  BY <1>2, FS_EmptySet
<1>5. Cardinality(Area(w, A) \cup Area(w, B)) =
        Cardinality(Area(w, A)) + Cardinality(Area(w, B))
          - Cardinality(Area(w, A) \cap Area(w, B))
  BY <1>3, FS_Union, Zenon
<1>6. Cardinality(Area(w, A) \cup Area(w, B)) =
        Cardinality(Area(w, A)) + Cardinality(Area(w, B))
  BY <1>3, <1>4, <1>5
<1> QED
  BY <1>1, <1>6, Zenon DEF Total

\* One element at a time.
LEMMA TotalWithout ==
  ASSUME NEW w, NEW S, Weighs(w, S), NEW x \in S
  PROVE  /\ Weighs(w, S \ {x})
         /\ Total(w, S) = w[x] + Total(w, S \ {x})
<1>1. Weighs(w, S \ {x}) /\ Weighs(w, {x})
  BY FS_RemoveElement, FS_Singleton DEF Weighs
<1>2. Total(w, {x} \cup (S \ {x})) = Total(w, {x}) + Total(w, S \ {x})
  BY <1>1, TotalOfParts
<1>3. {x} \cup (S \ {x}) = S
  OBVIOUS
<1>4. Total(w, {x}) = w[x]
  BY OneBar DEF Total, Weighs
<1> QED
  BY <1>1, <1>2, <1>3, <1>4, Zenon

\* Larger weights have a larger total.
LEMMA TotalOfMore ==
  ASSUME NEW w, NEW v, NEW S, Weighs(w, S), Weighs(v, S),
         \A x \in S : w[x] <= v[x]
  PROVE  Total(w, S) <= Total(v, S)
<1>1. ASSUME NEW p \in Area(w, S) PROVE p \in Area(v, S)
  BY <1>1 DEF Area, Weighs
<1>2. Area(w, S) \in SUBSET Area(v, S)
  BY <1>1
<1> QED
  BY <1>2, FiniteArea, FS_Subset DEF Total

\* The total does not depend on the names of the elements.
LEMMA TotalRenamed ==
  ASSUME NEW w, NEW v, NEW A, NEW B, Weighs(w, A),
         NEW pi \in Bijection(A, B), \A x \in A : v[pi[x]] = w[x]
  PROVE  Weighs(v, B) /\ Total(v, B) = Total(w, A)
<1>0. /\ pi \in [A -> B]
      /\ \A x, y \in A : pi[x] = pi[y] => x = y
      /\ \A y \in B : \E x \in A : pi[x] = y
  BY DEF Bijection, Injection, Surjection, IsInjective
<1>1. IsFiniteSet(B)
  BY FS_Bijection DEF ExistsBijection, Weighs
<1>2. Weighs(v, B)
  BY <1>0, <1>1 DEF Weighs
<1> DEFINE move == [p \in Area(w, A) |-> <<pi[p[1]], p[2]>>]
<1>3. move \in [Area(w, A) -> Area(v, B)]
  BY <1>0 DEF Area
<1>4. ASSUME NEW p \in Area(w, A), NEW q \in Area(w, A), move[p] = move[q]
      PROVE  p = q
  BY <1>0, <1>4 DEF Area
<1>5. ASSUME NEW q \in Area(v, B) PROVE \E p \in Area(w, A) : move[p] = q
  <2>1. PICK x \in A : pi[x] = q[1]
    BY <1>0, <1>5 DEF Area
  <2>2. <<x, q[2]>> \in Area(w, A)
    BY <2>1, <1>5 DEF Area
  <2>3. move[<<x, q[2]>>] = q
    BY <2>1, <2>2 DEF Area
  <2> QED
    BY <2>2, <2>3
<1> HIDE DEF move
<1>6. move \in Bijection(Area(w, A), Area(v, B))
  BY <1>3, <1>4, <1>5 DEF Bijection, Injection, Surjection, IsInjective
<1> QED
  BY <1>2, <1>6, FiniteArea, FS_Bijection DEF ExistsBijection, Total

-----------------------------------------------------------------------------
(* The fold                                                                *)

\* The element that the fold of FiniteSetsExt takes from a set.
AnyOf(s) == CHOOSE x \in s : TRUE

\* What MapThenSumSet computes: the totals of all subsets, from an element
\* that it chooses.
LEMMA TotalsAreFolded ==
  ASSUME NEW w, NEW S, Weighs(w, S), NEW s \in SUBSET S
  PROVE  Total(w, s) = IF s = {} THEN 0
                       ELSE w[AnyOf(s)] + Total(w, s \ {AnyOf(s)})
<1>1. CASE s = {}
  BY <1>1, TotalOfNone
<1>2. CASE s # {}
  <2>1. AnyOf(s) \in s
    BY <1>2, Zenon DEF AnyOf
  <2>2. Weighs(w, s)
    BY TotalOfPart
  <2> QED
    BY <1>2, <2>1, <2>2, TotalWithout
<1> QED
  BY <1>1, <1>2

\* Nothing else computes so: a subset with the fewest elements on which the
\* sum is not the total would have an element to take away.
LEMMA FoldsAreTotals ==
  ASSUME NEW w, NEW S, Weighs(w, S), NEW sum,
         \A s \in SUBSET S :
            sum[s] = IF s = {} THEN 0 ELSE w[AnyOf(s)] + sum[s \ {AnyOf(s)}]
  PROVE  \A s \in SUBSET S : sum[s] = Total(w, s)
<1> DEFINE wrong == {s \in SUBSET S : sum[s] # Total(w, s)}
           sizes == {n \in Nat : \E s \in wrong : Cardinality(s) = n}
<1>1. \A s \in SUBSET S : IsFiniteSet(s) /\ Cardinality(s) \in Nat
  BY FS_Subset, FS_CardinalityType DEF Weighs
<1>2. SUFFICES ASSUME wrong # {} PROVE FALSE
  OBVIOUS
<1>3. sizes \in SUBSET Nat /\ sizes # {}
  BY <1>1, <1>2
<1>4. PICK n \in sizes : \A k \in sizes : n <= k
  <2> HIDE DEF sizes
  <2> QED
    BY <1>3, LeastNumber
<1>5. PICK s \in wrong : Cardinality(s) = n
  OBVIOUS
<1>6. s # {}
  BY <1>5, TotalOfNone
<1>7. AnyOf(s) \in s
  BY <1>6, Zenon DEF AnyOf
<1> DEFINE rest == s \ {AnyOf(s)}
<1>8. rest \in SUBSET S /\ Cardinality(rest) = n - 1 /\ n \in Nat
  BY <1>1, <1>5, <1>7, FS_RemoveElement
<1>9. rest \notin wrong
  BY <1>1, <1>4, <1>8
<1>10. sum[s] = w[AnyOf(s)] + sum[rest]
  BY <1>6
<1>11. Total(w, s) = w[AnyOf(s)] + Total(w, rest)
  BY <1>6, TotalsAreFolded
<1> QED
  BY <1>5, <1>8, <1>9, <1>10, <1>11

\* The recursive function that SumFunctionOnSet applies to the whole set.
SumFold(w, P) ==
    CHOOSE sum : sum = [s \in SUBSET P |->
        IF s = {} THEN 0 ELSE w[AnyOf(s)] + sum[s \ {AnyOf(s)}]]

\* The model's sums are totals.
LEMMA SumIsTotal ==
  ASSUME NEW w, NEW P, Weighs(w, P)
  PROVE  SumFunctionOnSet(w, P) = Total(w, P)
<1> DEFINE FoldsTo(sum) == sum = [s \in SUBSET P |->
              IF s = {} THEN 0 ELSE w[AnyOf(s)] + sum[s \ {AnyOf(s)}]]
           totals == [s \in SUBSET P |-> Total(w, s)]
<1>1. SumFunctionOnSet(w, P) = SumFold(w, P)[P]
  BY DEF SumFunctionOnSet, FoldFunctionOnSet, MapThenFoldSet, SumFold, AnyOf
<1>2. FoldsTo(totals)
  <2>1. ASSUME NEW s \in SUBSET P
        PROVE  totals[s] = IF s = {} THEN 0 ELSE w[AnyOf(s)] + totals[s \ {AnyOf(s)}]
    BY TotalsAreFolded
  <2> QED
    BY <2>1
<1>3. FoldsTo(SumFold(w, P))
  <2> HIDE DEF totals
  <2>1. \E sum : FoldsTo(sum)
    BY <1>2, Zenon
  <2> QED
    BY <2>1, Zenon DEF SumFold
<1> DEFINE sum == SumFold(w, P)
<1>4. \A s \in SUBSET P :
        sum[s] = IF s = {} THEN 0 ELSE w[AnyOf(s)] + sum[s \ {AnyOf(s)}]
  <2> HIDE DEF sum
  <2> QED
    BY <1>3, Zenon DEF sum
<1> HIDE DEF sum
<1>5. \A s \in SUBSET P : sum[s] = Total(w, s)
  BY <1>4, FoldsAreTotals, Zenon
<1> QED
  BY <1>1, <1>5 DEF sum

\* Rows that a dataset may contain, before and after a candidate is replaced.
RowOK(row) ==
    /\ DOMAIN row = {"stimulus", "reference", "tag", "size"} \cup Variants
    /\ row.size \in Nat \ {0}
    /\ row.baseline \in Observation
    /\ row.candidate \in Observation

\* A sequence of such rows.
Dataset(rs) ==
    /\ \E n \in Nat : DOMAIN rs = 1..n
    /\ \A i \in DOMAIN rs : RowOK(rs[i])

\* The sizes of rows are weights.
LEMMA DatasetWeighs ==
  ASSUME NEW rs, Dataset(rs), NEW P \in SUBSET DOMAIN rs
  PROVE  Weighs(Sizes(rs), P)
<1>1. IsFiniteSet(DOMAIN rs)
  BY FS_Interval DEF Dataset
<1> QED
  BY <1>1, FS_Subset DEF Weighs, Sizes, Dataset, RowOK

\* Sizes of parts of a dataset.
LEMMA SizeOfPart ==
  ASSUME NEW rs, Dataset(rs), NEW B \in SUBSET DOMAIN rs, NEW A \in SUBSET B
  PROVE  Size(rs, A) \in Nat /\ Size(rs, B) \in Nat /\ Size(rs, A) <= Size(rs, B)
<1>1. A \in SUBSET DOMAIN rs
  OBVIOUS
<1>2. Weighs(Sizes(rs), A) /\ Weighs(Sizes(rs), B)
  BY <1>1, DatasetWeighs
<1> QED
  BY <1>2, SumIsTotal, TotalOfPart, TotalNat DEF Size

\* The position i counts or does not.
LEMMA SizeWithout ==
  ASSUME NEW rs, Dataset(rs), NEW A \in SUBSET DOMAIN rs, NEW i \in DOMAIN rs
  PROVE  Size(rs, A) = (IF i \in A THEN rs[i].size ELSE 0) + Size(rs, A \ {i})
<1>1. A \ {i} \in SUBSET DOMAIN rs
  OBVIOUS
<1>2. Weighs(Sizes(rs), A) /\ Weighs(Sizes(rs), A \ {i})
  BY <1>1, DatasetWeighs, Zenon
<1>3. Size(rs, A) = Total(Sizes(rs), A) /\ Size(rs, A \ {i}) = Total(Sizes(rs), A \ {i})
  BY <1>2, SumIsTotal, Zenon DEF Size
<1>4. Sizes(rs)[i] = rs[i].size
  BY DEF Sizes
<1>5. CASE i \in A
  BY <1>2, <1>3, <1>4, <1>5, TotalWithout
<1>6. CASE i \notin A
  <2>1. A \ {i} = A
    BY <1>6
  <2>2. Size(rs, A) \in Nat
    BY SizeOfPart
  <2> QED
    BY <1>6, <2>1, <2>2
<1> QED
  BY <1>5, <1>6

\* Disjoint parts.
LEMMA SizeOfParts ==
  ASSUME NEW rs, Dataset(rs), NEW A \in SUBSET DOMAIN rs,
         NEW B \in SUBSET DOMAIN rs, A \cap B = {}
  PROVE  Size(rs, A \cup B) = Size(rs, A) + Size(rs, B)
<1>1. A \cup B \in SUBSET DOMAIN rs
  OBVIOUS
<1>2. Weighs(Sizes(rs), A) /\ Weighs(Sizes(rs), B) /\ Weighs(Sizes(rs), A \cup B)
  BY <1>1, DatasetWeighs, Zenon
<1>3. /\ Size(rs, A) = Total(Sizes(rs), A) /\ Size(rs, B) = Total(Sizes(rs), B)
      /\ Size(rs, A \cup B) = Total(Sizes(rs), A \cup B)
  BY <1>2, SumIsTotal, Zenon DEF Size
<1> QED
  BY <1>2, <1>3, TotalOfParts

\* Products grow with either factor.
LEMMA Products ==
  ASSUME NEW k \in Nat, NEW x \in Int, NEW y \in Int, x <= y
  PROVE  k * x <= k * y /\ k * x \in Int /\ k * y \in Int
<1>1. k * (y - x) >= 0
  OBVIOUS
<1> QED
  BY <1>1

-----------------------------------------------------------------------------
(* Statuses of rules                                                       *)

\* The rules that are not about evidence.
QualityNames ==
    RelativeRules \cup
        {"min_candidate_primary_success_rate",
         "min_candidate_deployment_success_rate",
         "max_candidate_valid_but_wrong_rate",
         "min_candidate_parse_validity", "min_discordant_pairs",
         "min_candidate_schema_validity", "max_error_rate",
         "max_timeout_rate", "min_matched_latency_coverage",
         "max_p95_latency_increase_percent"}

\* Every rule keeps the status it has among its own.
LEMMA RulesAre ==
  ASSUME NEW rs
  PROVE  /\ DOMAIN RuleStatuses(rs) = EvidenceNames \cup QualityNames
         /\ \A name \in EvidenceNames :
               RuleStatuses(rs)[name] = EvidenceRules(rs)[name]
         /\ \A name \in QualityNames :
               RuleStatuses(rs)[name] = QualityRules(rs)[name]
<1>1. DOMAIN EvidenceRules(rs) = EvidenceNames
  BY DEF EvidenceRules, EvidenceNames, Safeguards
<1>2. DOMAIN QualityRules(rs) = QualityNames
  BY DEF QualityRules, QualityNames, RelativeRules
<1>3. EvidenceNames \cap QualityNames = {}
  BY DEF EvidenceNames, QualityNames, Safeguards, RelativeRules
<1> QED
  BY <1>1, <1>2, <1>3 DEF RuleStatuses

\* A status that stands in the way of a pass.
InTheWay == {"error", "insufficient_evidence", "failed"}

\* A decision is a pass when no rule stands in its way.
LEMMA PassMeans ==
  ASSUME NEW rs
  PROVE  Decided(rs).status = "passed" <=>
            /\ IsConfigured
            /\ \A name \in EvidenceNames : EvidenceRules(rs)[name] \notin InTheWay
            /\ \A name \in QualityNames : QualityRules(rs)[name] \notin InTheWay
<1> DEFINE stated == {RuleStatuses(rs)[name] : name \in DOMAIN RuleStatuses(rs)}
<1>1. Decided(rs).status = IF IsConfigured THEN Worst(stated) ELSE "not_configured"
  BY DEF Decided
<1>2. Worst(stated) = "passed" <=> \A s \in stated : s \notin InTheWay
  <2> HIDE DEF stated
  <2> QED
    BY DEF Worst, InTheWay
<1> QED
  BY <1>1, <1>2, RulesAre

\* A decision with a verdict is one with evidence.
LEMMA VerdictMeans ==
  ASSUME NEW rs, Decided(rs).status \in {"passed", "failed"}
  PROVE  /\ IsConfigured
         /\ \A name \in EvidenceNames :
               EvidenceRules(rs)[name] \notin {"error", "insufficient_evidence"}
<1> DEFINE stated == {RuleStatuses(rs)[name] : name \in DOMAIN RuleStatuses(rs)}
<1>1. Decided(rs).status = IF IsConfigured THEN Worst(stated) ELSE "not_configured"
  BY DEF Decided
<1>2. Worst(stated) \in {"passed", "failed"} =>
        \A s \in stated : s \notin {"error", "insufficient_evidence"}
  <2> HIDE DEF stated
  <2> QED
    BY DEF Worst
<1> QED
  BY <1>1, <1>2, RulesAre

\* Types of the statuses.
LEMMA StatusesTyped ==
  ASSUME NEW rs
  PROVE  /\ \A name \in EvidenceNames :
               EvidenceRules(rs)[name] \in {"passed", "insufficient_evidence", "error"}
         /\ \A name \in QualityNames :
               QualityRules(rs)[name] \in GateStatus \ {"error"}
<1>1. \A status : Required(status) \in {"passed", "insufficient_evidence"}
  BY DEF Required
<1>2. \A limit, v : /\ MaximumRule(limit, v) \in GateStatus \ {"error"}
                    /\ MinimumRule(limit, v) \in GateStatus \ {"error"}
                    /\ OptionalMaximum(limit, v) \in GateStatus \ {"error"}
  BY DEF MaximumRule, MinimumRule, OptionalMaximum, GateStatus
<1>3. /\ RepeatedTrialRule(rs) \in {"passed", "insufficient_evidence"}
      /\ LabelConflictRule(rs) \in {"passed", "error"}
  BY DEF RepeatedTrialRule, LabelConflictRule
<1>4. ASSUME NEW name \in EvidenceNames
      PROVE  EvidenceRules(rs)[name] \in {"passed", "insufficient_evidence", "error"}
  BY <1>1, <1>3 DEF EvidenceRules, EvidenceNames, Safeguards
<1>5. ASSUME NEW name \in QualityNames
      PROVE  QualityRules(rs)[name] \in GateStatus \ {"error"}
  BY <1>2 DEF QualityRules, QualityNames, RelativeRules
<1> QED
  BY <1>4, <1>5

\* What a rule about a share says when it passes.
LEMMA MinimumPassed ==
  ASSUME NEW limit \in Int, NEW n \in Nat, NEW total \in Nat,
         MinimumRule(limit, Rate(n, total)) = "passed"
  PROVE  100 * n >= limit * total /\ (total = 0 => limit <= 0)
<1>1. CASE total = 0
  BY <1>1 DEF MinimumRule, Rate
<1>2. CASE total # 0
  BY <1>2 DEF MinimumRule, Rate
<1> QED
  BY <1>1, <1>2

\* And at most a limit.
LEMMA MaximumPassed ==
  ASSUME NEW limit \in Int, NEW n \in Nat, NEW total \in Nat, n <= total,
         MaximumRule(limit, Rate(n, total)) = "passed"
  PROVE  100 * n <= limit * total
<1>1. CASE total = 0
  BY <1>1 DEF MaximumRule, Rate
<1>2. CASE total # 0
  BY <1>2 DEF MaximumRule, Rate
<1> QED
  BY <1>1, <1>2

\* A limit is an integer.
LEMMA LimitsAre ==
  ASSUME config \in Configs
  PROVE  \A name \in Limits : config.gate[name] \in Int
BY GateAssumption

\* Observations of a dataset.
LEMMA Seen ==
  ASSUME NEW rs, Dataset(rs), NEW i \in DOMAIN rs
  PROVE  /\ rs[i].baseline \in Observation /\ rs[i]["baseline"] = rs[i].baseline
         /\ rs[i].candidate \in Observation /\ rs[i]["candidate"] = rs[i].candidate
         /\ rs[i].size \in Nat \ {0}
BY DEF Dataset, RowOK

\* The summary's partition of the rows.
LEMMA Partition ==
  ASSUME NEW rs
  PROVE  /\ Sample(rs) \in SUBSET DOMAIN rs
         /\ DuplicateRows(rs) \in SUBSET DOMAIN rs
         /\ Sample(rs) \cap DuplicateRows(rs) = {}
         /\ Repeated(rs) = {} => Sample(rs) \cup DuplicateRows(rs) = DOMAIN rs
BY DEF Sample, DuplicateRows, Repeated

\* Evidence rules that a verdict has passed.
LEMMA EvidencePassed ==
  ASSUME NEW rs,
         \A name \in EvidenceNames :
            EvidenceRules(rs)[name] \notin {"error", "insufficient_evidence"}
  PROVE  /\ Repeated(rs) = {}
         /\ LabelConflicts(rs) = {}
         /\ MaximumRule(config.gate.max_duplicate_case_rate,
                        Rate(Size(rs, DuplicateRows(rs)), Size(rs, DOMAIN rs))) = "passed"
         /\ MinimumRule(config.gate.min_primary_fully_evaluated_rate,
                        Rate(Size(rs, JointlyScored(rs, Sample(rs))),
                             Size(rs, Sample(rs)))) = "passed"
<1>1. /\ EvidenceRules(rs).repeated_trial_model \notin {"error", "insufficient_evidence"}
      /\ EvidenceRules(rs).dataset_label_conflicts \notin {"error", "insufficient_evidence"}
      /\ EvidenceRules(rs).max_duplicate_case_rate \notin {"error", "insufficient_evidence"}
      /\ EvidenceRules(rs).min_primary_fully_evaluated_rate
            \notin {"error", "insufficient_evidence"}
  BY DEF EvidenceNames, Safeguards
<1>2. RepeatedTrialRule(rs) \notin {"error", "insufficient_evidence"}
  BY <1>1 DEF EvidenceRules
<1>3. LabelConflictRule(rs) \notin {"error", "insufficient_evidence"}
  BY <1>1 DEF EvidenceRules
<1>4. Required(MaximumRule(config.gate.max_duplicate_case_rate,
               Rate(Size(rs, DuplicateRows(rs)), Size(rs, DOMAIN rs))))
        \notin {"error", "insufficient_evidence"}
  BY <1>1 DEF EvidenceRules
<1>5. Required(MinimumRule(config.gate.min_primary_fully_evaluated_rate,
               Rate(Size(rs, JointlyScored(rs, Sample(rs))), Size(rs, Sample(rs)))))
        \notin {"error", "insufficient_evidence"}
  BY <1>1 DEF EvidenceRules
<1> QED
  BY <1>2, <1>3, <1>4, <1>5, Zenon DEF RepeatedTrialRule, LabelConflictRule, Required

\* What is outside a part of the sample is in the rest of it or a duplicate.
LEMMA PartsBound ==
  ASSUME NEW rs, Dataset(rs), NEW sample \in SUBSET DOMAIN rs,
         NEW dups \in SUBSET DOMAIN rs, NEW part \in SUBSET sample,
         NEW others \in SUBSET ((sample \ part) \cup dups)
  PROVE  Size(rs, others) <= Size(rs, sample) - Size(rs, part) + Size(rs, dups)
<1> DEFINE left == sample \ part
           more == dups \ left
<1>1. /\ left \in SUBSET DOMAIN rs /\ more \in SUBSET dups /\ more \in SUBSET DOMAIN rs
      /\ part \in SUBSET DOMAIN rs /\ left \cap more = {} /\ part \cap left = {}
      /\ left \cup dups = left \cup more /\ part \cup left = sample
      /\ left \cup more \in SUBSET DOMAIN rs /\ others \in SUBSET (left \cup more)
  OBVIOUS
<1> HIDE DEF left, more
<1>2. Size(rs, left \cup more) = Size(rs, left) + Size(rs, more)
  BY <1>1, SizeOfParts
<1>3. Size(rs, sample) = Size(rs, part) + Size(rs, left)
  BY <1>1, SizeOfParts
<1>4. /\ Size(rs, others) <= Size(rs, left \cup more)
      /\ Size(rs, more) <= Size(rs, dups)
      /\ Size(rs, others) \in Nat /\ Size(rs, left) \in Nat /\ Size(rs, more) \in Nat
      /\ Size(rs, dups) \in Nat /\ Size(rs, part) \in Nat
  BY <1>1, SizeOfPart
<1> QED
  BY <1>2, <1>3, <1>4

\* The rows that were not evaluated on both sides: those of the sample, and
\* at most the duplicates.
LEMMA UnknownBound ==
  ASSUME NEW rs, Dataset(rs), Repeated(rs) = {}
  PROVE  LET sample == Sample(rs)
             joint  == JointlyScored(rs, sample)
         IN  /\ Size(rs, DOMAIN rs \ JointlyScored(rs, DOMAIN rs))
                   <= Size(rs, sample) - Size(rs, joint) + Size(rs, DuplicateRows(rs))
             /\ Size(rs, joint) <= Size(rs, sample)
             /\ Size(rs, sample) <= Size(rs, DOMAIN rs)
             /\ Size(rs, DuplicateRows(rs)) <= Size(rs, DOMAIN rs)
<1> DEFINE sample == Sample(rs)
           joint == JointlyScored(rs, sample)
           dups == DuplicateRows(rs)
           unknown == DOMAIN rs \ JointlyScored(rs, DOMAIN rs)
<1>1. /\ sample \in SUBSET DOMAIN rs /\ dups \in SUBSET DOMAIN rs
      /\ sample \cup dups = DOMAIN rs
  BY Partition
<1>2. joint \in SUBSET sample /\ joint \in SUBSET DOMAIN rs
  BY <1>1 DEF JointlyScored
<1>3. unknown \in SUBSET ((sample \ joint) \cup dups)
  BY <1>1 DEF JointlyScored
<1> HIDE DEF sample, joint, dups, unknown
<1>4. /\ Size(rs, joint) <= Size(rs, sample) /\ Size(rs, sample) <= Size(rs, DOMAIN rs)
      /\ Size(rs, dups) <= Size(rs, DOMAIN rs)
  BY <1>1, <1>2, SizeOfPart
<1>5. Size(rs, unknown) <= Size(rs, sample) - Size(rs, joint) + Size(rs, dups)
  BY <1>1, <1>2, <1>3, PartsBound
<1> QED
  BY <1>4, <1>5 DEF sample, joint, dups, unknown

\* A verdict is given on what was evaluated.
LEMMA VerdictEarned ==
  ASSUME config \in Configs, Dataset(rows), decision = Decided(rows)
  PROVE  VerdictIsEvaluated
<1> SUFFICES ASSUME decision.status \in {"passed", "failed"}
             PROVE  LET tolerance == 100 - config.gate.min_primary_fully_evaluated_rate
                                         + config.gate.max_duplicate_case_rate
                        unknown   == DOMAIN rows \ JointlyScored(rows, DOMAIN rows)
                    IN  /\ 100 * Size(rows, unknown) <= tolerance * Size(rows, DOMAIN rows)
                        /\ \A i, j \in DOMAIN rows :
                              UnitOf(rows[i]) = UnitOf(rows[j])
                                 => Signature(rows[i]) = Signature(rows[j])
  BY DEF VerdictIsEvaluated
<1> DEFINE full == config.gate.min_primary_fully_evaluated_rate
           extra == config.gate.max_duplicate_case_rate
           total == Size(rows, Sample(rows))
           joint == Size(rows, JointlyScored(rows, Sample(rows)))
           dups == Size(rows, DuplicateRows(rows))
           all == Size(rows, DOMAIN rows)
           unknown == Size(rows, DOMAIN rows \ JointlyScored(rows, DOMAIN rows))
<1>1. \A name \in EvidenceNames :
        EvidenceRules(rows)[name] \notin {"error", "insufficient_evidence"}
  BY VerdictMeans
<1>2. Repeated(rows) = {}
  BY <1>1, EvidencePassed
<1>3. full \in Int /\ extra \in Int
  BY LimitsAre DEF Limits, Safeguards
<1>4. /\ JointlyScored(rows, Sample(rows)) \in SUBSET DOMAIN rows
      /\ DOMAIN rows \ JointlyScored(rows, DOMAIN rows) \in SUBSET DOMAIN rows
  BY Partition DEF JointlyScored
<1>5. total \in Nat /\ joint \in Nat /\ dups \in Nat /\ all \in Nat /\ unknown \in Nat
  BY <1>4, Partition, SizeOfPart
<1>6. /\ unknown <= total - joint + dups /\ joint <= total /\ total <= all
      /\ dups <= all
  BY <1>2, UnknownBound
<1>7. /\ MinimumRule(full, Rate(joint, total)) = "passed"
      /\ MaximumRule(extra, Rate(dups, all)) = "passed"
  BY <1>1, EvidencePassed
<1> HIDE DEF full, extra, total, joint, dups, all, unknown
<1>8. 100 * joint >= full * total /\ (total = 0 => full <= 0)
  BY <1>3, <1>5, <1>7, MinimumPassed
<1>9. 100 * dups <= extra * all
  BY <1>3, <1>5, <1>6, <1>7, MaximumPassed
<1>10. full <= 100
  <2>1. CASE total = 0
    BY <1>3, <1>8, <2>1
  <2>2. CASE total # 0 /\ full > 100
    <3>1. (full - 100) * total > 0
      BY <1>3, <1>5, <2>2
    <3>2. full * total = 100 * total + (full - 100) * total
      BY <1>3, <1>5
    <3> QED
      BY <1>3, <1>5, <1>6, <1>8, <3>1, <3>2
  <2> QED
    BY <1>3, <2>1, <2>2
<1>11. (100 - full) * total <= (100 - full) * all
  BY <1>3, <1>5, <1>6, <1>10, Products
<1>12. 100 * unknown <= (100 - full) * total + extra * all
  <2>1. (100 - full) * total = 100 * total - full * total
    BY <1>3, <1>5
  <2>2. full * total \in Int /\ extra * all \in Int
    BY <1>3, <1>5
  <2> QED
    BY <1>5, <1>6, <1>8, <1>9, <2>1, <2>2
<1>13. (100 - full + extra) * all = (100 - full) * all + extra * all
  BY <1>3, <1>5
<1>14. 100 * unknown <= (100 - full + extra) * all
  <2>1. extra * all \in Int /\ (100 - full) * all \in Int /\ (100 - full) * total \in Int
    BY <1>3, <1>5
  <2> QED
    BY <1>5, <1>11, <1>12, <1>13, <2>1
<1>15. ASSUME NEW i \in DOMAIN rows, NEW j \in DOMAIN rows, UnitOf(rows[i]) = UnitOf(rows[j])
       PROVE  Signature(rows[i]) = Signature(rows[j])
  BY <1>2, <1>15 DEF Repeated, Members
<1> QED
  BY <1>14, <1>15 DEF full, extra, all, unknown

\* Quality rules by name.
LEMMA DeployedShare ==
  ASSUME NEW rs,
         QualityRules(rs).min_candidate_deployment_success_rate \notin InTheWay,
         config.gate.min_candidate_deployment_success_rate # Unset
  PROVE  MinimumRule(config.gate.min_candidate_deployment_success_rate,
                     Rate(Tally(rs, Sample(rs), "candidate", "deployed"),
                          Size(rs, Sample(rs)))) = "passed"
<1>1. QualityRules(rs).min_candidate_deployment_success_rate =
        MinimumRule(config.gate.min_candidate_deployment_success_rate,
                    Rate(Tally(rs, Sample(rs), "candidate", "deployed"),
                         Size(rs, Sample(rs))))
  BY DEF QualityRules
<1> QED
  BY <1>1 DEF MinimumRule, InTheWay

\* An authorized candidate succeeded, on all rows.
LEMMA AuthorizationEarned ==
  ASSUME config \in Configs, Accepted(config), Dataset(rows), decision = Decided(rows)
  PROVE  AuthorizedHidesNothing
<1> SUFFICES ASSUME decision.authorized
             PROVE  LET all     == Size(rows, DOMAIN rows)
                        unsafe  == {i \in DOMAIN rows : ~Deploy(rows[i].candidate)}
                        unknown == DOMAIN rows \ JointlyScored(rows, DOMAIN rows)
                    IN  /\ 100 * Size(rows, unsafe) <= 6 * all
                        /\ 100 * Size(rows, unknown) <= 2 * all
  BY DEF AuthorizedHidesNothing
<1>1. Decided(rows).status = "passed" /\ config.mode = "release"
  BY DEF Decided
<1> DEFINE floor == config.gate.min_candidate_deployment_success_rate
           full == config.gate.min_primary_fully_evaluated_rate
           extra == config.gate.max_duplicate_case_rate
           sample == Sample(rows)
           good == {i \in sample : Is(rows[i]["candidate"], "deployed")}
           joint == JointlyScored(rows, sample)
           dups == DuplicateRows(rows)
           unsafe == {i \in DOMAIN rows : ~Deploy(rows[i].candidate)}
           unknown == DOMAIN rows \ JointlyScored(rows, DOMAIN rows)
           all == Size(rows, DOMAIN rows)
<1>2. /\ floor # Unset /\ floor >= 95 /\ full >= 99 /\ extra <= 1
  BY <1>1 DEF Accepted, SafeProfile, AtLeast, AtMost
<1>3. floor \in Int /\ full \in Int /\ extra \in Int
  BY LimitsAre DEF Limits, Safeguards
<1>4. /\ \A name \in EvidenceNames :
            EvidenceRules(rows)[name] \notin {"error", "insufficient_evidence"}
      /\ QualityRules(rows).min_candidate_deployment_success_rate \notin InTheWay
  <2>1. "min_candidate_deployment_success_rate" \in QualityNames
    BY DEF QualityNames
  <2> QED
    BY <1>1, <2>1, PassMeans DEF InTheWay
<1>5. Repeated(rows) = {}
  BY <1>4, EvidencePassed
<1>6. /\ sample \in SUBSET DOMAIN rows /\ dups \in SUBSET DOMAIN rows
      /\ sample \cup dups = DOMAIN rows
  BY <1>5, Partition
<1>7. /\ joint \in SUBSET DOMAIN rows /\ good \in SUBSET sample
      /\ unknown \in SUBSET DOMAIN rows /\ unsafe \in SUBSET DOMAIN rows
  BY <1>6 DEF JointlyScored
<1>8. unsafe \in SUBSET ((sample \ good) \cup dups)
  <2>1. ASSUME NEW i \in DOMAIN rows
        PROVE  Is(rows[i]["candidate"], "deployed") = Deploy(rows[i].candidate)
    BY DEF Is
  <2> QED
    BY <1>6, <2>1
<1>9. /\ Size(rows, unknown) <= Size(rows, sample) - Size(rows, joint) + Size(rows, dups)
      /\ Size(rows, joint) <= Size(rows, sample) /\ Size(rows, sample) <= all
      /\ Size(rows, dups) <= all
  BY <1>5, UnknownBound
<1>10. /\ MinimumRule(full, Rate(Size(rows, joint), Size(rows, sample))) = "passed"
       /\ MaximumRule(extra, Rate(Size(rows, dups), all)) = "passed"
  BY <1>4, EvidencePassed
<1>11. MinimumRule(floor, Rate(Size(rows, good), Size(rows, sample))) = "passed"
  BY <1>2, <1>4, DeployedShare DEF Tally
<1> HIDE DEF floor, full, extra, sample, good, joint, dups, unsafe, unknown
<1>12. /\ Size(rows, sample) \in Nat /\ Size(rows, good) \in Nat /\ Size(rows, joint) \in Nat
       /\ Size(rows, dups) \in Nat /\ Size(rows, unsafe) \in Nat
       /\ Size(rows, unknown) \in Nat /\ all \in Nat
       /\ Size(rows, sample \ good) \in Nat
  BY <1>6, <1>7, SizeOfPart
<1>13. Size(rows, unsafe) <= Size(rows, sample) - Size(rows, good) + Size(rows, dups)
  BY <1>6, <1>7, <1>8, PartsBound
<1> DEFINE t == Size(rows, sample)
           j == Size(rows, joint)
           d == Size(rows, dups)
           s == Size(rows, good)
           u == Size(rows, unsafe)
           k == Size(rows, unknown)
<1>14. /\ 100 * j >= full * t /\ 100 * s >= floor * t /\ 100 * d <= extra * all
  BY <1>3, <1>9, <1>10, <1>11, <1>12, MinimumPassed, MaximumPassed
<1>15. 95 * t <= floor * t /\ 99 * t <= full * t /\ extra * all <= 1 * all
  <2>1. (floor - 95) * t >= 0 /\ (full - 99) * t >= 0 /\ (1 - extra) * all >= 0
    BY <1>2, <1>3, <1>12
  <2> QED
    BY <1>3, <1>12, <2>1
<1> HIDE DEF t, j, d, s, u, k, all
<1>16. /\ t \in Nat /\ j \in Nat /\ d \in Nat /\ s \in Nat /\ u \in Nat /\ k \in Nat
       /\ all \in Nat
  BY <1>12 DEF t, j, d, s, u, k
<1>17. /\ floor * t \in Int /\ full * t \in Int /\ extra * all \in Int
  BY <1>3, <1>16
<1>18. 100 * s >= 95 * t /\ 100 * j >= 99 * t /\ 100 * d <= all
  BY <1>14, <1>15, <1>16, <1>17
<1>19. k <= t - j + d /\ u <= t - s + d /\ t <= all
  BY <1>9, <1>13 DEF t, j, d, s, u, k, all
<1>20. 100 * u <= 6 * all /\ 100 * k <= 2 * all
  BY <1>16, <1>18, <1>19
<1> QED
  BY <1>20 DEF all, unsafe, unknown, u, k

-----------------------------------------------------------------------------
(* Samples that correspond                                                 *)

\* The rows at the positions A of one dataset are those at B of another, in
\* some order, as far as their sizes and observations go.
Corresponds(rs, A, rt, B) ==
    /\ Dataset(rs) /\ A \in SUBSET DOMAIN rs
    /\ Dataset(rt) /\ B \in SUBSET DOMAIN rt
    /\ \E pi \in Bijection(A, B) : \A i \in A :
          /\ rt[pi[i]].size = rs[i].size
          /\ rt[pi[i]].baseline = rs[i].baseline
          /\ rt[pi[i]].candidate = rs[i].candidate

\* The positions in A whose pair of observations is in Q.
Selected(rs, A, Q) == {i \in A : <<rs[i].baseline, rs[i].candidate>> \in Q}

\* So they do in the parts that have a property in common.
LEMMA PartsCorrespond ==
  ASSUME NEW rs, NEW A, NEW rt, NEW B, Corresponds(rs, A, rt, B), NEW Q
  PROVE  Corresponds(rs, Selected(rs, A, Q), rt, Selected(rt, B, Q))
<1> DEFINE AQ == {i \in A : <<rs[i].baseline, rs[i].candidate>> \in Q}
           BQ == {j \in B : <<rt[j].baseline, rt[j].candidate>> \in Q}
<1>1. PICK pi \in Bijection(A, B) : \A i \in A :
          /\ rt[pi[i]].size = rs[i].size
          /\ rt[pi[i]].baseline = rs[i].baseline
          /\ rt[pi[i]].candidate = rs[i].candidate
  BY DEF Corresponds
<1>2. /\ pi \in [A -> B]
      /\ \A x, y \in A : pi[x] = pi[y] => x = y
      /\ \A y \in B : \E x \in A : pi[x] = y
  BY DEF Bijection, Injection, Surjection, IsInjective
<1> DEFINE rho == [i \in AQ |-> pi[i]]
<1>3. rho \in [AQ -> BQ]
  BY <1>1, <1>2
<1>4. \A x, y \in AQ : rho[x] = rho[y] => x = y
  BY <1>2
<1>5. \A y \in BQ : \E x \in AQ : rho[x] = y
  BY <1>1, <1>2
<1>6. \A i \in AQ : /\ rt[rho[i]].size = rs[i].size
                    /\ rt[rho[i]].baseline = rs[i].baseline
                    /\ rt[rho[i]].candidate = rs[i].candidate
  BY <1>1
<1>7. AQ \in SUBSET DOMAIN rs /\ BQ \in SUBSET DOMAIN rt
  BY DEF Corresponds
<1> HIDE DEF AQ, BQ, rho
<1>8. rho \in Bijection(AQ, BQ)
  BY <1>3, <1>4, <1>5 DEF Bijection, Injection, Surjection, IsInjective
<1>9. Corresponds(rs, AQ, rt, BQ)
  BY <1>6, <1>7, <1>8 DEF Corresponds
<1> QED
  BY <1>9 DEF AQ, BQ, Selected

\* They are as many.
LEMMA SameSize ==
  ASSUME NEW rs, NEW A, NEW rt, NEW B, Corresponds(rs, A, rt, B)
  PROVE  Size(rs, A) = Size(rt, B) /\ Size(rs, A) \in Nat
<1>1. PICK pi \in Bijection(A, B) : \A i \in A : rt[pi[i]].size = rs[i].size
  BY DEF Corresponds
<1>2. \A i \in A : pi[i] \in B
  BY DEF Bijection, Injection
<1>3. Weighs(Sizes(rs), A)
  BY DatasetWeighs DEF Corresponds
<1>4. \A i \in A : Sizes(rt)[pi[i]] = Sizes(rs)[i]
  BY <1>1, <1>2 DEF Sizes, Corresponds
<1>5. Weighs(Sizes(rt), B) /\ Total(Sizes(rt), B) = Total(Sizes(rs), A)
  BY <1>3, <1>4, TotalRenamed
<1> QED
  BY <1>3, <1>5, SumIsTotal, TotalNat DEF Size

\* A component count is a weight.
LEMMA ComponentsWeigh ==
  ASSUME NEW rs, Dataset(rs), NEW A \in SUBSET DOMAIN rs, NEW v, NEW status,
         config \in Configs
  PROVE  Weighs(Components(rs, v, status), A)
<1>1. ASSUME NEW r
      PROVE  Cardinality(With(config.outcome, r, status)) \in Nat
  <2>1. config.outcome.ids \in SUBSET Evaluators
    BY GateAssumption DEF Outcome
  <2>2. With(config.outcome, r, status) \in SUBSET Evaluators
    BY <2>1 DEF With
  <2> QED
    BY <2>2, ScoringAssumption, FS_Subset, FS_CardinalityType
<1>2. ASSUME NEW i \in A PROVE Components(rs, v, status)[i] \in Nat
  <2>1. Components(rs, v, status)[i] =
          rs[i].size * Cardinality(With(config.outcome, ResultsOf(rs[i][v]), status))
    BY DEF Components
  <2>2. Cardinality(With(config.outcome, ResultsOf(rs[i][v]), status)) \in Nat
    BY <1>1
  <2>3. rs[i].size \in Nat
    BY DEF Dataset, RowOK
  <2> HIDE DEF With, ResultsOf
  <2> QED
    BY <2>1, <2>2, <2>3
<1> QED
  BY <1>2, DatasetWeighs DEF Weighs

\* They have as many components of a status.
LEMMA SameComponents ==
  ASSUME NEW rs, NEW A, NEW rt, NEW B, Corresponds(rs, A, rt, B),
         config \in Configs, NEW v \in Variants, NEW status
  PROVE  SumFunctionOnSet(Components(rs, v, status), A) =
            SumFunctionOnSet(Components(rt, v, status), B)
<1>1. PICK pi \in Bijection(A, B) : \A i \in A :
          /\ rt[pi[i]].size = rs[i].size
          /\ rt[pi[i]].baseline = rs[i].baseline
          /\ rt[pi[i]].candidate = rs[i].candidate
  BY DEF Corresponds
<1>2. \A i \in A : pi[i] \in B
  BY DEF Bijection, Injection
<1>3. Weighs(Components(rs, v, status), A)
  BY ComponentsWeigh DEF Corresponds
<1>4. ASSUME NEW i \in A
      PROVE  Components(rt, v, status)[pi[i]] = Components(rs, v, status)[i]
  <2>1. rt[pi[i]][v] = rs[i][v]
    BY <1>1 DEF Variants
  <2>2. /\ i \in DOMAIN rs /\ pi[i] \in DOMAIN rt
        /\ rt[pi[i]].size = rs[i].size
    BY <1>1, <1>2 DEF Corresponds
  <2> QED
    BY <2>1, <2>2 DEF Components
<1>5. /\ Weighs(Components(rt, v, status), B)
      /\ Total(Components(rt, v, status), B) = Total(Components(rs, v, status), A)
  BY <1>3, <1>4, TotalRenamed
<1> QED
  BY <1>3, <1>5, SumIsTotal

\* Observations of corresponding positions, as pairs.
Pairs == Observation \X Observation

\* The two observations of a row are such a pair.
LEMMA InPairs ==
  ASSUME NEW rs, Dataset(rs), NEW i \in DOMAIN rs
  PROVE  <<rs[i].baseline, rs[i].candidate>> \in Pairs
BY Seen DEF Pairs

\* Every count of the summary is the same.
LEMMA SameTally ==
  ASSUME NEW rs, NEW A, NEW rt, NEW B, Corresponds(rs, A, rt, B),
         NEW v \in Variants, NEW what
  PROVE  Tally(rs, A, v, what) = Tally(rt, B, v, what)
<1> DEFINE Q == {p \in Pairs : Is(IF v = "baseline" THEN p[1] ELSE p[2], what)}
<1>1. Selected(rs, A, Q) =
        {i \in A : Is(rs[i][v], what)}
  BY InPairs, Zenon DEF Selected, Variants, Corresponds
<1>2. Selected(rt, B, Q) =
        {i \in B : Is(rt[i][v], what)}
  BY InPairs, Zenon DEF Selected, Variants, Corresponds
<1> HIDE DEF Q
<1>3. Size(rs, Selected(rs, A, Q)) = Size(rt, Selected(rt, B, Q))
  BY PartsCorrespond, SameSize
<1> QED
  BY <1>1, <1>2, <1>3, Zenon DEF Tally

\* The parts that the rules look at correspond.
LEMMA JointCorresponds ==
  ASSUME NEW rs, NEW A, NEW rt, NEW B, Corresponds(rs, A, rt, B)
  PROVE  Corresponds(rs, JointlyScored(rs, A), rt, JointlyScored(rt, B))
<1> DEFINE Q == {p \in Pairs : Full(p[1]) /\ Full(p[2])}
<1>1. Selected(rs, A, Q) = JointlyScored(rs, A)
  BY InPairs DEF Selected, JointlyScored, Corresponds
<1>2. Selected(rt, B, Q) = JointlyScored(rt, B)
  BY InPairs DEF Selected, JointlyScored, Corresponds
<1> HIDE DEF Q
<1> QED
  BY <1>1, <1>2, PartsCorrespond, Zenon

\* And the discordant ones among them.
LEMMA DiscordantCorresponds ==
  ASSUME NEW rs, NEW A, NEW rt, NEW B, Corresponds(rs, A, rt, B)
  PROVE  Corresponds(rs, Discordant(rs, A), rt, Discordant(rt, B))
<1> DEFINE Q == {p \in Pairs : Pass(p[1]) # Pass(p[2])}
           J == JointlyScored(rs, A)
           K == JointlyScored(rt, B)
<1>1. Corresponds(rs, J, rt, K)
  BY JointCorresponds
<1>2. Selected(rs, J, Q) = Discordant(rs, A)
  BY InPairs DEF Selected, JointlyScored, Discordant, Corresponds
<1>3. Selected(rt, K, Q) = Discordant(rt, B)
  BY InPairs DEF Selected, JointlyScored, Discordant, Corresponds
<1> HIDE DEF Q, J, K
<1> QED
  BY <1>1, <1>2, <1>3, PartsCorrespond, Zenon

\* And the pairs with a latency on both sides.
LEMMA TimedCorresponds ==
  ASSUME NEW rs, NEW A, NEW rt, NEW B, Corresponds(rs, A, rt, B)
  PROVE  Corresponds(rs, Timed(rs, A), rt, Timed(rt, B))
<1> DEFINE Q == {p \in Pairs : p[1].latency # Unmeasured /\ p[2].latency # Unmeasured}
<1>1. Selected(rs, A, Q) = Timed(rs, A)
  BY InPairs DEF Selected, Timed, Variants, Corresponds
<1>2. Selected(rt, B, Q) = Timed(rt, B)
  BY InPairs DEF Selected, Timed, Variants, Corresponds
<1> HIDE DEF Q
<1> QED
  BY <1>1, <1>2, PartsCorrespond, Zenon

\* Percentiles are the same.
LEMMA SameP95 ==
  ASSUME NEW rs, NEW A, NEW rt, NEW B, Corresponds(rs, A, rt, B), NEW v \in Variants
  PROVE  P95(rs, A, v) = P95(rt, B, v)
<1>1. ASSUME NEW x
      PROVE  Size(rs, {i \in A : rs[i][v].latency <= x}) =
                Size(rt, {i \in B : rt[i][v].latency <= x})
  <2> DEFINE Q == {p \in Pairs : (IF v = "baseline" THEN p[1] ELSE p[2]).latency <= x}
  <2>1. Selected(rs, A, Q) =
          {i \in A : rs[i][v].latency <= x}
    BY InPairs, Zenon DEF Selected, Variants, Corresponds
  <2>2. Selected(rt, B, Q) =
          {i \in B : rt[i][v].latency <= x}
    BY InPairs, Zenon DEF Selected, Variants, Corresponds
  <2> HIDE DEF Q
  <2>3. Size(rs, Selected(rs, A, Q)) = Size(rt, Selected(rt, B, Q))
    BY PartsCorrespond, SameSize
  <2> QED
    BY <2>1, <2>2, <2>3, Zenon
<1>2. Size(rs, A) = Size(rt, B)
  BY SameSize
<1>3. {rs[i][v].latency : i \in A} = {rt[i][v].latency : i \in B}
  <2>1. PICK pi \in Bijection(A, B) : \A i \in A :
          /\ rt[pi[i]].baseline = rs[i].baseline
          /\ rt[pi[i]].candidate = rs[i].candidate
    BY DEF Corresponds
  <2>2. (\A i \in A : pi[i] \in B) /\ \A y \in B : \E x \in A : pi[x] = y
    BY DEF Bijection, Injection, Surjection
  <2>3. \A i \in A : rt[pi[i]][v] = rs[i][v]
    BY <2>1 DEF Variants
  <2> QED
    BY <2>2, <2>3
<1>4. {x \in {rs[i][v].latency : i \in A} :
          Size(rs, {i \in A : rs[i][v].latency <= x}) >
             (95 * (Size(rs, A) - 1) + 99) \div 100} =
      {x \in {rt[i][v].latency : i \in B} :
          Size(rt, {i \in B : rt[i][v].latency <= x}) >
             (95 * (Size(rt, B) - 1) + 99) \div 100}
  BY <1>1, <1>2, <1>3, Zenon
<1> QED
  BY <1>4, Zenon DEF P95

\* So is the increase in latency.
LEMMA SameLatency ==
  ASSUME NEW rs, NEW A, NEW rt, NEW B, Corresponds(rs, A, rt, B)
  PROVE  LatencyIncrease(rs, A) = LatencyIncrease(rt, B)
<1>1. P95(rs, A, "baseline") = P95(rt, B, "baseline")
  BY SameP95 DEF Variants
<1>2. P95(rs, A, "candidate") = P95(rt, B, "candidate")
  BY SameP95 DEF Variants
<1>3. A = {} <=> B = {}
  BY DEF Corresponds, Bijection, Injection, Surjection
<1> QED
  BY <1>1, <1>2, <1>3, Zenon DEF LatencyIncrease

\* The quality rules say the same of corresponding samples.
LEMMA SameQuality ==
  ASSUME NEW rs, NEW rt, Corresponds(rs, Sample(rs), rt, Sample(rt))
  PROVE  QualityRules(rs) = QualityRules(rt)
<1> DEFINE S == Sample(rs)
           T == Sample(rt)
           J == JointlyScored(rs, S)
           K == JointlyScored(rt, T)
<1>1. /\ Corresponds(rs, S, rt, T) /\ Corresponds(rs, J, rt, K)
      /\ Corresponds(rs, Discordant(rs, S), rt, Discordant(rt, T))
      /\ Corresponds(rs, Timed(rs, S), rt, Timed(rt, T))
  BY JointCorresponds, DiscordantCorresponds, TimedCorresponds
<1>2. /\ Size(rs, S) = Size(rt, T) /\ Size(rs, J) = Size(rt, K)
      /\ Size(rs, Discordant(rs, S)) = Size(rt, Discordant(rt, T))
      /\ Size(rs, Timed(rs, S)) = Size(rt, Timed(rt, T))
  <2> HIDE DEF S, T, J, K
  <2> QED
    BY <1>1, SameSize
<1>3. \A what : /\ Tally(rs, S, "baseline", what) = Tally(rt, T, "baseline", what)
                /\ Tally(rs, S, "candidate", what) = Tally(rt, T, "candidate", what)
                /\ Tally(rs, J, "baseline", what) = Tally(rt, K, "baseline", what)
                /\ Tally(rs, J, "candidate", what) = Tally(rt, K, "candidate", what)
  <2> HIDE DEF S, T, J, K
  <2> QED
    BY <1>1, SameTally DEF Variants
<1>4. LatencyIncrease(rs, Timed(rs, S)) = LatencyIncrease(rt, Timed(rt, T))
  <2> HIDE DEF S, T, J, K
  <2> QED
    BY <1>1, SameLatency
<1> QED
  BY <1>2, <1>3, <1>4 DEF QualityRules

\* And so do those of the evidence rules that are about the sample.
LEMMA SameEvidence ==
  ASSUME NEW rs, NEW rt, Corresponds(rs, Sample(rs), rt, Sample(rt)), config \in Configs
  PROVE  \A name \in Safeguards \ {"max_duplicate_case_rate"} :
            EvidenceRules(rs)[name] = EvidenceRules(rt)[name]
<1> DEFINE S == Sample(rs)
           T == Sample(rt)
<1>1. Size(rs, S) = Size(rt, T)
  <2> HIDE DEF S, T
  <2> QED
    BY SameSize DEF S, T
<1>2. Size(rs, JointlyScored(rs, S)) = Size(rt, JointlyScored(rt, T))
  <2> HIDE DEF S, T
  <2> QED
    BY JointCorresponds, SameSize DEF S, T
<1>3. \A status : ComponentRate(rs, S, status) = ComponentRate(rt, T, status)
  <2> TAKE status
  <2>1. \A v \in Variants : SumFunctionOnSet(Components(rs, v, status), S) =
                            SumFunctionOnSet(Components(rt, v, status), T)
    BY SameComponents
  <2> HIDE DEF S, T
  <2> QED
    BY <1>1, <2>1 DEF ComponentRate, Variants
<1> QED
  BY <1>1, <1>2, <1>3 DEF EvidenceRules, Safeguards

-----------------------------------------------------------------------------
(* Copies                                                                  *)

\* The first of some positions of a dataset.
LEMMA First ==
  ASSUME NEW rs, Dataset(rs), NEW S \in SUBSET DOMAIN rs, S # {}
  PROVE  Min(S) \in S /\ \A k \in S : Min(S) <= k
<1>1. S \in SUBSET Nat
  BY DEF Dataset
<1>2. \E m \in S : \A k \in S : m <= k
  BY <1>1, LeastNumber
<1> QED
  BY <1>2, Zenon DEF Min

\* It is the only one that is no later than all.
LEMMA FirstIs ==
  ASSUME NEW rs, Dataset(rs), NEW S \in SUBSET DOMAIN rs, NEW m \in S,
         \A k \in S : m <= k
  PROVE  Min(S) = m
<1>1. Min(S) \in S /\ Min(S) <= m /\ m <= Min(S)
  BY First
<1>2. m \in Nat /\ Min(S) \in Nat
  BY <1>1 DEF Dataset
<1> QED
  BY <1>1, <1>2

\* Rows in the order of the dataset.
LEMMA DatasetOf ==
  ASSUME NEW rs \in Seq(Rows)
  PROVE  Dataset(rs) /\ DOMAIN rs = 1..Len(rs) /\ \A i \in DOMAIN rs : rs[i] \in Rows
<1>1. DOMAIN rs = 1..Len(rs) /\ Len(rs) \in Nat /\ \A i \in DOMAIN rs : rs[i] \in Rows
  OBVIOUS
<1>2. \A row \in Rows : RowOK(row)
  <2>1. \A row \in Rows : row["baseline"] \in Observation /\ row["candidate"] \in Observation
    BY GateAssumption DEF Variants
  <2> QED
    BY <2>1, GateAssumption DEF RowOK, Variants
<1> QED
  BY <1>1, <1>2 DEF Dataset

\* A dataset with one of its rows again: what the summary makes of it.
LEMMA CopySummary ==
  ASSUME NEW rs \in Seq(Rows), NEW i \in DOMAIN rs,
         Repeated(Append(rs, rs[i])) = {}
  PROVE  LET rt == Append(rs, rs[i])
             n  == Len(rs) + 1
         IN  /\ Dataset(rs) /\ Dataset(rt) /\ DOMAIN rt = DOMAIN rs \cup {n}
             /\ n \notin DOMAIN rs
             /\ \A k \in DOMAIN rs : rt[k] = rs[k]
             /\ rt[n] = rs[i]
             /\ Repeated(rs) = {} /\ Sample(rt) = Sample(rs)
             /\ DuplicateRows(rt) = DuplicateRows(rs) \cup {n}
<1> DEFINE rt == Append(rs, rs[i])
           n  == Len(rs) + 1
<1>1. /\ rt \in Seq(Rows) /\ DOMAIN rt = DOMAIN rs \cup {n} /\ n \notin DOMAIN rs
      /\ \A k \in DOMAIN rs : rt[k] = rs[k] /\ k < n /\ k \in Nat
      /\ rt[n] = rs[i] /\ n \in Nat
  <2>1. rs[i] \in Rows /\ DOMAIN rs = 1..Len(rs) /\ Len(rs) \in Nat
    OBVIOUS
  <2>2. rt \in Seq(Rows) /\ Len(rt) = n /\ DOMAIN rt = 1..n
    BY <2>1
  <2> QED
    BY <2>1, <2>2
<1>2. Dataset(rs) /\ Dataset(rt)
  BY <1>1, DatasetOf
<1> HIDE DEF rt, n
<1>3. \A u : Members(rs, u) \in SUBSET DOMAIN rs /\ Members(rt, u) \in SUBSET DOMAIN rt
  BY DEF Members
<1>4. \A u : /\ Members(rs, u) \subseteq Members(rt, u)
             /\ Members(rt, u) \subseteq Members(rs, u) \cup {n}
  BY <1>1 DEF Members
<1>5. Repeated(rt) = {}
  BY DEF rt
<1>6. Repeated(rs) = {}
  <2>1. ASSUME NEW k \in DOMAIN rs, NEW j \in Members(rs, UnitOf(rs[k]))
        PROVE  Signature(rs[j]) = Signature(rs[k])
    <3>1. j \in Members(rt, UnitOf(rt[k])) /\ j \in DOMAIN rs /\ k \in DOMAIN rt
      BY <1>1, <1>3, <1>4
    <3>2. Signature(rt[j]) = Signature(rt[k])
      BY <1>5, <3>1, Zenon DEF Repeated
    <3> QED
      BY <1>1, <3>1, <3>2
  <2> QED
    BY <2>1 DEF Repeated
<1>7. ASSUME NEW k \in DOMAIN rs
      PROVE  Min(Members(rt, UnitOf(rt[k]))) = Min(Members(rs, UnitOf(rs[k])))
  <2> DEFINE u == UnitOf(rs[k])
             m == Min(Members(rs, u))
  <2>1. UnitOf(rt[k]) = u /\ k \in Members(rs, u)
    BY <1>1 DEF Members
  <2>2. m \in Members(rs, u) /\ \A j \in Members(rs, u) : m <= j
    <3> HIDE DEF u
    <3> QED
      BY <1>2, <1>3, <2>1, First
  <2>3. m \in Members(rt, u) /\ \A j \in Members(rt, u) : m <= j
    <3>1. m < n
      BY <1>1, <1>3, <2>2
    <3>2. m \in Nat /\ n \in Nat
      BY <1>1, <1>3, <2>2
    <3> QED
      BY <1>4, <2>2, <3>1, <3>2
  <2> HIDE DEF u, m
  <2>4. Min(Members(rt, u)) = m
    BY <1>2, <1>3, <2>3, FirstIs
  <2> QED
    BY <2>1, <2>4 DEF u, m
<1>8. n # Min(Members(rt, UnitOf(rt[n])))
  <2>1. i \in Members(rt, UnitOf(rt[n]))
    BY <1>1 DEF Members
  <2>2. Min(Members(rt, UnitOf(rt[n]))) <= i
    BY <1>2, <1>3, <2>1, First
  <2> QED
    BY <1>1, <2>2
<1>9. Sample(rt) = Sample(rs)
  BY <1>1, <1>5, <1>6, <1>7, <1>8 DEF Sample
<1>10. DuplicateRows(rt) = DuplicateRows(rs) \cup {n}
  BY <1>1, <1>5, <1>6, <1>9 DEF DuplicateRows, Sample
<1> QED
  BY <1>1, <1>2, <1>6, <1>9, <1>10 DEF rt, n

\* A limit that a share of duplicates keeps with a copy, it keeps without.
LEMMA OneFewer ==
  ASSUME NEW limit \in Int, NEW d \in Nat, NEW all \in Nat, NEW s \in Nat, d <= all,
         100 * (d + s) <= limit * (all + s)
  PROVE  100 * d <= limit * all
<1>1. limit * (all + s) = limit * all + limit * s /\ limit * all \in Int /\ limit * s \in Int
  OBVIOUS
<1>2. CASE limit >= 100
  <2>1. (limit - 100) * all >= 0
    BY <1>2
  <2> QED
    BY <1>1, <2>1
<1>3. CASE limit < 100
  <2>1. (100 - limit) * s >= 0
    BY <1>3
  <2> QED
    BY <1>1, <2>1
<1> QED
  BY <1>2, <1>3

\* A share within its limit passes.
LEMMA MaximumPasses ==
  ASSUME NEW limit \in Int, limit # Unset, NEW n \in Nat, NEW total \in Nat, total # 0,
         100 * n <= limit * total
  PROVE  MaximumRule(limit, Rate(n, total)) = "passed"
BY DEF MaximumRule, Rate

\* The same positions correspond.
LEMMA Unmoved ==
  ASSUME NEW rs, Dataset(rs), NEW rt, Dataset(rt),
         NEW A \in SUBSET DOMAIN rs, A \in SUBSET DOMAIN rt,
         \A i \in A : /\ rt[i].size = rs[i].size
                     /\ rt[i].baseline = rs[i].baseline
                     /\ rt[i].candidate = rs[i].candidate
  PROVE  Corresponds(rs, A, rt, A)
<1> DEFINE pi == [i \in A |-> i]
<1>1. pi \in Bijection(A, A) /\ \A i \in A : pi[i] = i
  BY DEF Bijection, Injection, Surjection, IsInjective
<1> HIDE DEF pi
<1> QED
  BY <1>1 DEF Corresponds

\* If a dataset with a copy passes, it passes without.
LEMMA CopyIsNoHelp ==
  ASSUME config \in Configs, NEW rs \in Seq(Rows), NEW i \in DOMAIN rs,
         Decided(Append(rs, rs[i])).status = "passed"
  PROVE  Decided(rs).status = "passed"
<1> DEFINE rt == Append(rs, rs[i])
           n  == Len(rs) + 1
           limit == config.gate.max_duplicate_case_rate
           dups == Size(rs, DuplicateRows(rs))
           all == Size(rs, DOMAIN rs)
           more == rs[i].size
<1>1. /\ IsConfigured
      /\ \A name \in EvidenceNames : EvidenceRules(rt)[name] \notin InTheWay
      /\ \A name \in QualityNames : QualityRules(rt)[name] \notin InTheWay
  BY PassMeans
<1>2. /\ Repeated(rt) = {} /\ LabelConflicts(rt) = {}
      /\ MaximumRule(limit, Rate(Size(rt, DuplicateRows(rt)), Size(rt, DOMAIN rt))) = "passed"
  BY <1>1, EvidencePassed DEF InTheWay
<1>3. /\ Dataset(rs) /\ Dataset(rt) /\ DOMAIN rt = DOMAIN rs \cup {n}
      /\ n \notin DOMAIN rs
      /\ \A k \in DOMAIN rs : rt[k] = rs[k]
      /\ rt[n] = rs[i]
      /\ Repeated(rs) = {} /\ Sample(rt) = Sample(rs)
      /\ DuplicateRows(rt) = DuplicateRows(rs) \cup {n}
  BY <1>2, CopySummary
<1> HIDE DEF rt, n
<1>4. ASSUME NEW A \in SUBSET DOMAIN rs
      PROVE  /\ Corresponds(rs, A, rt, A)
             /\ Size(rt, A) = Size(rs, A)
             /\ Size(rt, A \cup {n}) = more + Size(rs, A)
  <2>1. Corresponds(rs, A, rt, A)
    BY <1>3, Unmoved
  <2>2. Size(rt, A) = Size(rs, A)
    BY <2>1, SameSize
  <2>3. A \cup {n} \in SUBSET DOMAIN rt /\ n \in DOMAIN rt
    BY <1>3
  <2>4. Size(rt, A \cup {n}) = (IF n \in A \cup {n} THEN rt[n].size ELSE 0)
                                 + Size(rt, (A \cup {n}) \ {n})
    BY <1>3, <2>3, SizeWithout
  <2>5. (A \cup {n}) \ {n} = A
    BY <1>3
  <2> QED
    BY <1>3, <2>1, <2>2, <2>4, <2>5
<1>5. Corresponds(rs, Sample(rs), rt, Sample(rt))
  BY <1>3, <1>4, Partition
<1>6. \A name \in QualityNames : QualityRules(rs)[name] \notin InTheWay
  BY <1>1, <1>5, SameQuality
<1>7. \A name \in Safeguards \ {"max_duplicate_case_rate"} :
        EvidenceRules(rs)[name] \notin InTheWay
  BY <1>1, <1>5, SameEvidence DEF EvidenceNames
<1>8. EvidenceRules(rs).repeated_trial_model \notin InTheWay
  <2>1. EvidenceRules(rs).repeated_trial_model = RepeatedTrialRule(rs)
    BY DEF EvidenceRules
  <2> QED
    BY <1>3, <2>1 DEF RepeatedTrialRule, InTheWay
<1>9. EvidenceRules(rs).dataset_label_conflicts \notin InTheWay
  <2>1. LabelConflicts(rs) = {}
    BY <1>2, <1>3 DEF LabelConflicts
  <2>2. EvidenceRules(rs).dataset_label_conflicts = LabelConflictRule(rs)
    BY DEF EvidenceRules
  <2> QED
    BY <2>1, <2>2 DEF LabelConflictRule, InTheWay
<1>10. EvidenceRules(rs).max_duplicate_case_rate \notin InTheWay
  <2>1. /\ Size(rt, DuplicateRows(rt)) = more + dups /\ Size(rt, DOMAIN rt) = more + all
    BY <1>3, <1>4, Partition
  <2>2. dups \in Nat /\ all \in Nat /\ dups <= all
    BY <1>3, Partition, SizeOfPart
  <2>3. more \in Nat \ {0}
    BY <1>3, Seen
  <2>4. all # 0
    <3>1. all = (IF i \in DOMAIN rs THEN more ELSE 0) + Size(rs, DOMAIN rs \ {i})
      BY <1>3, SizeWithout
    <3>2. Size(rs, DOMAIN rs \ {i}) \in Nat
      BY <1>3, SizeOfPart
    <3> QED
      BY <2>3, <3>1, <3>2
  <2>5. limit \in Int
    BY LimitsAre DEF Limits, Safeguards
  <2>6. EvidenceRules(rs).max_duplicate_case_rate =
          Required(MaximumRule(limit, Rate(dups, all)))
    BY DEF EvidenceRules
  <2>7. MaximumRule(limit, Rate(more + dups, more + all)) = "passed"
    BY <1>2, <2>1
  <2> HIDE DEF limit, dups, all, more
  <2>8. limit # Unset
    BY <2>7 DEF MaximumRule
  <2>9. 100 * (more + dups) <= limit * (more + all)
    BY <2>2, <2>3, <2>5, <2>7, MaximumPassed
  <2>10. 100 * dups <= limit * all
    <3>1. more + dups = dups + more /\ more + all = all + more
      BY <2>2, <2>3
    <3> QED
      BY <2>2, <2>3, <2>5, <2>9, <3>1, OneFewer
  <2>11. MaximumRule(limit, Rate(dups, all)) = "passed"
    BY <2>2, <2>4, <2>5, <2>8, <2>10, MaximumPasses
  <2> QED
    BY <2>6, <2>11 DEF Required, InTheWay
<1>11. \A name \in EvidenceNames : EvidenceRules(rs)[name] \notin InTheWay
  BY <1>7, <1>8, <1>9, <1>10 DEF EvidenceNames
<1> QED
  BY <1>1, <1>6, <1>11, PassMeans

-----------------------------------------------------------------------------
(* Order                                                                   *)

\* The rows of rs in another order: tau takes a position to that of its row
\* in the other dataset, and back.
Reordered(rs, rt, tau) ==
    /\ rs \in Seq(Rows) /\ rt \in Seq(Rows)
    /\ DOMAIN rt = DOMAIN rs
    /\ tau \in [DOMAIN rs -> DOMAIN rs]
    /\ \A k \in DOMAIN rs : tau[tau[k]] = k /\ rt[k] = rs[tau[k]]

\* The first order is a reordering of the second.
LEMMA ReorderedBack ==
  ASSUME NEW rs, NEW rt, NEW tau, Reordered(rs, rt, tau)
  PROVE  Reordered(rt, rs, tau)
<1>1. \A k \in DOMAIN rs : tau[k] \in DOMAIN rs
  BY DEF Reordered
<1> QED
  BY <1>1 DEF Reordered

\* Members of a unit move with their rows.
LEMMA MembersMove ==
  ASSUME NEW rs, NEW rt, NEW tau, Reordered(rs, rt, tau), NEW k \in DOMAIN rs
  PROVE  /\ tau[k] \in DOMAIN rs
         /\ \A u : k \in Members(rt, u) <=> tau[k] \in Members(rs, u)
BY DEF Reordered, Members

\* Repeated trials do.
LEMMA RepeatedMove ==
  ASSUME NEW rs, NEW rt, NEW tau, Reordered(rs, rt, tau), NEW k \in DOMAIN rs,
         tau[k] \in Repeated(rs)
  PROVE  k \in Repeated(rt)
<1>1. rt[k] = rs[tau[k]] /\ k \in DOMAIN rt /\ tau[k] \in DOMAIN rs
  BY DEF Reordered
<1>2. PICK j \in Members(rs, UnitOf(rs[tau[k]])) : Signature(rs[j]) # Signature(rs[tau[k]])
  BY DEF Repeated
<1>3. j \in DOMAIN rs
  BY DEF Members
<1>4. tau[j] \in DOMAIN rs /\ tau[tau[j]] = j
  BY <1>3 DEF Reordered
<1>5. rt[tau[j]] = rs[j]
  BY <1>4 DEF Reordered
<1>6. tau[j] \in Members(rt, UnitOf(rt[k]))
  BY <1>1, <1>2, <1>4, MembersMove
<1> QED
  BY <1>1, <1>2, <1>5, <1>6 DEF Repeated

\* Conflicts of labels do.
LEMMA ConflictsMove ==
  ASSUME NEW rs, NEW rt, NEW tau, Reordered(rs, rt, tau), LabelConflicts(rs) # {}
  PROVE  LabelConflicts(rt) # {}
<1>1. PICK k \in DOMAIN rs : \E j \in DOMAIN rs :
          rs[j].stimulus = rs[k].stimulus /\ rs[j].reference # rs[k].reference
  BY DEF LabelConflicts
<1>2. PICK j \in DOMAIN rs :
          rs[j].stimulus = rs[k].stimulus /\ rs[j].reference # rs[k].reference
  BY <1>1
<1>3. /\ tau[k] \in DOMAIN rt /\ tau[j] \in DOMAIN rt
      /\ rt[tau[k]] = rs[k] /\ rt[tau[j]] = rs[j]
  BY DEF Reordered
<1>4. tau[k] \in LabelConflicts(rt)
  BY <1>2, <1>3 DEF LabelConflicts
<1> QED
  BY <1>4

\* The representative of a unit in one order and in the other.
LEMMA Representative ==
  ASSUME NEW rs, NEW rt, NEW tau, Reordered(rs, rt, tau), NEW k \in Sample(rs)
  PROVE  LET u == UnitOf(rs[k])
             m == Min(Members(rt, u))
         IN  /\ m \in Sample(rt) /\ UnitOf(rt[m]) = u
             /\ Signature(rt[m]) = Signature(rs[k])
             /\ k = Min(Members(rs, u))
<1> DEFINE u == UnitOf(rs[k])
           m == Min(Members(rt, u))
<1>1. /\ k \in DOMAIN rs /\ k \notin Repeated(rs) /\ k = Min(Members(rs, u))
  BY DEF Sample
<1>2. /\ tau[k] \in DOMAIN rs /\ tau[tau[k]] = k /\ DOMAIN rt = DOMAIN rs
      /\ rt[tau[k]] = rs[k] /\ Dataset(rt)
  BY <1>1, DatasetOf DEF Reordered
<1>3. Members(rt, u) \in SUBSET DOMAIN rt /\ tau[k] \in Members(rt, u)
  BY <1>2 DEF Members
<1>4. m \in Members(rt, u)
  <2> HIDE DEF u
  <2> QED
    BY <1>2, <1>3, First
<1>5. m \in DOMAIN rs /\ UnitOf(rt[m]) = u
  BY <1>2, <1>4 DEF Members
<1>6. tau[m] \in Members(rs, u) /\ rt[m] = rs[tau[m]]
  <2> HIDE DEF u, m
  <2> QED
    BY <1>4, <1>5, MembersMove DEF Reordered
<1>7. Signature(rt[m]) = Signature(rs[k])
  <2>1. Signature(rs[tau[m]]) = Signature(rs[k])
    BY <1>1, <1>6 DEF Repeated
  <2> QED
    BY <1>6, <2>1
<1>8. m \notin Repeated(rt)
  <2>1. SUFFICES ASSUME m \in Repeated(rt) PROVE FALSE
    OBVIOUS
  <2>2. PICK j \in Members(rt, UnitOf(rt[m])) : Signature(rt[j]) # Signature(rt[m])
    BY <2>1 DEF Repeated
  <2>3. j \in DOMAIN rs /\ j \in Members(rt, u)
    BY <1>2, <1>5, <2>2 DEF Members
  <2>4. tau[j] \in Members(rs, u) /\ rt[j] = rs[tau[j]]
    <3> HIDE DEF u, m
    <3> QED
      BY <2>3, MembersMove DEF Reordered
  <2>5. Signature(rs[tau[j]]) = Signature(rs[k])
    BY <1>1, <2>4 DEF Repeated
  <2> QED
    BY <1>7, <2>2, <2>4, <2>5
<1>9. m \in Sample(rt)
  BY <1>2, <1>5, <1>8 DEF Sample
<1> QED
  BY <1>1, <1>5, <1>7, <1>9

\* The samples correspond.
LEMMA SamplesCorrespond ==
  ASSUME NEW rs, NEW rt, NEW tau, Reordered(rs, rt, tau)
  PROVE  Corresponds(rs, Sample(rs), rt, Sample(rt))
<1> DEFINE S == Sample(rs)
           T == Sample(rt)
           pi == [k \in S |-> Min(Members(rt, UnitOf(rs[k])))]
<1>1. Reordered(rt, rs, tau)
  BY ReorderedBack
<1>2. S \in SUBSET DOMAIN rs /\ T \in SUBSET DOMAIN rt
  BY DEF Sample
<1>3. ASSUME NEW k \in S
      PROVE  /\ pi[k] \in T /\ UnitOf(rt[pi[k]]) = UnitOf(rs[k])
             /\ Signature(rt[pi[k]]) = Signature(rs[k])
             /\ k = Min(Members(rs, UnitOf(rs[k])))
  BY Representative
<1>4. pi \in [S -> T]
  BY <1>3
<1>5. ASSUME NEW k \in S, NEW l \in S, pi[k] = pi[l] PROVE k = l
  <2>1. UnitOf(rs[k]) = UnitOf(rs[l])
    BY <1>3, <1>5
  <2> QED
    BY <1>3, <2>1
<1>6. ASSUME NEW m \in T PROVE \E k \in S : pi[k] = m
  <2> DEFINE k == Min(Members(rs, UnitOf(rt[m])))
  <2>1. k \in S /\ UnitOf(rs[k]) = UnitOf(rt[m]) /\ m = Min(Members(rt, UnitOf(rt[m])))
    BY <1>1, Representative
  <2> HIDE DEF k
  <2>2. pi[k] = m
    BY <2>1
  <2> QED
    BY <2>1, <2>2
<1>7. ASSUME NEW k \in S
      PROVE  /\ rt[pi[k]].size = rs[k].size
             /\ rt[pi[k]].baseline = rs[k].baseline
             /\ rt[pi[k]].candidate = rs[k].candidate
  <2>1. /\ rt[pi[k]].stimulus = rs[k].stimulus
        /\ rt[pi[k]].baseline = rs[k].baseline
        /\ rt[pi[k]].candidate = rs[k].candidate
    <3> HIDE DEF pi
    <3> QED
      BY <1>3 DEF Signature
  <2>2. rt[pi[k]] \in Rows /\ rs[k] \in Rows
    <3> HIDE DEF pi
    <3>1. pi[k] \in DOMAIN rt /\ k \in DOMAIN rs
      BY <1>2, <1>3
    <3> QED
      BY <3>1, DatasetOf DEF Reordered
  <2> HIDE DEF pi
  <2> QED
    BY <2>1, <2>2, GateAssumption
<1>8. Dataset(rs) /\ Dataset(rt)
  BY DatasetOf DEF Reordered
<1> HIDE DEF S, T, pi
<1>9. pi \in Bijection(S, T)
  BY <1>4, <1>5, <1>6 DEF Bijection, Injection, Surjection, IsInjective
<1>10. Corresponds(rs, S, rt, T)
  BY <1>2, <1>7, <1>8, <1>9 DEF Corresponds
<1> QED
  BY <1>10 DEF S, T

\* So do the rows that are not repeated trials, and all rows.
LEMMA RestCorresponds ==
  ASSUME NEW rs, NEW rt, NEW tau, Reordered(rs, rt, tau)
  PROVE  /\ Corresponds(rs, DOMAIN rs, rt, DOMAIN rt)
         /\ Corresponds(rs, DOMAIN rs \ Repeated(rs), rt, DOMAIN rt \ Repeated(rt))
         /\ Repeated(rs) = {} <=> Repeated(rt) = {}
         /\ LabelConflicts(rs) = {} <=> LabelConflicts(rt) = {}
<1>1. Reordered(rt, rs, tau) /\ DOMAIN rt = DOMAIN rs
  BY ReorderedBack DEF Reordered
<1>2. Dataset(rs) /\ Dataset(rt)
  BY DatasetOf DEF Reordered
<1>3. ASSUME NEW k \in DOMAIN rs
      PROVE  /\ tau[k] \in DOMAIN rs /\ tau[tau[k]] = k /\ rt[tau[k]] = rs[k]
             /\ tau[k] \in Repeated(rt) <=> k \in Repeated(rs)
  <2>1. tau[k] \in DOMAIN rs /\ tau[tau[k]] = k
    BY DEF Reordered
  <2>2. rt[tau[k]] = rs[k]
    BY <2>1 DEF Reordered
  <2> QED
    BY <1>1, <2>1, <2>2, RepeatedMove
<1>4. /\ Repeated(rs) = {} <=> Repeated(rt) = {}
      /\ LabelConflicts(rs) = {} <=> LabelConflicts(rt) = {}
  <2>1. Repeated(rs) \in SUBSET DOMAIN rs /\ Repeated(rt) \in SUBSET DOMAIN rs
    BY <1>1 DEF Repeated
  <2>2. \A k \in Repeated(rt) : tau[k] \in Repeated(rs)
    BY <1>3, <2>1
  <2> QED
    BY <1>1, <1>3, <2>1, <2>2, ConflictsMove
<1>5. ASSUME NEW A \in SUBSET DOMAIN rs, NEW B \in SUBSET DOMAIN rs,
             \A k \in DOMAIN rs : tau[k] \in B <=> k \in A
      PROVE  Corresponds(rs, A, rt, B)
  <2> DEFINE pi == [k \in A |-> tau[k]]
  <2>1. pi \in [A -> B] /\ \A k \in A : pi[k] = tau[k]
    BY <1>5
  <2>2. \A k, l \in A : pi[k] = pi[l] => k = l
    BY <1>3
  <2>3. ASSUME NEW m \in B PROVE \E k \in A : pi[k] = m
    <3>1. tau[m] \in DOMAIN rs /\ tau[tau[m]] = m
      BY <1>3
    <3>2. tau[m] \in A
      BY <1>5, <3>1
    <3> QED
      BY <3>1, <3>2
  <2> HIDE DEF pi
  <2>4. pi \in Bijection(A, B)
    BY <2>1, <2>2, <2>3 DEF Bijection, Injection, Surjection, IsInjective
  <2> QED
    BY <1>1, <1>2, <1>3, <2>1, <2>4 DEF Corresponds
<1>6. Corresponds(rs, DOMAIN rs, rt, DOMAIN rt)
  BY <1>1, <1>3, <1>5
<1>7. Corresponds(rs, DOMAIN rs \ Repeated(rs), rt, DOMAIN rt \ Repeated(rt))
  <2>1. \A k \in DOMAIN rs : tau[k] \in DOMAIN rs \ Repeated(rt) <=> k \in DOMAIN rs \ Repeated(rs)
    BY <1>3
  <2> QED
    BY <1>1, <1>5, <2>1
<1> QED
  BY <1>4, <1>6, <1>7

\* There are as many duplicates.
LEMMA SameDuplicates ==
  ASSUME NEW rs, NEW rt, NEW tau, Reordered(rs, rt, tau)
  PROVE  /\ Size(rs, DuplicateRows(rs)) = Size(rt, DuplicateRows(rt))
         /\ Size(rs, DOMAIN rs) = Size(rt, DOMAIN rt)
<1>1. ASSUME NEW q, Dataset(q)
      PROVE  /\ Size(q, DOMAIN q \ Repeated(q)) = Size(q, Sample(q)) + Size(q, DuplicateRows(q))
             /\ Size(q, Sample(q)) \in Nat /\ Size(q, DuplicateRows(q)) \in Nat
  <2>1. /\ DOMAIN q \ Repeated(q) = Sample(q) \cup DuplicateRows(q)
        /\ Sample(q) \cap DuplicateRows(q) = {}
        /\ Sample(q) \in SUBSET DOMAIN q /\ DuplicateRows(q) \in SUBSET DOMAIN q
    BY DEF Sample, DuplicateRows
  <2> QED
    BY <1>1, <2>1, SizeOfParts, SizeOfPart
<1>2. Dataset(rs) /\ Dataset(rt)
  BY DatasetOf DEF Reordered
<1>3. /\ Size(rs, DOMAIN rs) = Size(rt, DOMAIN rt)
      /\ Size(rs, DOMAIN rs \ Repeated(rs)) = Size(rt, DOMAIN rt \ Repeated(rt))
      /\ Size(rs, Sample(rs)) = Size(rt, Sample(rt))
  <2>1. /\ Corresponds(rs, DOMAIN rs, rt, DOMAIN rt)
        /\ Corresponds(rs, DOMAIN rs \ Repeated(rs), rt, DOMAIN rt \ Repeated(rt))
        /\ Corresponds(rs, Sample(rs), rt, Sample(rt))
    BY RestCorresponds, SamplesCorrespond, Zenon
  <2> QED
    BY <2>1, SameSize
<1> QED
  BY <1>1, <1>2, <1>3

\* A reordered dataset is decided alike, rule by rule.
LEMMA OrderIsNoHelp ==
  ASSUME config \in Configs, NEW rs, NEW rt, NEW tau, Reordered(rs, rt, tau)
  PROVE  Decided(rt) = Decided(rs)
<1>1. Corresponds(rs, Sample(rs), rt, Sample(rt))
  BY SamplesCorrespond
<1>2. QualityRules(rs) = QualityRules(rt)
  BY <1>1, SameQuality
<1>3. \A name \in Safeguards \ {"max_duplicate_case_rate"} :
        EvidenceRules(rs)[name] = EvidenceRules(rt)[name]
  BY <1>1, SameEvidence
<1>4. EvidenceRules(rs).max_duplicate_case_rate = EvidenceRules(rt).max_duplicate_case_rate
  BY SameDuplicates DEF EvidenceRules
<1>5. EvidenceRules(rs).repeated_trial_model = EvidenceRules(rt).repeated_trial_model
  BY RestCorresponds DEF EvidenceRules, RepeatedTrialRule
<1>6. EvidenceRules(rs).dataset_label_conflicts = EvidenceRules(rt).dataset_label_conflicts
  BY RestCorresponds DEF EvidenceRules, LabelConflictRule
<1>7. \A name \in EvidenceNames : EvidenceRules(rs)[name] = EvidenceRules(rt)[name]
  BY <1>3, <1>4, <1>5, <1>6 DEF EvidenceNames
<1>8. /\ DOMAIN EvidenceRules(rs) = EvidenceNames /\ DOMAIN EvidenceRules(rt) = EvidenceNames
  BY DEF EvidenceRules, EvidenceNames, Safeguards
<1>9. RuleStatuses(rs) = RuleStatuses(rt)
  BY <1>2, <1>7, <1>8 DEF RuleStatuses
<1> QED
  BY <1>9, Zenon DEF Decided

\* The swap of two rows is such an order.
LEMMA Swapped ==
  ASSUME NEW rs \in Seq(Rows), NEW i \in DOMAIN rs, NEW j \in DOMAIN rs
  PROVE  \E tau : Reordered(rs, [rs EXCEPT ![i] = rs[j], ![j] = rs[i]], tau)
<1> DEFINE tau == [k \in DOMAIN rs |-> IF k = i THEN j ELSE IF k = j THEN i ELSE k]
           rt == [[rs EXCEPT ![i] = rs[j]] EXCEPT ![j] = rs[i]]
<1>1. /\ DOMAIN rt = DOMAIN rs
      /\ \A k \in DOMAIN rs : rt[k] = rs[tau[k]]
  OBVIOUS
<1>2. /\ tau \in [DOMAIN rs -> DOMAIN rs]
      /\ \A k \in DOMAIN rs : tau[tau[k]] = k
  OBVIOUS
<1>3. rt \in Seq(Rows)
  <2>1. \A k \in DOMAIN rs : rs[k] \in Rows
    BY DatasetOf
  <2> QED
    BY <2>1
<1> HIDE DEF tau, rt
<1>4. Reordered(rs, rt, tau)
  BY <1>1, <1>2, <1>3 DEF Reordered
<1> QED
  BY <1>4 DEF rt

-----------------------------------------------------------------------------
(* A case lost                                                             *)

\* The dataset in which the candidate's observation of the row at i is another.
Replaced(rs, i, o) == [rs EXCEPT ![i].candidate = o]

\* A case that the candidate loses: its row is a unit of its own, and the
\* latency stays.
Loses(rs, i, o) ==
    /\ Dataset(rs) /\ i \in DOMAIN rs
    /\ o \in Observation /\ o.latency = rs[i].candidate.latency
    /\ Deploy(rs[i].candidate)
    /\ Members(rs, UnitOf(rs[i])) = {i}

\* Nothing but the candidate's observation of that row changes.
LEMMA ReplacedRows ==
  ASSUME NEW rs, NEW i, NEW o, Loses(rs, i, o)
  PROVE  LET rt == Replaced(rs, i, o) IN
         /\ Dataset(rt) /\ DOMAIN rt = DOMAIN rs
         /\ \A k \in DOMAIN rs :
               /\ k # i => rt[k] = rs[k]
               /\ rt[k].stimulus = rs[k].stimulus /\ rt[k].reference = rs[k].reference
               /\ rt[k].tag = rs[k].tag /\ rt[k].size = rs[k].size
               /\ rt[k].baseline = rs[k].baseline
         /\ rt[i].candidate = o
<1> DEFINE row == [rs[i] EXCEPT !.candidate = o]
           rt == [rs EXCEPT ![i] = row]
<1>1. Replaced(rs, i, o) = rt
  BY DEF Replaced
<1>2. RowOK(rs[i]) /\ o \in Observation /\ i \in DOMAIN rs
  BY DEF Loses, Dataset
<1>3. /\ DOMAIN row = DOMAIN rs[i]
      /\ row.stimulus = rs[i].stimulus /\ row.reference = rs[i].reference
      /\ row.tag = rs[i].tag /\ row.size = rs[i].size
      /\ row.baseline = rs[i].baseline /\ row.candidate = o
  BY <1>2 DEF RowOK
<1>4. RowOK(row)
  <2> HIDE DEF row
  <2> QED
    BY <1>2, <1>3 DEF RowOK
<1> HIDE DEF row
<1>5. /\ DOMAIN rt = DOMAIN rs /\ rt[i] = row
      /\ \A k \in DOMAIN rs : k # i => rt[k] = rs[k]
  BY <1>2
<1> HIDE DEF rt
<1>6. \A k \in DOMAIN rt : RowOK(rt[k])
  BY <1>4, <1>5 DEF Loses, Dataset
<1>7. Dataset(rt)
  BY <1>5, <1>6 DEF Loses, Dataset
<1>8. ASSUME NEW k \in DOMAIN rs
      PROVE  /\ rt[k].stimulus = rs[k].stimulus /\ rt[k].reference = rs[k].reference
             /\ rt[k].tag = rs[k].tag /\ rt[k].size = rs[k].size
             /\ rt[k].baseline = rs[k].baseline
  BY <1>3, <1>5
<1> QED
  BY <1>1, <1>3, <1>5, <1>7, <1>8

\* The summary keeps its units, representatives and sizes.
LEMMA ReplacedSummary ==
  ASSUME NEW rs, NEW i, NEW o, Loses(rs, i, o)
  PROVE  LET rt == Replaced(rs, i, o) IN
         /\ Repeated(rt) = Repeated(rs)
         /\ Sample(rt) = Sample(rs)
         /\ DuplicateRows(rt) = DuplicateRows(rs)
         /\ LabelConflicts(rt) = LabelConflicts(rs)
         /\ \A A : Size(rt, A) = Size(rs, A)
<1> DEFINE rt == Replaced(rs, i, o)
<1>1. /\ Dataset(rt) /\ DOMAIN rt = DOMAIN rs
      /\ \A k \in DOMAIN rs :
            /\ k # i => rt[k] = rs[k]
            /\ rt[k].stimulus = rs[k].stimulus /\ rt[k].reference = rs[k].reference
            /\ rt[k].tag = rs[k].tag /\ rt[k].size = rs[k].size
            /\ rt[k].baseline = rs[k].baseline
  BY ReplacedRows
<1> HIDE DEF rt
<1>2. \A k \in DOMAIN rs : UnitOf(rt[k]) = UnitOf(rs[k])
  BY <1>1 DEF UnitOf
<1>3. \A u : Members(rt, u) = Members(rs, u)
  BY <1>1, <1>2 DEF Members
<1>4. ASSUME NEW k \in DOMAIN rs
      PROVE  k \in Repeated(rt) <=> k \in Repeated(rs)
  <2>1. CASE k = i
    <3>1. Members(rs, UnitOf(rs[i])) = {i}
      BY DEF Loses
    <3> QED
      BY <1>2, <1>3, <2>1, <3>1 DEF Repeated
  <2>2. CASE k # i
    <3>1. \A j \in Members(rs, UnitOf(rs[k])) : j \in DOMAIN rs /\ j # i
      BY <2>2 DEF Members, Loses
    <3>2. \A j \in Members(rs, UnitOf(rs[k])) : rt[j] = rs[j]
      BY <1>1, <3>1
    <3>3. rt[k] = rs[k]
      BY <1>1, <2>2
    <3> QED
      BY <1>1, <1>2, <1>3, <3>2, <3>3 DEF Repeated
  <2> QED
    BY <2>1, <2>2
<1>5. Repeated(rt) = Repeated(rs)
  <2>1. Repeated(rt) \in SUBSET DOMAIN rs /\ Repeated(rs) \in SUBSET DOMAIN rs
    BY <1>1 DEF Repeated
  <2> QED
    BY <1>4, <2>1
<1>6. Sample(rt) = Sample(rs)
  BY <1>1, <1>2, <1>3, <1>5 DEF Sample
<1>7. DuplicateRows(rt) = DuplicateRows(rs)
  BY <1>1, <1>5, <1>6 DEF DuplicateRows
<1>8. LabelConflicts(rt) = LabelConflicts(rs)
  BY <1>1 DEF LabelConflicts
<1>9. Sizes(rt) = Sizes(rs)
  BY <1>1 DEF Sizes
<1>10. \A A : Size(rt, A) = Size(rs, A)
  BY <1>9, Zenon DEF Size
<1> QED
  BY <1>5, <1>6, <1>7, <1>8, <1>10 DEF rt

\* What the candidate had on the lost case.
LEMMA HadAll ==
  ASSUME NEW o \in Observation, Deploy(o)
  PROVE  /\ Is(o, "passed") /\ Is(o, "deployed") /\ Is(o, "parsed") /\ Is(o, "valid")
         /\ ~Is(o, "wrong") /\ ~Is(o, "errored") /\ ~Is(o, "timed_out")
         /\ Full(o) /\ Pass(o)
<1>1. SchemaValid(o) /\ PrimaryPass(config.outcome, o) /\ PrimaryFull(config.outcome, o)
  BY DEF Deploy, Deployed
<1>2. Parsed(o) /\ o.adapter = "ok"
  BY <1>1 DEF SchemaValid, Parsed
<1>3. ~ValidButWrong(config.outcome, o)
  BY <1>1 DEF PrimaryPass, ValidButWrong
<1> QED
  BY <1>1, <1>2, <1>3 DEF Is, Pass, Full, Wrong

\* Sets that agree but for the position i.
LEMMA AgreeBut ==
  ASSUME NEW rs, Dataset(rs), NEW A \in SUBSET DOMAIN rs, NEW B \in SUBSET DOMAIN rs,
         NEW i \in DOMAIN rs, \A k \in DOMAIN rs : k # i => (k \in A <=> k \in B)
  PROVE  \E r \in Nat : /\ Size(rs, A) = (IF i \in A THEN rs[i].size ELSE 0) + r
                        /\ Size(rs, B) = (IF i \in B THEN rs[i].size ELSE 0) + r
<1>1. A \ {i} = B \ {i}
  OBVIOUS
<1>2. A \ {i} \in SUBSET DOMAIN rs
  OBVIOUS
<1>3. Size(rs, A \ {i}) \in Nat
  BY <1>2, SizeOfPart
<1>4. /\ Size(rs, A) = (IF i \in A THEN rs[i].size ELSE 0) + Size(rs, A \ {i})
      /\ Size(rs, B) = (IF i \in B THEN rs[i].size ELSE 0) + Size(rs, B \ {i})
  BY SizeWithout
<1> QED
  BY <1>1, <1>3, <1>4

\* Tallies of a set of positions after the loss.
LEMMA ReplacedTally ==
  ASSUME NEW rs, NEW i, NEW o, Loses(rs, i, o), NEW S \in SUBSET DOMAIN rs, NEW what
  PROVE  LET rt == Replaced(rs, i, o) IN
         /\ Tally(rt, S, "baseline", what) = Tally(rs, S, "baseline", what)
         /\ Tally(rt, S, "baseline", what) \in Nat
         /\ Tally(rt, S, "candidate", what) \in Nat
         /\ Tally(rs, S, "candidate", what) \in Nat
         /\ Is(rs[i].candidate, what) =>
               Tally(rt, S, "candidate", what) <= Tally(rs, S, "candidate", what)
         /\ ~Is(rs[i].candidate, what) =>
               Tally(rs, S, "candidate", what) <= Tally(rt, S, "candidate", what)
<1> DEFINE rt == Replaced(rs, i, o)
           A == {k \in S : Is(rs[k]["candidate"], what)}
           B == {k \in S : Is(rt[k]["candidate"], what)}
           C == {k \in S : Is(rs[k]["baseline"], what)}
           D == {k \in S : Is(rt[k]["baseline"], what)}
<1>1. /\ DOMAIN rt = DOMAIN rs /\ Dataset(rt) /\ Dataset(rs)
      /\ \A k \in DOMAIN rs : (k # i => rt[k] = rs[k]) /\ rt[k].baseline = rs[k].baseline
  BY ReplacedRows DEF Loses
<1>2. \A X : Size(rt, X) = Size(rs, X)
  BY ReplacedSummary
<1>3. i \in DOMAIN rs /\ rs[i].size \in Nat
  BY Seen DEF Loses
<1> HIDE DEF rt
<1>4. C = D /\ D \in SUBSET DOMAIN rs
  BY <1>1
<1>5. /\ A \in SUBSET DOMAIN rs /\ B \in SUBSET DOMAIN rs
      /\ \A k \in DOMAIN rs : k # i => (k \in A <=> k \in B)
      /\ i \in A => Is(rs[i].candidate, what)
      /\ i \in B => i \in S
      /\ (i \in S /\ Is(rs[i].candidate, what)) => i \in A
  BY <1>1
<1>6. /\ Tally(rs, S, "candidate", what) = Size(rs, A)
      /\ Tally(rt, S, "candidate", what) = Size(rs, B)
      /\ Tally(rs, S, "baseline", what) = Size(rs, C)
      /\ Tally(rt, S, "baseline", what) = Size(rs, D)
  BY <1>2 DEF Tally
<1> HIDE DEF A, B, C, D
<1>7. PICK r \in Nat : /\ Size(rs, A) = (IF i \in A THEN rs[i].size ELSE 0) + r
                       /\ Size(rs, B) = (IF i \in B THEN rs[i].size ELSE 0) + r
  BY <1>1, <1>3, <1>5, AgreeBut
<1>8. Size(rs, D) \in Nat
  BY <1>1, <1>4, SizeOfPart
<1>9. /\ Size(rs, A) \in Nat /\ Size(rs, B) \in Nat
      /\ Is(rs[i].candidate, what) => Size(rs, B) <= Size(rs, A)
      /\ ~Is(rs[i].candidate, what) => Size(rs, A) <= Size(rs, B)
  BY <1>3, <1>5, <1>7
<1> QED
  BY <1>4, <1>6, <1>8, <1>9 DEF rt

\* A rule about a share that a dataset passes, it passes with a better one.
LEMMA BetterMinimum ==
  ASSUME NEW limit \in Int, NEW n \in Nat, NEW m \in Nat, NEW total \in Nat, n <= m,
         MinimumRule(limit, Rate(n, total)) \notin InTheWay
  PROVE  MinimumRule(limit, Rate(m, total)) = MinimumRule(limit, Rate(n, total))
<1>1. CASE total = 0
  BY <1>1 DEF MinimumRule, Rate
<1>2. CASE total # 0
  BY <1>2 DEF MinimumRule, Rate, InTheWay
<1> QED
  BY <1>1, <1>2

\* And with a smaller share, of a maximum.
LEMMA BetterMaximum ==
  ASSUME NEW limit \in Int, NEW n \in Nat, NEW m \in Nat, NEW total \in Nat, m <= n,
         MaximumRule(limit, Rate(n, total)) \notin InTheWay
  PROVE  MaximumRule(limit, Rate(m, total)) = MaximumRule(limit, Rate(n, total))
<1>1. CASE total = 0
  BY <1>1 DEF MaximumRule, Rate
<1>2. CASE total # 0
  BY <1>2 DEF MaximumRule, Rate, InTheWay
<1> QED
  BY <1>1, <1>2

\* The larger of two shares of one population is within a limit when both are.
LEMMA BetterLarger ==
  ASSUME NEW limit \in Int, NEW a \in Nat, NEW n \in Nat, NEW m \in Nat,
         NEW total \in Nat, m <= n,
         MaximumRule(limit, Larger(Rate(a, total), Rate(n, total))) \notin InTheWay
  PROVE  MaximumRule(limit, Larger(Rate(a, total), Rate(m, total))) =
            MaximumRule(limit, Larger(Rate(a, total), Rate(n, total)))
<1>1. CASE total = 0
  BY <1>1 DEF Rate
<1>2. CASE total # 0
  <2>1. ASSUME NEW x \in Nat
        PROVE  /\ Larger(Rate(a, total), Rate(x, total)).den = total
               /\ Larger(Rate(a, total), Rate(x, total)).num =
                     IF a >= x THEN 100 * a ELSE 100 * x
    <3>1. (100 * a) * total >= (100 * x) * total <=> a >= x
      <4>1. CASE a >= x
        <5>1. (100 * (a - x)) * total >= 0
          BY <4>1
        <5> QED
          BY <4>1, <5>1
      <4>2. CASE a < x
        <5>1. (100 * (x - a)) * total > 0
          BY <1>2, <4>2
        <5> QED
          BY <4>2, <5>1
      <4> QED
        BY <4>1, <4>2
    <3> QED
      BY <1>2, <3>1 DEF Larger, Rate
  <2> DEFINE v == Larger(Rate(a, total), Rate(n, total))
             w == Larger(Rate(a, total), Rate(m, total))
  <2>2. w.den = v.den /\ v.den \in Nat /\ w.num <= v.num /\ w.num \in Nat /\ v.num \in Nat
    BY <2>1
  <2> HIDE DEF v, w
  <2>3. limit * v.den \in Int
    BY <2>2
  <2>4. MaximumRule(limit, v) \notin InTheWay => MaximumRule(limit, w) = MaximumRule(limit, v)
    BY <2>2, <2>3 DEF MaximumRule, InTheWay
  <2> QED
    BY <2>4 DEF v, w
<1> QED
  BY <1>1, <1>2

\* A smaller decline, over at least as many pairs, is within the limit too.
LEMMA BetterDecline ==
  ASSUME NEW limit \in Int, NEW a \in Nat, NEW b \in Nat, NEW n \in Nat,
         NEW c \in Nat, NEW d \in Nat, NEW m \in Nat,
         a - b <= c - d, m <= n, m # 0,
         MaximumRule(limit, Decline(c, d, m)) \notin InTheWay
  PROVE  MaximumRule(limit, Decline(a, b, n)) \notin InTheWay
<1> DEFINE x == IF a > b THEN a - b ELSE 0
           y == IF c > d THEN c - d ELSE 0
<1>1. /\ x \in Nat /\ y \in Nat /\ x <= y
      /\ Decline(a, b, n) = Rate(x, n) /\ Decline(c, d, m) = Rate(y, m)
  BY DEF Decline
<1> HIDE DEF x, y
<1>2. CASE limit = Unset
  BY <1>2 DEF MaximumRule, InTheWay
<1>3. CASE limit # Unset
  <2>1. 100 * y <= limit * m
    BY <1>1, <1>3 DEF MaximumRule, Rate, InTheWay
  <2>2. limit >= 0
    <3>1. SUFFICES ASSUME limit < 0 PROVE FALSE
      OBVIOUS
    <3>2. limit * m < 0
      BY <3>1
    <3>3. limit * m \in Int
      OBVIOUS
    <3> QED
      BY <1>1, <2>1, <3>2, <3>3
  <2>3. limit * m <= limit * n /\ limit * m \in Int /\ limit * n \in Int
    BY <2>2, Products
  <2>4. 100 * x <= limit * n
    BY <1>1, <2>1, <2>3
  <2>5. n # 0
    OBVIOUS
  <2> QED
    BY <1>1, <1>3, <2>4, <2>5, MaximumPasses DEF InTheWay
<1> QED
  BY <1>2, <1>3

\* A decline that is not measured is not configured, or blocks.
LEMMA OptionalIs ==
  ASSUME NEW limit, NEW v, OptionalMaximum(limit, v) \notin InTheWay
  PROVE  /\ limit # Unset => v # Unavailable
         /\ MaximumRule(limit, v) \notin InTheWay
BY DEF OptionalMaximum, InTheWay

\* And passes when it can be judged and the maximum is kept.
LEMMA OptionalPasses ==
  ASSUME NEW limit, NEW v, v # Unavailable \/ limit = Unset,
         MaximumRule(limit, v) \notin InTheWay
  PROVE  OptionalMaximum(limit, v) \notin InTheWay
BY DEF OptionalMaximum, InTheWay

\* The pairs that are evaluated on both sides, before and after the loss.
LEMMA ReplacedJoint ==
  ASSUME NEW rs, NEW i, NEW o, Loses(rs, i, o), NEW S \in SUBSET DOMAIN rs
  PROVE  LET rt == Replaced(rs, i, o)
             J  == JointlyScored(rs, S)
             K  == JointlyScored(rt, S)
         IN  /\ J \in SUBSET DOMAIN rs /\ K \in SUBSET J
             /\ Size(rt, K) <= Size(rs, J) /\ Size(rs, J) \in Nat /\ Size(rt, K) \in Nat
             /\ Tally(rs, J, "baseline", "passed") \in Nat
             /\ Tally(rs, J, "candidate", "passed") \in Nat
             /\ Tally(rt, K, "baseline", "passed") \in Nat
             /\ Tally(rt, K, "candidate", "passed") \in Nat
             /\ Tally(rs, J, "baseline", "passed") - Tally(rs, J, "candidate", "passed")
                  <= Tally(rt, K, "baseline", "passed") - Tally(rt, K, "candidate", "passed")
<1> DEFINE rt == Replaced(rs, i, o)
           J == JointlyScored(rs, S)
           K == JointlyScored(rt, S)
           JB == {k \in J : Is(rs[k]["baseline"], "passed")}
           JC == {k \in J : Is(rs[k]["candidate"], "passed")}
           KB == {k \in K : Is(rt[k]["baseline"], "passed")}
           KC == {k \in K : Is(rt[k]["candidate"], "passed")}
<1>1. /\ DOMAIN rt = DOMAIN rs /\ Dataset(rt) /\ Dataset(rs)
      /\ \A k \in DOMAIN rs : (k # i => rt[k] = rs[k]) /\ rt[k].baseline = rs[k].baseline
  BY ReplacedRows DEF Loses
<1>2. \A X : Size(rt, X) = Size(rs, X)
  BY ReplacedSummary
<1>3. i \in DOMAIN rs /\ rs[i].size \in Nat
  BY Seen DEF Loses
<1>4. Full(rs[i].candidate) /\ Is(rs[i].candidate, "passed")
  BY HadAll, Seen DEF Loses
<1> HIDE DEF rt
<1>5. J \in SUBSET DOMAIN rs /\ K \in SUBSET J /\ \A k \in J : k # i => k \in K
  BY <1>1, <1>4 DEF JointlyScored
<1>6. /\ Tally(rs, J, "baseline", "passed") = Size(rs, JB)
      /\ Tally(rs, J, "candidate", "passed") = Size(rs, JC)
      /\ Tally(rt, K, "baseline", "passed") = Size(rs, KB)
      /\ Tally(rt, K, "candidate", "passed") = Size(rs, KC)
  BY <1>2, Zenon DEF Tally
<1>7. Size(rt, K) <= Size(rs, J) /\ Size(rs, J) \in Nat /\ Size(rt, K) \in Nat
  <2> HIDE DEF J, K
  <2> QED
    BY <1>1, <1>2, <1>5, SizeOfPart
<1>8. /\ JB \in SUBSET DOMAIN rs /\ KB \in SUBSET DOMAIN rs
      /\ \A k \in DOMAIN rs : k # i => (k \in JB <=> k \in KB)
      /\ i \in KB <=> (i \in JB /\ i \in K)
  <2> HIDE DEF J, K
  <2> QED
    BY <1>1, <1>3, <1>5
<1>9. /\ JC \in SUBSET DOMAIN rs /\ KC \in SUBSET DOMAIN rs
      /\ \A k \in DOMAIN rs : k # i => (k \in JC <=> k \in KC)
      /\ i \in JC <=> i \in J
      /\ i \in KC => i \in K
      /\ i \in JB => i \in J
  <2> HIDE DEF J, K
  <2> QED
    BY <1>1, <1>3, <1>4, <1>5
<1>10. i \in K => i \in J
  BY <1>5
<1> HIDE DEF J, K, JB, JC, KB, KC
<1>11. PICK b \in Nat : /\ Size(rs, JB) = (IF i \in JB THEN rs[i].size ELSE 0) + b
                        /\ Size(rs, KB) = (IF i \in KB THEN rs[i].size ELSE 0) + b
  BY <1>1, <1>3, <1>8, AgreeBut
<1>12. PICK c \in Nat : /\ Size(rs, JC) = (IF i \in JC THEN rs[i].size ELSE 0) + c
                        /\ Size(rs, KC) = (IF i \in KC THEN rs[i].size ELSE 0) + c
  BY <1>1, <1>3, <1>9, AgreeBut
<1>13. /\ Size(rs, JB) - Size(rs, JC) <= Size(rs, KB) - Size(rs, KC)
       /\ Size(rs, JB) \in Nat /\ Size(rs, JC) \in Nat
       /\ Size(rs, KB) \in Nat /\ Size(rs, KC) \in Nat
  BY <1>3, <1>8, <1>9, <1>10, <1>11, <1>12
<1> QED
  BY <1>5, <1>6, <1>7, <1>13 DEF rt, J, K

\* The components of a status: no fewer after the loss, unless they passed
\* or failed.
LEMMA ReplacedComponents ==
  ASSUME NEW rs, NEW i, NEW o, Loses(rs, i, o), NEW S \in SUBSET DOMAIN rs,
         config \in Configs, NEW status \in {"error", "not_applicable"}
  PROVE  LET rt == Replaced(rs, i, o)
             had(v)  == SumFunctionOnSet(Components(rs, v, status), S)
             have(v) == SumFunctionOnSet(Components(rt, v, status), S)
         IN  /\ had("baseline") = have("baseline") /\ had("baseline") \in Nat
             /\ had("candidate") \in Nat /\ have("candidate") \in Nat
             /\ had("candidate") <= have("candidate")
<1> DEFINE rt == Replaced(rs, i, o)
<1>1. /\ DOMAIN rt = DOMAIN rs /\ Dataset(rt) /\ Dataset(rs)
      /\ \A k \in DOMAIN rs : /\ k # i => rt[k] = rs[k]
                              /\ rt[k].baseline = rs[k].baseline
                              /\ rt[k].size = rs[k].size
  BY ReplacedRows DEF Loses
<1>2. Full(rs[i].candidate)
  BY HadAll, Seen DEF Loses
<1> HIDE DEF rt
<1>3. Components(rt, "baseline", status) = Components(rs, "baseline", status)
  BY <1>1 DEF Components
<1>4. /\ Weighs(Components(rs, "baseline", status), S)
      /\ Weighs(Components(rs, "candidate", status), S)
      /\ Weighs(Components(rt, "candidate", status), S)
  BY <1>1, ComponentsWeigh
<1>5. ASSUME NEW k \in S
      PROVE  Components(rs, "candidate", status)[k] <= Components(rt, "candidate", status)[k]
  <2>1. CASE k # i
    BY <1>1, <1>4, <2>1 DEF Components, Weighs
  <2>2. CASE k = i
    <3>1. With(config.outcome, ResultsOf(rs[k].candidate), status) = {}
      BY <1>2, <2>2 DEF With, Full, PrimaryFull, FullyEvaluated
    <3>2. Components(rs, "candidate", status)[k] =
            rs[k].size * Cardinality(With(config.outcome, ResultsOf(rs[k].candidate), status))
      BY DEF Components
    <3>3. Components(rs, "candidate", status)[k] = 0
      <4>1. rs[k].size \in Nat
        BY <1>1, Seen
      <4> QED
        BY <3>1, <3>2, <4>1, FS_EmptySet
    <3> QED
      BY <1>4, <3>3 DEF Weighs
  <2> QED
    BY <2>1, <2>2
<1>6. Total(Components(rs, "candidate", status), S) <= Total(Components(rt, "candidate", status), S)
  BY <1>4, <1>5, TotalOfMore
<1> QED
  BY <1>3, <1>4, <1>6, SumIsTotal, TotalNat DEF rt

\* Latencies are as they were.
LEMMA ReplacedLatency ==
  ASSUME NEW rs, NEW i, NEW o, Loses(rs, i, o), NEW S \in SUBSET DOMAIN rs
  PROVE  LET rt == Replaced(rs, i, o) IN
         /\ Timed(rt, S) = Timed(rs, S)
         /\ LatencyIncrease(rt, Timed(rt, S)) = LatencyIncrease(rs, Timed(rs, S))
<1> DEFINE rt == Replaced(rs, i, o)
<1>1. ASSUME NEW k \in DOMAIN rs, NEW v \in Variants
      PROVE  rt[k][v].latency = rs[k][v].latency
  <2>1. /\ k # i => rt[k] = rs[k]
        /\ rt[k].baseline = rs[k].baseline
        /\ rt[i].candidate = o
    BY ReplacedRows
  <2> HIDE DEF rt
  <2> QED
    BY <2>1 DEF Loses, Variants
<1>2. \A X : Size(rt, X) = Size(rs, X)
  BY ReplacedSummary
<1> HIDE DEF rt
<1>3. Timed(rt, S) = Timed(rs, S)
  BY <1>1 DEF Timed
<1> DEFINE A == Timed(rs, S)
<1>4. A \in SUBSET DOMAIN rs
  BY DEF Timed
<1> HIDE DEF A
<1>5. ASSUME NEW v \in Variants
      PROVE  P95(rt, A, v) = P95(rs, A, v)
  <2>1. ASSUME NEW x
        PROVE  Size(rt, {k \in A : rt[k][v].latency <= x}) =
                  Size(rs, {k \in A : rs[k][v].latency <= x})
    <3>1. {k \in A : rt[k][v].latency <= x} = {k \in A : rs[k][v].latency <= x}
      BY <1>1, <1>4
    <3> QED
      BY <1>2, <3>1, Zenon
  <2>2. {rt[k][v].latency : k \in A} = {rs[k][v].latency : k \in A}
    BY <1>1, <1>4
  <2>3. {x \in {rt[k][v].latency : k \in A} :
            Size(rt, {k \in A : rt[k][v].latency <= x}) >
               (95 * (Size(rt, A) - 1) + 99) \div 100} =
        {x \in {rs[k][v].latency : k \in A} :
            Size(rs, {k \in A : rs[k][v].latency <= x}) >
               (95 * (Size(rs, A) - 1) + 99) \div 100}
    <3>1. Size(rt, A) = Size(rs, A)
      BY <1>2
    <3> QED
      BY <2>1, <2>2, <3>1, Zenon
  <2> QED
    BY <2>3, Zenon DEF P95
<1>6. LatencyIncrease(rt, A) = LatencyIncrease(rs, A)
  BY <1>5 DEF LatencyIncrease, Variants
<1> QED
  BY <1>3, <1>6 DEF rt, A

\* The share of the candidate's rows in a sample that something holds of.
ShareOf(rs, what) == Rate(Tally(rs, Sample(rs), "candidate", what), Size(rs, Sample(rs)))

\* The quality rules about such shares.
LEMMA ShareRules ==
  ASSUME NEW rs
  PROVE  LET q == QualityRules(rs)
             g == config.gate
         IN  /\ q.min_candidate_primary_success_rate =
                   MinimumRule(g.min_candidate_primary_success_rate, ShareOf(rs, "passed"))
             /\ q.min_candidate_deployment_success_rate =
                   MinimumRule(g.min_candidate_deployment_success_rate, ShareOf(rs, "deployed"))
             /\ q.max_candidate_valid_but_wrong_rate =
                   MaximumRule(g.max_candidate_valid_but_wrong_rate, ShareOf(rs, "wrong"))
             /\ q.min_candidate_parse_validity =
                   MinimumRule(g.min_candidate_parse_validity, ShareOf(rs, "parsed"))
             /\ q.min_candidate_schema_validity =
                   MinimumRule(g.min_candidate_schema_validity, ShareOf(rs, "valid"))
             /\ q.max_error_rate = MaximumRule(g.max_error_rate, ShareOf(rs, "errored"))
             /\ q.max_timeout_rate = MaximumRule(g.max_timeout_rate, ShareOf(rs, "timed_out"))
BY DEF QualityRules, ShareOf

\* A decline over pairs, if there are any.
PairedDecline(before, after, pairs) ==
    IF pairs = 0 THEN Unavailable ELSE Decline(before, after, pairs)

\* The other quality rules.
LEMMA PairRules ==
  ASSUME NEW rs
  PROVE  LET q == QualityRules(rs)
             g == config.gate
             S == Sample(rs)
             J == JointlyScored(rs, S)
         IN  /\ q.max_primary_regression_pp =
                   OptionalMaximum(g.max_primary_regression_pp,
                      PairedDecline(Tally(rs, J, "baseline", "passed"),
                                    Tally(rs, J, "candidate", "passed"), Size(rs, J)))
             /\ q.max_deployment_regression_pp =
                   OptionalMaximum(g.max_deployment_regression_pp,
                      PairedDecline(Tally(rs, S, "baseline", "deployed"),
                                    Tally(rs, S, "candidate", "deployed"), Size(rs, S)))
             /\ q.max_valid_but_wrong_increase_pp =
                   MaximumRule(g.max_valid_but_wrong_increase_pp,
                      Decline(Tally(rs, S, "candidate", "wrong"),
                              Tally(rs, S, "baseline", "wrong"), Size(rs, S)))
             /\ q.min_discordant_pairs =
                   MinimumRule(g.min_discordant_pairs, Count(Size(rs, Discordant(rs, S))))
             /\ q.min_matched_latency_coverage =
                   MinimumRule(g.min_matched_latency_coverage,
                               Rate(Size(rs, Timed(rs, S)), Size(rs, S)))
             /\ q.max_p95_latency_increase_percent =
                   OptionalMaximum(g.max_p95_latency_increase_percent,
                                   LatencyIncrease(rs, Timed(rs, S)))
BY DEF QualityRules, PairedDecline

\* The rules about shares stay passed when the case is won again.
LEMMA SharesHold ==
  ASSUME config \in Configs, NEW rs, NEW i, NEW o, Loses(rs, i, o),
         NEW name \in QualityNames \ (RelativeRules \cup
            {"min_discordant_pairs", "min_matched_latency_coverage",
             "max_p95_latency_increase_percent"}),
         QualityRules(Replaced(rs, i, o))[name] \notin InTheWay
  PROVE  QualityRules(rs)[name] \notin InTheWay
<1> DEFINE rt == Replaced(rs, i, o)
           S == Sample(rs)
           total == Size(rs, S)
           had(what) == Tally(rs, S, "candidate", what)
           has(what) == Tally(rt, S, "candidate", what)
           limit == config.gate[name]
<1>1. Sample(rt) = S /\ Size(rt, S) = total
  BY ReplacedSummary
<1>2. S \in SUBSET DOMAIN rs /\ total \in Nat
  BY Partition, SizeOfPart DEF Loses
<1>3. /\ Is(rs[i].candidate, "passed") /\ Is(rs[i].candidate, "deployed")
      /\ Is(rs[i].candidate, "parsed") /\ Is(rs[i].candidate, "valid")
      /\ ~Is(rs[i].candidate, "wrong") /\ ~Is(rs[i].candidate, "errored")
      /\ ~Is(rs[i].candidate, "timed_out")
  BY HadAll, Seen DEF Loses
<1>4. \A what : /\ had(what) \in Nat /\ has(what) \in Nat
                /\ Is(rs[i].candidate, what) => has(what) <= had(what)
                /\ ~Is(rs[i].candidate, what) => had(what) <= has(what)
  BY <1>2, ReplacedTally
<1>5. limit \in Int
  BY LimitsAre DEF Limits, QualityNames, RelativeRules
<1>6. \A what : /\ ShareOf(rs, what) = Rate(had(what), total)
                /\ ShareOf(rt, what) = Rate(has(what), total)
  BY <1>1 DEF ShareOf
<1>7. QualityRules(rt)[name] \notin InTheWay
  OBVIOUS
<1> HIDE DEF rt, total, had, has, limit
<1>8. ASSUME NEW what, Is(rs[i].candidate, what),
             MinimumRule(limit, ShareOf(rt, what)) \notin InTheWay
      PROVE  MinimumRule(limit, ShareOf(rs, what)) \notin InTheWay
  BY <1>2, <1>4, <1>5, <1>6, <1>8, BetterMinimum
<1>9. ASSUME NEW what, ~Is(rs[i].candidate, what),
             MaximumRule(limit, ShareOf(rt, what)) \notin InTheWay
      PROVE  MaximumRule(limit, ShareOf(rs, what)) \notin InTheWay
  BY <1>2, <1>4, <1>5, <1>6, <1>9, BetterMaximum
<1>10. CASE name = "min_candidate_primary_success_rate"
  BY <1>3, <1>7, <1>8, <1>10, ShareRules DEF limit
<1>11. CASE name = "min_candidate_deployment_success_rate"
  BY <1>3, <1>7, <1>8, <1>11, ShareRules DEF limit
<1>12. CASE name = "max_candidate_valid_but_wrong_rate"
  BY <1>3, <1>7, <1>9, <1>12, ShareRules DEF limit
<1>13. CASE name = "min_candidate_parse_validity"
  BY <1>3, <1>7, <1>8, <1>13, ShareRules DEF limit
<1>14. CASE name = "min_candidate_schema_validity"
  BY <1>3, <1>7, <1>8, <1>14, ShareRules DEF limit
<1>15. CASE name = "max_error_rate"
  BY <1>3, <1>7, <1>9, <1>15, ShareRules DEF limit
<1>16. CASE name = "max_timeout_rate"
  BY <1>3, <1>7, <1>9, <1>16, ShareRules DEF limit
<1> QED
  BY <1>10, <1>11, <1>12, <1>13, <1>14, <1>15, <1>16 DEF QualityNames, RelativeRules

\* So do the rules relative to the baseline and those about latency.
LEMMA PairsHold ==
  ASSUME config \in Configs, NEW rs, NEW i, NEW o, Loses(rs, i, o),
         NEW name \in RelativeRules \cup
            {"min_matched_latency_coverage", "max_p95_latency_increase_percent"},
         QualityRules(Replaced(rs, i, o))[name] \notin InTheWay
  PROVE  QualityRules(rs)[name] \notin InTheWay
<1> DEFINE rt == Replaced(rs, i, o)
           S == Sample(rs)
           J == JointlyScored(rs, S)
           K == JointlyScored(rt, S)
           total == Size(rs, S)
           limit == config.gate[name]
<1>1. Sample(rt) = S /\ (\A X : Size(rt, X) = Size(rs, X))
  BY ReplacedSummary
<1>2. S \in SUBSET DOMAIN rs /\ total \in Nat
  BY Partition, SizeOfPart DEF Loses
<1>3. Is(rs[i].candidate, "deployed") /\ ~Is(rs[i].candidate, "wrong")
  BY HadAll, Seen DEF Loses
<1>4. limit \in Int
  BY LimitsAre DEF Limits, RelativeRules
<1>5. QualityRules(rt)[name] \notin InTheWay
  OBVIOUS
<1>6. \A what :
        /\ Tally(rt, S, "baseline", what) = Tally(rs, S, "baseline", what)
        /\ Tally(rt, S, "baseline", what) \in Nat
        /\ Tally(rt, S, "candidate", what) \in Nat
        /\ Tally(rs, S, "candidate", what) \in Nat
        /\ Is(rs[i].candidate, what) =>
              Tally(rt, S, "candidate", what) <= Tally(rs, S, "candidate", what)
        /\ ~Is(rs[i].candidate, what) =>
              Tally(rs, S, "candidate", what) <= Tally(rt, S, "candidate", what)
  BY <1>2, ReplacedTally
<1>7. ASSUME NEW a \in Nat, NEW b \in Nat, NEW n \in Nat,
             NEW c \in Nat, NEW d \in Nat, NEW m \in Nat, a - b <= c - d, m <= n,
             OptionalMaximum(limit, PairedDecline(c, d, m)) \notin InTheWay
      PROVE  OptionalMaximum(limit, PairedDecline(a, b, n)) \notin InTheWay
  <2> HIDE DEF limit
  <2>1. CASE limit = Unset
    BY <2>1 DEF OptionalMaximum, MaximumRule, InTheWay
  <2>2. CASE limit # Unset
    <3>1. m # 0 /\ MaximumRule(limit, Decline(c, d, m)) \notin InTheWay
      BY <1>7, <2>2, OptionalIs DEF PairedDecline
    <3>2. MaximumRule(limit, Decline(a, b, n)) \notin InTheWay
      BY <1>4, <1>7, <3>1, BetterDecline
    <3>3. n # 0
      BY <1>7, <3>1
    <3>4. PairedDecline(a, b, n) = Decline(a, b, n)
      BY <3>3 DEF PairedDecline
    <3>5. PairedDecline(a, b, n).den # 0
      BY <3>3, <3>4 DEF Decline, Rate
    <3>6. PairedDecline(a, b, n) # Unavailable
      BY <3>5 DEF Unavailable
    <3> QED
      BY <3>2, <3>4, <3>6, OptionalPasses
  <2> QED
    BY <2>1, <2>2
<1>8. CASE name = "max_primary_regression_pp"
  <2>1. /\ Size(rt, K) <= Size(rs, J) /\ Size(rs, J) \in Nat /\ Size(rt, K) \in Nat
        /\ Tally(rs, J, "baseline", "passed") \in Nat
        /\ Tally(rs, J, "candidate", "passed") \in Nat
        /\ Tally(rt, K, "baseline", "passed") \in Nat
        /\ Tally(rt, K, "candidate", "passed") \in Nat
        /\ Tally(rs, J, "baseline", "passed") - Tally(rs, J, "candidate", "passed")
             <= Tally(rt, K, "baseline", "passed") - Tally(rt, K, "candidate", "passed")
    BY <1>2, ReplacedJoint
  <2>2. QualityRules(rt)[name] =
          OptionalMaximum(limit, PairedDecline(Tally(rt, K, "baseline", "passed"),
                                               Tally(rt, K, "candidate", "passed"),
                                               Size(rt, K)))
    BY <1>1, <1>8, PairRules
  <2>3. QualityRules(rs)[name] =
          OptionalMaximum(limit, PairedDecline(Tally(rs, J, "baseline", "passed"),
                                               Tally(rs, J, "candidate", "passed"),
                                               Size(rs, J)))
    BY <1>8, PairRules
  <2> HIDE DEF rt, S, J, K, total, limit
  <2> QED
    BY <1>5, <1>7, <2>1, <2>2, <2>3, SMTT(30)
<1>9. CASE name = "max_deployment_regression_pp"
  <2>1. QualityRules(rt)[name] =
          OptionalMaximum(limit, PairedDecline(Tally(rt, S, "baseline", "deployed"),
                                               Tally(rt, S, "candidate", "deployed"), total))
    BY <1>1, <1>9, PairRules
  <2>2. QualityRules(rs)[name] =
          OptionalMaximum(limit, PairedDecline(Tally(rs, S, "baseline", "deployed"),
                                               Tally(rs, S, "candidate", "deployed"), total))
    BY <1>9, PairRules
  <2> HIDE DEF rt, S, J, K, total, limit
  <2>3. Tally(rs, S, "baseline", "deployed") - Tally(rs, S, "candidate", "deployed") <=
          Tally(rt, S, "baseline", "deployed") - Tally(rt, S, "candidate", "deployed")
    BY <1>3, <1>6
  <2> QED
    BY <1>2, <1>5, <1>6, <1>7, <2>1, <2>2, <2>3
<1>10. CASE name = "max_valid_but_wrong_increase_pp"
  <2>1. QualityRules(rt)[name] =
          MaximumRule(limit, Decline(Tally(rt, S, "candidate", "wrong"),
                                     Tally(rt, S, "baseline", "wrong"), total))
    BY <1>1, <1>10, PairRules
  <2>2. QualityRules(rs)[name] =
          MaximumRule(limit, Decline(Tally(rs, S, "candidate", "wrong"),
                                     Tally(rs, S, "baseline", "wrong"), total))
    BY <1>10, PairRules
  <2> DEFINE less == IF Tally(rs, S, "candidate", "wrong") > Tally(rs, S, "baseline", "wrong")
                     THEN Tally(rs, S, "candidate", "wrong") - Tally(rs, S, "baseline", "wrong")
                     ELSE 0
             more == IF Tally(rt, S, "candidate", "wrong") > Tally(rt, S, "baseline", "wrong")
                     THEN Tally(rt, S, "candidate", "wrong") - Tally(rt, S, "baseline", "wrong")
                     ELSE 0
  <2> HIDE DEF rt, S, J, K, total, limit
  <2>3. less \in Nat /\ more \in Nat /\ less <= more
    BY <1>3, <1>6
  <2>4. /\ QualityRules(rt)[name] = MaximumRule(limit, Rate(more, total))
        /\ QualityRules(rs)[name] = MaximumRule(limit, Rate(less, total))
    BY <2>1, <2>2, Zenon DEF Decline
  <2> HIDE DEF less, more
  <2> QED
    BY <1>2, <1>4, <1>5, <2>3, <2>4, BetterMaximum
<1>11. CASE name = "min_matched_latency_coverage"
  <2>1. Timed(rt, S) = Timed(rs, S)
    BY <1>2, ReplacedLatency
  <2>2. /\ QualityRules(rt)[name] = MinimumRule(limit, Rate(Size(rt, Timed(rt, S)), Size(rt, S)))
        /\ QualityRules(rs)[name] = MinimumRule(limit, Rate(Size(rs, Timed(rs, S)), Size(rs, S)))
    BY <1>1, <1>11, PairRules
  <2> HIDE DEF rt, S, limit
  <2> QED
    BY <1>1, <1>5, <2>1, <2>2
<1>12. CASE name = "max_p95_latency_increase_percent"
  <2>1. LatencyIncrease(rt, Timed(rt, S)) = LatencyIncrease(rs, Timed(rs, S))
    BY <1>2, ReplacedLatency
  <2>2. /\ QualityRules(rt)[name] = OptionalMaximum(limit, LatencyIncrease(rt, Timed(rt, S)))
        /\ QualityRules(rs)[name] = OptionalMaximum(limit, LatencyIncrease(rs, Timed(rs, S)))
    BY <1>1, <1>12, PairRules
  <2> HIDE DEF rt, S, limit
  <2> QED
    BY <1>5, <2>1, <2>2
<1> QED
  BY <1>8, <1>9, <1>10, <1>11, <1>12 DEF RelativeRules

\* And the evidence.
LEMMA EvidenceHolds ==
  ASSUME config \in Configs, NEW rs, NEW i, NEW o, Loses(rs, i, o),
         NEW name \in EvidenceNames,
         EvidenceRules(Replaced(rs, i, o))[name] \notin InTheWay
  PROVE  EvidenceRules(rs)[name] \notin InTheWay
<1> DEFINE rt == Replaced(rs, i, o)
           S == Sample(rs)
           J == JointlyScored(rs, S)
           K == JointlyScored(rt, S)
           total == Size(rs, S)
           limit == config.gate[name]
<1>1. /\ Sample(rt) = S /\ (\A X : Size(rt, X) = Size(rs, X))
      /\ Repeated(rt) = Repeated(rs) /\ DuplicateRows(rt) = DuplicateRows(rs)
      /\ LabelConflicts(rt) = LabelConflicts(rs)
  BY ReplacedSummary
<1>2. S \in SUBSET DOMAIN rs /\ total \in Nat /\ DOMAIN rt = DOMAIN rs
  BY Partition, SizeOfPart, ReplacedRows DEF Loses
<1>3. EvidenceRules(rt)[name] \notin InTheWay
  OBVIOUS
<1>4. \A s : Required(s) \notin InTheWay <=> s = "passed"
  BY DEF Required, InTheWay
<1>5. CASE name = "min_primary_fully_evaluated_rate"
  <2>1. Size(rt, K) <= Size(rs, J) /\ Size(rs, J) \in Nat /\ Size(rt, K) \in Nat
    BY <1>2, ReplacedJoint
  <2>2. limit \in Int
    BY <1>5, LimitsAre DEF Limits, Safeguards
  <2>3. /\ EvidenceRules(rt)[name] = Required(MinimumRule(limit, Rate(Size(rt, K), total)))
        /\ EvidenceRules(rs)[name] = Required(MinimumRule(limit, Rate(Size(rs, J), total)))
    BY <1>1, <1>5 DEF EvidenceRules
  <2> HIDE DEF rt, S, J, K, total, limit
  <2>4. MinimumRule(limit, Rate(Size(rt, K), total)) = "passed"
    BY <1>3, <1>4, <2>3
  <2>5. MinimumRule(limit, Rate(Size(rs, J), total)) = "passed"
    BY <1>2, <2>1, <2>2, <2>4, BetterMinimum DEF InTheWay
  <2> QED
    BY <1>4, <2>3, <2>5
<1>6. ASSUME NEW status \in {"error", "not_applicable"}, limit \in Int,
             MaximumRule(limit, ComponentRate(rt, S, status)) = "passed"
      PROVE  MaximumRule(limit, ComponentRate(rs, S, status)) = "passed"
  <2> DEFINE a == SumFunctionOnSet(Components(rs, "baseline", status), S)
             b == SumFunctionOnSet(Components(rs, "candidate", status), S)
             c == SumFunctionOnSet(Components(rt, "candidate", status), S)
             places == total * Cardinality(config.outcome.ids)
  <2>1. /\ a = SumFunctionOnSet(Components(rt, "baseline", status), S)
        /\ a \in Nat /\ b \in Nat /\ c \in Nat /\ b <= c
    BY <1>2, ReplacedComponents
  <2>2. /\ ComponentRate(rs, S, status) = Larger(Rate(a, places), Rate(b, places))
        /\ ComponentRate(rt, S, status) = Larger(Rate(a, places), Rate(c, places))
    BY <1>1, <2>1, Zenon DEF ComponentRate
  <2>3. places \in Nat
    <3>1. config.outcome.ids \in SUBSET Evaluators
      BY GateAssumption DEF Outcome
    <3>2. Cardinality(config.outcome.ids) \in Nat
      BY <3>1, ScoringAssumption, FS_Subset, FS_CardinalityType
    <3> QED
      BY <1>2, <3>2
  <2> HIDE DEF rt, S, total, limit, a, b, c, places
  <2> QED
    BY <1>6, <2>1, <2>2, <2>3, BetterLarger DEF InTheWay
<1>7. CASE name = "max_primary_component_error_rate"
  <2>1. limit \in Int
    BY <1>7, LimitsAre DEF Limits, Safeguards
  <2>2. /\ EvidenceRules(rt)[name] = Required(MaximumRule(limit, ComponentRate(rt, S, "error")))
        /\ EvidenceRules(rs)[name] = Required(MaximumRule(limit, ComponentRate(rs, S, "error")))
    BY <1>1, <1>7 DEF EvidenceRules
  <2> HIDE DEF rt, S, limit
  <2> QED
    BY <1>3, <1>4, <1>6, <2>1, <2>2
<1>8. CASE name = "max_primary_component_not_applicable_rate"
  <2>1. limit \in Int
    BY <1>8, LimitsAre DEF Limits, Safeguards
  <2>2. /\ EvidenceRules(rt)[name] =
             Required(MaximumRule(limit, ComponentRate(rt, S, "not_applicable")))
        /\ EvidenceRules(rs)[name] =
             Required(MaximumRule(limit, ComponentRate(rs, S, "not_applicable")))
    BY <1>1, <1>8 DEF EvidenceRules
  <2> HIDE DEF rt, S, limit
  <2> QED
    BY <1>3, <1>4, <1>6, <2>1, <2>2
<1>9. CASE name \in EvidenceNames \ {"min_primary_fully_evaluated_rate",
                                     "max_primary_component_error_rate",
                                     "max_primary_component_not_applicable_rate"}
  <2>1. EvidenceRules(rs)[name] = EvidenceRules(rt)[name]
    <3> HIDE DEF rt
    <3> QED
      BY <1>1, <1>2, <1>9 DEF EvidenceRules, EvidenceNames, Safeguards,
                              RepeatedTrialRule, LabelConflictRule
  <2> QED
    BY <1>3, <2>1
<1> QED
  BY <1>5, <1>7, <1>8, <1>9

\* If the dataset with the lost case passes, it passes with the case won.
LEMMA LossIsNoHelp ==
  ASSUME config \in Configs, config.gate.min_discordant_pairs = Unset,
         NEW rs, NEW i, NEW o, Loses(rs, i, o),
         Decided(Replaced(rs, i, o)).status = "passed"
  PROVE  Decided(rs).status = "passed"
<1> DEFINE rt == Replaced(rs, i, o)
<1>1. /\ IsConfigured
      /\ \A name \in EvidenceNames : EvidenceRules(rt)[name] \notin InTheWay
      /\ \A name \in QualityNames : QualityRules(rt)[name] \notin InTheWay
  BY PassMeans
<1>2. \A name \in EvidenceNames : EvidenceRules(rs)[name] \notin InTheWay
  BY <1>1, EvidenceHolds
<1>3. QualityRules(rs).min_discordant_pairs \notin InTheWay
  BY PairRules DEF MinimumRule, InTheWay
<1>4. ASSUME NEW name \in QualityNames PROVE QualityRules(rs)[name] \notin InTheWay
  <2>1. QualityRules(rt)[name] \notin InTheWay
    BY <1>1
  <2>2. CASE name \in RelativeRules \cup
             {"min_matched_latency_coverage", "max_p95_latency_increase_percent"}
    BY <2>1, <2>2, PairsHold
  <2>3. CASE name = "min_discordant_pairs"
    BY <1>3, <2>3
  <2>4. CASE name \notin RelativeRules \cup
             {"min_discordant_pairs", "min_matched_latency_coverage",
              "max_p95_latency_increase_percent"}
    BY <2>1, <2>4, SharesHold
  <2> QED
    BY <2>2, <2>3, <2>4
<1> QED
  BY <1>1, <1>2, <1>4, PassMeans

-----------------------------------------------------------------------------
(* The decision changes with the configuration and the rows only           *)

\* The unit of a row is that of the configuration, and so is all that follows
\* from it: members, repeated trials and representatives.
LEMMA UnitsHeld ==
  ASSUME config' = config
  PROVE  /\ \A rs, u : Members(rs, u)' = Members(rs, u)
         /\ \A rs : Repeated(rs)' = Repeated(rs)
         /\ \A rs : Sample(rs)' = Sample(rs)
<1>1. \A row : UnitOf(row)' = UnitOf(row)
  BY DEF UnitOf
<1>2. \A rs, u : Members(rs, u)' = Members(rs, u)
  BY <1>1 DEF Members
<1>3. \A rs : Repeated(rs)' = Repeated(rs)
  BY <1>1, <1>2 DEF Repeated
<1>4. \A rs : Sample(rs)' = Sample(rs)
  BY <1>1, <1>2, <1>3 DEF Sample
<1> QED
  BY <1>2, <1>3, <1>4

\* What is counted of a sample.
LEMMA CountsHeld ==
  ASSUME config' = config
  PROVE  /\ \A rs, sample, v, what :
               Tally(rs, sample, v, what)' = Tally(rs, sample, v, what)
         /\ \A rs, sample : JointlyScored(rs, sample)' = JointlyScored(rs, sample)
         /\ \A rs, sample : Discordant(rs, sample)' = Discordant(rs, sample)
         /\ \A rs, sample, status :
               ComponentRate(rs, sample, status)' = ComponentRate(rs, sample, status)
<1>1. \A o : /\ Pass(o)' = Pass(o) /\ Full(o)' = Full(o)
             /\ Wrong(o)' = Wrong(o) /\ Deploy(o)' = Deploy(o)
  BY DEF Pass, Full, Wrong, Deploy
<1>2. \A o, what : Is(o, what)' = Is(o, what)
  BY <1>1 DEF Is
<1>3. \A rs, sample, v, what : Tally(rs, sample, v, what)' = Tally(rs, sample, v, what)
  BY <1>2 DEF Tally
<1>4. \A rs, sample : JointlyScored(rs, sample)' = JointlyScored(rs, sample)
  BY <1>1 DEF JointlyScored
<1>5. \A rs, sample : Discordant(rs, sample)' = Discordant(rs, sample)
  BY <1>1, <1>4 DEF Discordant
<1>6. \A rs, v, status : Components(rs, v, status)' = Components(rs, v, status)
  BY DEF Components
<1>7. \A rs, sample, status :
         ComponentRate(rs, sample, status)' = ComponentRate(rs, sample, status)
  BY <1>6 DEF ComponentRate
<1> QED
  BY <1>3, <1>4, <1>5, <1>7

\* The decision itself.
LEMMA DecidedHeld ==
  ASSUME config' = config
  PROVE  \A rs : Decided(rs)' = Decided(rs)
<1>1. \A rs : DuplicateRows(rs)' = DuplicateRows(rs)
  BY UnitsHeld DEF DuplicateRows
<1>2. \A rs : RepeatedTrialRule(rs)' = RepeatedTrialRule(rs)
  BY UnitsHeld DEF RepeatedTrialRule
<1>3. \A rs : EvidenceRules(rs)' = EvidenceRules(rs)
  BY <1>1, <1>2, UnitsHeld, CountsHeld DEF EvidenceRules
<1>4. \A rs : QualityRules(rs)' = QualityRules(rs)
  BY UnitsHeld, CountsHeld DEF QualityRules
<1>5. \A rs : RuleStatuses(rs)' = RuleStatuses(rs)
  BY <1>3, <1>4 DEF RuleStatuses
<1>6. IsConfigured' = IsConfigured
  BY DEF IsConfigured
<1> QED
  BY <1>5, <1>6 DEF Decided

-----------------------------------------------------------------------------
(* What every reachable state has                                          *)

\* The inductive invariant: an accepted configuration, rows of the dataset, and
\* the decision on exactly these rows, if there is one.
GateInv ==
    /\ config \in Configs /\ Accepted(config)
    /\ rows \in Seq(Rows)
    /\ decision = NoDecision \/ decision = Decided(rows)

\* No row is scored at the start.
LEMMA GateInvInitially == Init => GateInv
BY DEF Init, GateInv

\* Scoring adds a row of the dataset; the decision is on the rows that stay.
LEMMA GateInvStep == GateInv /\ [Next]_vars => GateInv'
<1> SUFFICES ASSUME GateInv, [Next]_vars PROVE GateInv'
  OBVIOUS
<1>1. ASSUME NEW row \in Rows, ScoreRow(row) PROVE GateInv'
  BY <1>1 DEF GateInv, ScoreRow, Accepted, NoDecision
<1>2. CASE Decide
  <2>1. config' = config /\ rows' = rows /\ decision' = Decided(rows)
    BY <1>2 DEF Decide
  <2>2. Decided(rows)' = Decided(rows)
    BY <2>1, DecidedHeld
  <2> QED
    BY <2>1, <2>2 DEF GateInv, Accepted
<1>3. CASE UNCHANGED vars
  <2>1. config' = config /\ rows' = rows /\ decision' = decision
    BY <1>3 DEF vars
  <2>2. Decided(rows)' = Decided(rows)
    BY <2>1, DecidedHeld
  <2>3. NoDecision' = NoDecision
    BY DEF NoDecision
  <2> QED
    BY <2>1, <2>2, <2>3 DEF GateInv, Accepted
<1> QED
  BY <1>1, <1>2, <1>3 DEF Next

\* A decision that is there is the one on these rows; without one, the state
\* says nothing.
LEMMA NothingDecided ==
  ASSUME decision = NoDecision
  PROVE  /\ decision.status = "none" /\ decision.authorized = FALSE
         /\ DOMAIN decision.rules = {}
BY DEF NoDecision, NoRules

-----------------------------------------------------------------------------
(* The theorems about the gate                                             *)

\* Types of the variables: the decision is one of the five of GateStatus, a
\* rule about evidence never merely fails, and one about quality is never an
\* error (evaluate_gate and its rule helpers).
THEOREM GateTypeCorrect == Spec => []TypeOK
<1>1. GateInv => TypeOK
  <2> SUFFICES ASSUME GateInv PROVE TypeOK
    OBVIOUS
  <2>1. CASE decision = NoDecision
    BY <2>1, NothingDecided DEF GateInv, TypeOK
  <2>2. CASE decision = Decided(rows)
    <3> DEFINE rules == RuleStatuses(rows)
               stated == {rules[name] : name \in DOMAIN rules}
    <3>1. Worst(stated) \in GateStatus
      BY DEF Worst, GateStatus
    <3>2. ASSUME IsConfigured
          PROVE  /\ decision.status = Worst(stated) /\ decision.rules = rules
                 /\ decision.authorized \in BOOLEAN
      BY <2>2, <3>2 DEF Decided
    <3>3. ASSUME ~IsConfigured
          PROVE  /\ decision.status = "not_configured" /\ decision.rules = NoRules
                 /\ decision.authorized = FALSE
      BY <2>2, <3>3 DEF Decided
    <3>4. EvidenceNames \cap QualityNames = {}
      BY DEF EvidenceNames, QualityNames, Safeguards, RelativeRules
    <3>5. \A name \in DOMAIN rules :
             rules[name] \in IF name \in EvidenceNames
                             THEN {"passed", "insufficient_evidence", "error"}
                             ELSE GateStatus \ {"error"}
      BY <3>4, RulesAre, StatusesTyped
    <3>6. "not_configured" \in GateStatus /\ DOMAIN NoRules = {}
      BY DEF GateStatus, NoRules
    <3> HIDE DEF rules, stated
    <3> QED
      BY <3>1, <3>2, <3>3, <3>5, <3>6 DEF GateInv, TypeOK
  <2> QED
    BY <2>1, <2>2 DEF GateInv
<1> QED
  BY <1>1, GateInvInitially, GateInvStep, PTL DEF Spec

\* CasesDecide, for every dataset and every configuration: build_summary
\* represents a unit by the first of its rows and drops the others, and still
\* neither the order of the rows nor copies of them make a pass.
THEOREM DecisionIsAboutCases == Spec => []CasesDecide
<1>1. GateInv => CasesDecide
  <2> SUFFICES ASSUME GateInv PROVE CasesDecide
    OBVIOUS
  <2>1. config \in Configs /\ rows \in Seq(Rows)
    BY DEF GateInv
  <2>2. OrderIsIrrelevant
    <3> SUFFICES ASSUME decision # NoDecision, NEW i \in DOMAIN rows, NEW j \in DOMAIN rows
                 PROVE  Decided([rows EXCEPT ![i] = rows[j], ![j] = rows[i]]) = decision
      BY DEF OrderIsIrrelevant
    <3>1. PICK tau : Reordered(rows, [rows EXCEPT ![i] = rows[j], ![j] = rows[i]], tau)
      BY <2>1, Swapped
    <3> QED
      BY <2>1, <3>1, OrderIsNoHelp DEF GateInv
  <2>3. CopiesNeverHelp
    <3> SUFFICES ASSUME decision.status \notin {"none", "passed"}, NEW i \in DOMAIN rows
                 PROVE  Decided(Append(rows, rows[i])).status # "passed"
      BY DEF CopiesNeverHelp
    <3>1. decision = Decided(rows)
      BY NothingDecided DEF GateInv
    <3> QED
      BY <2>1, <3>1, CopyIsNoHelp
  <2> QED
    BY <2>2, <2>3 DEF CasesDecide
<1> QED
  BY <1>1, GateInvInitially, GateInvStep, PTL DEF Spec

\* DecisionIsEarned, for every dataset and every configuration: an authorized
\* candidate succeeded on nearly all rows, the collapsed ones included, and a
\* verdict rests on rows that were evaluated and do not contradict each other.
THEOREM DecisionsAreEarned == Spec => []DecisionIsEarned
<1>1. GateInv => DecisionIsEarned
  <2> SUFFICES ASSUME GateInv PROVE DecisionIsEarned
    OBVIOUS
  <2>1. CASE decision = NoDecision
    BY <2>1, NothingDecided
       DEF DecisionIsEarned, AuthorizedHidesNothing, VerdictIsEvaluated
  <2>2. CASE decision = Decided(rows)
    <3>1. /\ config \in Configs /\ Accepted(config) /\ Dataset(rows)
      BY DatasetOf DEF GateInv
    <3> QED
      BY <2>2, <3>1, AuthorizationEarned, VerdictEarned DEF DecisionIsEarned
  <2> QED
    BY <2>1, <2>2 DEF GateInv
<1> QED
  BY <1>1, GateInvInitially, GateInvStep, PTL DEF Spec

\* DegradingNeverHelps, for every dataset, configuration and lost case: no rule
\* of evaluate_gate but that on discordant pairs rewards a worse candidate.
THEOREM LossesNeverHelp == Spec => []DegradingNeverHelps
<1>1. GateInv => DegradingNeverHelps
  <2> SUFFICES ASSUME GateInv, decision.status \notin {"none", "passed"},
                      config.gate.min_discordant_pairs = Unset,
                      NEW i \in DOMAIN rows, NEW other \in Rows
               PROVE  LET worse == [other.candidate EXCEPT
                                       !.latency = rows[i].candidate.latency]
                      IN  (Deploy(rows[i].candidate) /\ ~Deploy(worse)
                              /\ Members(rows, UnitOf(rows[i])) = {i}) =>
                          Decided([rows EXCEPT ![i].candidate = worse]).status
                              # "passed"
    BY DEF DegradingNeverHelps
  <2> DEFINE o == other.candidate
             latency == rows[i].candidate.latency
             worse == [o EXCEPT !.latency = latency]
  <2>1. config \in Configs /\ Dataset(rows) /\ decision = Decided(rows)
    BY DatasetOf, NothingDecided DEF GateInv
  <2>2. o \in Observation /\ rows[i].candidate \in Observation
    BY <2>1, GateAssumption DEF Dataset, RowOK, Variants
  <2>3. latency \in Nat \cup {Unmeasured}
    BY <2>2 DEF Observation
  <2>4. worse \in Observation /\ worse.latency = latency
    <3> HIDE DEF o, latency
    <3> QED
      BY <2>2, <2>3 DEF Observation
  <2> HIDE DEF worse
  <2>5. ASSUME Deploy(rows[i].candidate), Members(rows, UnitOf(rows[i])) = {i}
        PROVE  Decided(Replaced(rows, i, worse)).status # "passed"
    <3>1. Loses(rows, i, worse)
      BY <2>1, <2>4, <2>5 DEF Loses
    <3> QED
      BY <2>1, <3>1, LossIsNoHelp
  <2> QED
    BY <2>5 DEF Replaced, worse
<1> QED
  BY <1>1, GateInvInitially, GateInvStep, PTL DEF Spec

-----------------------------------------------------------------------------
(* The regression suite: shapes of its variables                           *)

\* What a run did on a case, and the labels that say it passed.
Passed(r, c) == result[r][c] = "pass"
Good         == {"passing", "fixed"}

-----------------------------------------------------------------------------
(* Types                                                                   *)

\* SuiteTypeOK, by parts, with what a pin is.
PinOK(k) ==
    /\ k \in (1..lastRun) \X Cases
    /\ DOMAIN pins[k] = {"originPass", "status", "lastRunId", "evaluations"}
    /\ pins[k].originPass \in BOOLEAN
    /\ pins[k].status \in LabelType
    /\ pins[k].lastRunId \in DOMAIN pins[k].evaluations
    /\ k[1] \in DOMAIN pins[k].evaluations
    /\ DOMAIN pins[k].evaluations \subseteq 1..lastRun
    /\ \A r \in DOMAIN pins[k].evaluations : pins[k].evaluations[r] \in LabelType
    /\ DOMAIN follows[k] \subseteq DOMAIN pins[k].evaluations
    /\ \A r \in DOMAIN follows[k] : follows[k][r] \in DOMAIN pins[k].evaluations

\* What a run and its records are.
RunsOK ==
    /\ lastRun \in 0..MaxRuns
    /\ current \in 0..lastRun
    /\ result \in [1..lastRun -> [Cases -> CaseOutcome]]
    /\ ending \in [1..lastRun -> Ending]
    /\ index \subseteq 1..lastRun
    /\ promotion \in [Requests -> {Idle} \cup InFlight]
    /\ crashes \in 0..MaxCrashes

\* The shape of all variables.
Typed ==
    /\ RunsOK
    /\ DOMAIN follows = DOMAIN pins
    /\ \A k \in DOMAIN pins : PinOK(k)

\* The shape of the variables at the start.
LEMMA TypedInitially == SuiteInit => Typed
<1> SUFFICES ASSUME SuiteInit PROVE Typed
    OBVIOUS
<1>1. /\ DOMAIN result = {} /\ DOMAIN ending = {} /\ 1..0 = {}
      /\ DOMAIN pins = {} /\ DOMAIN follows = {}
  BY DEF SuiteInit
<1>2. result \in [1..0 -> [Cases -> CaseOutcome]] /\ ending \in [1..0 -> Ending]
  BY <1>1 DEF SuiteInit
<1> QED
  BY <1>1, <1>2, SuiteAssumption DEF SuiteInit, Typed, RunsOK

\* A label is a label, a good one exactly if the case passed.
LEMMA LabelSays ==
  ASSUME NEW pin, NEW outcome
  PROVE  /\ Label(pin, outcome) \in LabelType
         /\ Label(pin, outcome) \in Good <=> outcome = "pass"
BY DEF Label, LabelType, Good

\* What a refresh does to a pin.
LEMMA RefreshSays ==
  ASSUME NEW k \in DOMAIN pins, PinOK(k), NEW r
  PROVE  /\ DOMAIN Refreshed(k, r) = DOMAIN pins[k]
         /\ Refreshed(k, r).originPass = pins[k].originPass
         /\ Refreshed(k, r).status = Label(pins[k], result[r][k[2]])
         /\ Refreshed(k, r).lastRunId = r
         /\ DOMAIN Refreshed(k, r).evaluations = DOMAIN pins[k].evaluations \cup {r}
         /\ Refreshed(k, r).evaluations[r] = Label(pins[k], result[r][k[2]])
         /\ \A n \in DOMAIN pins[k].evaluations \ {r} :
               Refreshed(k, r).evaluations[n] = pins[k].evaluations[n]
<1> DEFINE label == Label(pins[k], result[r][k[2]])
           after == Entered(pins[k].evaluations, r, label)
<1>1. Refreshed(k, r) = [pins[k] EXCEPT !.status = label, !.lastRunId = r,
                                      !.evaluations = after]
  BY DEF Refreshed
<1> HIDE DEF label
<1>2. /\ DOMAIN after = DOMAIN pins[k].evaluations \cup {r}
      /\ after[r] = label
      /\ \A n \in DOMAIN pins[k].evaluations \ {r} : after[n] = pins[k].evaluations[n]
  BY DEF Entered
<1> HIDE DEF after
<1>3. /\ DOMAIN Refreshed(k, r) = DOMAIN pins[k]
      /\ Refreshed(k, r).originPass = pins[k].originPass
      /\ Refreshed(k, r).status = label /\ Refreshed(k, r).lastRunId = r
      /\ Refreshed(k, r).evaluations = after
  BY <1>1 DEF PinOK
<1>4. /\ Refreshed(k, r).status = label
      /\ DOMAIN Refreshed(k, r).evaluations = DOMAIN pins[k].evaluations \cup {r}
      /\ Refreshed(k, r).evaluations[r] = label
      /\ \A n \in DOMAIN pins[k].evaluations \ {r} :
            Refreshed(k, r).evaluations[n] = pins[k].evaluations[n]
  BY <1>2, <1>3
<1> QED
  BY <1>3, <1>4 DEF label

\* A pin keeps its types when its label does and no run is forgotten.
LEMMA PinStays ==
  ASSUME NEW k \in DOMAIN pins, PinOK(k), k \in DOMAIN pins', pins'[k] = pins[k],
         follows'[k] = follows[k], lastRun \in Nat, lastRun' \in Nat, lastRun <= lastRun'
  PROVE  PinOK(k)'
BY DEF PinOK

\* A commit adds a run.
LEMMA CommitTyped ==
  ASSUME Typed, NEW kind \in Kinds, NEW outcome \in [Cases -> {"pass", "fail", "absent"}],
         Commit(kind, outcome)
  PROVE  Typed'
<1> DEFINE r == lastRun + 1
<1>1. /\ lastRun' = r /\ r \in 1..MaxRuns /\ lastRun \in Nat /\ 1..r = 1..lastRun \cup {r}
      /\ current' = r /\ UNCHANGED <<index, pins, follows, promotion, crashes>>
  BY SuiteAssumption DEF Commit, Typed, RunsOK, Runs
<1>2. result' = Entered(result, r, outcome)
      /\ ending' = Entered(ending, r, [kind |-> kind, at |-> "committed"])
  BY DEF Commit
<1>3. result' \in [1..r -> [Cases -> CaseOutcome]]
  BY <1>1, <1>2 DEF Entered, Typed, RunsOK, CaseOutcome
<1>4. ending' \in [1..r -> Ending]
  BY <1>1, <1>2 DEF Entered, Typed, RunsOK, Ending, Ended
<1>5. promotion' \in [Requests -> {Idle} \cup InFlight']
  <2>1. InFlight \subseteq InFlight'
    BY <1>1 DEF InFlight
  <2> QED
    BY <1>1, <2>1 DEF Typed, RunsOK
<1>6. RunsOK'
  BY <1>1, <1>3, <1>4, <1>5 DEF Typed, RunsOK
<1>7. \A k \in DOMAIN pins : PinOK(k)'
  BY <1>1, PinStays DEF Typed
<1> QED
  BY <1>1, <1>6, <1>7 DEF Typed

\* A refresh labels pins and moves the comparison on.
LEMMA RefreshTyped ==
  ASSUME Typed, NEW r \in 1..lastRun, Refresh(r)
  PROVE  Typed'
<1>1. UNCHANGED <<lastRun, current, result, index, promotion, crashes>>
  BY DEF Refresh
<1>2. ending' \in [1..lastRun -> Ending]
  BY DEF Refresh, Typed, RunsOK, Ending, Ended
<1>3. RunsOK'
  BY <1>1, <1>2 DEF Typed, RunsOK, InFlight
<1>4. CASE UNCHANGED <<pins, follows>>
  BY <1>1, <1>3, <1>4 DEF Typed, PinOK
<1>5. CASE ~UNCHANGED <<pins, follows>>
  <2>1. ASSUME NEW k \in DOMAIN pins PROVE PinOK(k)'
    <3>1. /\ PinOK(k) /\ pins'[k] = Refreshed(k, r)
          /\ follows'[k] = Entered(follows[k], r, pins[k].lastRunId)
      BY <1>5 DEF Typed, Refresh
    <3>2. /\ DOMAIN follows'[k] = DOMAIN follows[k] \cup {r}
          /\ \A n \in DOMAIN follows'[k] : follows'[k][n] \in DOMAIN pins[k].evaluations
      BY <3>1 DEF Entered, PinOK
    <3> QED
      BY <1>1, <3>1, <3>2, RefreshSays, LabelSays DEF PinOK
  <2>2. DOMAIN pins' = DOMAIN pins /\ DOMAIN follows' = DOMAIN pins
    BY <1>5 DEF Refresh
  <2> QED
    BY <1>3, <2>1, <2>2 DEF Typed
<1> QED
  BY <1>4, <1>5

\* A case pinned has one label, that of its own run.
LEMMA PinTyped ==
  ASSUME Typed, NEW r \in index, NEW c \in Cases, PinCase(r, c)
  PROVE  Typed'
<1> DEFINE label == IF result[r][c] = "pass" THEN "passing" ELSE "still_broken"
           pin == [originPass |-> result[r][c] = "pass", status |-> label,
                   lastRunId |-> r, evaluations |-> [n \in {r} |-> label]]
<1>1. /\ pins' = Entered(pins, <<r, c>>, pin) /\ <<r, c>> \notin DOMAIN pins
      /\ follows' = Entered(follows, <<r, c>>, <<>>)
      /\ UNCHANGED <<lastRun, current, result, ending, index, promotion, crashes>>
  BY DEF PinCase
<1>2. /\ DOMAIN pins' = DOMAIN pins \cup {<<r, c>>} /\ pins'[<<r, c>>] = pin
      /\ DOMAIN follows' = DOMAIN pins' /\ DOMAIN follows'[<<r, c>>] = {}
      /\ \A k \in DOMAIN pins : pins'[k] = pins[k] /\ follows'[k] = follows[k]
  <2> DEFINE key == <<r, c>>
  <2>1. /\ pins' = Entered(pins, key, pin) /\ key \notin DOMAIN pins
        /\ follows' = Entered(follows, key, <<>>) /\ DOMAIN follows = DOMAIN pins
    BY <1>1 DEF Typed
  <2> HIDE DEF pin, key
  <2>2. /\ DOMAIN pins' = DOMAIN pins \cup {key} /\ pins'[key] = pin
        /\ DOMAIN follows' = DOMAIN pins' /\ DOMAIN follows'[key] = {}
        /\ \A k \in DOMAIN pins : pins'[k] = pins[k] /\ follows'[k] = follows[k]
    BY <2>1 DEF Entered
  <2> QED
    BY <2>2 DEF key
<1>3. \A k \in DOMAIN pins : PinOK(k)'
  BY <1>1, <1>2 DEF Typed, PinOK
<1>4. PinOK(<<r, c>>)'
  <2>1. label \in LabelType /\ r \in 1..lastRun
    BY DEF Typed, RunsOK, LabelType
  <2>2. /\ DOMAIN pin = {"originPass", "status", "lastRunId", "evaluations"}
        /\ pin.originPass \in BOOLEAN /\ pin.status = label /\ pin.lastRunId = r
        /\ pin.evaluations = [n \in {r} |-> label]
    OBVIOUS
  <2> HIDE DEF pin, label
  <2> QED
    BY <1>1, <1>2, <2>1, <2>2 DEF PinOK
<1>5. RunsOK'
  BY <1>1 DEF Typed, RunsOK, InFlight
<1> QED
  BY <1>2, <1>3, <1>4, <1>5 DEF Typed

\* Unpinning leaves the other pins and everything else alone.
LEMMA UnpinSays ==
  ASSUME NEW k, UnpinCase(k)
  PROVE  /\ DOMAIN pins' \subseteq DOMAIN pins /\ DOMAIN follows' = DOMAIN pins'
         /\ \A other \in DOMAIN pins' :
               pins'[other] = pins[other] /\ follows'[other] = follows[other]
         /\ UNCHANGED <<lastRun, current, result, ending, index, promotion, crashes>>
BY DEF UnpinCase, Restrict

\* What a request to promote leaves alone.
LEMMA PromotionKeeps ==
  ASSUME NEW q, \/ \E r \in index : CountLabels(q, r)
                \/ CheckCurrent(q) \/ ReplacePointer(q) \/ AbandonPromotion(q)
  PROVE  /\ UNCHANGED <<lastRun, result, ending, index, pins, follows, crashes>>
         /\ current' \in {0, current}
BY DEF CountLabels, CheckCurrent, ReplacePointer, AbandonPromotion

\* How a request to promote goes on.
LEMMA PromotionMoves ==
  ASSUME Typed, NEW q \in Requests,
         \/ \E r \in index : CountLabels(q, r)
         \/ CheckCurrent(q) \/ ReplacePointer(q) \/ AbandonPromotion(q)
  PROVE  /\ promotion' \in [Requests -> {Idle} \cup InFlight]
         /\ \A p \in Requests \ {q} : promotion'[p] = promotion[p]
         /\ \/ promotion'[q] = Idle
            \/ /\ promotion[q] # Idle /\ promotion'[q] # Idle
               /\ promotion'[q].run = promotion[q].run
               /\ promotion'[q].counted = promotion[q].counted
            \/ \E r \in index :
                  /\ CountLabels(q, r)
                  /\ promotion'[q] = [at |-> "counted", run |-> r, counted |-> LabelledBy(r)]
<1>1. promotion \in [Requests -> {Idle} \cup InFlight]
  BY DEF Typed, RunsOK
<1>2. CASE \E r \in index : CountLabels(q, r)
  <2> PICK r \in index : CountLabels(q, r)
      BY <1>2
  <2>1. LabelledBy(r) \subseteq (1..lastRun) \X Cases /\ r \in 1..lastRun
    BY DEF LabelledBy, Typed, RunsOK, PinOK
  <2>2. [at |-> "counted", run |-> r, counted |-> LabelledBy(r)] \in InFlight
    <3> HIDE DEF LabelledBy
    <3> QED
      BY <2>1 DEF InFlight
  <2> QED
    BY <1>1, <2>2 DEF CountLabels
<1>3. CASE CheckCurrent(q)
  <2>1. promotion[q] \in InFlight /\ promotion'[q] = [promotion[q] EXCEPT !.at = "accepting"]
    BY <1>1, <1>3 DEF CheckCurrent, Idle
  <2>2. /\ promotion'[q] \in InFlight /\ promotion'[q].at = "accepting"
        /\ promotion'[q].run = promotion[q].run
        /\ promotion'[q].counted = promotion[q].counted
    BY <2>1 DEF InFlight
  <2>3. promotion'[q] # Idle /\ promotion[q] # Idle
    BY <1>3, <2>2 DEF CheckCurrent, Idle
  <2> QED
    BY <1>1, <1>3, <2>2, <2>3 DEF CheckCurrent
<1>4. CASE ReplacePointer(q) \/ AbandonPromotion(q)
  BY <1>1, <1>4 DEF ReplacePointer, AbandonPromotion
<1> QED
  BY <1>2, <1>3, <1>4

\* Every step keeps the shape.
LEMMA TypedStep == Typed /\ [SuiteNext]_suiteVars => Typed'
<1> SUFFICES ASSUME Typed, [SuiteNext]_suiteVars PROVE Typed'
    OBVIOUS
<1>1. CASE UNCHANGED suiteVars
  BY <1>1 DEF Typed, RunsOK, PinOK, InFlight, suiteVars
<1>2. ASSUME NEW r \in 1..lastRun, IndexRun(r) PROVE Typed'
  <2>1. /\ UNCHANGED <<lastRun, current, result, pins, follows, promotion, crashes>>
        /\ index' = index \cup {r}
        /\ ending' \in [1..lastRun -> Ending]
    BY <1>2 DEF IndexRun, Typed, RunsOK, Ending, Ended
  <2>2. RunsOK'
    BY <2>1 DEF Typed, RunsOK, InFlight
  <2> QED
    BY <2>1, <2>2 DEF Typed, PinOK
<1>3. ASSUME NEW k \in DOMAIN pins, UnpinCase(k) PROVE Typed'
  <2>1. RunsOK'
    BY <1>3, UnpinSays DEF Typed, RunsOK, InFlight
  <2>2. \A other \in DOMAIN pins' : PinOK(other)'
    BY <1>3, UnpinSays DEF Typed, PinOK
  <2> QED
    BY <1>3, <2>1, <2>2, UnpinSays DEF Typed
<1>4. ASSUME NEW q \in Requests,
             \/ \E r \in index : CountLabels(q, r)
             \/ CheckCurrent(q) \/ ReplacePointer(q) \/ AbandonPromotion(q)
      PROVE  Typed'
  <2>1. /\ UNCHANGED <<lastRun, result, ending, index, pins, follows, crashes>>
        /\ current' \in {0, current}
    BY <1>4, PromotionKeeps
  <2>2. promotion' \in [Requests -> {Idle} \cup InFlight]
    BY <1>4, PromotionMoves
  <2>3. current' \in 0..lastRun
    BY <2>1, SuiteAssumption DEF Typed, RunsOK
  <2>4. RunsOK'
    BY <2>1, <2>2, <2>3 DEF Typed, RunsOK, InFlight
  <2> QED
    BY <2>1, <2>4 DEF Typed, PinOK
<1>5. CASE CrashAndRestart
  <2>1. UNCHANGED <<lastRun, current, result, pins, follows>>
        /\ index' = 1..lastRun /\ crashes' \in 0..MaxCrashes
        /\ promotion' \in [Requests -> {Idle}]
    BY <1>5, SuiteAssumption DEF CrashAndRestart, Typed, RunsOK
  <2>2. ending' \in [1..lastRun -> Ending]
    BY <1>5 DEF CrashAndRestart, Typed, RunsOK, Ending, Ended
  <2>3. RunsOK'
    BY <2>1, <2>2 DEF Typed, RunsOK
  <2> QED
    BY <2>1, <2>3 DEF Typed, PinOK
<1>6. ASSUME NEW r \in 1..lastRun, Refresh(r) PROVE Typed'
  BY <1>6, RefreshTyped
<1> QED
  BY <1>1, <1>2, <1>3, <1>4, <1>5, <1>6, CommitTyped, PinTyped DEF SuiteNext

\* The variables keep their types: a pin is of a case of a run that was
\* committed, is labelled for that run, and for no run to come.
THEOREM SuiteTypeCorrect == SuiteSpec => []SuiteTypeOK
<1>1. Typed => SuiteTypeOK
  BY DEF Typed, RunsOK, PinOK, SuiteTypeOK
<1> QED
  BY <1>1, TypedInitially, TypedStep, PTL DEF SuiteSpec

-----------------------------------------------------------------------------
(* What labels say, in every order                                         *)

\* A pin knows whether the case passed where it was pinned, and a good label
\* is of a run that passed the case.
Honest(k) ==
    /\ pins[k].originPass <=> Passed(k[1], k[2])
    /\ \A n \in DOMAIN pins[k].evaluations :
          pins[k].evaluations[n] \in Good => Passed(n, k[2])

\* Every pin is honest.
Truthful == \A k \in DOMAIN pins : Honest(k)

\* Nothing is pinned at the start.
LEMMA TruthfulInitially == SuiteInit => Truthful
<1> SUFFICES ASSUME SuiteInit PROVE Truthful
    OBVIOUS
<1>1. DOMAIN pins = {}
  BY DEF SuiteInit
<1> QED
  BY <1>1 DEF Truthful

\* What a committed run did on a case is never changed.
LEMMA ResultsStay ==
  ASSUME Typed, NEW kind \in Kinds, NEW outcome, Commit(kind, outcome)
  PROVE  /\ \A n \in 1..lastRun : result'[n] = result[n] /\ ending'[n] = ending[n]
         /\ ending'[lastRun + 1] = [kind |-> kind, at |-> "committed"]
         /\ lastRun' = lastRun + 1 /\ lastRun \in Nat
         /\ UNCHANGED <<index, pins, follows, promotion>>
BY DEF Commit, Entered, Typed, RunsOK

\* A pin that is left alone stays honest while the results of its runs do.
LEMMA HonestStays ==
  ASSUME Typed, NEW k \in DOMAIN pins, Honest(k), pins'[k] = pins[k],
         \A n \in 1..lastRun : result'[n] = result[n]
  PROVE  Honest(k)'
<1>1. /\ k[1] \in 1..lastRun /\ DOMAIN pins[k].evaluations \subseteq 1..lastRun
  BY DEF Typed, PinOK
<1> QED
  BY <1>1 DEF Honest, Passed

\* What is pinned says what the run did.
LEMMA PinSays ==
  ASSUME Typed, NEW r, NEW c, PinCase(r, c)
  PROVE  /\ <<r, c>> \notin DOMAIN pins
         /\ DOMAIN pins' = DOMAIN pins \cup {<<r, c>>}
         /\ \A k \in DOMAIN pins : pins'[k] = pins[k] /\ follows'[k] = follows[k]
         /\ DOMAIN follows'[<<r, c>>] = {}
         /\ (pins'[<<r, c>>].originPass <=> Passed(r, c))
         /\ pins'[<<r, c>>].status = IF Passed(r, c) THEN "passing" ELSE "still_broken"
         /\ pins'[<<r, c>>].lastRunId = r
         /\ DOMAIN pins'[<<r, c>>].evaluations = {r}
         /\ pins'[<<r, c>>].evaluations[r] =
               IF Passed(r, c) THEN "passing" ELSE "still_broken"
         /\ UNCHANGED <<lastRun, current, result, ending, index, promotion, crashes>>
<1> DEFINE label == IF Passed(r, c) THEN "passing" ELSE "still_broken"
           pin == [originPass |-> Passed(r, c), status |-> label, lastRunId |-> r,
                   evaluations |-> [n \in {r} |-> label]]
           key == <<r, c>>
<1>1. /\ pins' = Entered(pins, key, pin) /\ key \notin DOMAIN pins
      /\ follows' = Entered(follows, key, <<>>) /\ DOMAIN follows = DOMAIN pins
      /\ UNCHANGED <<lastRun, current, result, ending, index, promotion, crashes>>
  BY DEF PinCase, Passed, Typed
<1>2. /\ pin.originPass = Passed(r, c) /\ pin.status = label /\ pin.lastRunId = r
      /\ DOMAIN pin.evaluations = {r} /\ pin.evaluations[r] = label
  OBVIOUS
<1> HIDE DEF pin, label
<1>3. /\ DOMAIN pins' = DOMAIN pins \cup {key} /\ pins'[key] = pin
      /\ \A k \in DOMAIN pins : pins'[k] = pins[k] /\ follows'[k] = follows[k]
      /\ DOMAIN follows'[key] = {}
  <2> HIDE DEF key
  <2> QED
    BY <1>1 DEF Entered
<1>4. /\ pins'[key].originPass = Passed(r, c) /\ pins'[key].status = label
      /\ pins'[key].lastRunId = r
      /\ DOMAIN pins'[key].evaluations = {r} /\ pins'[key].evaluations[r] = label
  BY <1>2, <1>3
<1> QED
  BY <1>1, <1>3, <1>4 DEF label

\* Every step keeps the pins honest.
LEMMA TruthfulStep == Typed /\ Truthful /\ [SuiteNext]_suiteVars => Truthful'
<1> SUFFICES ASSUME Typed, Truthful, [SuiteNext]_suiteVars PROVE Truthful'
    OBVIOUS
<1>1. CASE UNCHANGED <<result, pins>>
  BY <1>1 DEF Truthful, Honest, Passed
<1>2. ASSUME NEW kind \in Kinds, NEW outcome, Commit(kind, outcome) PROVE Truthful'
  BY <1>2, ResultsStay, HonestStays DEF Truthful
<1>3. ASSUME NEW r \in 1..lastRun, Refresh(r), pins' # pins PROVE Truthful'
  <2>1. pins' = [k \in DOMAIN pins |-> Refreshed(k, r)] /\ result' = result
    BY <1>3 DEF Refresh
  <2>2. ASSUME NEW k \in DOMAIN pins PROVE Honest(k)'
    <3>1. PinOK(k) /\ Honest(k) /\ pins'[k] = Refreshed(k, r)
      BY <2>1 DEF Typed, Truthful
    <3>2. Label(pins[k], result[r][k[2]]) \in Good <=> Passed(r, k[2])
      BY LabelSays DEF Passed
    <3> QED
      BY <2>1, <3>1, <3>2, RefreshSays DEF Honest, Passed
  <2> QED
    BY <2>1, <2>2 DEF Truthful
<1>4. ASSUME NEW r \in index, NEW c \in Cases, PinCase(r, c) PROVE Truthful'
  <2>1. \A k \in DOMAIN pins : Honest(k)'
    BY <1>4, PinSays, HonestStays DEF Truthful
  <2>2. Honest(<<r, c>>)'
    <3> DEFINE key == <<r, c>>
    <3>1. /\ (pins'[key].originPass <=> Passed(r, c))
          /\ DOMAIN pins'[key].evaluations = {r}
          /\ pins'[key].evaluations[r] = IF Passed(r, c) THEN "passing" ELSE "still_broken"
          /\ result' = result
      BY <1>4, PinSays
    <3>2. key[1] = r /\ key[2] = c
      OBVIOUS
    <3> HIDE DEF key
    <3>3. Honest(key)'
      BY <3>1, <3>2 DEF Honest, Good, Passed
    <3> QED
      BY <3>3 DEF key
  <2>3. DOMAIN pins' = DOMAIN pins \cup {<<r, c>>}
    BY <1>4, PinSays
  <2> QED
    BY <2>1, <2>2, <2>3 DEF Truthful
<1>5. ASSUME NEW k \in DOMAIN pins, UnpinCase(k) PROVE Truthful'
  BY <1>5, UnpinSays, HonestStays DEF Truthful
<1>6. ASSUME NEW q, \/ \E r \in index : CountLabels(q, r)
                    \/ CheckCurrent(q) \/ ReplacePointer(q) \/ AbandonPromotion(q)
      PROVE  Truthful'
  BY <1>1, <1>6, PromotionKeeps
<1>7. ASSUME NEW r \in 1..lastRun, Refresh(r) \/ IndexRun(r) PROVE Truthful'
  BY <1>1, <1>3, <1>7 DEF IndexRun, Refresh
<1>8. CASE CrashAndRestart \/ UNCHANGED suiteVars
  BY <1>1, <1>8 DEF CrashAndRestart, suiteVars
<1> QED
  BY <1>2, <1>4, <1>5, <1>6, <1>7, <1>8 DEF SuiteNext

-----------------------------------------------------------------------------
(* What a promotion respects                                               *)

\* The comparisons that have still to be refreshed.
Pending(r) == ending[r] \in {[kind |-> "job", at |-> "committed"],
                             [kind |-> "direct", at |-> "committed"],
                             [kind |-> "direct", at |-> "indexed"]}

\* What a request to promote may rely on until it replaces the pointer.
Relied(q) ==
    LET r == promotion[q].run IN
    promotion[q] # Idle =>
        /\ r \in index
        /\ \A k \in promotion[q].counted : Passed(r, k[2])
        /\ ending[r].kind = "job" =>
              \A k \in LabelledBy(r) : k[1] # r => Passed(r, k[2])

\* A job is in the index only after its refresh, and whoever promotes its run
\* has seen every label that the refresh gave.
Guarded ==
    /\ \A r \in index : ending[r].kind = "job" => ~Pending(r)
    /\ \A q \in Requests : Relied(q)

\* Nobody promotes anything at the start.
LEMMA GuardedInitially == SuiteInit => Guarded
BY DEF SuiteInit, Guarded, Relied

\* What a request relied on stands while its run and the labels of its run do.
LEMMA RelianceStays ==
  ASSUME Typed, NEW q \in Requests, Relied(q), promotion'[q] = promotion[q],
         index \subseteq index',
         \A r \in index : result'[r] = result[r] /\ ending'[r].kind = ending[r].kind,
         \A r \in index : ending[r].kind = "job" =>
            \A k \in LabelledBy(r)' : k[1] # r => k \in LabelledBy(r)
  PROVE  Relied(q)'
BY DEF Relied, Passed

\* Steps that touch neither pins nor promotions nor what has been indexed.
LEMMA GuardStays ==
  ASSUME Typed, Guarded, UNCHANGED promotion, index' = index,
         \A r \in index : result'[r] = result[r] /\ ending'[r] = ending[r],
         \A r \in index : ending[r].kind = "job" =>
            \A k \in LabelledBy(r)' : k[1] # r => k \in LabelledBy(r)
  PROVE  Guarded'
<1>1. \A q \in Requests : Relied(q)'
  BY RelianceStays DEF Guarded
<1>2. \A r \in index : Pending(r)' <=> Pending(r)
  BY DEF Pending
<1> QED
  BY <1>1, <1>2 DEF Guarded

\* How far a comparison that goes on is.
LEMMA Moved ==
  ASSUME Typed, NEW r \in 1..lastRun, Refresh(r) \/ IndexRun(r)
  PROVE  /\ \A n \in (1..lastRun) \ {r} : ending'[n] = ending[n]
         /\ ending'[r].kind = ending[r].kind
         /\ Refresh(r) => Pending(r) /\ ~Pending(r)'
         /\ Pending(r)' => Pending(r)
         /\ IndexRun(r) /\ ending[r].kind = "job" => ~Pending(r)'
<1>1. /\ DOMAIN ending = 1..lastRun
      /\ DOMAIN ending[r] = {"kind", "at"}
  BY DEF Typed, RunsOK, Ending
<1>2. /\ \A n \in (1..lastRun) \ {r} : ending'[n] = ending[n]
      /\ ending'[r].kind = ending[r].kind
  BY <1>1 DEF Refresh, IndexRun
<1>3. CASE Refresh(r)
  <2>1. ending'[r].at \in {"refreshed", Ended}
    BY <1>1, <1>3 DEF Refresh
  <2>2. Pending(r) /\ ~IndexRun(r)
    BY <1>3 DEF Refresh, IndexRun, Pending
  <2> QED
    BY <1>2, <2>1, <2>2 DEF Pending, Ended
<1>4. CASE IndexRun(r)
  <2>1. \/ ending[r].kind = "job" /\ ending'[r].at = Ended
        \/ ending[r] = [kind |-> "direct", at |-> "committed"]
    BY <1>1, <1>4 DEF IndexRun
  <2>2. ~Refresh(r)
    BY <1>4 DEF IndexRun, Refresh
  <2> QED
    BY <1>2, <2>1, <2>2 DEF Pending, Ended
<1> QED
  BY <1>3, <1>4

\* A refresh labels pins for its own run and no other.
LEMMA RefreshLabels ==
  ASSUME Typed, NEW r \in 1..lastRun, Refresh(r), NEW n \in (1..lastRun) \ {r}
  PROVE  LabelledBy(n)' = LabelledBy(n)
<1>1. CASE pins' = pins
  BY <1>1 DEF LabelledBy
<1>2. CASE pins' = [k \in DOMAIN pins |-> Refreshed(k, r)]
  <2>1. \A k \in DOMAIN pins :
           DOMAIN pins'[k].evaluations = DOMAIN pins[k].evaluations \cup {r}
    BY <1>2, RefreshSays DEF Typed
  <2> QED
    BY <1>2, <2>1 DEF LabelledBy
<1> QED
  BY <1>1, <1>2 DEF Refresh

\* Whoever counts the labels of a run finds that the run passed every case that
\* has one.
LEMMA CountedPassed ==
  ASSUME Typed, Truthful, NEW q, NEW r, CountLabels(q, r), NEW k \in LabelledBy(r)
  PROVE  Passed(r, k[2])
<1>1. /\ k \in DOMAIN pins /\ r \in DOMAIN pins[k].evaluations
      /\ pins[k].evaluations[r] \in LabelType /\ Honest(k)
  BY DEF LabelledBy, Typed, PinOK, Truthful
<1>2. pins[k].evaluations[r] \in Good
  BY <1>1 DEF CountLabels, Blocking, LabelType, Good
<1> QED
  BY <1>1, <1>2 DEF Honest

\* Every step keeps what the requests rely on.
LEMMA GuardedStep == Typed /\ Truthful /\ Guarded /\ [SuiteNext]_suiteVars => Guarded'
<1> SUFFICES ASSUME Typed, Truthful, Guarded, [SuiteNext]_suiteVars PROVE Guarded'
    OBVIOUS
<1>1. index \subseteq 1..lastRun /\ DOMAIN ending = 1..lastRun
  BY DEF Typed, RunsOK
<1>2. ASSUME NEW kind \in Kinds, NEW outcome, Commit(kind, outcome) PROVE Guarded'
  BY <1>1, <1>2, ResultsStay, GuardStays DEF LabelledBy
<1>3. ASSUME NEW r \in 1..lastRun, Refresh(r) PROVE Guarded'
  <2>1. UNCHANGED <<result, index, promotion>>
    BY <1>3 DEF Refresh
  <2>2. \A n \in index : ending'[n].kind = ending[n].kind
    BY <1>1, <1>3, Moved
  <2>3. ASSUME NEW n \in index, ending[n].kind = "job" PROVE LabelledBy(n)' = LabelledBy(n)
    BY <1>1, <1>3, <2>3, Moved, RefreshLabels DEF Guarded
  <2>4. \A q \in Requests : Relied(q)'
    BY <2>1, <2>2, <2>3, RelianceStays DEF Guarded
  <2>5. \A n \in index : ending'[n].kind = "job" => ~Pending(n)'
    BY <1>1, <1>3, <2>2, Moved DEF Guarded, Pending
  <2> QED
    BY <2>1, <2>4, <2>5 DEF Guarded
<1>4. ASSUME NEW r \in 1..lastRun, IndexRun(r) PROVE Guarded'
  <2>1. UNCHANGED <<result, pins, promotion>> /\ index' = index \cup {r}
    BY <1>4 DEF IndexRun
  <2>2. \A n \in 1..lastRun : ending'[n].kind = ending[n].kind
    BY <1>4, Moved
  <2>3. \A q \in Requests : Relied(q)'
    BY <1>1, <2>1, <2>2, RelianceStays DEF Guarded, LabelledBy
  <2>4. \A n \in index' : ending'[n].kind = "job" => ~Pending(n)'
    BY <1>1, <1>4, <2>1, <2>2, Moved DEF Guarded, Pending
  <2> QED
    BY <2>3, <2>4 DEF Guarded
<1>5. ASSUME NEW r \in index, NEW c \in Cases, PinCase(r, c) PROVE Guarded'
  <2> DEFINE key == <<r, c>>
  <2>1. /\ DOMAIN pins' = DOMAIN pins \cup {key} /\ DOMAIN pins'[key].evaluations = {r}
        /\ \A k \in DOMAIN pins : pins'[k] = pins[k]
        /\ UNCHANGED <<result, ending, index, promotion>>
    BY <1>5, PinSays
  <2>2. key[1] = r
    OBVIOUS
  <2> HIDE DEF key
  <2>3. \A n \in index : \A k \in LabelledBy(n)' : k[1] # n => k \in LabelledBy(n)
    BY <2>1, <2>2 DEF LabelledBy
  <2> QED
    BY <2>1, <2>3, GuardStays
<1>6. ASSUME NEW k \in DOMAIN pins, UnpinCase(k) PROVE Guarded'
  <2>1. \A n : LabelledBy(n)' \subseteq LabelledBy(n)
    BY <1>6, UnpinSays DEF LabelledBy
  <2> QED
    BY <1>6, <2>1, UnpinSays, GuardStays
<1>7. ASSUME NEW q \in Requests,
             \/ \E r \in index : CountLabels(q, r)
             \/ CheckCurrent(q) \/ ReplacePointer(q) \/ AbandonPromotion(q)
      PROVE  Guarded'
  <2>1. UNCHANGED <<result, ending, index, pins>>
    BY <1>7, PromotionKeeps
  <2>2. \A n : LabelledBy(n)' = LabelledBy(n)
    BY <2>1 DEF LabelledBy
  <2>3. \A p \in Requests \ {q} : Relied(p)'
    BY <1>7, <2>1, <2>2, PromotionMoves, RelianceStays DEF Guarded
  <2>4. ASSUME promotion'[q] = Idle PROVE Relied(q)'
    BY <2>4 DEF Relied, Idle
  <2>5. ASSUME promotion[q] # Idle, promotion'[q].run = promotion[q].run,
               promotion'[q].counted = promotion[q].counted
        PROVE  Relied(q)'
    BY <2>1, <2>2, <2>5 DEF Guarded, Relied, Passed
  <2>6. ASSUME NEW r \in index, CountLabels(q, r),
               promotion'[q] = [at |-> "counted", run |-> r, counted |-> LabelledBy(r)]
        PROVE  Relied(q)'
    <3>1. \A k \in LabelledBy(r) : Passed(r, k[2])
      BY <2>6, CountedPassed
    <3>2. promotion'[q].run = r /\ promotion'[q].counted = LabelledBy(r)
      BY <2>6
    <3> QED
      BY <2>1, <2>2, <3>1, <3>2 DEF Relied, Passed
  <2>7. Relied(q)'
    BY <1>7, <2>4, <2>5, <2>6, PromotionMoves
  <2>8. \A n \in index : Pending(n)' <=> Pending(n)
    BY <2>1 DEF Pending
  <2> QED
    BY <2>1, <2>3, <2>7, <2>8 DEF Guarded
<1>8. CASE CrashAndRestart
  <2>1. promotion' = [q \in Requests |-> Idle] /\ index' = 1..lastRun
        /\ \A r \in 1..lastRun : ending'[r].at = Ended
    BY <1>1, <1>8 DEF CrashAndRestart, Typed, RunsOK, Ending
  <2> QED
    BY <2>1 DEF Guarded, Relied, Pending, Ended
<1>9. CASE UNCHANGED suiteVars
  BY <1>9 DEF Guarded, Relied, Pending, Passed, LabelledBy, suiteVars
<1> QED
  BY <1>2, <1>3, <1>4, <1>5, <1>6, <1>7, <1>8, <1>9 DEF SuiteNext

\* PromotionRespectsLabels, for any number of requests: what accept_run read
\* without pin_lock still holds when it replaces the pointer, whatever pins,
\* refreshes, kills and other promotions came between.
THEOREM LabelledCasesPass == SuiteSpec => PromotionRespectsLabels
<1> DEFINE Respected(q, r) ==
             \A k \in LabelledBy(r) :
                 k \in promotion[q].counted \/ (ending[r].kind = "job" /\ k[1] # r)
                    => result[r][k[2]] = "pass"
<1>1. ASSUME Typed, Guarded, NEW q \in Requests, ReplacePointer(q)
      PROVE  Respected(q, promotion[q].run)
  <2>1. Relied(q) /\ promotion[q] # Idle
    BY <1>1 DEF Guarded, ReplacePointer, Idle
  <2> QED
    BY <2>1 DEF Relied, Passed
<1>2. Typed /\ Guarded =>
        [\A q \in Requests : ReplacePointer(q) =>
            Respected(q, promotion[q].run)]_suiteVars
  BY <1>1
<1>3. SuiteSpec => [][\A q \in Requests : ReplacePointer(q) =>
                         Respected(q, promotion[q].run)]_suiteVars
  <2> HIDE DEF Respected
  <2> QED
    BY <1>2, TypedInitially, TypedStep, TruthfulInitially, TruthfulStep,
       GuardedInitially, GuardedStep, PTL DEF SuiteSpec
<1> QED
  BY <1>3 DEF PromotionRespectsLabels

-----------------------------------------------------------------------------
(* What labels mean                                                        *)

\* Every label that a refresh gave a pin is the one its run deserves.
Deserved(k) ==
    \A r \in DOMAIN follows[k] : pins[k].evaluations[r] = HistoryLabel(k, r, follows[k][r])

\* The status of a pin says whether the run that labelled it last passed, and a
\* run that has still to be refreshed has refreshed nothing.
Recorded(k) ==
    /\ pins[k].status \in Good <=> Passed(pins[k].lastRunId, k[2])
    /\ \A r \in DOMAIN follows[k] : ~Pending(r)
    /\ Deserved(k)

\* Every pin is what its history made of it.
Historic == \A k \in DOMAIN pins : Recorded(k)

\* There is no pin at the start.
LEMMA HistoricInitially == SuiteInit => Historic
<1> SUFFICES ASSUME SuiteInit PROVE Historic
    OBVIOUS
<1>1. DOMAIN pins = {}
  BY DEF SuiteInit
<1> QED
  BY <1>1 DEF Historic

\* A pin that is left alone says of the history what it said.
LEMMA HistoryStays ==
  ASSUME Typed, Historic, NEW k \in DOMAIN pins, pins'[k] = pins[k],
         follows'[k] = follows[k],
         \A n \in 1..lastRun : result'[n] = result[n],
         \A n \in 1..lastRun : Pending(n)' => Pending(n)
  PROVE  Recorded(k)'
<1>1. /\ k[1] \in 1..lastRun /\ pins[k].lastRunId \in 1..lastRun
      /\ \A r \in DOMAIN follows[k] : r \in 1..lastRun /\ follows[k][r] \in 1..lastRun
  BY DEF Typed, PinOK
<1>2. \A r \in DOMAIN follows[k] :
         HistoryLabel(k, r, follows[k][r])' = HistoryLabel(k, r, follows[k][r])
  BY <1>1 DEF HistoryLabel
<1>3. Recorded(k)
  BY DEF Historic
<1>4. Deserved(k)'
  BY <1>2, <1>3 DEF Recorded, Deserved
<1> QED
  BY <1>1, <1>3, <1>4 DEF Recorded, Passed

\* The label of a refresh is the one that the run deserves.
LEMMA RefreshDeserved ==
  ASSUME Typed, Truthful, Historic, NEW r \in 1..lastRun, Refresh(r),
         ~UNCHANGED <<pins, follows>>, NEW k \in DOMAIN pins
  PROVE  Recorded(k)'
<1> DEFINE label == Label(pins[k], result[r][k[2]])
           last == pins[k].lastRunId
<1>1. /\ pins'[k] = Refreshed(k, r) /\ result' = result
      /\ follows'[k] = Entered(follows[k], r, last)
      /\ PinOK(k) /\ Honest(k)
  BY DEF Refresh, Typed, Truthful
<1>2. /\ pins[k].status \in Good <=> Passed(last, k[2])
      /\ \A n \in DOMAIN follows[k] : ~Pending(n)
      /\ Deserved(k)
  BY DEF Historic, Recorded
<1>3. /\ Pending(r) /\ ~Pending(r)' /\ r \notin DOMAIN follows[k]
      /\ \A n \in (1..lastRun) \ {r} : Pending(n)' <=> Pending(n)
  BY <1>2, Moved DEF Pending
<1>4. /\ pins'[k].status = label /\ pins'[k].lastRunId = r
      /\ pins'[k].evaluations[r] = label
      /\ \A n \in DOMAIN follows[k] : pins'[k].evaluations[n] = pins[k].evaluations[n]
  BY <1>1, <1>3, RefreshSays DEF PinOK
<1>5. /\ DOMAIN follows'[k] = DOMAIN follows[k] \cup {r} /\ follows'[k][r] = last
      /\ \A n \in DOMAIN follows[k] : follows'[k][n] = follows[k][n]
  BY <1>1, <1>3 DEF Entered
<1>6. label = HistoryLabel(k, r, last)
  BY <1>1, <1>2 DEF Label, HistoryLabel, Honest, Passed, Good
<1>7. \A n, before : HistoryLabel(k, n, before)' = HistoryLabel(k, n, before)
  BY <1>1 DEF HistoryLabel
<1>8. label \in Good <=> Passed(r, k[2])
  BY LabelSays DEF Passed
<1> HIDE DEF label, last
<1>9. Deserved(k)'
  BY <1>2, <1>4, <1>5, <1>6, <1>7 DEF Deserved
<1>10. \A n \in DOMAIN follows'[k] : ~Pending(n)'
  BY <1>1, <1>2, <1>3, <1>5 DEF PinOK
<1> QED
  BY <1>1, <1>4, <1>8, <1>9, <1>10 DEF Recorded, Passed

\* Every step keeps the labels to the history.
LEMMA HistoricStep == Typed /\ Truthful /\ Historic /\ [SuiteNext]_suiteVars => Historic'
<1> SUFFICES ASSUME Typed, Truthful, Historic, [SuiteNext]_suiteVars PROVE Historic'
    OBVIOUS
<1>1. ASSUME UNCHANGED <<pins, follows>>, \A n \in 1..lastRun : result'[n] = result[n],
             \A n \in 1..lastRun : Pending(n)' => Pending(n)
      PROVE  Historic'
  BY <1>1, HistoryStays DEF Historic
<1>2. ASSUME NEW kind \in Kinds, NEW outcome, Commit(kind, outcome) PROVE Historic'
  BY <1>1, <1>2, ResultsStay DEF Pending
<1>3. ASSUME NEW r \in 1..lastRun, Refresh(r) \/ IndexRun(r), UNCHANGED <<pins, follows>>
      PROVE  Historic'
  <2>1. result' = result /\ \A n \in 1..lastRun : Pending(n)' => Pending(n)
    BY <1>3, Moved DEF Refresh, IndexRun, Pending
  <2> QED
    BY <1>1, <1>3, <2>1
<1>4. ASSUME NEW r \in 1..lastRun, Refresh(r), ~UNCHANGED <<pins, follows>> PROVE Historic'
  <2>1. pins' = [k \in DOMAIN pins |-> Refreshed(k, r)]
    BY <1>4 DEF Refresh
  <2> QED
    BY <1>4, <2>1, RefreshDeserved DEF Historic
<1>5. ASSUME NEW r \in index, NEW c \in Cases, PinCase(r, c) PROVE Historic'
  <2> DEFINE key == <<r, c>>
  <2>1. /\ DOMAIN pins' = DOMAIN pins \cup {key} /\ DOMAIN follows'[key] = {}
        /\ \A k \in DOMAIN pins : pins'[k] = pins[k] /\ follows'[k] = follows[k]
        /\ pins'[key].status = IF Passed(r, c) THEN "passing" ELSE "still_broken"
        /\ pins'[key].lastRunId = r
        /\ UNCHANGED <<lastRun, result, ending>>
    BY <1>5, PinSays
  <2>2. key[2] = c
    OBVIOUS
  <2> HIDE DEF key
  <2>3. \A k \in DOMAIN pins : Recorded(k)'
    BY <2>1, HistoryStays DEF Pending
  <2>4. Recorded(key)'
    BY <2>1, <2>2 DEF Recorded, Deserved, Passed, Good
  <2> QED
    BY <2>1, <2>3, <2>4 DEF Historic
<1>6. ASSUME NEW k \in DOMAIN pins, UnpinCase(k) PROVE Historic'
  BY <1>6, UnpinSays, HistoryStays DEF Historic, Pending
<1>7. ASSUME NEW q, \/ \E r \in index : CountLabels(q, r)
                    \/ CheckCurrent(q) \/ ReplacePointer(q) \/ AbandonPromotion(q)
      PROVE  Historic'
  BY <1>1, <1>7, PromotionKeeps DEF Pending
<1>8. CASE CrashAndRestart
  <2>1. \A n \in 1..lastRun : ending'[n].at = Ended
    BY <1>8 DEF CrashAndRestart, Typed, RunsOK, Ending
  <2> QED
    BY <1>1, <1>8, <2>1 DEF CrashAndRestart, Pending, Ended
<1>9. CASE UNCHANGED suiteVars
  BY <1>1, <1>9 DEF suiteVars, Pending
<1> QED
  BY <1>2, <1>3, <1>4, <1>5, <1>6, <1>7, <1>8, <1>9 DEF SuiteNext, IndexRun

\* LabelsFollowHistory: every label that refresh_regression_suite gives is the
\* one that the history of the case deserves, though it is computed from the
\* stored status alone, in every order in which comparisons take pin_lock.
THEOREM LabelsAreDeserved == SuiteSpec => []LabelsFollowHistory
<1>1. Historic => LabelsFollowHistory
  BY DEF Historic, Recorded, Deserved, LabelsFollowHistory
<1> QED
  BY <1>1, TypedInitially, TypedStep, TruthfulInitially, TruthfulStep,
     HistoricInitially, HistoricStep, PTL DEF SuiteSpec

=============================================================================
