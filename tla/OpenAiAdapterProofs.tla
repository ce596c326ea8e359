------------------------ MODULE OpenAiAdapterProofs -------------------------
(***************************************************************************)
(* Theorems about OpenAiAdapter, for any number of cases, retries and      *)
(* slots, any deadline and any delays.                                     *)
(***************************************************************************)
EXTENDS OpenAiAdapter, SequenceTheorems, FiniteSetTheorems, TLAPS

Setups  == {"ok", "missing_secret", "invalid_endpoint", "http_client"}
Formats == {"ok", "missing_schema", "unsupported_structured_output"}
Settled == {"timeout", "provider_transport", "provider_response_limit",
            "malformed_provider_response", "provider_error", "output_limit"}
Kinds   == Setups \cup Formats \cup Settled \cup {"template_error", "none"}
Record  == [attempt : Nat, kind : {"provider_error", "transport_error"}]
Result  == [case : Nat, kind : Kinds, retries : Seq(Record), cost : BOOLEAN]
Working == {"waiting", "sending", "backoff", "done"}

\* Types of the variables that the properties speak of.
Typed ==
    /\ setup \in Setups
    /\ format \in Formats
    /\ started \in 0 .. NumCases
    /\ window \in Seq(Cases)
    /\ pc \in [Cases -> Working]
    /\ asked \in [Cases -> Nat]
    /\ reply \in [Cases -> Replies \cup {"none"}]
    /\ retries \in [Cases -> Seq(Record)]
    /\ row \in [Cases -> Result]
    /\ rows \in Seq(Result)

\* A row made of a case, a kind and the records of its attempts is a result.
LEMMA RowOfType ==
    ASSUME NEW c \in Nat, NEW k \in Kinds, NEW kept \in Seq(Record)
    PROVE  /\ RowOf(c, k, kept) \in Result
           /\ RowOf(c, k, kept).case = c
           /\ RowOf(c, k, kept).kind = k
           /\ RowOf(c, k, kept).retries = kept
  BY DEF RowOf, Result

\* Every reply gives the row a kind.
LEMMA KindOfType == \A r \in Replies : KindOf(r) \in Kinds
  BY DEF Replies, Retriable, Successes, KindOf, Kinds, Settled, Formats

\* No records are a sequence of records.
LEMMA NothingKept == <<>> \in Seq(Record)
  BY EmptySeq

\* Before the first request nothing has been asked or answered.
LEMMA TypesInitially == Init => Typed
<1> SUFFICES ASSUME Init PROVE Typed
  OBVIOUS
<1>1. NoRow \in Result
  BY DEF NoRow, Result, Kinds
<1>2. retries \in [Cases -> Seq(Record)] /\ row \in [Cases -> Result]
  BY <1>1, EmptySeq DEF Init
<1> QED BY <1>2, ConstantsAssumption DEF Init, Typed, Working, Setups, Formats

\* A case that settles keeps the types.
LEMMA SettleTypes ==
    ASSUME Typed, NEW c \in Cases, NEW result \in Result, Settle(c, result)
    PROVE  Typed'
  BY DEF Typed, Settle, config, Working

\* Every step keeps the types.
LEMMA TypesStep == Typed /\ [Next]_vars => Typed'
<1> SUFFICES ASSUME Typed, [Next]_vars PROVE Typed'
  OBVIOUS
<1> USE ConstantsAssumption DEF Typed, config
<1>1. CASE Refuse
  <2>1. setup \in Kinds /\ \A c \in Cases : c \in Nat
    BY DEF Kinds, Cases
  <2>2. \A c \in Cases : RowOf(c, setup, <<>>) \in Result
    BY <2>1, RowOfType, NothingKept
  <2>3. rows' \in [1 .. NumCases -> Result]
    BY <1>1, <2>2 DEF Refuse, Cases
  <2>4. rows' \in Seq(Result)
    BY <2>3
  <2> QED BY <1>1, <2>4 DEF Refuse
<1>2. CASE Start
  <2> DEFINE c == started + 1
  <2>1. c \in Cases /\ c \in Nat /\ started' = c /\ window' = Append(window, c)
    BY <1>2 DEF Start, Cases
  <2>2. RequestDefect(c) \in Kinds
    BY DEF RequestDefect, Kinds
  <2>3. RowOf(c, RequestDefect(c), <<>>) \in Result
    BY <2>1, <2>2, RowOfType, NothingKept
  <2> HIDE DEF c
  <2>4. /\ pc' \in [Cases -> Working]
        /\ asked' \in [Cases -> Nat]
        /\ row' \in [Cases -> Result]
    <3>1. CASE RequestDefect(c) = "none"
      <4>1. /\ pc' = [pc EXCEPT ![c] = "sending"]
            /\ asked' = [asked EXCEPT ![c] = 1]
            /\ row' = row
        BY <1>2, <3>1 DEF Start, c
      <4> QED BY <2>1, <4>1 DEF Working
    <3>2. CASE RequestDefect(c) # "none"
      BY <1>2, <2>1, <2>3, <3>2 DEF Start, Working, c
    <3> QED BY <3>1, <3>2
  <2>5. started' \in 0 .. NumCases
    BY <2>1 DEF Cases
  <2>6. window' \in Seq(Cases)
    BY <2>1, AppendProperties
  <2> QED BY <1>2, <2>4, <2>5, <2>6 DEF Start
<1>3. CASE Collect
  <2>1. Head(window) \in Cases /\ Tail(window) \in Seq(Cases)
    BY <1>3, HeadTailProperties DEF Collect
  <2>2. rows' \in Seq(Result)
    BY <1>3, <2>1, AppendProperties DEF Collect
  <2> QED BY <1>3, <2>1, <2>2 DEF Collect
<1>4. CASE Tick
  BY <1>4 DEF Tick
<1>5. ASSUME NEW c \in Cases, Respond(c) PROVE Typed'
  BY <1>5 DEF Respond
<1>6. ASSUME NEW c \in Cases, Retry(c) PROVE Typed'
  <2>1. RetryRecord(c) \in Record
    BY DEF RetryRecord, Record, RetryKind
  <2>2. retries' \in [Cases -> Seq(Record)]
    BY <1>6, <2>1, AppendProperties DEF Retry
  <2> QED BY <1>6, <2>2 DEF Retry, Working
<1>7. ASSUME NEW c \in Cases, Finish(c) PROVE Typed'
  <2> DEFINE plain == RowOf(c, KindOf(reply[c]), retries[c])
             final == [plain EXCEPT !.cost = reply[c] = "priced_content"]
  <2>1. KindOf(reply[c]) \in Kinds
    BY <1>7, KindOfType DEF Finish
  <2>2. plain \in Result
    BY <2>1, RowOfType DEF Cases
  <2>3. final \in Result
    BY <2>2 DEF Result
  <2>4. Settle(c, final)
    BY <1>7 DEF Finish
  <2> QED BY <2>3, <2>4, SettleTypes
<1>8. ASSUME NEW c \in Cases, Wake(c) PROVE Typed'
  BY <1>8 DEF Wake, Working
<1>9. ASSUME NEW c \in Cases, Expire(c) PROVE Typed'
  <2>1. "timeout" \in Kinds /\ c \in Nat
    BY DEF Kinds, Settled, Cases
  <2>2. RowOf(c, "timeout", <<>>) \in Result
    BY <2>1, RowOfType, NothingKept
  <2> QED BY <1>9, <2>2, SettleTypes DEF Expire
<1>10. CASE UNCHANGED vars
  BY <1>10 DEF vars
<1> QED BY <1>1, <1>2, <1>3, <1>4, <1>5, <1>6, <1>7, <1>8, <1>9, <1>10
        DEF Next, Step

-----------------------------------------------------------------------------
(* The window: rows and slots are the cases taken so far, in their order   *)

Collected == started - Len(window)

InOrder ==
    /\ Len(window) <= started
    /\ Len(window) <= Concurrency
    /\ \A i \in 1 .. Len(window) : window[i] = Collected + i
    /\ \A c \in Cases : c > started => pc[c] = "waiting"
    /\ \A c \in Cases : c <= Collected => pc[c] = "done"
    /\ \A i \in 1 .. Len(rows) : rows[i].case = i
    /\ setup = "ok" => Len(rows) = Collected
    /\ setup # "ok" => started = 0 /\ Len(rows) \in {0, NumCases}

\* n records, numbered from one without a gap.
Numbered(records, n) ==
    Len(records) = n /\ \A i \in 1 .. Len(records) : records[i].attempt = i

\* The records and requests of a case, wherever its future is.
Accounted(c) ==
    /\ pc[c] = "waiting" =>
          asked[c] = 0 /\ retries[c] = <<>> /\ reply[c] = "none"
    /\ pc[c] = "sending" =>
          asked[c] \in 1 .. Retries + 1 /\ Numbered(retries[c], asked[c] - 1)
    /\ pc[c] = "backoff" =>
          /\ asked[c] \in 1 .. Retries
          /\ Numbered(retries[c], asked[c])
          /\ reply[c] \in Retriable
    /\ pc[c] = "done" =>
          /\ row[c].case = c
          /\ asked[c] > 0 /\ ~(row[c].kind = "timeout" /\ row[c].retries = <<>>)
                => Numbered(row[c].retries, asked[c] - 1)

\* The inductive invariant.
Explained == Typed /\ InOrder /\ \A c \in Cases : Accounted(c)

\* Before the first request the window is empty and nothing is accounted for.
LEMMA ExplainedInitially == Init => Explained
<1> SUFFICES ASSUME Init PROVE InOrder /\ \A c \in Cases : Accounted(c)
  BY TypesInitially DEF Explained
<1>1. InOrder
  <2>1. Len(window) = 0 /\ Len(rows) = 0 /\ started = 0
    BY DEF Init
  <2>2. \A c \in Cases : pc[c] = "waiting" /\ ~(c <= 0)
    BY DEF Init, Cases
  <2> QED BY <2>1, <2>2, ConstantsAssumption DEF InOrder, Collected
<1>2. ASSUME NEW c \in Cases PROVE Accounted(c)
  BY DEF Init, Accounted
<1> QED BY <1>1, <1>2

\* A step of one future that has begun and has not ended touches no other
\* case, and neither the window nor the rows.
LEMMA OneFuture ==
    ASSUME Explained, Typed', NEW c \in Cases,
           pc[c] \in {"sending", "backoff"}, pc'[c] # "waiting",
           \A d \in Cases \ {c} :
              /\ pc'[d] = pc[d] /\ asked'[d] = asked[d] /\ reply'[d] = reply[d]
              /\ retries'[d] = retries[d] /\ row'[d] = row[d],
           UNCHANGED <<setup, window, started, rows>>, Accounted(c)'
    PROVE  Explained'
<1> USE DEF Explained
<1>1. InOrder'
  BY DEF InOrder, Collected, Typed
<1>2. ASSUME NEW d \in Cases PROVE Accounted(d)'
  BY <1>2 DEF Accounted, Numbered
<1> QED BY <1>1, <1>2

\* A future that ends with its row accounts for its requests.
LEMMA SettleExplained ==
    ASSUME Explained, Typed', NEW c \in Cases,
           pc[c] \in {"sending", "backoff"}, NEW result \in Result,
           Settle(c, result), result.case = c,
           \/ result.kind = "timeout" /\ result.retries = <<>>
           \/ Numbered(result.retries, asked[c] - 1)
    PROVE  Explained'
<1>1. /\ pc'[c] = "done" /\ row'[c] = result /\ asked' = asked
      /\ UNCHANGED <<setup, window, started, rows>>
      /\ \A d \in Cases \ {c} :
              /\ pc'[d] = pc[d] /\ asked'[d] = asked[d] /\ reply'[d] = reply[d]
              /\ retries'[d] = retries[d] /\ row'[d] = row[d]
  BY DEF Settle, Explained, Typed, config
<1>2. Accounted(c)'
  BY <1>1 DEF Accounted, Numbered
<1> QED BY <1>1, <1>2, OneFuture

\* A case that enters the window is the next one; if it sends a request, that
\* is its first.
LEMMA StartExplained ==
    ASSUME Explained, Typed', Start
    PROVE  Explained'
<1> DEFINE c == started + 1
<1> USE ConstantsAssumption DEF Explained
<1>1. /\ setup = "ok" /\ setup' = setup /\ rows' = rows
      /\ c \in Cases /\ started' = c /\ window' = Append(window, c)
      /\ Len(window) < Concurrency
  BY DEF Start, Cases, Typed, config
<1>2. /\ Len(window') = Len(window) + 1
      /\ window'[Len(window) + 1] = c
      /\ \A i \in 1 .. Len(window) : window'[i] = window[i]
      /\ Len(window) \in Nat
  BY <1>1, AppendProperties, LenProperties DEF Typed
<1>3. pc[c] = "waiting"
  BY <1>1 DEF InOrder, Typed
<1>4. /\ \A d \in Cases \ {c} :
            pc'[d] = pc[d] /\ asked'[d] = asked[d] /\ row'[d] = row[d]
      /\ UNCHANGED <<reply, retries>>
  BY <1>1 DEF Start, Typed
<1>5. \/ pc'[c] = "sending" /\ asked'[c] = 1
      \/ pc'[c] = "done" /\ asked'[c] = 0 /\ row'[c].case = c
  <2>1. asked[c] = 0
    BY <1>1, <1>3 DEF Accounted
  <2>2. CASE RequestDefect(c) = "none"
    <3>1. pc' = [pc EXCEPT ![c] = "sending"] /\ asked' = [asked EXCEPT ![c] = 1]
      BY <2>2 DEF Start
    <3> QED BY <1>1, <3>1 DEF Typed
  <2>3. CASE RequestDefect(c) # "none"
    <3>1. /\ pc' = [pc EXCEPT ![c] = "done"]
          /\ row' = [row EXCEPT ![c] = RowOf(c, RequestDefect(c), <<>>)]
          /\ asked' = asked
      BY <2>3 DEF Start
    <3>2. RowOf(c, RequestDefect(c), <<>>).case = c
      BY DEF RowOf
    <3> QED BY <1>1, <2>1, <3>1, <3>2 DEF Typed
  <2> QED BY <2>2, <2>3
<1> HIDE DEF c
<1>6. c = started + 1
  BY DEF c
<1>7. InOrder'
  <2>1. Collected' = Collected /\ Collected \in Nat /\ started \in Nat
    BY <1>1, <1>2, <1>6 DEF Collected, InOrder, Typed
  <2>2. \A i \in 1 .. Len(window') : window'[i] = Collected + i
    <3> SUFFICES ASSUME NEW i \in 1 .. Len(window') PROVE window'[i] = Collected + i
      OBVIOUS
    <3>1. CASE i \in 1 .. Len(window)
      BY <1>2, <3>1 DEF InOrder
    <3>2. CASE i = Len(window) + 1
      BY <1>2, <1>6, <2>1, <3>2 DEF Collected
    <3> QED BY <1>2, <3>1, <3>2
  <2>3. \A d \in Cases : d > started' => pc'[d] = "waiting"
    BY <1>1, <1>4, <1>6, <2>1 DEF InOrder, Cases
  <2>4. \A d \in Cases : d <= Collected' => pc'[d] = "done"
    <3>1. ~(c <= Collected)
      BY <1>2, <1>6, <2>1 DEF Collected
    <3> QED BY <1>4, <2>1, <3>1 DEF InOrder
  <2>5. Len(window') <= started' /\ Len(window') <= Concurrency
    BY <1>1, <1>2, <1>6, <2>1 DEF InOrder
  <2> QED BY <1>1, <2>1, <2>2, <2>3, <2>4, <2>5 DEF InOrder
<1>8. ASSUME NEW d \in Cases PROVE Accounted(d)'
  <2>1. CASE d = c
    <3>1. retries'[c] = <<>>
      BY <1>1, <1>3, <1>4 DEF Accounted
    <3>2. Len(<<>>) = 0
      OBVIOUS
    <3> QED BY <1>5, <2>1, <3>1, <3>2 DEF Accounted, Numbered
  <2>2. CASE d # c
    BY <1>4, <2>2 DEF Accounted, Numbered
  <2> QED BY <2>1, <2>2
<1> QED BY <1>7, <1>8

\* The row that is collected is the next one.
LEMMA CollectExplained ==
    ASSUME Explained, Typed', Collect
    PROVE  Explained'
<1> USE ConstantsAssumption DEF Explained
<1>1. /\ window # <<>> /\ pc[Head(window)] = "done"
      /\ rows' = Append(rows, row[Head(window)]) /\ window' = Tail(window)
      /\ UNCHANGED <<setup, started, pc, asked, reply, retries, row>>
  BY DEF Collect, config
<1>2. /\ Len(window) \in Nat \ {0}
      /\ Head(window) = window[1]
      /\ Len(window') = Len(window) - 1
      /\ \A i \in 1 .. Len(window') : window'[i] = window[i + 1]
  BY <1>1, HeadTailProperties, EmptySeq DEF Typed
<1>3. Head(window) = Collected + 1 /\ Head(window) \in Cases
  BY <1>1, <1>2, HeadTailProperties DEF InOrder, Typed
<1>4. setup = "ok" /\ started \in Nat /\ Collected \in Nat
  BY <1>2 DEF InOrder, Typed, Collected
<1>5. Collected' = Collected + 1
  BY <1>1, <1>2, <1>4 DEF Collected
<1>6. row[Head(window)].case = Collected + 1 /\ row[Head(window)] \in Result
  BY <1>1, <1>3 DEF Accounted, Typed
<1>7. /\ Len(rows') = Len(rows) + 1
      /\ \A i \in 1 .. Len(rows) : rows'[i] = rows[i]
      /\ rows'[Len(rows) + 1] = row[Head(window)]
      /\ Len(rows) = Collected
  BY <1>1, <1>4, <1>6, AppendProperties DEF Typed, InOrder
<1>8. InOrder'
  <2>1. ASSUME NEW i \in 1 .. Len(window') PROVE window'[i] = Collected' + i
    <3>1. i + 1 \in 1 .. Len(window) /\ window'[i] = window[i + 1]
      BY <1>2
    <3>2. window[i + 1] = Collected + (i + 1)
      BY <3>1 DEF InOrder
    <3> QED BY <1>2, <1>4, <1>5, <3>1, <3>2
  <2>2. \A d \in Cases : d <= Collected' => pc'[d] = "done"
    <3>1. \A d \in Cases : d <= Collected + 1 => d <= Collected \/ d = Collected + 1
      BY <1>4 DEF Cases
    <3> QED BY <1>1, <1>3, <1>5, <3>1 DEF InOrder
  <2>3. \A i \in 1 .. Len(rows') : rows'[i].case = i
    BY <1>4, <1>6, <1>7 DEF InOrder
  <2> QED BY <1>1, <1>2, <1>4, <1>5, <1>7, <2>1, <2>2, <2>3 DEF InOrder
<1>9. ASSUME NEW d \in Cases PROVE Accounted(d)'
  BY <1>1 DEF Accounted, Numbered
<1> QED BY <1>8, <1>9

\* An attempt that may be repeated leaves its record, with its number.
LEMMA RetryExplained ==
    ASSUME Explained, Typed', NEW c \in Cases, Retry(c)
    PROVE  Explained'
<1> USE ConstantsAssumption DEF Explained
<1>1. /\ pc[c] = "sending" /\ pc'[c] = "backoff"
      /\ retries'[c] = Append(retries[c], RetryRecord(c))
      /\ UNCHANGED <<setup, window, started, asked, reply, row, rows>>
      /\ \A d \in Cases \ {c} : pc'[d] = pc[d] /\ retries'[d] = retries[d]
      /\ reply[c] \in Retriable /\ asked[c] <= Retries
  BY DEF Retry, MayRetry, Typed, config
<1>2. RetryRecord(c) \in Record /\ RetryRecord(c).attempt = asked[c]
  BY DEF RetryRecord, Record, RetryKind, Typed
<1>3. /\ retries[c] \in Seq(Record)
      /\ asked[c] \in 1 .. Retries
      /\ Numbered(retries[c], asked[c] - 1)
  BY <1>1 DEF Accounted, Typed
<1>4. Numbered(retries'[c], asked[c])
  <2>1. /\ Len(retries'[c]) = Len(retries[c]) + 1
        /\ \A i \in 1 .. Len(retries[c]) : retries'[c][i] = retries[c][i]
        /\ retries'[c][Len(retries[c]) + 1] = RetryRecord(c)
    BY <1>1, <1>2, <1>3, AppendProperties
  <2>2. Len(retries[c]) = asked[c] - 1 /\ asked[c] \in Nat
    BY <1>3 DEF Numbered
  <2>3. ASSUME NEW i \in 1 .. Len(retries'[c]) PROVE retries'[c][i].attempt = i
    <3>1. CASE i = asked[c]
      BY <1>2, <2>1, <2>2, <3>1
    <3>2. CASE i # asked[c]
      <4>1. i \in 1 .. Len(retries[c])
        BY <2>1, <2>2, <3>2
      <4> QED BY <1>3, <2>1, <4>1 DEF Numbered
    <3> QED BY <3>1, <3>2
  <2> QED BY <2>1, <2>2, <2>3 DEF Numbered
<1>5. Accounted(c)'
  BY <1>1, <1>3, <1>4 DEF Accounted, Numbered
<1> QED BY <1>1, <1>5, OneFuture

\* The reply that ends a case leaves it with the records of all the requests
\* before the last.
LEMMA FinishExplained ==
    ASSUME Explained, Typed', NEW c \in Cases, Finish(c)
    PROVE  Explained'
<1> DEFINE plain == RowOf(c, KindOf(reply[c]), retries[c])
           final == [plain EXCEPT !.cost = reply[c] = "priced_content"]
<1>1. pc[c] = "sending" /\ Settle(c, final)
  BY DEF Finish
<1>2. /\ plain \in Result /\ plain.case = c /\ plain.retries = retries[c]
  <2>1. KindOf(reply[c]) \in Kinds /\ retries[c] \in Seq(Record) /\ c \in Nat
    BY KindOfType DEF Finish, Explained, Typed, Cases
  <2> QED BY <2>1, RowOfType
<1> HIDE DEF plain
<1>3. final \in Result /\ final.case = c /\ final.retries = retries[c]
  BY <1>2 DEF Result
<1>4. Numbered(final.retries, asked[c] - 1)
  BY <1>1, <1>3 DEF Explained, Accounted, Numbered
<1> QED BY <1>1, <1>3, <1>4, SettleExplained

\* After its delay a case sends the next of its requests.
LEMMA WakeExplained ==
    ASSUME Explained, Typed', NEW c \in Cases, Wake(c)
    PROVE  Explained'
<1>1. /\ pc[c] = "backoff" /\ pc'[c] = "sending" /\ asked'[c] = asked[c] + 1
      /\ UNCHANGED <<setup, window, started, retries, row, rows>>
      /\ \A d \in Cases \ {c} :
            pc'[d] = pc[d] /\ asked'[d] = asked[d] /\ reply'[d] = reply[d]
  BY DEF Wake, Explained, Typed, config
<1>2. Accounted(c)'
  BY <1>1, ConstantsAssumption DEF Explained, Accounted, Numbered
<1> QED BY <1>1, <1>2, OneFuture

\* Every step keeps the rows in order and the requests accounted for.
LEMMA ExplainedStep == Explained /\ [Next]_vars => Explained'
<1> SUFFICES ASSUME Explained, [Next]_vars PROVE Explained'
  OBVIOUS
<1>1. Typed'
  BY TypesStep DEF Explained
<1>2. CASE Refuse
  <2> USE ConstantsAssumption DEF Explained
  <2>1. /\ setup # "ok" /\ rows' = [c \in 1 .. NumCases |-> RowOf(c, setup, <<>>)]
        /\ UNCHANGED <<setup, window, started, pc, asked, reply, retries, row>>
    BY <1>2 DEF Refuse, config, Cases
  <2>2. Len(rows') = NumCases
    BY <2>1
  <2>3. \A i \in 1 .. NumCases : rows'[i].case = i
    BY <2>1 DEF RowOf
  <2>4. InOrder'
    BY <2>1, <2>2, <2>3 DEF InOrder, Collected
  <2>5. ASSUME NEW d \in Cases PROVE Accounted(d)'
    BY <2>1 DEF Accounted, Numbered
  <2> QED BY <1>1, <2>4, <2>5
<1>3. CASE Tick \/ UNCHANGED vars
  <2>1. UNCHANGED <<setup, window, started, pc, asked, reply, retries, row, rows>>
    BY <1>3 DEF Tick, vars, config
  <2> QED BY <1>1, <2>1 DEF Explained, InOrder, Collected, Accounted, Numbered
<1>4. ASSUME NEW c \in Cases, Respond(c) PROVE Explained'
  <2>1. /\ pc[c] = "sending"
        /\ UNCHANGED <<setup, window, started, pc, asked, retries, row, rows>>
        /\ \A d \in Cases \ {c} : reply'[d] = reply[d]
    BY <1>4 DEF Respond, config, Explained, Typed
  <2>2. Accounted(c)'
    BY <2>1 DEF Explained, Accounted, Numbered
  <2> QED BY <1>1, <2>1, <2>2, OneFuture
<1>5. ASSUME NEW c \in Cases, Expire(c) PROVE Explained'
  <2>1. /\ RowOf(c, "timeout", <<>>).case = c
        /\ RowOf(c, "timeout", <<>>).kind = "timeout"
        /\ RowOf(c, "timeout", <<>>).retries = <<>>
    BY DEF RowOf
  <2>2. RowOf(c, "timeout", <<>>) \in Result
    <3>1. "timeout" \in Kinds /\ c \in Nat
      BY DEF Kinds, Settled, Cases
    <3> QED BY <3>1, RowOfType, NothingKept
  <2>3. pc[c] \in {"sending", "backoff"} /\ Settle(c, RowOf(c, "timeout", <<>>))
    BY <1>5 DEF Expire
  <2> QED BY <1>1, <2>1, <2>2, <2>3, SettleExplained
<1> QED BY <1>1, <1>2, <1>3, <1>4, <1>5, StartExplained, CollectExplained,
           RetryExplained, FinishExplained, WakeExplained DEF Next, Step

\* Rows stand where their cases stand, and every row that the deadline did not
\* cut off accounts for each request that was sent.
THEOREM RowsExplainAttempts == Spec => []AttemptsExplained
<1>1. ASSUME Explained PROVE AttemptsExplained
  <2> USE <1>1, ConstantsAssumption DEF Explained
  <2>1. Len(rows) <= NumCases
    BY LenProperties DEF InOrder, Typed, Collected
  <2>2. \A i \in DOMAIN rows : rows[i].case = i
    BY LenProperties DEF InOrder, Typed
  <2>3. ASSUME NEW c \in Cases
        PROVE  DOMAIN row[c].retries = 1 .. Len(row[c].retries)
    BY LenProperties DEF Typed, Result
  <2> QED BY <2>1, <2>2, <2>3 DEF AttemptsExplained, Accounted, Numbered
<1>2. Explained => AttemptsExplained
  BY <1>1
<1> QED BY <1>2, ExplainedInitially, ExplainedStep, PTL DEF Spec

\* A set within the n numbers up to m has no more than n members.
LEMMA SlotsBound ==
    ASSUME NEW m \in Nat, NEW n \in Nat, n <= m,
           NEW S \in SUBSET ((m - n + 1) .. m)
    PROVE  Cardinality(S) <= n
<1> DEFINE a == m - n + 1
<1>1. a \in Int /\ m \in Int
  OBVIOUS
<1>2. (IF a > m THEN 0 ELSE m - a + 1) = n
  OBVIOUS
<1> HIDE DEF a
<1>3. IsFiniteSet(a .. m) /\ Cardinality(a .. m) = n
  BY <1>1, <1>2, FS_Interval
<1>4. S \in SUBSET (a .. m)
  BY DEF a
<1>5. Cardinality(S) <= Cardinality(a .. m)
  BY <1>3, <1>4, FS_Subset
<1> QED BY <1>3, <1>5

\* Requests are repeated only where the failure and the configuration allow
\* it, never for a case that has its row, and never beyond the window.
THEOREM RepeatsLicensed == Spec => RepeatsAreLicensed
<1> DEFINE Licensed(c) ==
      asked'[c] > asked[c] =>
         /\ asked'[c] <= Retries + 1
         /\ pc[c] # "done"
         /\ asked[c] > 0 => reply[c] \in Retriable
<1>1. ASSUME Explained, [Next]_vars, NEW c \in Cases PROVE Licensed(c)
  <2> USE <1>1, ConstantsAssumption DEF Explained, Typed
  <2>1. CASE Start
    <3>1. CASE c = started + 1
      <4>1. pc[c] = "waiting" /\ asked[c] = 0
        BY <3>1 DEF InOrder, Accounted
      <4>2. asked'[c] \in {0, 1}
        BY <2>1, <3>1, <4>1 DEF Start
      <4> QED BY <4>1, <4>2
    <3>2. CASE c # started + 1
      BY <2>1, <3>2 DEF Start
    <3> QED BY <3>1, <3>2
  <2>2. ASSUME NEW d \in Cases, Wake(d) PROVE Licensed(c)
    <3>1. c = d => asked[c] \in 1 .. Retries /\ reply[c] \in Retriable
      BY <2>2 DEF Wake, Accounted
    <3> QED BY <2>2, <3>1 DEF Wake
  <2>3. ASSUME UNCHANGED asked PROVE Licensed(c)
    BY <2>3
  <2> QED BY <2>1, <2>2, <2>3 DEF Next, Step, Refuse, Collect, Tick, Respond,
                                  Retry, Finish, Settle, Expire, vars
<1>2. ASSUME Explained'
      PROVE  Cardinality({c \in Cases : pc'[c] = "sending"}) <= Concurrency
  <2> DEFINE n == Len(window')
             sending == {c \in Cases : pc'[c] = "sending"}
  <2>1. n \in Nat /\ started' \in Nat /\ n <= started' /\ n <= Concurrency
    BY <1>2, ConstantsAssumption, LenProperties DEF Explained, Typed, InOrder
  <2>2. sending \in SUBSET ((started' - n + 1) .. started')
    BY <1>2, <2>1, ConstantsAssumption
       DEF Explained, InOrder, Collected, Cases
  <2> HIDE DEF n, sending
  <2>3. Cardinality(sending) <= n
    BY <2>1, <2>2, SlotsBound
  <2>4. Cardinality(sending) \in Nat
    <3>1. IsFiniteSet(Cases)
      BY FS_Interval, ConstantsAssumption DEF Cases
    <3>2. sending \in SUBSET Cases
      BY DEF sending
    <3> QED BY <3>1, <3>2, FS_Subset, FS_CardinalityType
  <2> QED BY <2>1, <2>3, <2>4, ConstantsAssumption DEF sending
<1>3. Explained /\ Explained' /\ [Next]_vars =>
        [/\ Cardinality({c \in Cases : pc'[c] = "sending"}) <= Concurrency
         /\ \A c \in Cases : Licensed(c)]_vars
  BY <1>1, <1>2
<1> QED BY <1>3, ExplainedInitially, ExplainedStep, PTL
        DEF Spec, RepeatsAreLicensed

=============================================================================
