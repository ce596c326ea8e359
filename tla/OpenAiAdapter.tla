---------------------------- MODULE OpenAiAdapter -----------------------------
(***************************************************************************)
(* The adapter for OpenAI-compatible endpoints (openai.rs).  A stream of   *)
(* cases runs through a window of Concurrency slots (StreamExt::buffered): *)
(* a slot is given back only when its row has been collected, and rows are *)
(* collected in the order of the cases.  Each case sends its request,      *)
(* retries what may be retried after a delay, and all of that runs under   *)
(* one deadline.  The endpoint is not part of the program: it may answer   *)
(* anything, late, or never.                                               *)
(***************************************************************************)
EXTENDS Naturals, Sequences, FiniteSets

CONSTANTS
    NumCases,
    Retries,      \* configured retries of a case
    Concurrency,  \* configured slots
    Deadline,     \* configured total time of a case, in ticks
    BaseDelay,    \* 100 ms, in ticks
    MaxDelay,     \* MAX_RETRY_DELAY, in ticks
    RetryAfter    \* a Retry-After header, in ticks

ASSUME ConstantsAssumption ==
    /\ NumCases \in Nat \ {0} /\ Retries \in Nat /\ Concurrency \in Nat \ {0}
    /\ Deadline \in Nat \ {0} /\ BaseDelay \in Nat \ {0} /\ MaxDelay \in Nat \ {0}
    /\ RetryAfter \in Nat

Cases == 1..NumCases

VARIABLES
    setup,    \* what the adapter finds before the first request
    format,   \* the structured-output mode and its schema
    prompt,   \* prompt[c]: the template can be rendered for c
    window,   \* cases in the slots, oldest first
    started,  \* cases taken from the stream so far
    pc,       \* pc[c]: what the future of c is doing
    asked,    \* asked[c]: requests sent for c
    reply,    \* reply[c]: what came of the request in flight
    retries,  \* retries[c]: retained records of the attempts that failed
    age,      \* age[c]: time since the deadline of c began
    delay,    \* delay[c]: what is left of the backoff
    row,      \* row[c]: the result of the future of c
    rows      \* the rows collected

config == <<setup, format, prompt>>
vars == <<setup, format, prompt, window, started, pc, asked, reply, retries, age, delay, row, rows>>

\* What a request may come to: a transport error (a timer of the client among
\* them), a response that is too long or cannot be read, a body that is not
\* JSON, a refusal, an error worth a retry without or with a Retry-After
\* header, and the bodies of a success.
Retriable == {"transport", "client_timeout", "busy", "busy_retry_after"}
Successes == {"no_content", "long_content", "content", "priced_content"}
Replies == Retriable \cup Successes \cup {"unreadable", "malformed", "rejected"}

Smaller(a, b) == IF a < b THEN a ELSE b
RowOf(c, kind, kept) == [case |-> c, kind |-> kind, retries |-> kept, cost |-> FALSE]
NoRow == [case |-> 0, kind |-> "none", retries |-> <<>>, cost |-> FALSE]

Init ==
    /\ setup \in {"ok", "missing_secret", "invalid_endpoint", "http_client"}
    /\ format \in {"ok", "missing_schema", "unsupported_structured_output"}
    /\ prompt \in [Cases -> BOOLEAN]
    /\ window = <<>> /\ started = 0
    /\ pc = [c \in Cases |-> "waiting"]
    /\ asked = [c \in Cases |-> 0]
    /\ reply = [c \in Cases |-> "none"]
    /\ retries = [c \in Cases |-> <<>>]
    /\ age = [c \in Cases |-> 0]
    /\ delay = [c \in Cases |-> 0]
    /\ row = [c \in Cases |-> NoRow]
    /\ rows = <<>>

\* Without a key, an endpoint or a client no case is started.
Refuse ==
    /\ setup # "ok"
    /\ rows = <<>>
    /\ rows' = [c \in Cases |-> RowOf(c, setup, <<>>)]
    /\ UNCHANGED <<config, window, started, pc, asked, reply, retries, age, delay, row>>

\* The request of a case, or what is wrong with it: the prompt is rendered
\* before the structured-output mode is looked at.
RequestDefect(c) ==
    IF ~prompt[c] THEN "template_error" ELSE IF format # "ok" THEN format ELSE "none"

\* The next case enters a free slot and sends its first request.
Start ==
    /\ setup = "ok" /\ started < NumCases
    /\ Len(window) < Concurrency
    /\ LET c == started + 1
           defect == RequestDefect(c)
       IN
          /\ started' = c
          /\ window' = Append(window, c)
          /\ IF defect = "none"
             THEN /\ pc' = [pc EXCEPT ![c] = "sending"]
                  /\ asked' = [asked EXCEPT ![c] = 1]
                  /\ UNCHANGED row
             ELSE /\ pc' = [pc EXCEPT ![c] = "done"]
                  /\ row' = [row EXCEPT ![c] = RowOf(c, defect, <<>>)]
                  /\ UNCHANGED asked
    /\ UNCHANGED <<config, reply, retries, age, delay, rows>>

\* The endpoint, the network or a timer of the client ends the request.
Respond(c) ==
    /\ pc[c] = "sending" /\ reply[c] = "none"
    /\ \E r \in Replies :
          /\ r = "client_timeout" => age[c] = Deadline
          /\ reply' = [reply EXCEPT ![c] = r]
    /\ UNCHANGED <<config, window, started, pc, asked, retries, age, delay, row, rows>>

\* retry_delay: doubled for each attempt up to the eighth, or what the header
\* says, and never more than MaxDelay.
RetryDelay(attempt, r) ==
    Smaller(IF r = "busy_retry_after" THEN RetryAfter ELSE BaseDelay * 2 ^ Smaller(attempt, 8), MaxDelay)

RetryKind(r) == IF r \in {"busy", "busy_retry_after"} THEN "provider_error" ELSE "transport_error"

\* Mutant: the loop's own counter, which begins at zero.
RetryRecordFromZero(c) == [attempt |-> asked[c] - 1, kind |-> RetryKind(reply[c])]

RetryRecord(c) == [attempt |-> asked[c], kind |-> RetryKind(reply[c])]

\* Mutant: a success whose body cannot be used is asked for again.
MayRetrySuccess(c) == reply[c] \in Retriable \cup {"no_content"} /\ asked[c] <= Retries

MayRetry(c) == reply[c] \in Retriable /\ asked[c] <= Retries

\* The attempt is recorded and the future sleeps.
Retry(c) ==
    /\ pc[c] = "sending" /\ MayRetry(c)
    /\ pc' = [pc EXCEPT ![c] = "backoff"]
    /\ retries' = [retries EXCEPT ![c] = Append(@, RetryRecord(c))]
    /\ delay' = [delay EXCEPT ![c] = RetryDelay(asked[c] - 1, reply[c])]
    /\ UNCHANGED <<config, window, started, asked, reply, age, row, rows>>

\* What the last reply makes of the row.
KindOf(r) ==
    CASE r = "client_timeout" -> "timeout"
      [] r = "transport" -> "provider_transport"
      [] r = "unreadable" -> "provider_response_limit"
      [] r \in {"malformed", "no_content"} -> "malformed_provider_response"
      [] r \in {"rejected", "busy", "busy_retry_after"} -> "provider_error"
      [] r = "long_content" -> "output_limit"
      [] r \in {"content", "priced_content"} -> "ok"

\* The future ends with a result and all it held is dropped.
Settle(c, result) ==
    /\ pc' = [pc EXCEPT ![c] = "done"]
    /\ row' = [row EXCEPT ![c] = result]
    /\ reply' = [reply EXCEPT ![c] = "none"]
    /\ retries' = [retries EXCEPT ![c] = <<>>]
    /\ age' = [age EXCEPT ![c] = 0]
    /\ delay' = [delay EXCEPT ![c] = 0]
    /\ UNCHANGED <<config, window, started, asked, rows>>

\* A reply that ends the case, with the records of the attempts before it and
\* a cost only where prices are configured and both token counts are known.
Finish(c) ==
    /\ pc[c] = "sending" /\ reply[c] # "none" /\ ~MayRetry(c)
    /\ Settle(c, [RowOf(c, KindOf(reply[c]), retries[c]) EXCEPT !.cost = reply[c] = "priced_content"])

Wake(c) ==
    /\ pc[c] = "backoff" /\ delay[c] = 0
    /\ pc' = [pc EXCEPT ![c] = "sending"]
    /\ asked' = [asked EXCEPT ![c] = @ + 1]
    /\ reply' = [reply EXCEPT ![c] = "none"]
    /\ UNCHANGED <<config, window, started, retries, age, delay, row, rows>>

\* Mutant: the deadline is looked at between attempts only.
ExpireBetween(c) ==
    /\ age[c] = Deadline
    /\ pc[c] = "backoff" /\ delay[c] > 0
    /\ Settle(c, RowOf(c, "timeout", <<>>))

\* The deadline drops the future with all it holds: what has been recorded of
\* earlier attempts is lost.  A future that is ready is served first.
Expire(c) ==
    /\ age[c] = Deadline
    /\ \/ pc[c] = "sending" /\ reply[c] = "none"
       \/ pc[c] = "backoff" /\ delay[c] > 0
    /\ Settle(c, RowOf(c, "timeout", <<>>))

\* The oldest row, and only the oldest, leaves the window.
Collect ==
    /\ window # <<>> /\ pc[Head(window)] = "done"
    /\ rows' = Append(rows, row[Head(window)])
    /\ window' = Tail(window)
    /\ UNCHANGED <<config, started, pc, asked, reply, retries, age, delay, row>>

\* Time passes for every case that has begun.
Running == {c \in Cases : pc[c] \in {"sending", "backoff"}}
Tick ==
    /\ \E c \in Running : age[c] < Deadline \/ delay[c] > 0
    /\ age' = [c \in Cases |-> IF c \in Running THEN Smaller(age[c] + 1, Deadline) ELSE age[c]]
    /\ delay' = [c \in Cases |-> IF c \in Running /\ delay[c] > 0 THEN delay[c] - 1 ELSE delay[c]]
    /\ UNCHANGED <<config, window, started, pc, asked, reply, retries, row, rows>>

Step(c) == Retry(c) \/ Finish(c) \/ Wake(c) \/ Expire(c)

Next ==
    \/ Refuse \/ Start \/ Collect \/ Tick
    \/ \E c \in Cases : Respond(c) \/ Step(c)

Spec == Init /\ [][Next]_vars

\* The runtime polls what is ready and time passes.  Nothing makes the endpoint
\* answer.
FairSpec ==
    /\ Spec
    /\ WF_vars(Refuse) /\ WF_vars(Start) /\ WF_vars(Collect) /\ WF_vars(Tick)
    /\ \A c \in Cases : WF_vars(Step(c))

-----------------------------------------------------------------------------
(* Properties                                                              *)

\* Rows are matched by position: however the requests overtake each other, a row
\* stands where its case stands in the dataset; and unless the deadline cut it
\* off, it accounts for every request that was sent: one record for each attempt
\* that failed, numbered without a gap.
AttemptsExplained ==
    /\ Len(rows) <= NumCases /\ \A i \in DOMAIN rows : rows[i].case = i
    /\ \A c \in Cases :
          pc[c] = "done" /\ asked[c] > 0 /\ ~(row[c].kind = "timeout" /\ row[c].retries = <<>>) =>
             /\ Len(row[c].retries) = asked[c] - 1
             /\ \A i \in DOMAIN row[c].retries : row[c].retries[i].attempt = i

\* A request is repeated only after a failure that may be repeated, no oftener
\* than configured, never once the case has its row; and never does the window
\* hold the endpoint to more than Concurrency requests.
RepeatsAreLicensed ==
    [][/\ Cardinality({c \in Cases : pc'[c] = "sending"}) <= Concurrency
       /\ \A c \in Cases : asked'[c] > asked[c] =>
             /\ asked'[c] <= Retries + 1
             /\ pc[c] # "done"
             /\ asked[c] > 0 => reply[c] \in Retriable]_vars

\* An endpoint that never answers cannot hold the run.
RunSettles == <>(Len(rows) = NumCases)

=============================================================================
