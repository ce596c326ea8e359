--------------------------- MODULE RegressionSuite ---------------------------
(***************************************************************************)
(* The saved cases of one StructTrace Local project: pinning, the refresh  *)
(* that labels every pin when a comparison completes, and the promotion    *)
(* that unresolved pins are to block.                                      *)
(*                                                                         *)
(* Runs are numbered in the order in which they became current.  Between   *)
(* its commit and its end a comparison refreshes the pins and enters the   *)
(* run in the server's index: a job in this order, a synchronous request   *)
(* in the other.  The next comparison does not wait for either.  A         *)
(* read-modify-write of regressions.json is one step: the handlers hold    *)
(* pin_lock for it, and the file is replaced atomically.  A promotion      *)
(* holds no lock: it counts the labels, checks the current revision and    *)
(* replaces it in three steps.  Every run is one that a release gate       *)
(* authorized; ProjectStore has the bytes that a promotion copies.         *)
(***************************************************************************)
EXTENDS Naturals, FiniteSets, Functions

CONSTANTS
    Cases,      \* cases of the golden dataset that may be pinned
    MaxRuns,    \* bound on the comparisons of the project
    Kinds,      \* kinds of comparison: "job", "direct"
    Requests,   \* requests to promote a run that may be in flight
    MaxCrashes, \* bound on kills of the server
    MaxLabels   \* labels that fit into the 4 MiB that read_pins reads

ASSUME SuiteAssumption ==
    /\ MaxRuns \in Nat /\ MaxCrashes \in Nat /\ MaxLabels \in Nat
    /\ Kinds \subseteq {"job", "direct"}

Runs == 1..MaxRuns

\* f, with y for x.
Entered(f, x, y) == [a \in DOMAIN f \cup {x} |-> IF a = x THEN y ELSE f[a]]

VARIABLES
    lastRun,  \* runs 1..lastRun have been committed
    current,  \* the run of the current revision, or 0: none, or an accepted one
    result,   \* what each run's candidate did on each case
    ending,   \* what a committed comparison has done since
    index,    \* the server's index of runs it can show
    pins,     \* regressions.json, keyed by run and case
    follows,  \* history: for each pin, the runs that refreshed it, each with
              \* the run whose label the pin had then
    promotion,\* how far each request to promote is
    crashes

suiteVars == <<lastRun, current, result, ending, index, pins, follows, promotion, crashes>>

Idle == [at |-> "idle"]

SuiteInit ==
    /\ lastRun = 0
    /\ current = 0
    /\ result = <<>>
    /\ ending = <<>>
    /\ index = {}
    /\ pins = <<>>
    /\ follows = <<>>
    /\ promotion = [q \in Requests |-> Idle]
    /\ crashes = 0

Ended == "ended"

\* read_pins refuses a file above its limit; write_pins has no limit.
Labels   == {l \in (DOMAIN pins) \X Runs : l[2] \in DOMAIN pins[l[1]].evaluations}
Readable == Cardinality(Labels) <= MaxLabels

-----------------------------------------------------------------------------
(* Comparisons                                                             *)

\* A comparison commits its revision and selects it.
Commit(kind, outcome) ==
    LET r == lastRun + 1 IN
    /\ r \in Runs
    /\ lastRun' = r
    /\ current' = r
    /\ result' = Entered(result, r, outcome)
    /\ ending' = Entered(ending, r, [kind |-> kind, at |-> "committed"])
    /\ UNCHANGED <<index, pins, follows, promotion, crashes>>

\* Mutant: only the run that was pinned decides what a failure is.
LabelByOrigin(pin, outcome) ==
    CASE outcome = "pass" -> IF pin.originPass THEN "passing" ELSE "fixed"
      [] outcome = "fail" -> IF pin.originPass THEN "reintroduced" ELSE "still_broken"
      [] OTHER            -> "missing"

\* Mutant: a case that a run does not have keeps the label it had.
LabelKept(pin, outcome) ==
    CASE outcome = "pass" -> IF pin.originPass THEN "passing" ELSE "fixed"
      [] outcome = "fail" -> IF pin.originPass \/ pin.status \in {"passing", "fixed"}
                             THEN "reintroduced" ELSE "still_broken"
      [] OTHER            -> pin.status

\* The label refresh_regression_suite gives a pin for what a run did on its
\* case: a failure after a pass, now or when pinned, is a reintroduction.
Label(pin, outcome) ==
    CASE outcome = "pass" -> IF pin.originPass THEN "passing" ELSE "fixed"
      [] outcome = "fail" -> IF pin.originPass \/ pin.status \in {"passing", "fixed"}
                             THEN "reintroduced" ELSE "still_broken"
      [] OTHER            -> "missing"

Refreshed(k, r) ==
    LET label == Label(pins[k], result[r][k[2]]) IN
    [pins[k] EXCEPT !.status = label, !.lastRunId = r,
                    !.evaluations = Entered(@, r, label)]

\* A job logs a refresh that fails; a synchronous request returns the error.
Refresh(r) ==
    /\ ending[r] \in {[kind |-> "job", at |-> "committed"],
                      [kind |-> "direct", at |-> "indexed"]}
    /\ IF Readable
       THEN /\ pins' = [k \in DOMAIN pins |-> Refreshed(k, r)]
            /\ follows' = [k \in DOMAIN pins |-> Entered(follows[k], r, pins[k].lastRunId)]
       ELSE UNCHANGED <<pins, follows>>
    /\ ending' = [ending EXCEPT ![r].at = IF ending[r].kind = "job" THEN "refreshed" ELSE Ended]
    /\ UNCHANGED <<lastRun, current, result, index, promotion, crashes>>

IndexRun(r) ==
    /\ ending[r] \in {[kind |-> "job", at |-> "refreshed"],
                      [kind |-> "direct", at |-> "committed"]}
    /\ index' = index \cup {r}
    /\ ending' = [ending EXCEPT ![r].at = IF ending[r].kind = "job" THEN Ended ELSE "indexed"]
    /\ UNCHANGED <<lastRun, current, result, pins, follows, promotion, crashes>>

-----------------------------------------------------------------------------
(* Saved cases                                                             *)

\* pin_regression; a pin that exists is returned unchanged.
PinCase(r, c) ==
    LET pass  == result[r][c] = "pass"
        label == IF pass THEN "passing" ELSE "still_broken"
    IN
    /\ r \in index
    /\ result[r][c] # "absent"
    /\ Readable
    /\ <<r, c>> \notin DOMAIN pins
    /\ pins' = Entered(pins, <<r, c>>,
                       [originPass |-> pass, status |-> label, lastRunId |-> r,
                        evaluations |-> [n \in {r} |-> label]])
    /\ follows' = Entered(follows, <<r, c>>, <<>>)
    /\ UNCHANGED <<lastRun, current, result, ending, index, promotion, crashes>>

\* delete_regression
UnpinCase(k) ==
    /\ Readable
    /\ pins' = Restrict(pins, DOMAIN pins \ {k})
    /\ follows' = Restrict(follows, DOMAIN pins \ {k})
    /\ UNCHANGED <<lastRun, current, result, ending, index, promotion, crashes>>

-----------------------------------------------------------------------------
(* Promotion                                                               *)

LabelledBy(r) == {k \in DOMAIN pins : r \in DOMAIN pins[k].evaluations}

\* regression_suite_summary counts the labels that pins carry for this run.
Blocking(r) ==
    \E k \in LabelledBy(r) :
        pins[k].evaluations[r] \in {"still_broken", "reintroduced", "missing"}

\* accept_run refuses a run that pins block.  It reads them without pin_lock;
\* counted is history: the pins that had a label for this run.
CountLabels(q, r) ==
    /\ promotion[q] = Idle
    /\ r \in index
    /\ Readable
    /\ ~Blocking(r)
    /\ promotion' = [promotion EXCEPT ![q] =
                       [at |-> "counted", run |-> r, counted |-> LabelledBy(r)]]
    /\ UNCHANGED <<lastRun, current, result, ending, index, pins, follows, crashes>>

\* Only the run of the current revision can be promoted.
CheckCurrent(q) ==
    /\ promotion[q].at = "counted"
    /\ current = promotion[q].run
    /\ promotion' = [promotion EXCEPT ![q].at = "accepting"]
    /\ UNCHANGED <<lastRun, current, result, ending, index, pins, follows, crashes>>

\* The accepted revision, staged and copied meanwhile, replaces whatever is
\* current by now.
ReplacePointer(q) ==
    /\ promotion[q].at = "accepting"
    /\ current' = 0
    /\ promotion' = [promotion EXCEPT ![q] = Idle]
    /\ UNCHANGED <<lastRun, result, ending, index, pins, follows, crashes>>

\* The run is not current, or a file cannot be read or written.
AbandonPromotion(q) ==
    /\ promotion[q] # Idle
    /\ promotion' = [promotion EXCEPT ![q] = Idle]
    /\ UNCHANGED <<lastRun, current, result, ending, index, pins, follows, crashes>>

-----------------------------------------------------------------------------
(* The server                                                              *)

\* The server is killed; the next one finds every committed run.
CrashAndRestart ==
    /\ crashes < MaxCrashes
    /\ crashes' = crashes + 1
    /\ ending' = [r \in DOMAIN ending |-> [ending[r] EXCEPT !.at = Ended]]
    /\ index' = 1..lastRun
    /\ promotion' = [q \in Requests |-> Idle]
    /\ UNCHANGED <<lastRun, current, result, pins, follows>>

SuiteNext ==
    \/ \E kind \in Kinds, outcome \in [Cases -> {"pass", "fail", "absent"}] :
          Commit(kind, outcome)
    \/ \E r \in 1..lastRun : Refresh(r) \/ IndexRun(r)
    \/ \E r \in index, c \in Cases : PinCase(r, c)
    \/ \E k \in DOMAIN pins : UnpinCase(k)
    \/ \E q \in Requests, r \in index : CountLabels(q, r)
    \/ \E q \in Requests : CheckCurrent(q) \/ ReplacePointer(q) \/ AbandonPromotion(q)
    \/ CrashAndRestart

SuiteSpec == SuiteInit /\ [][SuiteNext]_suiteVars

-----------------------------------------------------------------------------
(* Properties                                                              *)

CaseOutcome == {"pass", "fail", "absent"}
LabelType   == {"passing", "fixed", "still_broken", "reintroduced", "missing"}
Ending      == [kind : Kinds, at : {"committed", "refreshed", "indexed", Ended}]
InFlight    == [at : {"counted", "accepting"}, run : 1..lastRun,
                counted : SUBSET ((1..lastRun) \X Cases)]

SuiteTypeOK ==
    /\ lastRun \in 0..MaxRuns
    /\ current \in 0..lastRun
    /\ result \in [1..lastRun -> [Cases -> CaseOutcome]]
    /\ ending \in [1..lastRun -> Ending]
    /\ index \subseteq 1..lastRun
    /\ DOMAIN pins \subseteq (1..lastRun) \X Cases
    /\ \A k \in DOMAIN pins :
          /\ pins[k].originPass \in BOOLEAN
          /\ pins[k].status \in LabelType
          /\ pins[k].lastRunId \in DOMAIN pins[k].evaluations
          /\ k[1] \in DOMAIN pins[k].evaluations
          /\ DOMAIN pins[k].evaluations \subseteq 1..lastRun
          /\ \A r \in DOMAIN pins[k].evaluations : pins[k].evaluations[r] \in LabelType
    /\ DOMAIN follows = DOMAIN pins
    /\ \A k \in DOMAIN pins : DOMAIN follows[k] \subseteq DOMAIN pins[k].evaluations
    /\ promotion \in [Requests -> {Idle} \cup InFlight]
    /\ crashes \in 0..MaxCrashes

\* A candidate becomes the baseline only if it passes every pinned case.
PromotionRespectsPins ==
    [][\A q \in Requests : ReplacePointer(q) =>
          \A k \in DOMAIN pins : result[promotion[q].run][k[2]] = "pass"]_suiteVars

\* The weaker promise that holds in every order of the handlers, across kills
\* and for cases pinned late: when a candidate becomes the baseline it passes
\* every pinned case whose label the request counted; and, if its comparison
\* was a job, every other pinned case that the comparison labelled.  No label
\* of a job can come between the count and the pointer, because a job is
\* indexed after its refresh and a restart refreshes nothing.  What may come
\* between is a pin made at the run itself, and the refresh of a synchronous
\* comparison.
PromotionRespectsLabels ==
    [][\A q \in Requests : ReplacePointer(q) =>
          LET r == promotion[q].run IN
          \A k \in LabelledBy(r) :
              k \in promotion[q].counted \/ (ending[r].kind = "job" /\ k[1] # r)
                 => result[r][k[2]] = "pass"]_suiteVars

\* The label that a run deserves whose refresh came after that of another.
HistoryLabel(k, r, before) ==
    LET passed(n) == result[n][k[2]] = "pass" IN
    CASE passed(r) -> IF passed(k[1]) THEN "passing" ELSE "fixed"
      [] result[r][k[2]] = "fail" ->
            IF passed(k[1]) \/ passed(before) THEN "reintroduced" ELSE "still_broken"
      [] OTHER -> "missing"

\* A label that a refresh gave says what the history of the case says:
\* reintroduced when the case passed where it was pinned or in the comparison
\* that labelled it before, whatever labels were stored since, whichever
\* comparisons labelled nothing, and in whatever order the refreshes of
\* comparisons that overlap came.
LabelsFollowHistory ==
    \A k \in DOMAIN pins : \A r \in DOMAIN follows[k] :
        pins[k].evaluations[r] = HistoryLabel(k, r, follows[k][r])

=============================================================================
