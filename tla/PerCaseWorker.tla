--------------------------- MODULE PerCaseWorker ----------------------------
(***************************************************************************)
(* The command adapter in per-case mode (run_per_case): a process of its   *)
(* own for every case, which is sent its request, is waited for under a    *)
(* deadline while tasks drain its output, and whose group is killed before *)
(* the output is judged.  ChildProcess is the process.                     *)
(***************************************************************************)
EXTENDS ChildProcess

CONSTANT OutputLimit  \* lines of output that are retained

ASSUME LimitAssumption == OutputLimit \in Nat \ {0}

VARIABLES
    at,         \* where the host is
    sent,       \* units of the request written
    rows,       \* results of the cases so far
    drained,    \* lines that the stdout task has retained
    overflowed, \* there were more
    outcome     \* what the wait for the process returned

host == <<at, sent, rows, drained, overflowed, outcome>>
vars == <<child, host>>

Init ==
    /\ NotStarted
    /\ at = "spawn"
    /\ sent = 0
    /\ rows = <<>>
    /\ drained = <<>>
    /\ overflowed = FALSE
    /\ outcome = "none"

Case == Len(rows) + 1

Record(row) ==
    /\ rows' = Append(rows, row)
    /\ at' = IF Case < NumCases THEN "spawn" ELSE "done"

Spawn ==
    /\ at = "spawn"
    /\ at' = "writing"
    /\ Started
    /\ sent' = 0
    /\ drained' = <<>>
    /\ overflowed' = FALSE
    /\ outcome' = "none"
    /\ UNCHANGED rows

SpawnFails ==
    /\ at = "spawn"
    /\ Record("error")
    /\ UNCHANGED <<child, sent, drained, overflowed, outcome>>

\* The whole request is written before stdout is drained and before the
\* deadline begins.
WriteUnit ==
    /\ at = "writing"
    /\ Send(Case, sent + 1)
    /\ sent' = sent + 1
    /\ at' = IF sent' = RequestSize THEN "waiting" ELSE "writing"
    /\ UNCHANGED <<rows, drained, overflowed, outcome>>

\* terminate_process_tree, and on to the next case.
WriteFails ==
    /\ at = "writing"
    /\ ~StdinOpen
    /\ Record("error")
    /\ TerminateTree
    /\ UNCHANGED <<sent, drained, overflowed, outcome>>

\* drain_bounded reads to the end and retains what fits.
DrainLine ==
    /\ at \in {"waiting", "joining"}
    /\ stdout # <<>>
    /\ Receive
    /\ IF Len(drained) < OutputLimit
       THEN drained' = Append(drained, Head(stdout)) /\ UNCHANGED overflowed
       ELSE overflowed' = TRUE /\ UNCHANGED drained
    /\ UNCHANGED <<at, sent, rows, outcome>>

WaitExit ==
    /\ at = "waiting"
    /\ Reap
    /\ outcome' = exit
    /\ at' = "killing"
    /\ UNCHANGED <<sent, rows, drained, overflowed>>

\* Mutant: output holds the deadline off.
TimeoutIfSilent ==
    /\ at = "waiting"
    /\ "parent" \in family
    /\ drained = <<>>
    /\ TerminateTree
    /\ outcome' = "timeout"
    /\ at' = "killing"
    /\ UNCHANGED <<sent, rows, drained, overflowed>>

Timeout ==
    /\ at = "waiting"
    /\ "parent" \in family
    /\ TerminateTree
    /\ outcome' = "timeout"
    /\ at' = "killing"
    /\ UNCHANGED <<sent, rows, drained, overflowed>>

\* Mutant: the descendants of a process that has ended are left alone.
LeaveGroup ==
    /\ at = "killing"
    /\ at' = "joining"
    /\ UNCHANGED <<child, sent, rows, drained, overflowed, outcome>>

\* terminate_remaining_process_tree
Kill ==
    /\ at = "killing"
    /\ KillGroup
    /\ at' = "joining"
    /\ UNCHANGED <<sent, rows, drained, overflowed, outcome>>

\* The lines that are not blank.
NonBlank(lines) == {i \in DOMAIN lines : lines[i] # Stray("blank")}

\* The row of a process whose output is complete: one line that is not blank,
\* and that line the answer.
Row(lines) ==
    IF outcome = "timeout" THEN "timeout"
    ELSE IF /\ outcome = "success"
            /\ ~overflowed
            /\ \E i \in DOMAIN lines : NonBlank(lines) = {i} /\ lines[i] = Answer(Case)
    THEN "answered"
    ELSE "error"

\* The stdout task has read to the end of the pipe.
Judge ==
    /\ at = "joining"
    /\ stdout = <<>>
    /\ ~StdoutOpen
    /\ Record(Row(drained))
    /\ UNCHANGED <<child, sent, drained, overflowed, outcome>>

\* The stdout task misses its deadline and is aborted.
JoinExpires ==
    /\ at = "joining"
    /\ stdout # <<>> \/ StdoutOpen
    /\ Record(IF outcome = "timeout" THEN "timeout" ELSE "error")
    /\ UNCHANGED <<child, sent, drained, overflowed, outcome>>

HostStep ==
    \/ Spawn \/ SpawnFails \/ WriteUnit \/ WriteFails \/ DrainLine
    \/ WaitExit \/ Timeout \/ Kill \/ Judge \/ JoinExpires

Next == HostStep \/ (ChildStep /\ UNCHANGED host)

Spec == Init /\ [][Next]_vars

\* A deadline ends what waits for it however much output there is to drain.
FairSpec ==
    /\ Spec
    /\ WF_vars(Spawn) /\ WF_vars(WriteUnit) /\ WF_vars(WriteFails)
    /\ WF_vars(WaitExit \/ Timeout)
    /\ WF_vars(Kill)
    /\ WF_vars(Judge \/ JoinExpires)

-----------------------------------------------------------------------------
(* Properties                                                              *)

TypeOK ==
    /\ ChildTypeOK
    /\ at \in {"spawn", "writing", "waiting", "killing", "joining", "done"}
    /\ sent \in 0..RequestSize
    /\ rows \in Seq({"answered", "timeout", "error"})
    /\ Len(rows) <= NumCases
    /\ drained \in Seq(Answers \cup Strays) /\ Len(drained) <= OutputLimit
    /\ overflowed \in BOOLEAN
    /\ outcome \in {"none", "timeout", "success", "failure", "killed"}

\* No process outlives its case, whatever it starts and when, and however its
\* case ends; except that, of a process which could not be sent its request, a
\* descendant that ignores SIGTERM is left behind.  A response is taken only from
\* a process that exited successfully and wrote one line and no more, when nobody
\* is left in its group to write another.
CasesAreSeparate ==
    [][Len(rows') > Len(rows) /\ at # "spawn" =>
          /\ "parent" \notin family'
          /\ at = "writing" \/ family' = {}
          /\ rows'[Len(rows')] = "answered" =>
                written = 1 /\ exit = "success" /\ family = {}]_vars

\* Deadlines bound every case.
RunEnds == <>(at = "done")

=============================================================================
