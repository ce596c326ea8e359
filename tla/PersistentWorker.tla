-------------------------- MODULE PersistentWorker --------------------------
(***************************************************************************)
(* One session of a persistent subprocess that answers every case of a     *)
(* dataset: a variant (run_persistent of the command adapter, which the    *)
(* Python adapter uses too) or an external evaluator                       *)
(* (run_persistent_batch).  ChildProcess is the process at the other end   *)
(* of the pipes.  A deadline is an action that may happen as soon as what  *)
(* it limits has not happened.                                             *)
(***************************************************************************)
EXTENDS ChildProcess

CONSTANT Roles  \* whom the process may work for

ASSUME RolesAssumption == Roles \subseteq {"variant", "evaluator"}

VARIABLES
    role,    \* whom the process works for
    at,      \* where the host is
    sent,    \* units of the current request written
    rows,    \* results of the cases so far
    trusted  \* no terminal failure, no row invalidated

host == <<at, sent, rows, trusted>>
vars == <<child, host, role>>

Init ==
    /\ NotStarted
    /\ role \in Roles
    /\ at = "spawn"
    /\ sent = 0
    /\ rows = <<>>
    /\ trusted = TRUE

Case == Len(rows) + 1

\* The case has its result, the session goes on.  An evaluator is probed for
\* extra output both before and after it has exited.
Record(row) ==
    /\ rows' = Append(rows, row)
    /\ at' = IF Case < NumCases THEN "writing"
             ELSE IF role = "evaluator" THEN "closing" ELSE "waiting"
    /\ sent' = 0
    /\ UNCHANGED trusted

\* Terminal failure: the later cases fail without being sent.
Abandon(row) ==
    /\ rows' = [c \in CaseNumbers |->
                  IF c < Case THEN rows[c] ELSE IF c = Case THEN row ELSE "error"]
    /\ at' = "waiting"
    /\ sent' = 0
    /\ trusted' = FALSE

\* What is learnt after the last case invalidates every row.
Invalidate ==
    /\ rows' = [c \in CaseNumbers |-> "error"]
    /\ trusted' = FALSE
    /\ UNCHANGED sent

Spawn ==
    /\ at = "spawn"
    /\ at' = "writing"
    /\ Started
    /\ UNCHANGED <<sent, rows, trusted>>

SpawnFails ==
    /\ at = "spawn"
    /\ at' = "done"
    /\ Invalidate
    /\ UNCHANGED child

\* No deadline limits a write.
WriteUnit ==
    /\ at = "writing"
    /\ Send(Case, sent + 1)
    /\ sent' = sent + 1
    /\ at' = IF sent' = RequestSize THEN "reading" ELSE "writing"
    /\ UNCHANGED <<rows, trusted>>

WriteFails ==
    /\ at = "writing"
    /\ ~StdinOpen
    /\ Abandon("error")
    /\ UNCHANGED child

\* Mutant: a stray line costs its own case only, for a variant too.
Forgives(line) == line \notin {Stray("oversize"), Stray("binary")}

\* A response that does not parse or match ends the session of a variant; an
\* evaluator is asked on.
Tolerated(line) ==
    /\ role = "evaluator"
    /\ line \notin {Stray("oversize"), Stray("binary")}

ReadAnswer ==
    /\ at = "reading"
    /\ LineReady
    /\ Head(stdout) = Answer(Case)
    /\ Record("answered")
    /\ Receive

ReadTolerated ==
    /\ at = "reading"
    /\ LineReady
    /\ Head(stdout) # Answer(Case)
    /\ Tolerated(Head(stdout))
    /\ Record("error")
    /\ Receive

ReadViolation ==
    /\ at = "reading"
    /\ LineReady
    /\ Head(stdout) # Answer(Case)
    /\ ~Tolerated(Head(stdout))
    /\ Abandon("error")
    /\ TerminateTree

ReadEnd ==
    /\ at = "reading"
    /\ stdout = <<>>
    /\ ~StdoutOpen
    /\ Abandon("error")
    /\ UNCHANGED child

\* Mutant: the deadline is armed for the first response only.
TimeoutOnce ==
    /\ at = "reading"
    /\ rows = <<>>
    /\ ~LineReady
    /\ StdoutOpen
    /\ Abandon("timeout")
    /\ TerminateTree

Timeout ==
    /\ at = "reading"
    /\ ~LineReady
    /\ StdoutOpen
    /\ Abandon("timeout")
    /\ TerminateTree

\* read_limited_line with a short deadline finds a line that is not blank, or
\* cannot read one.  What it has read of a line is lost when the deadline ends
\* it before the line does.
ExtraOutput == LineReady /\ Head(stdout) # Stray("blank")

ProbeBeforeExit ==
    /\ at = "closing"
    /\ IF ExtraOutput THEN Invalidate ELSE UNCHANGED <<sent, rows, trusted>>
    /\ at' = "waiting"
    /\ IF stdout = <<>> THEN UNCHANGED child ELSE Receive

\* stdin is closed; the process has exited, well or not.
WaitExit ==
    /\ at = "waiting"
    /\ Reap
    /\ IF trusted /\ exit # "success" THEN Invalidate ELSE UNCHANGED <<sent, rows, trusted>>
    /\ at' = IF trusted' THEN "probing" ELSE "cleanup"

\* The process ignores the end of its input.
WaitExpires ==
    /\ at = "waiting"
    /\ "parent" \in family
    /\ IF trusted THEN Invalidate ELSE UNCHANGED <<sent, rows, trusted>>
    /\ at' = "cleanup"
    /\ TerminateTree

\* Mutant: the last look at stdout is left out.
SkipProbe ==
    /\ at = "probing"
    /\ at' = "cleanup"
    /\ UNCHANGED <<child, sent, rows, trusted>>

ProbeAfterExit ==
    /\ at = "probing"
    /\ IF ExtraOutput THEN Invalidate ELSE UNCHANGED <<sent, rows, trusted>>
    /\ at' = "cleanup"
    /\ IF stdout = <<>> THEN UNCHANGED child ELSE Receive

\* Mutant: what is left of the group is left alone.
LeaveGroup ==
    /\ at = "cleanup"
    /\ at' = "done"
    /\ UNCHANGED <<child, sent, rows, trusted>>

\* terminate_remaining_process_tree
Cleanup ==
    /\ at = "cleanup"
    /\ at' = "done"
    /\ KillGroup
    /\ UNCHANGED <<sent, rows, trusted>>

HostStep ==
    \/ Spawn \/ SpawnFails \/ WriteUnit \/ WriteFails
    \/ ReadAnswer \/ ReadTolerated \/ ReadViolation \/ ReadEnd \/ Timeout
    \/ ProbeBeforeExit \/ WaitExit \/ WaitExpires \/ ProbeAfterExit \/ Cleanup

HostTurn  == HostStep /\ UNCHANGED role
ChildTurn == ChildStep /\ UNCHANGED <<host, role>>

Next == HostTurn \/ ChildTurn

Spec     == Init /\ [][Next]_vars
FairSpec == Spec /\ WF_vars(HostTurn)

-----------------------------------------------------------------------------
(* Properties                                                              *)

TypeOK ==
    /\ ChildTypeOK
    /\ role \in Roles
    /\ at \in {"spawn", "writing", "reading", "closing", "waiting", "probing", "cleanup", "done"}
    /\ sent \in 0..RequestSize
    /\ rows \in Seq({"answered", "timeout", "error"})
    /\ Len(rows) <= NumCases
    /\ at \in {"closing", "waiting", "probing", "cleanup", "done"} => Len(rows) = NumCases
    /\ trusted \in BOOLEAN

\* When a session is over no process of its group is alive, whatever the
\* process did and wherever the session failed.
NoSurvivors == at = "done" => family = {}

\* A variant that has left a case without a response that matches it is
\* believed in no later one.
FailureIsFinal ==
    role = "variant" =>
        \A c, d \in 1..Len(rows) : c < d /\ rows[d] = "answered" => rows[c] = "answered"

\* A session whose rows stand ended with the successful exit of a process
\* that wrote one line for each case and not one line more.
SessionIsExact ==
    at = "done" /\ trusted => exit = "success" /\ written = NumCases

\* Deadlines bound every session: it ends, whatever the process does.
SessionEnds == <>(at = "done")

=============================================================================
