---------------------------- MODULE ChildProcess ----------------------------
(***************************************************************************)
(* A subprocess that an adapter of StructTrace starts, with its pipes: the *)
(* part of PersistentWorker and PerCaseWorker that is not StructTrace's    *)
(* own code.  The process may do anything its pipes allow, in any order:   *)
(* it may read late or never, answer twice, write lines nobody asked for,  *)
(* start descendants that inherit its pipes, and ignore signals.  It       *)
(* cannot answer a request before it has read it, because the answer       *)
(* echoes the identity of the case that the request carries.               *)
(*                                                                         *)
(* Pipes hold whole units: a line of stdout is one unit, a request is      *)
(* RequestSize units, of which the last carries the number of its case.    *)
(***************************************************************************)
EXTENDS Naturals, Sequences, FiniteSets

CONSTANTS
    NumCases,     \* cases of the dataset
    RequestSize,  \* units of a request
    PipeSize,     \* units a pipe holds
    StrayLines,   \* kinds of line, other than answers, that it may write
    MaxWritten    \* bound on the lines that it writes

ASSUME ChildAssumption ==
    /\ NumCases \in Nat \ {0}
    /\ RequestSize \in Nat \ {0}
    /\ PipeSize \in Nat \ {0}
    /\ StrayLines \subseteq {"malformed", "blank", "oversize", "binary", "unterminated"}
    /\ MaxWritten \in Nat

VARIABLES
    family,   \* members of the process group that are alive
    exit,     \* how the started process ended, or "none"
    closed,   \* the pipes that it has closed
    stdin,    \* request units not yet read
    stdout,   \* lines not yet read
    received, \* cases whose request it has read
    written   \* lines it has written that are not blank

child == <<family, exit, closed, stdin, stdout, received, written>>

CaseNumbers == 1..NumCases
Answer(c)   == [answers |-> c]
Answers     == {Answer(c) : c \in CaseNumbers}
Stray(kind) == [stray |-> kind]
Strays      == {Stray(kind) : kind \in StrayLines}

StdinOpen  == family # {} /\ "stdin" \notin closed
StdoutOpen == family # {} /\ "stdout" \notin closed

\* The last output is text without an end of line.
Unterminated == stdout # <<>> /\ stdout[Len(stdout)] = Stray("unterminated")

\* A line can be read whole: it has its end of line, or the pipe its end.
LineReady ==
    /\ stdout # <<>>
    /\ Head(stdout) = Stray("unterminated") => ~StdoutOpen

NotStarted ==
    /\ family = {}
    /\ exit = "none"
    /\ closed = {}
    /\ stdin = <<>>
    /\ stdout = <<>>
    /\ received = {}
    /\ written = 0

Started ==
    /\ family' = {"parent"}
    /\ exit' = "none"
    /\ closed' = {}
    /\ stdin' = <<>>
    /\ stdout' = <<>>
    /\ received' = {}
    /\ written' = 0

-----------------------------------------------------------------------------
(* What the process does                                                   *)

ReadUnit ==
    /\ StdinOpen
    /\ stdin # <<>>
    /\ received' = received \cup ({Head(stdin)} \ {0})
    /\ stdin' = Tail(stdin)
    /\ UNCHANGED <<family, exit, closed, stdout, written>>

WriteLine(line) ==
    /\ StdoutOpen
    /\ Len(stdout) < PipeSize
    /\ written < MaxWritten
    /\ ~Unterminated
    /\ stdout' = Append(stdout, line)
    /\ written' = IF line = Stray("blank") THEN written ELSE written + 1
    /\ UNCHANGED <<family, exit, closed, stdin, received>>

ClosePipe(pipe) ==
    /\ family # {}
    /\ closed' = closed \cup {pipe}
    /\ UNCHANGED <<family, exit, stdin, stdout, received, written>>

StartDescendant ==
    /\ "parent" \in family
    /\ family' = family \cup {"descendant"}
    /\ UNCHANGED <<exit, closed, stdin, stdout, received, written>>

ExitParent(status) ==
    /\ "parent" \in family
    /\ family' = family \ {"parent"}
    /\ exit' = status
    /\ UNCHANGED <<closed, stdin, stdout, received, written>>

ExitDescendant ==
    /\ "descendant" \in family
    /\ family' = family \ {"descendant"}
    /\ UNCHANGED <<exit, closed, stdin, stdout, received, written>>

ChildStep ==
    \/ ReadUnit
    \/ \E line \in {Answer(c) : c \in received} \cup Strays : WriteLine(line)
    \/ \E pipe \in {"stdin", "stdout"} : ClosePipe(pipe)
    \/ StartDescendant
    \/ \E status \in {"success", "failure"} : ExitParent(status)
    \/ ExitDescendant

-----------------------------------------------------------------------------
(* What is done to the process                                             *)

\* A unit of a request goes into the pipe.
Send(c, unit) ==
    /\ StdinOpen
    /\ Len(stdin) < PipeSize
    /\ stdin' = Append(stdin, IF unit = RequestSize THEN c ELSE 0)
    /\ UNCHANGED <<family, exit, closed, stdout, received, written>>

Receive ==
    /\ stdout' = Tail(stdout)
    /\ UNCHANGED <<family, exit, closed, stdin, received, written>>

Ended(status) == IF status = "none" THEN "killed" ELSE status

\* SIGKILL to the process group, which nothing survives.
KillGroup ==
    /\ family' = {}
    /\ exit' = Ended(exit)
    /\ UNCHANGED <<closed, stdin, stdout, received, written>>

\* terminate_process_tree: SIGTERM to the group, and SIGKILL if the started
\* process, the only one that is waited for, has not exited by the grace.
TerminateTree ==
    /\ \E survivors \in SUBSET family :
          family' = IF "parent" \in survivors THEN {} ELSE survivors
    /\ exit' = Ended(exit)
    /\ UNCHANGED <<closed, stdin, stdout, received, written>>

\* wait_for_parent_exit sees the started process gone and kills its group.
Reap ==
    /\ "parent" \notin family
    /\ KillGroup

ChildTypeOK ==
    /\ family \subseteq {"parent", "descendant"}
    /\ exit \in {"none", "success", "failure", "killed"}
    /\ closed \subseteq {"stdin", "stdout"}
    /\ stdin \in Seq(0..NumCases) /\ Len(stdin) <= PipeSize
    /\ stdout \in Seq(Answers \cup Strays) /\ Len(stdout) <= PipeSize
    /\ received \subseteq CaseNumbers
    /\ written \in 0..MaxWritten

=============================================================================
