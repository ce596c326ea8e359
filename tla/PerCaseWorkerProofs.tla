------------------------ MODULE PerCaseWorkerProofs -------------------------
(***************************************************************************)
(* Proofs about PerCaseWorker, for datasets, requests, pipes and limits of *)
(* any size and whatever the processes do: the variables keep their types, *)
(* a response is taken only from a process that wrote nothing else, exited *)
(* successfully and left nobody, and no process outlives its case, however *)
(* it ends, but for descendants of one that could not be sent its request. *)
(***************************************************************************)
EXTENDS PerCaseWorker, FiniteSetTheorems, SequenceTheorems, TLAPS

Lines == Answers \cup Strays

-----------------------------------------------------------------------------
(* Types                                                                   *)

Stages   == {"spawn", "writing", "waiting", "killing", "joining", "done"}
Statuses == {"answered", "timeout", "error"}

\* The types, and that there is room for another row, and for another unit of
\* the request, while one is to come.
Typed ==
    /\ family \subseteq {"parent", "descendant"}
    /\ exit \in {"none", "success", "failure", "killed"}
    /\ closed \subseteq {"stdin", "stdout"}
    /\ stdin \in Seq(0..NumCases) /\ Len(stdin) <= PipeSize
    /\ stdout \in Seq(Lines) /\ Len(stdout) <= PipeSize
    /\ received \subseteq CaseNumbers
    /\ written \in 0..MaxWritten
    /\ at \in Stages
    /\ sent \in 0..RequestSize
    /\ rows \in Seq(Statuses) /\ Len(rows) <= NumCases
    /\ at # "done" => Len(rows) < NumCases
    /\ at = "done" => Len(rows) = NumCases
    /\ at = "writing" => sent < RequestSize
    /\ drained \in Seq(Lines) /\ Len(drained) <= OutputLimit
    /\ overflowed \in BOOLEAN
    /\ outcome \in {"none", "timeout", "success", "failure", "killed"}

\* The invariant implies the type invariant of the module.
LEMMA TypedIsTyped == Typed => TypeOK /\ (at = "done" => Len(rows) = NumCases)
BY DEF Typed, TypeOK, ChildTypeOK, Lines, Stages, Statuses

\* The variables start with their types.
LEMMA TypedInitially == Init => Typed
<1> SUFFICES ASSUME Init PROVE Typed
    OBVIOUS
<1>1. stdin \in Seq(0..NumCases) /\ stdout \in Seq(Lines) /\ rows \in Seq(Statuses)
      /\ drained \in Seq(Lines)
      /\ Len(stdin) = 0 /\ Len(stdout) = 0 /\ Len(rows) = 0 /\ Len(drained) = 0
  BY DEF Init, NotStarted
<1>2. overflowed \in BOOLEAN
  BY DEF Init
<1> QED
  BY <1>1, <1>2, ChildAssumption, LimitAssumption DEF Init, NotStarted, Typed, Stages

\* What the process does keeps the types of its pipes.
LEMMA ChildKeepsTyped ==
  ASSUME Typed, ChildStep, UNCHANGED host
  PROVE  Typed'
<1> USE ChildAssumption DEF Typed, host
<1>1. CASE ReadUnit
  <2>1. /\ Head(stdin) \in 0..NumCases
        /\ stdin' \in Seq(0..NumCases) /\ Len(stdin') <= PipeSize
    BY <1>1 DEF ReadUnit
  <2>2. ASSUME NEW c \in received' PROVE c \in CaseNumbers
    <3>1. c \in received \/ (c = Head(stdin) /\ c # 0)
      BY <1>1, <2>2 DEF ReadUnit
    <3>2. (c = Head(stdin) /\ c # 0) => c \in CaseNumbers
      BY <2>1 DEF CaseNumbers
    <3> QED
      BY <3>1, <3>2
  <2> QED
    BY <1>1, <2>1, <2>2 DEF ReadUnit
<1>2. CASE \E line \in {Answer(c) : c \in received} \cup Strays : WriteLine(line)
  <2>1. PICK line \in {Answer(c) : c \in received} \cup Strays : WriteLine(line)
    BY <1>2
  <2>2. line \in Lines
    BY <2>1 DEF Lines, Answers
  <2>3. stdout' \in Seq(Lines) /\ Len(stdout') <= PipeSize /\ written' \in 0..MaxWritten
    BY <2>1, <2>2 DEF WriteLine
  <2> QED
    BY <2>1, <2>3 DEF WriteLine
<1>3. CASE \E pipe \in {"stdin", "stdout"} : ClosePipe(pipe)
  BY <1>3 DEF ClosePipe
<1>4. CASE StartDescendant
  BY <1>4 DEF StartDescendant
<1>5. CASE \E status \in {"success", "failure"} : ExitParent(status)
  BY <1>5 DEF ExitParent
<1>6. CASE ExitDescendant
  BY <1>6 DEF ExitDescendant
<1> QED
  BY <1>1, <1>2, <1>3, <1>4, <1>5, <1>6 DEF ChildStep

\* Writing a row keeps the types.
LEMMA RecordTyped ==
  ASSUME Typed, at # "done", NEW row \in Statuses, Record(row)
  PROVE  /\ at' \in {"spawn", "done"}
         /\ rows' \in Seq(Statuses) /\ Len(rows') = Len(rows) + 1 /\ Len(rows') <= NumCases
         /\ at' # "done" => Len(rows') < NumCases
         /\ at' = "done" => Len(rows') = NumCases
<1>1. rows \in Seq(Statuses) /\ Len(rows) \in Nat /\ Len(rows) < NumCases
  BY DEF Typed
<1>2. rows' \in Seq(Statuses) /\ Len(rows') = Len(rows) + 1
  BY <1>1 DEF Record
<1> QED
  BY <1>1, <1>2, ChildAssumption DEF Record, Case

\* A row is one of the statuses.
LEMMA RowIsStatus == ASSUME NEW lines PROVE Row(lines) \in Statuses
BY DEF Row, Statuses

\* Every step of the host keeps the types.
LEMMA HostKeepsTyped ==
  ASSUME Typed, HostStep
  PROVE  Typed'
<1> USE ChildAssumption, LimitAssumption DEF Stages
<1>1. CASE Spawn
  <2>1. /\ stdin' \in Seq(0..NumCases) /\ stdout' \in Seq(Lines) /\ drained' \in Seq(Lines)
        /\ Len(stdin') = 0 /\ Len(stdout') = 0 /\ Len(drained') = 0
    BY <1>1 DEF Spawn, Started
  <2>2. overflowed' \in BOOLEAN
    BY <1>1 DEF Spawn
  <2> QED
    BY <1>1, <2>1, <2>2 DEF Spawn, Started, Typed
<1>2. CASE SpawnFails
  <2>1. at # "done" /\ Record("error") /\ "error" \in Statuses
    BY <1>2 DEF SpawnFails, Statuses
  <2> QED
    BY <1>2, <2>1, RecordTyped DEF SpawnFails, Typed, child
<1>3. CASE WriteUnit
  <2>1. Case \in 1..NumCases
    BY <1>3 DEF WriteUnit, Typed, Case
  <2>2. (IF sent + 1 = RequestSize THEN Case ELSE 0) \in 0..NumCases
    BY <2>1
  <2>3. stdin' \in Seq(0..NumCases) /\ Len(stdin') <= PipeSize
    BY <1>3, <2>2 DEF WriteUnit, Send, Typed
  <2> QED
    BY <1>3, <2>3 DEF WriteUnit, Send, Typed
<1>4. CASE WriteFails
  <2>1. at # "done" /\ Record("error") /\ "error" \in Statuses
    BY <1>4 DEF WriteFails, Statuses
  <2> QED
    BY <1>4, <2>1, RecordTyped DEF WriteFails, Typed, TerminateTree, Ended
<1>5. CASE DrainLine
  <2>1. Head(stdout) \in Lines /\ stdout' \in Seq(Lines) /\ Len(stdout') <= PipeSize
    BY <1>5 DEF DrainLine, Receive, Typed
  <2>2. drained' \in Seq(Lines) /\ Len(drained') <= OutputLimit /\ overflowed' \in BOOLEAN
    <3>1. /\ drained \in Seq(Lines) /\ Len(drained) \in Nat /\ Len(drained) <= OutputLimit
          /\ overflowed \in BOOLEAN
      BY DEF Typed
    <3>2. CASE Len(drained) < OutputLimit
      BY <1>5, <2>1, <3>1, <3>2 DEF DrainLine
    <3>3. CASE ~(Len(drained) < OutputLimit)
      BY <1>5, <3>1, <3>3 DEF DrainLine
    <3> QED
      BY <3>2, <3>3
  <2> QED
    BY <1>5, <2>1, <2>2 DEF DrainLine, Receive, Typed
<1>6. CASE WaitExit
  <2>1. exit' \in {"success", "failure", "killed"}
    BY <1>6 DEF WaitExit, Reap, KillGroup, Ended, Typed
  <2> QED
    BY <1>6, <2>1 DEF WaitExit, Reap, KillGroup, Typed
<1>7. CASE Timeout
  BY <1>7 DEF Timeout, TerminateTree, Ended, Typed
<1>8. CASE Kill
  BY <1>8 DEF Kill, KillGroup, Ended, Typed
<1>9. CASE Judge
  <2>1. at # "done" /\ Record(Row(drained)) /\ Row(drained) \in Statuses
    BY <1>9, RowIsStatus DEF Judge
  <2> QED
    BY <1>9, <2>1, RecordTyped DEF Judge, Typed, child
<1>10. CASE JoinExpires
  <2>1. PICK row \in Statuses : at # "done" /\ Record(row)
    BY <1>10 DEF JoinExpires, Statuses
  <2> QED
    BY <1>10, <2>1, RecordTyped DEF JoinExpires, Typed, child
<1> QED
  BY <1>1, <1>2, <1>3, <1>4, <1>5, <1>6, <1>7, <1>8, <1>9, <1>10 DEF HostStep

\* So does every step.
LEMMA TypedStep == Typed /\ [Next]_vars => Typed'
<1> SUFFICES ASSUME Typed, [Next]_vars PROVE Typed'
    OBVIOUS
<1>1. CASE UNCHANGED vars
  BY <1>1 DEF Typed, vars, child, host
<1> QED
  BY <1>1, ChildKeepsTyped, HostKeepsTyped DEF Next

\* The variables keep their types: no case has two rows, and there is a row for
\* every case when the loop of run_per_case ends.
THEOREM TypeCorrect == Spec => [](TypeOK /\ (at = "done" => Len(rows) = NumCases))
<1>1. Spec => []Typed
  BY TypedInitially, TypedStep, PTL DEF Spec
<1>2. QED
  BY <1>1, TypedIsTyped, PTL

-----------------------------------------------------------------------------
(* The lines that are not blank                                            *)

\* The non-blank lines of an output are some of finitely many.
LEMMA NonBlankCounted ==
  ASSUME NEW lines \in Seq(Lines)
  PROVE  IsFiniteSet(NonBlank(lines)) /\ NonBlank(lines) \subseteq 1..Len(lines)
<1>1. NonBlank(lines) \subseteq 1..Len(lines)
  BY DEF NonBlank
<1>2. IsFiniteSet(1..Len(lines))
  BY FS_Interval
<1> QED
  BY <1>1, <1>2, FS_Subset

\* One more line counts unless it is blank.
LEMMA NonBlankAppended ==
  ASSUME NEW lines \in Seq(Lines), NEW line \in Lines
  PROVE  Cardinality(NonBlank(Append(lines, line)))
           = IF line = Stray("blank") THEN Cardinality(NonBlank(lines))
             ELSE Cardinality(NonBlank(lines)) + 1
<1> DEFINE n == Len(lines) + 1
<1>1. n \in Nat /\ DOMAIN lines = 1..(n - 1) /\ DOMAIN Append(lines, line) = 1..n
  OBVIOUS
<1>2. /\ \A i \in 1..(n - 1) : Append(lines, line)[i] = lines[i]
      /\ Append(lines, line)[n] = line
  OBVIOUS
<1>3. IsFiniteSet(NonBlank(lines)) /\ n \notin NonBlank(lines)
  BY <1>1, NonBlankCounted DEF NonBlank
<1> HIDE DEF n
<1>4. CASE line = Stray("blank")
  <2>1. NonBlank(Append(lines, line)) = NonBlank(lines)
    BY <1>1, <1>2, <1>4 DEF NonBlank
  <2> QED
    BY <1>4, <2>1
<1>5. CASE line # Stray("blank")
  <2>1. NonBlank(Append(lines, line)) = NonBlank(lines) \cup {n}
    BY <1>1, <1>2, <1>5 DEF NonBlank
  <2> QED
    BY <1>3, <1>5, <2>1, FS_AddElement
<1> QED
  BY <1>4, <1>5

\* Output that is moved from the pipe to what is drained stays the same output.
LEMMA OutputMoved ==
  ASSUME NEW S, NEW front \in Seq(S), NEW back \in Seq(S), back # <<>>
  PROVE  Append(front, Head(back)) \o Tail(back) = front \o back
OBVIOUS

\* To append to what is still in the pipe is to append to all of the output.
LEMMA OutputAppended ==
  ASSUME NEW S, NEW front \in Seq(S), NEW back \in Seq(S), NEW e \in S
  PROVE  front \o Append(back, e) = Append(front \o back, e)
OBVIOUS

-----------------------------------------------------------------------------
(* A response is the only thing its process wrote                          *)

Output == drained \o stdout

\* Every line is counted that was not dropped; once the wait for the process
\* has ended it is gone, with the status that the wait returned, and once its
\* group has been killed nobody is left.
Exact ==
    /\ ~overflowed => written = Cardinality(NonBlank(Output))
    /\ at \in {"killing", "joining"} => "parent" \notin family
    /\ at \in {"killing", "joining"} /\ outcome = "success" => exit = "success"
    /\ at = "joining" => family = {}

\* Nothing is counted before the first request.
LEMMA ExactInitially == Init => Exact
<1> SUFFICES ASSUME Init PROVE Exact
    OBVIOUS
<1>1. Output = <<>> /\ NonBlank(<<>>) = {}
  BY DEF Init, NotStarted, Output, NonBlank
<1> QED
  BY <1>1, FS_EmptySet DEF Init, NotStarted, Exact

\* What may change in the group of a process, and what it is that writes.
LEMMA ChildEffect ==
  ASSUME ChildStep
  PROVE  /\ "parent" \notin family => "parent" \notin family' /\ exit' = exit
         /\ family = {} => family' = {}
         /\ \/ UNCHANGED written /\ UNCHANGED stdout
            \/ \E line \in {Answer(c) : c \in received} \cup Strays : WriteLine(line)
BY DEF ChildStep, ReadUnit, WriteLine, ClosePipe, StartDescendant, ExitParent, ExitDescendant,
       StdinOpen, StdoutOpen

\* What the child does keeps the count of lines exact.
LEMMA ChildKeepsExact ==
  ASSUME Typed, Exact, ChildStep, UNCHANGED host
  PROVE  Exact'
<1>1. ~overflowed' => written' = Cardinality(NonBlank(Output))'
  <2> SUFFICES ASSUME ~overflowed PROVE written' = Cardinality(NonBlank(Output'))
      BY DEF host
  <2>0. drained' = drained /\ written = Cardinality(NonBlank(Output))
    BY DEF host, Exact
  <2>1. CASE UNCHANGED written /\ UNCHANGED stdout
    BY <2>0, <2>1 DEF Output
  <2>2. CASE \E line \in {Answer(c) : c \in received} \cup Strays : WriteLine(line)
    <3>1. PICK line \in {Answer(c) : c \in received} \cup Strays : WriteLine(line)
      BY <2>2
    <3>2. line \in Lines
      BY <3>1 DEF Lines, Answers, Typed
    <3>3. drained \in Seq(Lines) /\ stdout \in Seq(Lines) /\ Output \in Seq(Lines)
      BY DEF Typed, Output
    <3>4. Output' = Append(Output, line)
      BY <2>0, <3>1, <3>2, <3>3, OutputAppended DEF WriteLine, Output
    <3> QED
      BY <2>0, <3>1, <3>2, <3>3, <3>4, NonBlankAppended DEF WriteLine
  <2> QED
    BY <2>1, <2>2, ChildEffect
<1> QED
  BY <1>1, ChildEffect DEF Exact, host

\* What the host does keeps it exact.
LEMMA HostKeepsExact ==
  ASSUME Typed, Exact, HostStep
  PROVE  Exact'
<1>1. CASE Spawn
  <2>1. Output' = <<>> /\ NonBlank(<<>>) = {}
    BY <1>1 DEF Spawn, Started, Output, NonBlank
  <2> QED
    BY <1>1, <2>1, FS_EmptySet DEF Spawn, Started, Exact
<1>2. CASE SpawnFails \/ WriteFails \/ Judge \/ JoinExpires
  <2>1. /\ at' \in {"spawn", "done"}
        /\ UNCHANGED <<written, stdout, drained, overflowed>>
    BY <1>2 DEF SpawnFails, WriteFails, Judge, JoinExpires, Record, TerminateTree, child
  <2> QED
    BY <2>1 DEF Exact, Output
<1>3. CASE WriteUnit
  BY <1>3 DEF WriteUnit, Send, Exact, Output
<1>4. CASE DrainLine
  <2>1. /\ drained \in Seq(Lines) /\ stdout \in Seq(Lines) /\ stdout # <<>>
    BY <1>4 DEF DrainLine, Typed
  <2>2. ~overflowed' => ~overflowed /\ Output' = Output
    BY <1>4, <2>1, OutputMoved DEF DrainLine, Receive, Output
  <2> QED
    BY <1>4, <2>2 DEF DrainLine, Receive, Exact
<1>5. CASE WaitExit
  BY <1>5 DEF WaitExit, Reap, KillGroup, Ended, Exact, Output
<1>6. CASE Timeout
  BY <1>6 DEF Timeout, TerminateTree, Exact, Output
<1>7. CASE Kill
  BY <1>7 DEF Kill, KillGroup, Ended, Exact, Output
<1> QED
  BY <1>1, <1>2, <1>3, <1>4, <1>5, <1>6, <1>7 DEF HostStep

\* Every step keeps it exact.
LEMMA ExactStep == Typed /\ Exact /\ [Next]_vars => Exact'
<1> SUFFICES ASSUME Typed, Exact, [Next]_vars PROVE Exact'
    OBVIOUS
<1>1. CASE UNCHANGED vars
  BY <1>1 DEF Exact, Output, vars, child, host
<1> QED
  BY <1>1, ChildKeepsExact, HostKeepsExact DEF Next

\* A row is added for a case whose process was started.
Finished == Len(rows') > Len(rows) /\ at # "spawn"
Accepted == rows'[Len(rows')] = "answered"
OnlyWord == written = 1 /\ exit = "success" /\ family = {}

\* Three steps finish a case, and only Judge accepts a response.
LEMMA WhatFinishes ==
  ASSUME Typed, [Next]_vars, Finished
  PROVE  /\ WriteFails \/ Judge \/ JoinExpires
         /\ Accepted => Judge /\ Row(drained) = "answered"
<1>1. rows \in Seq(Statuses) /\ Len(rows) \in Nat
  BY DEF Typed
<1>2. rows' # rows /\ at # "spawn"
  BY <1>1 DEF Finished
<1>3. ASSUME NEW row, Record(row) PROVE rows'[Len(rows')] = row
  BY <1>1, <1>3 DEF Record
<1>4. WriteFails \/ Judge \/ JoinExpires
  BY <1>2 DEF Next, HostStep, vars, host, Spawn, SpawnFails, WriteUnit, DrainLine, WaitExit,
              Timeout, Kill
<1> QED
  BY <1>3, <1>4 DEF WriteFails, Judge, JoinExpires, Accepted

\* An accepted response is the only line that is not blank.
LEMMA AcceptedIsOnlyWord ==
  ASSUME Typed, Exact, [Next]_vars, Finished, Accepted
  PROVE  OnlyWord
<1>1. Judge /\ Row(drained) = "answered"
  BY WhatFinishes
<1>2. /\ outcome = "success" /\ ~overflowed
      /\ \E i \in DOMAIN drained : NonBlank(drained) = {i} /\ drained[i] = Answer(Case)
  BY <1>1 DEF Row
<1>3. Output = drained
  BY <1>1 DEF Judge, Output, Typed
<1>4. Cardinality(NonBlank(Output)) = 1
  BY <1>2, <1>3, FS_Singleton
<1> QED
  BY <1>1, <1>2, <1>4 DEF Exact, OnlyWord, Judge

\* Whoever is left of a finished case is a descendant of a process that could
\* not be sent its request.
LEMMA NobodyElseIsLeft ==
  ASSUME Typed, Exact, [Next]_vars, Finished
  PROVE  "parent" \notin family' /\ (at = "writing" \/ family' = {})
<1>1. CASE WriteFails
  BY <1>1 DEF WriteFails, TerminateTree
<1>2. CASE Judge \/ JoinExpires
  BY <1>2 DEF Judge, JoinExpires, Exact, child
<1> QED
  BY <1>1, <1>2, WhatFinishes

\* CasesAreSeparate, for any process: on every way out of run_per_case's loop but
\* one its group is gone; on that one, a request that could not be written, the
\* process is gone; and a response that is taken is its only word.
THEOREM CasesSeparated == Spec => CasesAreSeparate
<1>1. Spec => [](Typed /\ Exact)
  BY TypedInitially, ExactInitially, TypedStep, ExactStep, PTL DEF Spec
<1>2. Typed /\ Exact /\ [Next]_vars =>
         [Len(rows') > Len(rows) /\ at # "spawn" =>
            /\ "parent" \notin family'
            /\ at = "writing" \/ family' = {}
            /\ rows'[Len(rows')] = "answered" =>
                  written = 1 /\ exit = "success" /\ family = {}]_vars
  BY AcceptedIsOnlyWord, NobodyElseIsLeft DEF Finished, Accepted, OnlyWord
<1> QED
  BY <1>1, <1>2, PTL DEF Spec, CasesAreSeparate

=============================================================================
