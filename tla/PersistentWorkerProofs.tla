----------------------- MODULE PersistentWorkerProofs -----------------------
(***************************************************************************)
(* Proofs about PersistentWorker, for datasets, requests and pipes of any  *)
(* size and whatever the process does: the variables keep their types, a   *)
(* session leaves no process of its group alive, a variant that has failed *)
(* is not believed again, and a session whose rows stand was exact.        *)
(***************************************************************************)
EXTENDS PersistentWorker, TLAPS

Statuses == {"answered", "timeout", "error"}

LEMMA InitTyped == Init => TypeOK
<1> SUFFICES ASSUME Init PROVE TypeOK
    OBVIOUS
<1> USE ChildAssumption DEF Init, NotStarted
<1>1. ChildTypeOK
  BY DEF ChildTypeOK
<1>2. rows \in Seq(Statuses) /\ Len(rows) = 0
  BY DEF Statuses
<1> QED
  BY <1>1, <1>2 DEF TypeOK, Statuses

\* What the process does keeps the types of its pipes.
LEMMA ChildTyped == ChildTypeOK /\ ChildStep => ChildTypeOK'
<1> SUFFICES ASSUME ChildTypeOK, ChildStep PROVE ChildTypeOK'
    OBVIOUS
<1> USE ChildAssumption DEF ChildTypeOK
<1>1. CASE ReadUnit
  <2>1. Head(stdin) \in 0..NumCases
    BY <1>1 DEF ReadUnit
  <2>2. stdin' \in Seq(0..NumCases) /\ Len(stdin') <= PipeSize
    BY <1>1 DEF ReadUnit
  <2>3. received' \subseteq CaseNumbers
    <3> SUFFICES ASSUME NEW c \in received' PROVE c \in CaseNumbers
        OBVIOUS
    <3>1. c \in received \/ (c = Head(stdin) /\ c # 0)
      BY <1>1 DEF ReadUnit
    <3>2. c \in received => c \in CaseNumbers
      OBVIOUS
    <3>3. (c = Head(stdin) /\ c # 0) => c \in CaseNumbers
      BY <2>1 DEF CaseNumbers
    <3> QED
      BY <3>1, <3>2, <3>3
  <2> QED
    BY <1>1, <2>2, <2>3 DEF ReadUnit
<1>2. CASE \E line \in {Answer(c) : c \in received} \cup Strays : WriteLine(line)
  <2>0. PICK line \in {Answer(c) : c \in received} \cup Strays : WriteLine(line)
    BY <1>2
  <2>1. line \in Answers \cup Strays
    BY <2>0 DEF Answers
  <2>2. stdout' \in Seq(Answers \cup Strays) /\ Len(stdout') <= PipeSize
    BY <2>0, <2>1 DEF WriteLine
  <2>3. written' \in 0..MaxWritten
    BY <2>0 DEF WriteLine
  <2> QED
    BY <2>0, <2>2, <2>3 DEF WriteLine
<1>3. CASE \E pipe \in {"stdin", "stdout"} : ClosePipe(pipe)
  BY <1>3 DEF ClosePipe
<1>4. CASE StartDescendant
  BY <1>4 DEF StartDescendant
<1>5. CASE \E status \in {"success", "failure"} : ExitParent(status)
  BY <1>5 DEF ExitParent
<1>6. CASE ExitDescendant
  BY <1>6 DEF ExitDescendant
<1> QED
  BY <1>1, <1>2, <1>3, <1>4, <1>5, <1>6 DEF ChildStep

\* So does what is done to it.
LEMMA StartedTyped == Started => ChildTypeOK'
<1> SUFFICES ASSUME Started PROVE ChildTypeOK'
    OBVIOUS
<1> QED
  BY ChildAssumption DEF ChildTypeOK, Started

LEMMA SendTyped ==
  ASSUME ChildTypeOK, NEW c \in CaseNumbers, NEW unit, Send(c, unit)
  PROVE  ChildTypeOK'
<1> USE ChildAssumption DEF ChildTypeOK
<1>1. (IF unit = RequestSize THEN c ELSE 0) \in 0..NumCases
  BY DEF CaseNumbers
<1>2. stdin' \in Seq(0..NumCases) /\ Len(stdin') <= PipeSize
  BY <1>1 DEF Send
<1> QED
  BY <1>2 DEF Send

LEMMA ReceiveTyped ==
  ASSUME ChildTypeOK, stdout # <<>>, Receive
  PROVE  ChildTypeOK'
<1>1. stdout' \in Seq(Answers \cup Strays) /\ Len(stdout') <= PipeSize
  BY ChildAssumption DEF ChildTypeOK, Receive
<1> QED
  BY <1>1 DEF ChildTypeOK, Receive

LEMMA KillTyped == ChildTypeOK /\ (KillGroup \/ TerminateTree) => ChildTypeOK'
BY DEF ChildTypeOK, KillGroup, TerminateTree, Ended

LEMMA IdleTyped == ChildTypeOK /\ UNCHANGED child => ChildTypeOK'
BY DEF ChildTypeOK, child

-----------------------------------------------------------------------------
(* What the host keeps                                                     *)

Underway == at \in {"spawn", "writing", "reading"}

\* While cases are outstanding there is room for another row, a request is
\* not longer than its units, and nobody is left when the session is over.
HostOK ==
    /\ TypeOK
    /\ Underway => Len(rows) < NumCases
    /\ at \in {"spawn", "writing"} => sent < RequestSize
    /\ at \in {"spawn", "done"} => family = {}

LEMMA InitHostOK == Init => HostOK
BY InitTyped, ChildAssumption DEF Init, HostOK, NotStarted

\* What the process does concerns no variable of the host, and a group with
\* no member stays so.
LEMMA ChildKeepsHostOK == HostOK /\ ChildTurn => HostOK'
<1> SUFFICES ASSUME HostOK, ChildStep, UNCHANGED <<host, role>> PROVE HostOK'
    BY DEF ChildTurn
<1>1. ChildTypeOK'
  BY ChildTyped DEF HostOK, TypeOK
<1>2. family = {} => family' = {}
  BY DEF ChildStep, ReadUnit, WriteLine, ClosePipe, StartDescendant,
         ExitParent, ExitDescendant, StdinOpen, StdoutOpen
<1> QED
  BY <1>1, <1>2 DEF HostOK, TypeOK, host, Underway

\* The three ways in which rows are written.
LEMMA RecordTyped ==
  ASSUME HostOK, Underway, NEW row \in Statuses, Record(row)
  PROVE  /\ at' \in {"writing", "closing", "waiting"}
         /\ sent' = 0 /\ trusted' \in BOOLEAN
         /\ rows' \in Seq(Statuses) /\ Len(rows') <= NumCases
         /\ at' = "writing" => Len(rows') < NumCases
         /\ at' # "writing" => Len(rows') = NumCases
<1>1. rows \in Seq(Statuses) /\ Len(rows) \in Nat /\ Len(rows) < NumCases
  BY DEF HostOK, TypeOK, Statuses
<1>2. rows' \in Seq(Statuses) /\ Len(rows') = Len(rows) + 1
  BY <1>1 DEF Record
<1>3. at' = "writing" <=> Len(rows) + 1 < NumCases
  BY DEF Record, Case
<1> QED
  BY <1>1, <1>2, <1>3, ChildAssumption DEF Record, HostOK, TypeOK

LEMMA AbandonTyped ==
  ASSUME HostOK, Underway, NEW row \in Statuses, Abandon(row)
  PROVE  /\ at' = "waiting" /\ sent' = 0 /\ trusted' \in BOOLEAN
         /\ rows' \in Seq(Statuses) /\ Len(rows') = NumCases /\ Len(rows') <= NumCases
<1>1. rows \in Seq(Statuses) /\ Len(rows) \in Nat /\ Len(rows) < NumCases
  BY DEF HostOK, TypeOK, Statuses
<1>2. ASSUME NEW c \in 1..NumCases, c < Case PROVE rows[c] \in Statuses
  BY <1>1, <1>2 DEF Case
<1>3. rows' \in [1..NumCases -> Statuses]
  BY <1>2 DEF Abandon, CaseNumbers, Statuses
<1>4. rows' \in Seq(Statuses) /\ Len(rows') = NumCases
  BY <1>3, ChildAssumption
<1>5. at' = "waiting" /\ sent' = 0 /\ trusted' \in BOOLEAN
  BY DEF Abandon
<1>6. Len(rows') <= NumCases
  BY <1>4, ChildAssumption
<1> QED
  BY <1>4, <1>5, <1>6

LEMMA InvalidateTyped ==
  ASSUME Invalidate
  PROVE  /\ sent' = sent /\ trusted' \in BOOLEAN
         /\ rows' \in Seq(Statuses) /\ Len(rows') = NumCases
<1>1. rows' \in [1..NumCases -> Statuses]
  BY DEF Invalidate, CaseNumbers, Statuses
<1>2. rows' \in Seq(Statuses) /\ Len(rows') = NumCases
  BY <1>1, ChildAssumption
<1> QED
  BY <1>2 DEF Invalidate

-----------------------------------------------------------------------------
(* The steps of the host                                                   *)

Shape ==
    /\ at \in {"spawn", "writing", "reading", "closing", "waiting", "probing", "cleanup", "done"}
    /\ sent \in 0..RequestSize
    /\ rows \in Seq(Statuses)
    /\ Len(rows) <= NumCases
    /\ ~Underway => Len(rows) = NumCases
    /\ trusted \in BOOLEAN
    /\ Underway => Len(rows) < NumCases
    /\ at \in {"spawn", "writing"} => sent < RequestSize
    /\ at \in {"spawn", "done"} => family = {}

LEMMA HostOKParts == HostOK <=> ChildTypeOK /\ Shape /\ role \in Roles
BY DEF HostOK, TypeOK, Shape, Underway, Statuses

LEMMA HostKeepsHostOK == HostOK /\ HostTurn => HostOK'
<1> SUFFICES ASSUME HostOK, HostStep, UNCHANGED role PROVE HostOK'
    BY DEF HostTurn
<1>0. ChildTypeOK /\ Shape /\ role \in Roles
  BY HostOKParts
<1>a. ChildTypeOK' /\ Shape' => HostOK'
  BY <1>0 DEF HostOK, TypeOK, Shape, Underway, Statuses
<1>1. CASE Spawn
  <2>1. ChildTypeOK'
    BY <1>1, StartedTyped DEF Spawn
  <2>2. Shape'
    BY <1>0, <1>1 DEF Spawn, Shape, Underway
  <2> QED
    BY <1>a, <2>1, <2>2
<1>2. CASE SpawnFails
  <2>1. ChildTypeOK'
    BY <1>0, <1>2, IdleTyped DEF SpawnFails
  <2>2. Shape'
    BY <1>0, <1>2, InvalidateTyped DEF SpawnFails, Shape, Underway, child
  <2> QED
    BY <1>a, <2>1, <2>2
<1>3. CASE WriteUnit
  <2>1. Case \in CaseNumbers
    BY <1>0, <1>3, ChildAssumption DEF WriteUnit, Shape, Underway, Case, CaseNumbers
  <2>2. ChildTypeOK'
    BY <1>0, <1>3, <2>1, SendTyped DEF WriteUnit
  <2>3. Shape'
    BY <1>0, <1>3, ChildAssumption DEF WriteUnit, Shape, Underway, Send
  <2> QED
    BY <1>a, <2>2, <2>3
<1>4. CASE WriteFails
  <2>1. ChildTypeOK'
    BY <1>0, <1>4, IdleTyped DEF WriteFails
  <2>2. Shape'
    BY <1>0, <1>4, AbandonTyped, ChildAssumption DEF WriteFails, Shape, Underway, Statuses
  <2> QED
    BY <1>a, <2>1, <2>2
<1>5. CASE ReadAnswer
  <2>1. ChildTypeOK'
    BY <1>0, <1>5, ReceiveTyped DEF ReadAnswer, LineReady
  <2>2. Underway /\ "answered" \in Statuses /\ Record("answered")
    BY <1>5 DEF ReadAnswer, Underway, Statuses
  <2>3. Shape'
    BY <2>2, RecordTyped, ChildAssumption DEF Shape, Underway
  <2> QED
    BY <1>a, <2>1, <2>3
<1>6. CASE ReadTolerated
  <2>1. ChildTypeOK'
    BY <1>0, <1>6, ReceiveTyped DEF ReadTolerated, LineReady
  <2>2. Underway /\ "error" \in Statuses /\ Record("error")
    BY <1>6 DEF ReadTolerated, Underway, Statuses
  <2>3. Shape'
    BY <2>2, RecordTyped, ChildAssumption DEF Shape, Underway
  <2> QED
    BY <1>a, <2>1, <2>3
<1>7. CASE ReadViolation \/ Timeout
  <2>1. ChildTypeOK'
    BY <1>0, <1>7, KillTyped DEF ReadViolation, Timeout
  <2>2. PICK row \in Statuses : Underway /\ Abandon(row)
    BY <1>7 DEF ReadViolation, Timeout, Underway, Statuses
  <2>3. Shape'
    BY <2>2, AbandonTyped, ChildAssumption DEF Shape, Underway
  <2> QED
    BY <1>a, <2>1, <2>3
<1>8. CASE ReadEnd
  <2>1. ChildTypeOK'
    BY <1>0, <1>8, IdleTyped DEF ReadEnd
  <2>2. Underway /\ "error" \in Statuses /\ Abandon("error")
    BY <1>8 DEF ReadEnd, Underway, Statuses
  <2>3. Shape'
    BY <2>2, AbandonTyped, ChildAssumption DEF Shape, Underway
  <2> QED
    BY <1>a, <2>1, <2>3
<1>9. CASE ProbeBeforeExit \/ ProbeAfterExit
  <2>1. ChildTypeOK'
    BY <1>0, <1>9, IdleTyped, ReceiveTyped DEF ProbeBeforeExit, ProbeAfterExit, child
  <2>2. at \in {"closing", "probing"} /\ at' \in {"waiting", "cleanup"}
    BY <1>9 DEF ProbeBeforeExit, ProbeAfterExit
  <2>3. Invalidate \/ UNCHANGED <<sent, rows, trusted>>
    BY <1>9 DEF ProbeBeforeExit, ProbeAfterExit
  <2>4. Shape'
    BY <1>0, <2>2, <2>3, InvalidateTyped DEF Shape, Underway
  <2> QED
    BY <1>a, <2>1, <2>4
<1>10. CASE WaitExit \/ WaitExpires
  <2>1. ChildTypeOK'
    BY <1>0, <1>10, KillTyped DEF WaitExit, WaitExpires, Reap
  <2>2. at = "waiting" /\ at' \in {"probing", "cleanup"}
    BY <1>10 DEF WaitExit, WaitExpires
  <2>3. Invalidate \/ UNCHANGED <<sent, rows, trusted>>
    BY <1>10 DEF WaitExit, WaitExpires
  <2>4. Shape'
    BY <1>0, <2>2, <2>3, InvalidateTyped DEF Shape, Underway
  <2> QED
    BY <1>a, <2>1, <2>4
<1>11. CASE Cleanup
  <2>1. ChildTypeOK'
    BY <1>0, <1>11, KillTyped DEF Cleanup
  <2>2. Shape'
    BY <1>0, <1>11 DEF Cleanup, KillGroup, Shape, Underway
  <2> QED
    BY <1>a, <2>1, <2>2
<1> QED
  BY <1>1, <1>2, <1>3, <1>4, <1>5, <1>6, <1>7, <1>8, <1>9, <1>10, <1>11 DEF HostStep

LEMMA IdleKeepsHostOK == HostOK /\ UNCHANGED vars => HostOK'
BY DEF HostOK, TypeOK, ChildTypeOK, vars, child, host, Underway

THEOREM HostOKHolds == Spec => []HostOK
<1>1. HostOK /\ [Next]_vars => HostOK'
  BY ChildKeepsHostOK, HostKeepsHostOK, IdleKeepsHostOK DEF Next
<1> QED
  BY InitHostOK, <1>1, PTL DEF Spec

\* The pipes, the place of the host and the rows keep their types: no row is
\* written past the last case, and every case has one when the session ends.
THEOREM TypeCorrect == Spec => []TypeOK
<1>1. HostOK => TypeOK
  BY DEF HostOK
<1> QED
  BY <1>1, HostOKHolds, PTL

\* However the session ends, no process of its group is left.
THEOREM GroupGone == Spec => []NoSurvivors
<1>1. HostOK => NoSurvivors
  BY DEF HostOK, NoSurvivors
<1> QED
  BY <1>1, HostOKHolds, PTL

-----------------------------------------------------------------------------
(* A variant that has failed is not believed again                         *)

AllOk == \A c \in 1..Len(rows) : rows[c] = "answered"

AnswersFirst ==
    \A c, d \in 1..Len(rows) : c < d /\ rows[d] = "answered" => rows[c] = "answered"

\* While cases are outstanding every row of a variant is an answer.
FailureOK ==
    /\ HostOK
    /\ Underway => AllOk
    /\ AnswersFirst

\* A failure that ends the session follows successes and precedes failures.
LEMMA AbandonKeepsFinal ==
  ASSUME FailureOK, Underway, NEW row \in {"timeout", "error"}, Abandon(row)
  PROVE  AnswersFirst'
<1>1. rows \in Seq(Statuses) /\ Len(rows) \in Nat /\ Len(rows) < NumCases
  BY DEF FailureOK, HostOK, TypeOK, Statuses
<1>2. rows' \in Seq(Statuses) /\ Len(rows') = NumCases
  BY AbandonTyped DEF Statuses, FailureOK
<1>3. \A c \in 1..NumCases : rows'[c] = "answered" => c < Case
  BY <1>1 DEF Abandon, CaseNumbers, Case
<1>4. \A c \in 1..NumCases : c < Case => rows'[c] = "answered"
  BY <1>1 DEF Abandon, CaseNumbers, Case, FailureOK, AllOk
<1> SUFFICES ASSUME NEW c \in 1..NumCases, NEW d \in 1..NumCases, c < d, rows'[d] = "answered"
             PROVE  rows'[c] = "answered"
    BY <1>2 DEF AnswersFirst
<1>5. d < Case
  BY <1>3
<1>6. c < Case
  BY <1>1, <1>5 DEF Case
<1> QED
  BY <1>4, <1>6

LEMMA InvalidateKeepsFinal ==
  ASSUME Invalidate
  PROVE  AnswersFirst'
<1>1. Len(rows') = NumCases
  BY InvalidateTyped
<1>2. \A c \in 1..NumCases : rows'[c] # "answered"
  BY DEF Invalidate, CaseNumbers
<1> QED
  BY <1>1, <1>2 DEF AnswersFirst

LEMMA SuccessKeepsAllOk ==
  ASSUME FailureOK, Underway, Record("answered")
  PROVE  AllOk' /\ AnswersFirst'
<1>1. rows \in Seq(Statuses) /\ Len(rows) \in Nat
  BY DEF FailureOK, HostOK, TypeOK, Statuses
<1>2. rows' = Append(rows, "answered")
  BY DEF Record
<1>3. Len(rows') = Len(rows) + 1
  BY <1>1, <1>2 DEF Statuses
<1>4. \A c \in 1..Len(rows') : rows'[c] = "answered"
  BY <1>1, <1>2, <1>3 DEF FailureOK, AllOk, Statuses
<1> QED
  BY <1>4 DEF AllOk, AnswersFirst

LEMMA UnchangedKeepsFinal ==
  ASSUME FailureOK, UNCHANGED rows
  PROVE  AnswersFirst' /\ (AllOk => AllOk')
BY DEF FailureOK, AnswersFirst, AllOk

LEMMA HostKeepsFailureOK ==
  ASSUME role = "variant", FailureOK, HostStep
  PROVE  (Underway' => AllOk') /\ AnswersFirst'
<1>1. CASE Spawn \/ WriteUnit
  <2>1. UNCHANGED rows /\ Underway
    BY <1>1 DEF Spawn, WriteUnit, Underway
  <2> QED
    BY <2>1, UnchangedKeepsFinal DEF FailureOK
<1>2. CASE SpawnFails
  <2>1. Invalidate /\ ~Underway'
    BY <1>2 DEF SpawnFails, Underway
  <2> QED
    BY <2>1, InvalidateKeepsFinal
<1>3. CASE WriteFails \/ ReadViolation \/ ReadEnd \/ Timeout
  <2>1. PICK row \in {"timeout", "error"} : Underway /\ Abandon(row)
    BY <1>3 DEF WriteFails, ReadViolation, ReadEnd, Timeout, Underway
  <2>2. ~Underway'
    BY <2>1 DEF Abandon, Underway
  <2> QED
    BY <2>1, <2>2, AbandonKeepsFinal
<1>4. CASE ReadAnswer
  <2>1. Underway /\ Record("answered")
    BY <1>4 DEF ReadAnswer, Underway
  <2> QED
    BY <2>1, SuccessKeepsAllOk
<1>5. CASE ReadTolerated
  BY <1>5 DEF ReadTolerated, Tolerated
<1>6. CASE ProbeBeforeExit \/ ProbeAfterExit \/ WaitExit \/ WaitExpires \/ Cleanup
  <2>1. ~Underway'
    BY <1>6 DEF ProbeBeforeExit, ProbeAfterExit, WaitExit, WaitExpires, Cleanup, Underway
  <2>2. Invalidate \/ UNCHANGED rows
    BY <1>6 DEF ProbeBeforeExit, ProbeAfterExit, WaitExit, WaitExpires, Cleanup
  <2> QED
    BY <2>1, <2>2, InvalidateKeepsFinal, UnchangedKeepsFinal
<1> QED
  BY <1>1, <1>2, <1>3, <1>4, <1>5, <1>6 DEF HostStep

\* A variant that has failed a case, in whatever way, has no accepted answer
\* after it: the rows of a session are answers, then failures.
THEOREM FailureFinal == Spec => []FailureIsFinal
<1> DEFINE Inv == HostOK /\ (role = "variant" => FailureOK)
<1>1. Init => Inv
  <2> SUFFICES ASSUME Init PROVE Inv
      OBVIOUS
  <2>1. HostOK
    BY InitHostOK
  <2>2. AllOk /\ AnswersFirst
    BY DEF Init, AllOk, AnswersFirst
  <2> QED
    BY <2>1, <2>2 DEF FailureOK
<1>2. Inv /\ [Next]_vars => Inv'
  <2> SUFFICES ASSUME Inv, [Next]_vars PROVE Inv'
      OBVIOUS
  <2>1. HostOK'
    BY ChildKeepsHostOK, HostKeepsHostOK, IdleKeepsHostOK DEF Next
  <2>2. role' = role
    BY DEF Next, HostTurn, ChildTurn, vars
  <2>3. ASSUME role = "variant" PROVE FailureOK'
    <3>1. FailureOK
      BY <2>3
    <3>2. CASE HostTurn
      BY <2>1, <2>3, <3>1, <3>2, HostKeepsFailureOK DEF FailureOK, HostTurn
    <3>3. CASE UNCHANGED host
      <4>1. UNCHANGED rows /\ (Underway' <=> Underway)
        BY <3>3 DEF host, Underway
      <4> QED
        BY <2>1, <3>1, <4>1, UnchangedKeepsFinal DEF FailureOK
    <3> QED
      BY <3>2, <3>3 DEF Next, ChildTurn, vars, host
  <2> QED
    BY <2>1, <2>2, <2>3
<1>3. Inv => FailureIsFinal
  BY DEF FailureOK, FailureIsFinal, AnswersFirst
<1> QED
  BY <1>1, <1>2, <1>3, PTL DEF Spec

-----------------------------------------------------------------------------
(* A session whose rows stand is exact                                     *)

\* The process writes nothing that a look at its output misses: a blank line,
\* which ends the look, or, where there is a look before it has exited, text
\* without an end of line, which that look loses.
NothingHidden ==
    /\ "blank" \notin StrayLines
    /\ "evaluator" \in Roles => "unterminated" \notin StrayLines

\* While its rows stand the host has a row for each line that has left the
\* pipe, and what it learnt from the exit and from the last look at the pipe
\* stays true.
Accounted ==
    /\ at = "spawn" => Len(rows) = 0
    /\ at = "closing" => role = "evaluator"
    /\ at \notin {"spawn", "cleanup", "done"} => written = Len(rows) + Len(stdout)
    /\ at \in {"probing", "cleanup", "done"} => exit = "success" /\ family = {}
    /\ at \in {"cleanup", "done"} => written = NumCases

ExactOK == HostOK /\ (trusted => Accounted)

LEMMA LinesNotKind ==
  ASSUME NEW absent, absent \notin StrayLines, NEW line \in Answers \cup Strays
  PROVE  line # Stray(absent)
<1>1. CASE line \in Answers
  <2>1. PICK c \in CaseNumbers : line = Answer(c)
    BY <1>1 DEF Answers
  <2>2. DOMAIN line = {"answers"} /\ DOMAIN Stray(absent) = {"stray"}
    BY <2>1 DEF Answer, Stray
  <2> QED
    BY <2>2
<1>2. CASE line \in Strays
  <2>1. PICK kind \in StrayLines : line = Stray(kind)
    BY <1>2 DEF Strays
  <2>2. line.stray = kind /\ Stray(absent).stray = absent
    BY <2>1 DEF Stray
  <2> QED
    BY <2>2
<1> QED
  BY <1>1, <1>2

LEMMA LinesNotBlank ==
  ASSUME NothingHidden, NEW line \in Answers \cup Strays
  PROVE  line # Stray("blank")
BY LinesNotKind DEF NothingHidden

LEMMA LinesAreOutput ==
  ASSUME NothingHidden, HostOK, role = "evaluator" \/ family = {}
  PROVE  ExtraOutput <=> stdout # <<>>
<1>1. stdout # <<>> => Head(stdout) \in Answers \cup Strays
  BY DEF HostOK, TypeOK, ChildTypeOK
<1>2. CASE family = {}
  BY <1>1, <1>2, LinesNotBlank DEF ExtraOutput, LineReady, StdoutOpen
<1>3. CASE role = "evaluator"
  <2>1. ASSUME stdout # <<>> PROVE Head(stdout) # Stray("unterminated")
    BY <1>1, <1>3, <2>1, LinesNotKind DEF NothingHidden, HostOK, TypeOK
  <2> QED
    BY <1>1, <2>1, LinesNotBlank DEF ExtraOutput, LineReady
<1> QED
  BY <1>2, <1>3

\* A line that the process writes is a line more in the pipe, and nobody
\* writes or exits once the group is gone.
LEMMA ChildKeepsAccounted ==
  ASSUME NothingHidden, ExactOK, ChildStep, UNCHANGED <<host, role>>, trusted
  PROVE  Accounted'
<1>0. ChildTypeOK /\ Accounted
  BY DEF ExactOK, HostOK, TypeOK
<1>1. CASE family = {}
  <2>1. UNCHANGED <<family, exit, stdout, written>>
    BY <1>1 DEF ChildStep, ReadUnit, WriteLine, ClosePipe, StartDescendant,
                ExitParent, ExitDescendant, StdinOpen, StdoutOpen
  <2> QED
    BY <1>0, <2>1 DEF Accounted, host
<1>2. CASE family # {}
  <2>1. at \notin {"probing", "cleanup", "done", "spawn"}
    BY <1>0, <1>2 DEF Accounted, ExactOK, HostOK
  <2>2. CASE \E line \in {Answer(c) : c \in received} \cup Strays : WriteLine(line)
    <3>1. PICK line \in {Answer(c) : c \in received} \cup Strays : WriteLine(line)
      BY <2>2
    <3>2. line # Stray("blank")
      <4>1. line \in Answers \cup Strays
        BY <1>0, <3>1 DEF Answers, ChildTypeOK
      <4> QED
        BY <4>1, LinesNotBlank
    <3>3. written' = written + 1 /\ stdout' = Append(stdout, line)
      BY <3>1, <3>2 DEF WriteLine
    <3>4. Len(stdout') = Len(stdout) + 1
      BY <1>0, <3>3 DEF ChildTypeOK
    <3>5. Len(rows) \in Nat /\ Len(stdout) \in Nat /\ written \in Nat
      BY <1>0 DEF ChildTypeOK, ExactOK, HostOK, TypeOK
    <3>6. written = Len(rows) + Len(stdout)
      BY <1>0, <2>1 DEF Accounted
    <3>7. written' = Len(rows) + Len(stdout')
      BY <3>3, <3>4, <3>5, <3>6
    <3> QED
      BY <1>0, <2>1, <3>7 DEF Accounted, host
  <2>3. CASE ~ \E line \in {Answer(c) : c \in received} \cup Strays : WriteLine(line)
    <3>1. UNCHANGED <<stdout, written>>
      BY <2>3 DEF ChildStep, ReadUnit, ClosePipe, StartDescendant, ExitParent, ExitDescendant
    <3> QED
      BY <1>0, <2>1, <3>1 DEF Accounted, host
  <2> QED
    BY <2>2, <2>3
<1> QED
  BY <1>1, <1>2

\* A row for a line.
LEMMA RecordKeepsAccounted ==
  ASSUME ExactOK, trusted, at = "reading", stdout # <<>>, Receive,
         NEW row \in Statuses, Record(row), UNCHANGED role
  PROVE  Accounted'
<1>1. written = Len(rows) + Len(stdout)
  BY DEF ExactOK, Accounted
<1>2. stdout \in Seq(Answers \cup Strays) /\ rows \in Seq(Statuses)
  BY DEF ExactOK, HostOK, TypeOK, ChildTypeOK, Statuses
<1>3. Len(stdout') = Len(stdout) - 1 /\ Len(stdout) \in Nat
  BY <1>2 DEF Receive
<1>4. Len(rows') = Len(rows) + 1 /\ Len(rows) \in Nat
  BY <1>2 DEF Record
<1>5. written' = Len(rows') + Len(stdout')
  BY <1>1, <1>3, <1>4 DEF Receive
<1>6. at' \in {"writing", "closing", "waiting"} /\ (at' = "closing" => role = "evaluator")
  BY DEF Record
<1> QED
  BY <1>5, <1>6 DEF Accounted

LEMMA HostKeepsAccounted ==
  ASSUME NothingHidden, ExactOK, HostStep, UNCHANGED role, trusted'
  PROVE  Accounted'
<1>0. HostOK /\ ChildTypeOK
  BY DEF ExactOK, HostOK, TypeOK
<1>1. trusted /\ Accounted /\ ~Invalidate
  BY DEF HostStep, Spawn, SpawnFails, WriteUnit, WriteFails, ReadAnswer, ReadTolerated,
         ReadViolation, ReadEnd, Timeout, ProbeBeforeExit, WaitExit, WaitExpires,
         ProbeAfterExit, Cleanup, Record, Abandon, Invalidate, ExactOK
<1>a. rows \in Seq(Statuses) /\ stdout \in Seq(Answers \cup Strays)
  BY <1>0 DEF HostOK, TypeOK, ChildTypeOK, Statuses
<1>2. CASE Spawn
  BY <1>1, <1>2 DEF Spawn, Started, Accounted
<1>3. CASE WriteUnit
  <2>1. at = "writing" /\ at' \in {"writing", "reading"} /\ UNCHANGED <<rows, stdout, written>>
    BY <1>3 DEF WriteUnit, Send
  <2> QED
    BY <1>1, <2>1 DEF Accounted
<1>4. CASE ReadAnswer \/ ReadTolerated
  <2>1. PICK row \in Statuses : Record(row) /\ Receive /\ at = "reading" /\ stdout # <<>>
    BY <1>4 DEF ReadAnswer, ReadTolerated, LineReady, Statuses
  <2> QED
    BY <1>1, <2>1, RecordKeepsAccounted
<1>5. CASE WriteFails \/ ReadViolation \/ ReadEnd \/ Timeout
  BY <1>5 DEF WriteFails, ReadViolation, ReadEnd, Timeout, Abandon
<1>6. CASE ProbeBeforeExit
  <2>1. stdout = <<>> /\ UNCHANGED <<child, rows>>
    BY <1>0, <1>1, <1>6, LinesAreOutput DEF ProbeBeforeExit, Accounted
  <2>2. at = "closing" /\ at' = "waiting"
    BY <1>6 DEF ProbeBeforeExit
  <2> QED
    BY <1>1, <2>1, <2>2 DEF Accounted, child
<1>7. CASE WaitExit
  <2>1. at = "waiting" /\ at' = "probing" /\ exit = "success" /\ UNCHANGED rows
    BY <1>1, <1>7 DEF WaitExit
  <2>2. family' = {} /\ exit' = "success" /\ UNCHANGED <<stdout, written>>
    BY <1>7, <2>1 DEF WaitExit, Reap, KillGroup, Ended
  <2> QED
    BY <1>1, <2>1, <2>2 DEF Accounted
<1>8. CASE WaitExpires
  BY <1>1, <1>8 DEF WaitExpires
<1>9. CASE ProbeAfterExit
  <2>1. stdout = <<>> /\ UNCHANGED <<child, rows>>
    BY <1>0, <1>1, <1>9, LinesAreOutput DEF ProbeAfterExit, Accounted
  <2>2. at = "probing" /\ at' = "cleanup"
    BY <1>9 DEF ProbeAfterExit
  <2>3. Len(rows) = NumCases /\ Len(stdout) = 0
    BY <1>0, <2>1, <2>2 DEF HostOK, TypeOK
  <2>4. written = NumCases
    BY <1>1, <2>2, <2>3, ChildAssumption DEF Accounted
  <2> QED
    BY <1>1, <2>1, <2>2, <2>4 DEF Accounted, child
<1>10. CASE Cleanup
  <2>1. at = "cleanup" /\ at' = "done" /\ UNCHANGED <<rows, stdout, written>>
    BY <1>10 DEF Cleanup, KillGroup
  <2>2. family' = {} /\ exit' = "success"
    BY <1>1, <1>10, <2>1 DEF Cleanup, KillGroup, Ended, Accounted
  <2> QED
    BY <1>1, <2>1, <2>2 DEF Accounted
<1>11. CASE SpawnFails
  BY <1>1, <1>11 DEF SpawnFails
<1> QED
  BY <1>2, <1>3, <1>4, <1>5, <1>6, <1>7, <1>8, <1>9, <1>10, <1>11 DEF HostStep

\* A session whose rows stand ended with the successful exit of a process
\* that wrote one line for each case and not one line more, when it writes
\* nothing that the looks at its output miss: a blank line, and for an
\* evaluator text that no end of line follows.
THEOREM SessionExact == NothingHidden => (Spec => []SessionIsExact)
<1> SUFFICES ASSUME NothingHidden PROVE Spec => []SessionIsExact
    OBVIOUS
<1>1. Init => ExactOK
  BY InitHostOK DEF Init, ExactOK, Accounted
<1>2. ExactOK /\ [Next]_vars => ExactOK'
  <2> SUFFICES ASSUME ExactOK, [Next]_vars PROVE ExactOK'
      OBVIOUS
  <2>1. HostOK'
    BY ChildKeepsHostOK, HostKeepsHostOK, IdleKeepsHostOK DEF Next, ExactOK
  <2>2. CASE HostTurn
    BY <2>1, <2>2, HostKeepsAccounted DEF ExactOK, HostTurn
  <2>3. CASE ChildTurn
    BY <2>1, <2>3, ChildKeepsAccounted DEF ExactOK, ChildTurn, host
  <2>4. CASE UNCHANGED vars
    BY <2>1, <2>4 DEF ExactOK, Accounted, vars, child, host
  <2> QED
    BY <2>2, <2>3, <2>4 DEF Next
<1>3. ExactOK => SessionIsExact
  BY DEF ExactOK, Accounted, SessionIsExact
<1> QED
  BY <1>1, <1>2, <1>3, PTL DEF Spec

=============================================================================
