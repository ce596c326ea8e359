--------------------------- MODULE LocalJobsProofs --------------------------
(***************************************************************************)
(* Theorems about LocalJobs, for any number of jobs and synchronous        *)
(* requests, with failing writes, panics and crashes.                      *)
(***************************************************************************)
EXTENDS LocalJobs, TLAPS

USE DEF Comparisons

\* The statuses and program counters that the variables range over.
LEMMA Ranges ==
    /\ Open \subseteq Status
    /\ Terminal \subseteq Status
    /\ Outcome \ {"none"} \subseteq Terminal
    /\ Open \cap Terminal = {}
    /\ Holding \subseteq Worker
    /\ Preparing \subseteq Worker
    /\ {"none", "persisted", "spawned", "returned", "indexed", "done"}
          \subseteq Worker
  BY DEF Open, Terminal, Status, Outcome, Holding, Preparing, Blocking, Worker

\* A rediscovered status is settled or absent.
LEMMA RediscoveredType ==
    ASSUME NEW s \in Status
    PROVE  Rediscovered(s) \in Status \ Open
  BY DEF Rediscovered, Status, Open, Terminal

(* Types.  What a job finally says is what its thread returned, so that    *)
(* the types hold only together with "who has returned has an outcome".    *)

Returning == \A c \in Comparisons :
    /\ worker[c] \in {"returned", "indexed"} => outcome[c] # "none"
    /\ worker[c] \notin {"returned", "indexed", "done"} => outcome[c] = "none"

Typed == TypeOK /\ Returning

\* A new server's variables are typed.
LEMMA TypesInitially == Init => Typed
  BY DEF Init, Typed, Returning, TypeOK, Status, Worker, Outcome

\* Every step keeps the types, and outcomes where threads have returned.
LEMMA TypesStep == Typed /\ [Next]_vars => Typed'
<1> SUFFICES ASSUME Typed, [Next]_vars PROVE Typed'
  OBVIOUS
<1> USE Ranges DEF Typed, Returning, TypeOK, Goto, job, executor, project
<1>1. ASSUME Handlers PROVE Typed'
  <2>1. ASSUME NEW j \in Jobs, Submit(j) PROVE Typed'
    BY <2>1 DEF Submit, Persisted, Status, Open
  <2>2. ASSUME NEW j \in Jobs, RegisterJob(j) PROVE Typed'
    BY <2>2 DEF RegisterJob, Status, Open
  <2>3. ASSUME NEW j \in Jobs, CancelJob(j) PROVE Typed'
    BY <2>3 DEF CancelJob, TryPersist, Persisted, PersistFails
  <2>4. ASSUME NEW d \in Direct, RequestDirect(d) PROVE Typed'
    BY <2>4 DEF RequestDirect, Preparing
  <2> QED BY <1>1, <2>1, <2>2, <2>3, <2>4 DEF Handlers, CreateJob, RetryJob
<1>2. ASSUME NEW c \in Comparisons, NEW r \in Outcome \ {"none"}, ReturnWith(c, r),
             UNCHANGED <<disk, cancel, project, server>>,
             registry' \in [Jobs -> Status], poisoned' \in BOOLEAN
      PROVE  Typed'
  BY <1>2 DEF ReturnWith
<1>3. ASSUME NEW c \in Comparisons, AwaitLock(c) PROVE Typed'
  <2>1. CASE c \in Jobs /\ (NotCancelled(c) \/ LockBusy(c))
    BY <2>1 DEF NotCancelled, LockBusy, Preparing
  <2>2. CASE AcquireLock(c)
    BY <2>2 DEF AcquireLock, Holding
  <2>3. CASE (c \in Jobs /\ CancelBeforeLock(c)) \/ LockPoisoned(c)
    BY <1>2, <2>3 DEF CancelBeforeLock, LockPoisoned, Outcome
  <2> QED BY <1>3, <2>1, <2>2, <2>3 DEF AwaitLock
<1>4. ASSUME NEW c \in Comparisons, Compare(c) PROVE Typed'
  <2>1. CASE BeginComparison(c)
    BY <2>1 DEF BeginComparison, Persisted, Status, Open, Holding
  <2>2. CASE c \in Jobs /\ BeginFails(c)
    <3>1. registry' \in [Jobs -> Status] /\ poisoned' \in BOOLEAN
      BY <2>2 DEF BeginFails, Status, Open
    <3>2. UNCHANGED <<disk, cancel, project, server>> /\ ReturnWith(c, "failed")
      BY <2>2 DEF BeginFails, PersistFails
    <3> QED BY <1>2, <3>1, <3>2 DEF Outcome
  <2>3. CASE (c \in Jobs /\ CancelAtBoundary(c)) \/ ReturnComplete(c)
    BY <1>2, <2>3 DEF CancelAtBoundary, ReturnComplete, Outcome
  <2>4. CASE FinalizeRun(c) \/ CommitRevision(c) \/ WritePointer(c)
    BY <2>4 DEF FinalizeRun, CommitRevision, WritePointer, Holding
  <2> QED BY <1>4, <2>1, <2>2, <2>3, <2>4 DEF Compare
<1>5. ASSUME NEW c \in Comparisons, Report(c) PROVE Typed'
  <2>1. CASE IndexRun(c)
    BY <2>1 DEF IndexRun
  <2>2. CASE c \in Jobs /\ StartTask(c)
    BY <2>2 DEF StartTask, TryPersist, Persisted, PersistFails, Preparing,
                Status, Open
  <2>3. CASE c \in Jobs /\ FinishJob(c)
    BY <2>3 DEF FinishJob, TryPersist, Persisted, PersistFails, Status,
                Terminal, Outcome, Reported
  <2>4. CASE c \in Direct /\ FinishDirect(c)
    BY <2>4 DEF FinishDirect
  <2> QED BY <1>5, <2>1, <2>2, <2>3, <2>4 DEF Report
<1>6. CASE Trouble
  <2>1. ASSUME NEW c \in Comparisons, ComparisonFails(c) \/ Panic(c)
        PROVE  Typed'
    BY <1>2, <2>1 DEF ComparisonFails, Panic, Outcome
  <2>2. ASSUME NEW d \in Direct, Disconnect(d) PROVE Typed'
    BY <2>2 DEF Disconnect
  <2> QED BY <1>6, <2>1, <2>2 DEF Trouble
<1>7. CASE Process
  <2>1. CASE Stop
    BY <2>1 DEF Stop
  <2>2. CASE Forget
    BY <2>2 DEF Forget, Status, Outcome
  <2>3. CASE Restart
    BY <2>3, RediscoveredType DEF Restart
  <2> QED BY <1>7, <2>1, <2>2, <2>3 DEF Process, Exit, Crash
<1>8. CASE UNCHANGED vars
  BY <1>8 DEF vars
<1> QED BY <1>1, <1>3, <1>4, <1>5, <1>6, <1>7, <1>8 DEF Next

\* The variables keep their types.
THEOREM TypeCorrect == Spec => []TypeOK
<1>1. Typed => TypeOK
  BY DEF Typed
<1> QED BY TypesInitially, TypesStep, <1>1, PTL DEF Spec

-----------------------------------------------------------------------------
(* The executor: exactly the holder of the lock is between acquiring it and *)
(* returning, so that no one replaces the pointer that it has read.         *)

HolderHolds == \A c \in Comparisons : worker[c] \in Holding <=> lock = c

Uncommitted == {"none", "persisted", "spawned"} \cup Preparing
                 \cup {"locked", "running", "finalized"}

Committing == \A c \in Comparisons :
    /\ worker[c] \in {"running", "finalized", "committed"} => base[c] = pointer
    /\ worker[c] \in {"committed", "pointed"} => c \in revisions
    /\ outcome[c] = "complete" => c \in revisions
    /\ worker[c] \in Uncommitted => c \notin revisions
    /\ outcome[c] = "cancelled" => c \notin revisions

Executing == Typed /\ HolderHolds /\ Committing /\ PointerIsCommitted

\* A new server executes nothing.
LEMMA ExecutingInitially == Init => Executing
  BY TypesInitially, JobsAssumption
     DEF Init, Executing, HolderHolds, Committing, Holding, PointerIsCommitted

\* A comparison that moves on without the lock, and one that returns, leave
\* the executor's facts as they were.
LEMMA ExecutingStep == Executing /\ [Next]_vars => Executing'
<1> SUFFICES ASSUME Executing, [Next]_vars
             PROVE  HolderHolds' /\ Committing' /\ PointerIsCommitted'
  BY TypesStep DEF Executing
<1> DEFINE Goal == HolderHolds' /\ Committing' /\ PointerIsCommitted'
<1> USE JobsAssumption
    DEF Executing, Typed, TypeOK, Returning, HolderHolds, Committing,
        PointerIsCommitted, Goto, job, executor, project, Holding, Preparing,
        Uncommitted
<1>1. ASSUME NEW c \in Comparisons, NEW to, worker[c] \notin Holding,
             to \notin Holding,
             to \in Uncommitted => worker[c] \in Uncommitted,
             worker' = [worker EXCEPT ![c] = to],
             UNCHANGED <<outcome, lock, base, revisions, pointer>>
      PROVE  Goal
  BY <1>1
<1>2. ASSUME NEW c \in Comparisons, NEW r \in Outcome, ReturnWith(c, r),
             r = "complete" => c \in revisions,
             r = "cancelled" => c \notin revisions,
             UNCHANGED <<revisions, pointer>>
      PROVE  Goal
  BY <1>2 DEF ReturnWith
<1>3. ASSUME Handlers PROVE Goal
  <2>1. ASSUME NEW j \in Jobs, Submit(j) \/ RegisterJob(j) PROVE Goal
    BY <1>1, <2>1 DEF Submit, RegisterJob
  <2>2. ASSUME NEW j \in Jobs, CancelJob(j) PROVE Goal
    BY <2>2 DEF CancelJob
  <2>3. ASSUME NEW d \in Direct, RequestDirect(d) PROVE Goal
    BY <1>1, <2>3 DEF RequestDirect
  <2> QED BY <1>3, <2>1, <2>2, <2>3 DEF Handlers, CreateJob, RetryJob
<1>4. ASSUME NEW c \in Comparisons, AwaitLock(c) PROVE Goal
  <2>1. CASE NotCancelled(c) \/ LockBusy(c)
    BY <1>1, <2>1 DEF NotCancelled, LockBusy
  <2>2. CASE AcquireLock(c)
    BY <2>2 DEF AcquireLock, LockFree
  <2>3. CASE CancelBeforeLock(c) \/ LockPoisoned(c)
    BY <1>2, <2>3 DEF CancelBeforeLock, LockPoisoned, Outcome
  <2> QED BY <1>4, <2>1, <2>2, <2>3 DEF AwaitLock
<1>5. ASSUME NEW c \in Comparisons, Compare(c) PROVE Goal
  <2>1. CASE BeginComparison(c) \/ FinalizeRun(c)
    BY <2>1 DEF BeginComparison, FinalizeRun
  <2>2. CASE BeginFails(c) \/ CancelAtBoundary(c) \/ ReturnComplete(c)
    BY <1>2, <2>2 DEF BeginFails, CancelAtBoundary, Boundaries,
                      ReturnComplete, Outcome
  <2>3. CASE CommitRevision(c)
    BY <2>3 DEF CommitRevision
  <2>4. CASE WritePointer(c)
    BY <2>4 DEF WritePointer
  <2> QED BY <1>5, <2>1, <2>2, <2>3, <2>4 DEF Compare
<1>6. ASSUME NEW c \in Comparisons, Report(c) PROVE Goal
  BY <1>1, <1>6 DEF Report, IndexRun, StartTask, FinishJob, Reported,
                    FinishDirect
<1>7. CASE Trouble
  <2>1. ASSUME NEW c \in Comparisons, ComparisonFails(c) \/ Panic(c)
        PROVE  Goal
    BY <1>2, <2>1 DEF ComparisonFails, Panic, Outcome
  <2>2. ASSUME NEW d \in Direct, Disconnect(d) PROVE Goal
    BY <1>1, <2>2 DEF Disconnect
  <2> QED BY <1>7, <2>1, <2>2 DEF Trouble
<1>8. CASE Process
  <2>1. CASE Forget
    BY <2>1 DEF Forget
  <2>2. CASE Stop \/ Restart
    BY <2>2 DEF Stop, Restart
  <2> QED BY <1>8, <2>1, <2>2 DEF Process, Exit, Crash
<1>9. CASE UNCHANGED vars
  BY <1>9 DEF vars
<1> QED BY <1>3, <1>4, <1>5, <1>6, <1>7, <1>8, <1>9 DEF Next

\* At most one comparison at a time reads, builds and commits, and what the
\* pointer names was committed before.
THEOREM OneExecutor == Spec => [](SingleExecutor /\ PointerIsCommitted)
<1>1. Executing => SingleExecutor /\ PointerIsCommitted
  BY DEF Executing, HolderHolds, SingleExecutor
<1> QED BY ExecutingInitially, ExecutingStep, <1>1, PTL DEF Spec

\* Each selected revision succeeds the one that was current until then.
THEOREM NoLostUpdate == Spec => LinearHistory
<1>1. Executing /\ [Next]_vars =>
          [pointer' # pointer => base[pointer'] = pointer]_vars
  <2> SUFFICES ASSUME Executing, [Next]_vars, pointer' # pointer
               PROVE  base[pointer'] = pointer
    OBVIOUS
  <2> PICK c \in Comparisons : WritePointer(c)
    BY DEF Next, vars, job, executor, project, Handlers, CreateJob, RetryJob,
           Submit, RegisterJob, CancelJob, RequestDirect, AwaitLock,
           CancelBeforeLock, NotCancelled, LockBusy, AcquireLock, LockPoisoned,
           Compare, BeginComparison, BeginFails, CancelAtBoundary, FinalizeRun,
           CommitRevision, ReturnComplete, Report, IndexRun, StartTask,
           FinishJob, FinishDirect, Trouble, ComparisonFails, Panic,
           Disconnect, Process, Stop, Exit, Crash, Forget, Restart
  <2> QED BY DEF WritePointer, Goto, Executing, Committing
<1> QED BY ExecutingInitially, ExecutingStep, <1>1, PTL
        DEF Spec, LinearHistory

-----------------------------------------------------------------------------
(* Readability: a status of complete, in the registry or in a job file that *)
(* a later server rediscovers, is backed by the index or by the revision    *)
(* that the index is rebuilt from.                                         *)

Readable == \A j \in Jobs :
    /\ registry[j] = "complete" => j \in index
    /\ disk[j] = "complete" => j \in revisions
    /\ worker[j] = "indexed" => j \in index /\ outcome[j] = "complete"

Shows == Executing /\ Readable

\* A new server shows nothing and has nothing to show.
LEMMA ReadableInitially == Init => Shows
  BY ExecutingInitially, JobsAssumption DEF Init, Shows, Readable

\* Every step keeps each complete status backed, a crash and the next server's
\* discovery included.
LEMMA ReadableStep == Shows /\ [Next]_vars => Shows'
<1> SUFFICES ASSUME Shows, [Next]_vars PROVE Readable'
  BY ExecutingStep DEF Shows
<1> USE JobsAssumption
    DEF Shows, Executing, Typed, TypeOK, Readable, Goto, job, executor, project
<1>1. ASSUME NEW c \in Comparisons, NEW r, ReturnWith(c, r),
             \A j \in Jobs : registry'[j] = "complete" => registry[j] = "complete",
             UNCHANGED <<disk, project>>
      PROVE  Readable'
  BY <1>1 DEF ReturnWith
<1>2. ASSUME Handlers PROVE Readable'
  <2>1. ASSUME NEW j \in Jobs, Submit(j) \/ RegisterJob(j) PROVE Readable'
    BY <2>1 DEF Submit, RegisterJob, Persisted
  <2>2. ASSUME NEW j \in Jobs, CancelJob(j) PROVE Readable'
    BY <2>2 DEF CancelJob, TryPersist, Persisted, PersistFails, Open
  <2>3. ASSUME NEW d \in Direct, RequestDirect(d) PROVE Readable'
    BY <2>3 DEF RequestDirect
  <2> QED BY <1>2, <2>1, <2>2, <2>3 DEF Handlers, CreateJob, RetryJob
<1>3. ASSUME NEW c \in Comparisons, AwaitLock(c) PROVE Readable'
  <2>1. CASE NotCancelled(c) \/ LockBusy(c) \/ AcquireLock(c)
    BY <2>1 DEF NotCancelled, LockBusy, AcquireLock
  <2>2. CASE CancelBeforeLock(c) \/ LockPoisoned(c)
    BY <1>1, <2>2 DEF CancelBeforeLock, LockPoisoned
  <2> QED BY <1>3, <2>1, <2>2 DEF AwaitLock
<1>4. ASSUME NEW c \in Comparisons, Compare(c) PROVE Readable'
  <2>1. CASE BeginComparison(c)
    BY <2>1 DEF BeginComparison, Persisted
  <2>2. CASE c \in Jobs /\ BeginFails(c)
    BY <2>2 DEF BeginFails, PersistFails, ReturnWith
  <2>3. CASE CancelAtBoundary(c) \/ ReturnComplete(c)
    BY <1>1, <2>3 DEF CancelAtBoundary, ReturnComplete
  <2>4. CASE FinalizeRun(c) \/ CommitRevision(c) \/ WritePointer(c)
    BY <2>4 DEF FinalizeRun, CommitRevision, WritePointer
  <2> QED BY <1>4, <2>1, <2>2, <2>3, <2>4 DEF Compare
<1>5. ASSUME NEW c \in Comparisons, Report(c) PROVE Readable'
  <2>1. CASE IndexRun(c)
    BY <2>1 DEF IndexRun
  <2>2. CASE c \in Jobs /\ StartTask(c)
    BY <2>2 DEF StartTask, TryPersist, Persisted, PersistFails
  <2>3. CASE c \in Jobs /\ FinishJob(c)
    <3>1. outcome[c] = "complete" => c \in index /\ c \in revisions
      BY <2>3 DEF FinishJob, Reported, Committing
    <3> QED BY <2>3, <3>1 DEF FinishJob, TryPersist, Persisted, PersistFails
  <2>4. CASE c \in Direct /\ FinishDirect(c)
    BY <2>4 DEF FinishDirect
  <2> QED BY <1>5, <2>1, <2>2, <2>3, <2>4 DEF Report
<1>6. CASE Trouble
  <2>1. ASSUME NEW c \in Comparisons, ComparisonFails(c) \/ Panic(c)
        PROVE  Readable'
    BY <1>1, <2>1 DEF ComparisonFails, Panic
  <2>2. ASSUME NEW d \in Direct, Disconnect(d) PROVE Readable'
    BY <2>2 DEF Disconnect
  <2> QED BY <1>6, <2>1, <2>2 DEF Trouble
<1>7. CASE Process
  <2>1. CASE Stop
    BY <2>1 DEF Stop
  <2>2. CASE Forget
    BY <2>2 DEF Forget
  <2>3. CASE Restart
    <3>1. \A j \in Jobs : Rediscovered(disk[j]) = "complete" => disk[j] = "complete"
      BY DEF Rediscovered
    <3>2. \A j \in Jobs : worker[j] # "indexed" \/ j \in revisions
      BY DEF Committing
    <3> QED BY <2>3, <3>1, <3>2 DEF Restart
  <2> QED BY <1>7, <2>1, <2>2, <2>3 DEF Process, Exit, Crash
<1>8. CASE UNCHANGED vars
  BY <1>8 DEF vars
<1> QED BY <1>2, <1>3, <1>4, <1>5, <1>6, <1>7, <1>8 DEF Next

\* A client that polls a job until it is complete finds its run, in the server
\* that ran it and in every later one.
THEOREM CompletedIsShown == Spec => []CompleteIsReadable
<1>1. Shows => CompleteIsReadable
  BY DEF Shows, Readable, CompleteIsReadable
<1> QED BY ReadableInitially, ReadableStep, <1>1, PTL DEF Spec

-----------------------------------------------------------------------------
(* The job files: open exactly while the task or its thread is at work.    *)

Recording == \A j \in Jobs :
    /\ worker[j] = "none" <=> disk[j] = "absent"
    /\ worker[j] \notin {"none", "done"} => disk[j] \in Open
    /\ registry[j] \in Open => worker[j] \notin {"none", "persisted", "done"}
    /\ server = "down" => worker[j] \in {"none", "done"}

Recorded == Executing /\ Recording

\* A new server has no job files.
LEMMA RecordingInitially == Init => Recorded
  BY ExecutingInitially, JobsAssumption DEF Init, Recorded, Recording, Open

\* Every step keeps the job files open exactly while there is work to do.
LEMMA RecordingStep == Recorded /\ [Next]_vars => Recorded'
<1> SUFFICES ASSUME Recorded, [Next]_vars PROVE Recording'
  BY ExecutingStep DEF Recorded
<1> USE JobsAssumption
    DEF Recorded, Executing, Typed, TypeOK, Recording, Returning, Goto, job,
        executor, project, Blocking, Holding, Preparing, Open
<1>1. ASSUME NEW c \in Comparisons, NEW r, ReturnWith(c, r),
             worker[c] \in Blocking, UNCHANGED <<disk, registry, server>>
      PROVE  Recording'
  BY <1>1 DEF ReturnWith
<1>2. ASSUME Handlers PROVE Recording'
  <2>1. ASSUME NEW j \in Jobs, disk[j] = "absent", Submit(j)
        PROVE  Recording'
    BY <2>1 DEF Submit, Persisted
  <2>2. ASSUME NEW j \in Jobs, RegisterJob(j) PROVE Recording'
    BY <2>2 DEF RegisterJob
  <2>3. ASSUME NEW j \in Jobs, CancelJob(j) PROVE Recording'
    BY <2>3 DEF CancelJob, TryPersist, Persisted, PersistFails
  <2>4. ASSUME NEW d \in Direct, RequestDirect(d) PROVE Recording'
    BY <2>4 DEF RequestDirect
  <2> QED BY <1>2, <2>1, <2>2, <2>3, <2>4 DEF Handlers, CreateJob, RetryJob
<1>3. ASSUME NEW c \in Comparisons, AwaitLock(c) PROVE Recording'
  <2>1. CASE NotCancelled(c) \/ LockBusy(c) \/ AcquireLock(c)
    BY <2>1 DEF NotCancelled, LockBusy, AcquireLock
  <2>2. CASE CancelBeforeLock(c) \/ LockPoisoned(c)
    BY <1>1, <2>2 DEF CancelBeforeLock, LockPoisoned
  <2> QED BY <1>3, <2>1, <2>2 DEF AwaitLock
<1>4. ASSUME NEW c \in Comparisons, Compare(c) PROVE Recording'
  <2>1. CASE BeginComparison(c)
    BY <2>1 DEF BeginComparison, Persisted
  <2>2. CASE c \in Jobs /\ BeginFails(c)
    BY <2>2 DEF BeginFails, PersistFails, ReturnWith
  <2>3. CASE CancelAtBoundary(c) \/ ReturnComplete(c)
    BY <1>1, <2>3 DEF CancelAtBoundary, ReturnComplete, Boundaries
  <2>4. CASE FinalizeRun(c) \/ CommitRevision(c) \/ WritePointer(c)
    BY <2>4 DEF FinalizeRun, CommitRevision, WritePointer
  <2> QED BY <1>4, <2>1, <2>2, <2>3, <2>4 DEF Compare
<1>5. ASSUME NEW c \in Comparisons, Report(c) PROVE Recording'
  <2>1. CASE IndexRun(c)
    BY <2>1 DEF IndexRun
  <2>2. CASE c \in Jobs /\ StartTask(c)
    BY <2>2 DEF StartTask, TryPersist, Persisted, PersistFails
  <2>3. CASE c \in Jobs /\ FinishJob(c)
    BY <2>3, Ranges DEF FinishJob, Reported, TryPersist, Persisted,
                        PersistFails, Terminal
  <2>4. CASE c \in Direct /\ FinishDirect(c)
    BY <2>4 DEF FinishDirect
  <2> QED BY <1>5, <2>1, <2>2, <2>3, <2>4 DEF Report
<1>6. CASE Trouble
  <2>1. ASSUME NEW c \in Comparisons, ComparisonFails(c) \/ Panic(c)
        PROVE  Recording'
    BY <1>1, <2>1 DEF ComparisonFails, Panic
  <2>2. ASSUME NEW d \in Direct, Disconnect(d) PROVE Recording'
    BY <2>2 DEF Disconnect
  <2> QED BY <1>6, <2>1, <2>2 DEF Trouble
<1>7. CASE Process
  <2>1. CASE Stop
    BY <2>1 DEF Stop
  <2>2. CASE Forget
    BY <2>2 DEF Forget
  <2>3. CASE Restart
    BY <2>3, RediscoveredType DEF Restart, Rediscovered, Status
  <2> QED BY <1>7, <2>1, <2>2, <2>3 DEF Process, Exit, Crash
<1>8. CASE UNCHANGED vars
  BY <1>8 DEF vars
<1> QED BY <1>2, <1>3, <1>4, <1>5, <1>6, <1>7, <1>8 DEF Next

-----------------------------------------------------------------------------
(* The refinement.  Shown(d) is the contract's status for the job files d;  *)
(* a file that changes from one open status to another shows no change.    *)

Shown(files) == [j \in Jobs |-> IF files[j] \in Open THEN "open" ELSE files[j]]

ContractVars == <<Shown(disk), revisions \cap Jobs>>

\* The initial state maps to the contract's.
LEMMA ContractInitially == Init => Contract!Init
  BY DEF Init, Contract!Init, Open

\* Every step maps to a step of the contract or to a stutter.
LEMMA ContractStep ==
    Recorded /\ [Next]_vars =>
        [Contract!Next]_<<[j \in Jobs |-> IF disk[j] \in Open THEN "open"
                                          ELSE disk[j]],
                          revisions \cap Jobs>>
<1> DEFINE CNext == Contract!Next \/ UNCHANGED ContractVars
<1> SUFFICES ASSUME Recorded, [Next]_vars PROVE CNext
  BY DEF ContractVars, Shown
<1> USE JobsAssumption DEF Recorded, Executing, Typed, TypeOK, Recording
<1>1. ASSUME UNCHANGED <<disk, revisions>> PROVE CNext
  BY <1>1 DEF ContractVars, Shown
<1>2. ASSUME NEW j \in Jobs, NEW s \in Open, disk[j] \in Open,
             Persisted(j, s) \/ UNCHANGED disk, UNCHANGED revisions
      PROVE  CNext
  <2>1. Shown(disk') = Shown(disk)
    BY <1>2 DEF Persisted, Shown
  <2> QED BY <1>2, <2>1 DEF ContractVars
<1>3. ASSUME NEW j \in Jobs, disk[j] = "absent", Submit(j) PROVE CNext
  <2>1. Contract!Submit(j)
    <3>1. disk' = [disk EXCEPT ![j] = "queued"] /\ UNCHANGED revisions
      BY <1>3 DEF Submit, Persisted, project
    <3> QED BY <1>3, <3>1 DEF Contract!Submit, Open
  <2> QED BY <2>1 DEF Contract!Next
<1>4. ASSUME NEW j \in Jobs, FinishJob(j) PROVE CNext
  <2>1. CASE PersistFails
    BY <1>1, <1>4, <2>1 DEF FinishJob, PersistFails, project
  <2>2. CASE Persisted(j, outcome[j])
    <3>1. disk[j] \in Open /\ outcome[j] \in {"complete", "cancelled", "failed"}
      BY <1>4 DEF FinishJob, Reported, Returning, Outcome
    <3>2. PICK how \in {"complete", "cancelled", "failed"} : outcome[j] = how
      BY <3>1
    <3>3. Contract!Settle(j, how)
      <4>1. /\ how = "complete" => j \in revisions \cap Jobs
            /\ how = "cancelled" => j \notin revisions \cap Jobs
        BY <3>2 DEF Committing
      <4>2. Shown(disk') = [Shown(disk) EXCEPT ![j] = how]
        BY <2>2, <3>1, <3>2 DEF Persisted, Shown, Open
      <4>3. UNCHANGED revisions
        BY <1>4 DEF FinishJob, project
      <4>4. Shown(disk)[j] = "open"
        BY <3>1 DEF Shown
      <4> QED BY <4>1, <4>2, <4>3, <4>4 DEF Contract!Settle, Shown
    <3> QED BY <3>3 DEF Contract!Next, Contract!Settled
  <2> QED BY <1>4, <2>1, <2>2 DEF FinishJob, TryPersist
<1>5. ASSUME NEW c \in Comparisons, CommitRevision(c) PROVE CNext
  <2>1. CASE c \in Jobs
    <3>1. disk[c] \in Open
      BY <1>5, <2>1 DEF CommitRevision, Goto
    <3>2. UNCHANGED disk /\ revisions' = revisions \cup {c}
      BY <1>5 DEF CommitRevision, job
    <3>3. Contract!Commit(c)
      BY <2>1, <3>1, <3>2 DEF Contract!Commit
    <3> QED BY <2>1, <3>3 DEF Contract!Next
  <2>2. CASE c \in Direct
    BY <1>5, <2>2 DEF CommitRevision, job, ContractVars, Shown
  <2> QED BY <2>1, <2>2
<1>6. CASE Handlers
  <2>1. ASSUME NEW j \in Jobs, CancelJob(j) PROVE CNext
    BY <1>2, <2>1 DEF CancelJob, TryPersist, PersistFails, project, Open
  <2> QED BY <1>1, <1>3, <1>6, <2>1
      DEF Handlers, CreateJob, RetryJob, RegisterJob, RequestDirect, job, project
<1>7. ASSUME NEW c \in Comparisons, AwaitLock(c) PROVE CNext
  BY <1>1, <1>7 DEF AwaitLock, CancelBeforeLock, NotCancelled, LockBusy,
                    AcquireLock, LockPoisoned, job, project
<1>8. ASSUME NEW c \in Comparisons, Compare(c) PROVE CNext
  <2>1. CASE BeginComparison(c)
    BY <1>1, <1>2, <2>1 DEF BeginComparison, Goto, project, Open
  <2>2. CASE BeginFails(c) \/ CancelAtBoundary(c) \/ FinalizeRun(c)
             \/ WritePointer(c) \/ ReturnComplete(c)
    BY <1>1, <2>2 DEF BeginFails, PersistFails, CancelAtBoundary, FinalizeRun,
                      WritePointer, ReturnComplete, job, project
  <2> QED BY <1>5, <1>8, <2>1, <2>2 DEF Compare
<1>9. ASSUME NEW c \in Comparisons, Report(c) PROVE CNext
  <2>1. CASE c \in Jobs /\ StartTask(c)
    BY <1>2, <2>1 DEF StartTask, Goto, TryPersist, PersistFails, project, Open
  <2>2. CASE IndexRun(c) \/ FinishDirect(c)
    BY <1>1, <2>2 DEF IndexRun, FinishDirect, job, project
  <2> QED BY <1>4, <1>9, <2>1, <2>2 DEF Report
<1>10. CASE Trouble
  BY <1>1, <1>10 DEF Trouble, ComparisonFails, Panic, Disconnect, job, project
<1>11. CASE Process
  <2>1. CASE Stop \/ Forget
    BY <1>1, <2>1 DEF Stop, Forget, job, project
  <2>2. CASE Restart
    <3>1. Contract!InterruptAll
      <4>1. \A j \in Jobs : disk'[j] = Rediscovered(disk[j])
        BY <2>2 DEF Restart
      <4>2. UNCHANGED revisions
        BY <2>2 DEF Restart
      <4> QED BY <4>1, <4>2 DEF Contract!InterruptAll, Rediscovered, Open, Status,
                                Terminal
    <3> QED BY <3>1 DEF Contract!Next
  <2> QED BY <1>11, <2>1, <2>2 DEF Process, Exit, Crash
<1>12. CASE UNCHANGED vars
  BY <1>1, <1>12 DEF vars, job, project
<1> QED BY <1>6, <1>7, <1>8, <1>9, <1>10, <1>11, <1>12 DEF Next

\* The job files and revisions of a project implement the job contract.
THEOREM ContractKept == Spec => KeepsContract
<1>1. Spec => []Recorded
  BY RecordingInitially, RecordingStep, PTL DEF Spec
<1> QED BY <1>1, ContractInitially, ContractStep, PTL
        DEF Spec, KeepsContract, Contract!Spec

=============================================================================
