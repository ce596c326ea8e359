----------------------------- MODULE LocalJobs ------------------------------
(***************************************************************************)
(* The durable comparison jobs of `structtrace open` for one project:      *)
(* HTTP handlers that create, cancel and retry jobs, the asynchronous task *)
(* and the blocking worker of each job, the single comparison lock, the    *)
(* commit of a finished comparison (rename of the revision, then the       *)
(* pointer), and the server's shutdown, crash and restart.                 *)
(*                                                                         *)
(* A comparison is named by its job; Direct are the synchronous requests   *)
(* of POST /comparisons/run, which share lock and commit but have no job   *)
(* record.  The content of a comparison is left out: what matters is which *)
(* comparison the committed revisions, the pointer and the index name.     *)
(***************************************************************************)
EXTENDS Naturals, FiniteSets

CONSTANTS
    Jobs,           \* job identities, fresh ULIDs in the code
    Direct,         \* synchronous comparison requests
    NoOne,          \* no comparison
    WritesMayFail,  \* file writes may return errors
    MayPanic,       \* a comparison may panic
    MayCrash        \* the process may be killed

ASSUME JobsAssumption ==
    /\ Jobs \cap Direct = {}
    /\ NoOne \notin Jobs \cup Direct
    /\ WritesMayFail \in BOOLEAN
    /\ MayPanic \in BOOLEAN
    /\ MayCrash \in BOOLEAN

Comparisons == Jobs \cup Direct

VARIABLES
    disk,       \* status in each job file
    registry,   \* status in the server's job registry
    cancel,     \* jobs whose cancel flag is set
    worker,     \* where each comparison is
    outcome,    \* what the blocking worker returned
    lock,       \* holder of comparison_lock
    poisoned,   \* comparison_lock was held by a panicking thread
    base,       \* revision each comparison read as its predecessor
    revisions,  \* committed revisions: comparisons renamed into place
    pointer,    \* current-revision.json
    index,      \* the server's index of runs it can show
    server      \* up; stopping (the runtime is being dropped); down

job      == <<disk, registry, cancel>>
executor == <<worker, outcome, lock, poisoned, base>>
project  == <<revisions, pointer, index>>
vars     == <<job, executor, project, server>>

Open     == {"queued", "waiting", "running"}
Terminal == {"complete", "failed", "cancelled", "interrupted"}
Status   == {"absent"} \cup Open \cup Terminal

\* Program counters: the request, the task (spawned, returned, indexed), and
\* the blocking thread (Blocking).
Preparing == {"blocked", "waiting", "checked"}
Holding   == {"locked", "running", "finalized", "committed", "pointed"}
Blocking  == Preparing \cup Holding
Worker    == Blocking \cup {"none", "persisted", "spawned", "returned",
                            "indexed", "done"}
Outcome   == {"none", "complete", "cancelled", "failed"}

TypeOK ==
    /\ disk \in [Jobs -> Status]
    /\ registry \in [Jobs -> Status]
    /\ cancel \in SUBSET Jobs
    /\ worker \in [Comparisons -> Worker]
    /\ outcome \in [Comparisons -> Outcome]
    /\ lock \in Comparisons \cup {NoOne}
    /\ poisoned \in BOOLEAN
    /\ base \in [Comparisons -> Comparisons \cup {NoOne}]
    /\ revisions \in SUBSET Comparisons
    /\ pointer \in Comparisons \cup {NoOne}
    /\ index \in SUBSET Comparisons
    /\ server \in {"up", "stopping", "down"}

Init ==
    /\ disk = [j \in Jobs |-> "absent"]
    /\ registry = [j \in Jobs |-> "absent"]
    /\ cancel = {}
    /\ worker = [c \in Comparisons |-> "none"]
    /\ outcome = [c \in Comparisons |-> "none"]
    /\ lock = NoOne
    /\ poisoned = FALSE
    /\ base = [c \in Comparisons |-> NoOne]
    /\ revisions = {}
    /\ pointer = NoOne
    /\ index = {}
    /\ server = "up"

Goto(c, from, to) ==
    /\ worker[c] = from
    /\ worker' = [worker EXCEPT ![c] = to]

\* persist_job replaces the job file, or returns an error.
Persisted(j, status) == disk' = [disk EXCEPT ![j] = status]
PersistFails == WritesMayFail /\ UNCHANGED disk
TryPersist(j, status) == Persisted(j, status) \/ PersistFails

-----------------------------------------------------------------------------
(* HTTP handlers                                                           *)

\* enqueue_job, first half: the job file exists before the registry knows it.
\* (When the file cannot be written the request fails and nothing happens.)
Submit(j) ==
    /\ server = "up"
    /\ Goto(j, "none", "persisted")
    /\ Persisted(j, "queued")
    /\ UNCHANGED <<registry, cancel, outcome, lock, poisoned, base, project,
                   server>>

CreateJob(j) == disk[j] = "absent" /\ Submit(j)

Retryable == {"failed", "cancelled", "interrupted"}

\* retry_job enqueues a new job with the old one's request.
RetryJob(old, j) ==
    /\ registry[old] \in Retryable
    /\ disk[j] = "absent"
    /\ Submit(j)

\* enqueue_job, second half: the registry entry and the spawned task.
RegisterJob(j) ==
    /\ server = "up"
    /\ Goto(j, "persisted", "spawned")
    /\ registry' = [registry EXCEPT ![j] = "queued"]
    /\ UNCHANGED <<disk, cancel, outcome, lock, poisoned, base, project,
                   server>>

\* cancel_job: an open job gets its flag; the file is rewritten with the
\* status it has (an error of that write leaves the flag set).
CancelJob(j) ==
    /\ server = "up"
    /\ registry[j] \in Open
    /\ cancel' = cancel \cup {j}
    /\ TryPersist(j, registry[j])
    /\ UNCHANGED <<registry, executor, project, server>>

\* run_comparison: the blocking thread waits for the lock.
RequestDirect(d) ==
    /\ server = "up"
    /\ Goto(d, "none", "blocked")
    /\ UNCHANGED <<job, outcome, lock, poisoned, base, project, server>>

-----------------------------------------------------------------------------
(* execute_job: waiting for the executor                                   *)

\* The task marks the job as waiting and spawns the blocking thread.
StartTask(j) ==
    /\ server = "up"
    /\ Goto(j, "spawned", "waiting")
    /\ registry' = [registry EXCEPT ![j] = "waiting"]
    /\ TryPersist(j, "waiting")
    /\ UNCHANGED <<cancel, outcome, lock, poisoned, base, project, server>>

\* Mutant of ReturnWith: the lock is not given back.
ReturnKeepingLock(c, result) ==
    /\ worker' = [worker EXCEPT ![c] = "returned"]
    /\ outcome' = [outcome EXCEPT ![c] = result]
    /\ UNCHANGED <<lock, base>>

\* The blocking thread ends and gives the lock back.
ReturnWith(c, result) ==
    /\ worker' = [worker EXCEPT ![c] = "returned"]
    /\ outcome' = [outcome EXCEPT ![c] = result]
    /\ lock' = IF lock = c THEN NoOne ELSE lock
    /\ UNCHANGED base

CancelBeforeLock(j) ==
    /\ worker[j] = "waiting"
    /\ j \in cancel
    /\ ReturnWith(j, "cancelled")
    /\ UNCHANGED <<job, poisoned, project, server>>

NotCancelled(j) ==
    /\ j \notin cancel
    /\ Goto(j, "waiting", "checked")
    /\ UNCHANGED <<job, outcome, lock, poisoned, base, project, server>>

\* Mutant of LockFree: the holder is not looked at.
AlwaysFree == TRUE

LockFree == lock = NoOne

\* try_lock for a job, lock for a synchronous request.
AcquireLock(c) ==
    /\ worker[c] \in {"checked", "blocked"}
    /\ LockFree
    /\ ~ poisoned
    /\ worker' = [worker EXCEPT ![c] = "locked"]
    /\ lock' = c
    /\ UNCHANGED <<job, outcome, poisoned, base, project, server>>

\* try_lock would block: sleep 25 ms and look at the flag again.
LockBusy(j) ==
    /\ ~ LockFree
    /\ ~ poisoned
    /\ Goto(j, "checked", "waiting")
    /\ UNCHANGED <<job, outcome, lock, poisoned, base, project, server>>

LockPoisoned(c) ==
    /\ worker[c] \in {"checked", "blocked"}
    /\ poisoned
    /\ ReturnWith(c, "failed")
    /\ UNCHANGED <<job, poisoned, project, server>>

-----------------------------------------------------------------------------
(* The comparison, under the lock                                          *)

\* A job is marked running; every comparison then reads the revision that the
\* pointer names (current_project_revision in materialize...).
BeginComparison(c) ==
    /\ Goto(c, "locked", "running")
    /\ base' = [base EXCEPT ![c] = pointer]
    /\ IF c \in Jobs
         THEN /\ registry' = [registry EXCEPT ![c] = "running"]
              /\ Persisted(c, "running")
         ELSE UNCHANGED <<registry, disk>>
    /\ UNCHANGED <<cancel, outcome, lock, poisoned, project, server>>

\* The job cannot be marked running in its file.
BeginFails(j) ==
    /\ worker[j] = "locked"
    /\ PersistFails
    /\ registry' = [registry EXCEPT ![j] = "running"]
    /\ ReturnWith(j, "failed")
    /\ UNCHANGED <<cancel, poisoned, project, server>>

\* Mutant of Boundaries: the flag is also looked at after the rename.
BoundariesTooLate == {"running", "committed"}

\* The observer looks at the flag at source, case and artifact boundaries,
\* all of them before the revision is renamed into place.
Boundaries == {"running"}

CancelAtBoundary(j) ==
    /\ worker[j] \in Boundaries
    /\ j \in cancel
    /\ ReturnWith(j, "cancelled")
    /\ UNCHANGED <<job, poisoned, project, server>>

\* The last boundary is passed with the flag clear: the run is complete in
\* the scratch directory.
FinalizeRun(c) ==
    /\ c \notin cancel
    /\ Goto(c, "running", "finalized")
    /\ UNCHANGED <<job, outcome, lock, poisoned, base, project, server>>

\* rename(build, revisions/<id>)
CommitRevision(c) ==
    /\ Goto(c, "finalized", "committed")
    /\ revisions' = revisions \cup {c}
    /\ UNCHANGED <<job, outcome, lock, poisoned, base, pointer, index, server>>

\* atomic_write of current-revision.json
WritePointer(c) ==
    /\ Goto(c, "committed", "pointed")
    /\ pointer' = c
    /\ UNCHANGED <<job, outcome, lock, poisoned, base, revisions, index,
                   server>>

ReturnComplete(c) ==
    /\ worker[c] = "pointed"
    /\ ReturnWith(c, "complete")
    /\ UNCHANGED <<job, poisoned, project, server>>

\* The comparison itself is invalid or fails (running), or a file operation
\* of the commit fails; the scratch directory goes with the error.
ComparisonFails(c) ==
    /\ \/ worker[c] = "running"
       \/ worker[c] \in {"finalized", "committed"} /\ WritesMayFail
    /\ ReturnWith(c, "failed")
    /\ UNCHANGED <<job, poisoned, project, server>>

\* A panic unwinds through the lock guard, which poisons the mutex.
Panic(c) ==
    /\ MayPanic
    /\ worker[c] = "running"
    /\ ReturnWith(c, "failed")
    /\ poisoned' = TRUE
    /\ UNCHANGED <<job, project, server>>

-----------------------------------------------------------------------------
(* The task after its blocking thread returned                             *)

\* The suite is refreshed and the run enters the index.
IndexRun(c) ==
    /\ server = "up"
    /\ outcome[c] = "complete"
    /\ Goto(c, "returned", "indexed")
    /\ index' = index \cup {c}
    /\ UNCHANGED <<job, outcome, lock, poisoned, base, revisions, pointer,
                   server>>

\* Mutant of Reported: the status is published before the run is indexed.
ReportedEarly(c) == worker[c] \in {"returned", "indexed"}

\* A complete run is indexed before its status is reported.
Reported(c) ==
    \/ worker[c] = "indexed"
    \/ worker[c] = "returned" /\ outcome[c] # "complete"

\* The final status; an error of the last write is ignored.
FinishJob(j) ==
    /\ server = "up"
    /\ Reported(j)
    /\ worker' = [worker EXCEPT ![j] = "done"]
    /\ registry' = [registry EXCEPT ![j] = outcome[j]]
    /\ TryPersist(j, outcome[j])
    /\ UNCHANGED <<cancel, outcome, lock, poisoned, base, project, server>>

\* The response of a synchronous comparison is sent.
FinishDirect(d) ==
    /\ server = "up"
    /\ Reported(d)
    /\ worker' = [worker EXCEPT ![d] = "done"]
    /\ UNCHANGED <<job, outcome, lock, poisoned, base, project, server>>

\* The client of a synchronous comparison goes away: the handler is dropped
\* while its blocking thread has already returned.
Disconnect(d) ==
    /\ server = "up"
    /\ Goto(d, "returned", "done")
    /\ UNCHANGED <<job, outcome, lock, poisoned, base, project, server>>

-----------------------------------------------------------------------------
(* The server process                                                      *)

\* Ctrl-C: `serve` has answered the requests in flight and returns, and the
\* runtime is dropped.  Tasks stop at their next await; blocking threads that
\* have started run on (a synchronous one then is one whose client has gone).
Stop ==
    /\ server = "up"
    /\ \A j \in Jobs : worker[j] # "persisted"
    /\ \A d \in Direct : worker[d] \notin {"returned", "indexed"}
    /\ server' = "stopping"
    /\ UNCHANGED <<job, executor, project>>

Forget ==
    /\ server' = "down"
    /\ registry' = [j \in Jobs |-> "absent"]
    /\ cancel' = {}
    /\ worker' = [c \in Comparisons |->
                    IF worker[c] = "none" THEN "none" ELSE "done"]
    /\ outcome' = [c \in Comparisons |-> "none"]
    /\ lock' = NoOne
    /\ poisoned' = FALSE
    /\ index' = {}
    /\ UNCHANGED <<disk, base, revisions, pointer>>

Exit ==
    /\ server = "stopping"
    /\ \A c \in Comparisons : worker[c] \notin Blocking
    /\ Forget

Crash ==
    /\ MayCrash
    /\ server # "down"
    /\ Forget

\* discover_jobs: an open job was interrupted, a settled one keeps its status.
Rediscovered(status) == IF status \in Open THEN "interrupted" ELSE status

\* A new server finds the complete runs of all committed revisions, then the
\* jobs, which it writes back.
Restart ==
    /\ server = "down"
    /\ server' = "up"
    /\ index' = revisions
    /\ registry' = [j \in Jobs |-> Rediscovered(disk[j])]
    /\ disk' = [j \in Jobs |-> Rediscovered(disk[j])]
    /\ UNCHANGED <<cancel, executor, revisions, pointer>>

-----------------------------------------------------------------------------

Handlers ==
    \/ \E j \in Jobs : CreateJob(j) \/ RegisterJob(j) \/ CancelJob(j)
    \/ \E old, j \in Jobs : RetryJob(old, j)
    \/ \E d \in Direct : RequestDirect(d)

\* Steps that the task and the blocking thread of a comparison take.
AwaitLock(c) ==
    \/ c \in Jobs /\ (CancelBeforeLock(c) \/ NotCancelled(c) \/ LockBusy(c))
    \/ AcquireLock(c)
    \/ LockPoisoned(c)

Compare(c) ==
    \/ BeginComparison(c)
    \/ c \in Jobs /\ (BeginFails(c) \/ CancelAtBoundary(c))
    \/ FinalizeRun(c)
    \/ CommitRevision(c)
    \/ WritePointer(c)
    \/ ReturnComplete(c)

Report(c) ==
    \/ IndexRun(c)
    \/ c \in Jobs /\ (StartTask(c) \/ FinishJob(c))
    \/ c \in Direct /\ FinishDirect(c)

Trouble ==
    \/ \E c \in Comparisons : ComparisonFails(c) \/ Panic(c)
    \/ \E d \in Direct : Disconnect(d)

Process == Stop \/ Exit \/ Crash \/ Restart

Next ==
    \/ Handlers
    \/ \E c \in Comparisons : AwaitLock(c)
    \/ \E c \in Comparisons : Compare(c)
    \/ \E c \in Comparisons : Report(c)
    \/ Trouble
    \/ Process

Spec == Init /\ [][Next]_vars

\* Threads and tasks that can take a step do so, handlers included once they
\* have begun; nothing obliges users, crashes or failures to happen.
Fairness ==
    /\ \A c \in Comparisons :
          WF_vars(AwaitLock(c) \/ Compare(c) \/ Report(c))
    /\ \A j \in Jobs : WF_vars(RegisterJob(j))

FairSpec == Spec /\ Fairness

-----------------------------------------------------------------------------
(* Properties                                                              *)

\* The comparison lock admits one comparison at a time to the code that reads
\* the current revision, builds and commits (materialize_and_run_comparison).
SingleExecutor ==
    \A c, d \in Comparisons :
        worker[c] \in Holding /\ worker[d] \in Holding => c = d

\* Each revision is selected as the successor of the very revision that the
\* pointer named until then: concurrent comparisons lose no update.
LinearHistory ==
    [][pointer' # pointer => base[pointer'] = pointer]_vars

\* The pointer names a committed revision, in every crash.
PointerIsCommitted == pointer # NoOne => pointer \in revisions

\* A client that polls a job until it is complete can open its run: the
\* registry never says complete for a run the index does not have.
CompleteIsReadable ==
    server = "up" =>
        \A j \in Jobs : registry[j] = "complete" => j \in index

\* The job files and the committed revisions keep the contract: settled jobs
\* stay settled, only committed ones are complete, cancelled ones are never
\* committed, and whatever is left open is interrupted.
Contract == INSTANCE JobContract WITH
    status  <- [j \in Jobs |-> IF disk[j] \in Open THEN "open" ELSE disk[j]],
    results <- revisions \cap Jobs

KeepsContract == Contract!Spec

\* In a server that stays up every job it accepted is settled, whatever the
\* other jobs do, fail or panic.
JobsSettle ==
    \A j \in Jobs :
        registry[j] = "queued" ~> registry[j] \in Terminal \/ server # "up"

\* local-ui.md 79: a job cancelled while it was queued or waiting does not
\* acquire the executor.
CancelPreventsLock ==
    [][\A j \in Jobs : lock # j /\ lock' = j => j \notin cancel]_vars

\* local-ui.md 94: a failed, cancelled or interrupted comparison has not
\* changed the project's committed revision.
UnfinishedChangesNothing ==
    \A j \in Jobs : disk[j] \in Retryable => pointer # j

\* local-ui.md 82: no decision is shown for a job that is not complete.
NoDecisionUnlessComplete ==
    server = "up" =>
        \A j \in Jobs : registry[j] \in Retryable => j \notin index

=============================================================================
