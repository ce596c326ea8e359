---------------------------- MODULE RunLifecycle ----------------------------
(***************************************************************************)
(* The life of ONE configured run (`structtrace run`, `structtrace run     *)
(* --resume ID`): allocation, checkpointed execution of the two variants,  *)
(* finalization, and resumption after a kill or an ordinary error.         *)
(*                                                                         *)
(* Durable state is the run directory: the SQLite status and derived rows, *)
(* execution-checkpoint.json, inputs/<variant>.jsonl, cases.jsonl with     *)
(* summary.json, and manifest.json.  Every OS process that works on the    *)
(* run has its own memory (what it read at its start, its private copy of  *)
(* the checkpoint, the prepared outputs).  The run directory has no lock.  *)
(*                                                                         *)
(* Data abstraction: an adapter invocation is its ordinal number, so two   *)
(* invocations never give the same bytes; configuration, dataset and       *)
(* schema are one version number `snapshot` (read once, at the start) and  *)
(* the implementation files another, `implementation` (fingerprinted at    *)
(* the start and again before finalization).                               *)
(***************************************************************************)
EXTENDS Naturals, FiniteSets

CONSTANTS
    Procs,              \* processes that may run or resume this run
    Cases,              \* cases of the dataset
    MaxVersion,         \* source versions are 0..MaxVersion
    MaxInvocations,     \* bound on adapter invocations (both variants)
    Rewriting,          \* snapshots whose storage settings change the bytes
    AllowRevert         \* edits may restore an earlier version

ASSUME LifecycleAssumption ==
    /\ Cases # {}
    /\ IsFiniteSet(Cases)
    /\ MaxVersion \in Nat
    /\ MaxInvocations \in Nat
    /\ Rewriting \subseteq Nat
    /\ AllowRevert \in BOOLEAN

VARIABLES
    db,             \* status column of the run's SQLite row
    caseRows,       \* the case and variant rows are inserted
    rows,           \* derived rows: the bytes each case was evaluated from
    checkpoint,     \* execution-checkpoint.json
    outputs,        \* inputs/baseline.jsonl and inputs/candidate.jsonl
    evidence,       \* bytes that cases.jsonl and summary.json were made from
    manifest,       \* manifest.json
    sources,        \* the user's files on disk: snapshot and implementation
    invocations,    \* number of adapter invocations so far
    madeBy,         \* the sources each invocation ran with
    pc,             \* where each process is
    seen,           \* sources each process read at its start
    copy,           \* each process's in-memory checkpoint
    prepared,       \* outputs each process holds in memory
    records,        \* cases each process has evaluated in this attempt
    held,           \* the manifest each process holds in memory
    erred           \* processes whose last attempt ended in an ordinary error

durable == <<db, caseRows, rows, checkpoint, outputs, evidence, manifest>>
world   == <<sources, invocations, madeBy>>
memory  == <<pc, seen, copy, prepared, records, held, erred>>
vars    == <<durable, world, memory>>

Variants == {"baseline", "candidate"}
Versions == 0 .. MaxVersion
Sources  == [snapshot : Versions, implementation : Versions]
Initial  == [snapshot |-> 0, implementation |-> 0]
OutputIds == 0 .. MaxInvocations

\* Bytes of inputs/<variant>.jsonl: which invocation, and whether storage
\* retention has already rewritten them.
Bytes   == [of : OutputIds, form : {"captured", "retained"}]
NoBytes == [of |-> 0, form |-> "captured"]

Captured(n) == [of |-> n, form |-> "captured"]

\* apply_storage_retention re-serialises the rows that the storage settings of
\* configuration s redact or omit.
Retained(s, b) ==
    IF s.snapshot \in Rewriting THEN [b EXCEPT !.form = "retained"] ELSE b

VariantBytes == [Variants -> Bytes]
NoOutputs    == [v \in Variants |-> NoBytes]

NoCheckpoint == [exists |-> FALSE, binds |-> Initial, done |-> NoOutputs]
Checkpoints  == [exists : BOOLEAN, binds : Sources, done : VariantBytes]

\* What the manifest binds: the bytes held in memory (input_artifacts), the
\* files found on disk (artifacts), and the sources read at the start.
NoManifest == [status |-> "none", inputs |-> NoOutputs, files |-> NoOutputs,
               evidence |-> NoOutputs, binds |-> Initial]
Manifests  == [status : {"none", "analyzing", "complete"},
               inputs : VariantBytes, files : VariantBytes,
               evidence : VariantBytes, binds : Sources]

RunStatus == {"none", "created", "validating", "running", "interrupted",
              "analyzing", "complete", "failed"}

\* Where a process is.  The failure guard is armed in Guarded only.
Execution == {"run_baseline", "captured_baseline", "written_baseline",
              "run_candidate", "captured_candidate", "written_candidate",
              "recheck"}
Finalization == {"validating", "evaluating", "retain_baseline",
                 "retain_candidate", "evidence", "manifest", "seal",
                 "publish"}
Guarded   == Execution \cup Finalization
Unguarded == {"allocated", "inputs", "checkpointed", "resuming", "accepted",
              "prepared", "cleanup"}
Active == Guarded \cup Unguarded
PC     == Active \cup {"idle"}

TypeOK ==
    /\ db \in RunStatus
    /\ caseRows \in BOOLEAN
    /\ rows \in [Cases -> VariantBytes]
    /\ checkpoint \in Checkpoints
    /\ outputs \in VariantBytes
    /\ evidence \in VariantBytes
    /\ manifest \in Manifests
    /\ sources \in Sources
    /\ invocations \in OutputIds
    /\ madeBy \in [OutputIds -> Sources]
    /\ pc \in [Procs -> PC]
    /\ seen \in [Procs -> Sources]
    /\ copy \in [Procs -> Checkpoints]
    /\ prepared \in [Procs -> VariantBytes]
    /\ records \in [Procs -> SUBSET Cases]
    /\ held \in [Procs -> Manifests]
    /\ erred \in SUBSET Procs

NoRows == [c \in Cases |-> NoOutputs]

Init ==
    /\ db = "none"
    /\ caseRows = FALSE
    /\ rows = NoRows
    /\ checkpoint = NoCheckpoint
    /\ outputs = NoOutputs
    /\ evidence = NoOutputs
    /\ manifest = NoManifest
    /\ sources = Initial
    /\ invocations = 0
    /\ madeBy = [n \in OutputIds |-> Initial]
    /\ pc = [p \in Procs |-> "idle"]
    /\ seen = [p \in Procs |-> Initial]
    /\ copy = [p \in Procs |-> NoCheckpoint]
    /\ prepared = [p \in Procs |-> NoOutputs]
    /\ records = [p \in Procs |-> {}]
    /\ held = [p \in Procs |-> NoManifest]
    /\ erred = {}

Goto(p, from, to) ==
    /\ pc[p] = from
    /\ pc' = [pc EXCEPT ![p] = to]

-----------------------------------------------------------------------------
(* Allocation and resumption                                               *)

\* RunStore::create, after the sources were read and fingerprinted: the
\* directory, the tables and the row, status created.
CreateRun(p) ==
    /\ db = "none"
    /\ Goto(p, "idle", "allocated")
    /\ seen' = [seen EXCEPT ![p] = sources]
    /\ db' = "created"
    /\ erred' = erred \ {p}
    /\ UNCHANGED <<caseRows, rows, checkpoint, outputs, evidence, manifest,
                   world, copy, prepared, held, records>>

\* Status validating, then the retained copies of the inputs.
PersistInputs(p) ==
    /\ Goto(p, "allocated", "inputs")
    /\ db' = "validating"
    /\ UNCHANGED <<caseRows, rows, checkpoint, outputs, evidence, manifest,
                   world, seen, copy, prepared, held, records,
                   erred>>

\* The first checkpoint binds the sources and names no completed variant.
WriteFirstCheckpoint(p) ==
    /\ Goto(p, "inputs", "checkpointed")
    /\ checkpoint' = [exists |-> TRUE, binds |-> seen[p], done |-> NoOutputs]
    /\ copy' = [copy EXCEPT ![p] = checkpoint']
    /\ UNCHANGED <<db, caseRows, rows, outputs, evidence, manifest, world,
                   seen, prepared, held,
                   records, erred>>

\* verify_resume_compatibility: every hash the checkpoint binds must equal
\* what is on disk now.
Compatible(cp) == cp.exists /\ cp.binds = sources

\* Mutant of Loaded: the freshly computed checkpoint is kept, which names no
\* completed variant.
LoadedFresh(cp) == [cp EXCEPT !.done = NoOutputs]

\* The checkpoint a resumed attempt works with is the one on disk.
Loaded(cp) == cp

\* `--resume`: sources and checkpoint are read and compared.
ReadCheckpoint(p) ==
    /\ Compatible(checkpoint)
    /\ Goto(p, "idle", "resuming")
    /\ seen' = [seen EXCEPT ![p] = sources]
    /\ copy' = [copy EXCEPT ![p] = Loaded(checkpoint)]
    /\ erred' = erred \ {p}
    /\ UNCHANGED <<durable, world, prepared, held, records>>

\* Complete (and corrupt) runs are refused.
ResumableStatus(s) == s \notin {"none", "complete"}

\* The status is read, then set to interrupted.
AcceptResume(p) ==
    /\ ResumableStatus(db)
    /\ Goto(p, "resuming", "accepted")
    /\ db' = "interrupted"
    /\ UNCHANGED <<caseRows, rows, checkpoint, outputs, evidence, manifest,
                   world, seen, copy, prepared, held, records,
                   erred>>

\* Status running, and the failure guard is armed: from here until Recheck an
\* ordinary error marks the run failed.
BeginExecution(p) ==
    /\ pc[p] \in {"checkpointed", "accepted"}
    /\ pc' = [pc EXCEPT ![p] = "run_baseline"]
    /\ prepared' = [prepared EXCEPT ![p] = NoOutputs]
    /\ db' = "running"
    /\ UNCHANGED <<caseRows, rows, checkpoint, outputs, evidence, manifest,
                   world, seen, copy, held, records, erred>>

-----------------------------------------------------------------------------
(* prepare_or_restore: baseline, then candidate                            *)

Run(v)     == IF v = "baseline" THEN "run_baseline" ELSE "run_candidate"
HasRun(v)  == IF v = "baseline" THEN "captured_baseline"
                                ELSE "captured_candidate"
Written(v) == IF v = "baseline" THEN "written_baseline"
                                ELSE "written_candidate"
AfterVariant(v) == IF v = "baseline" THEN "run_candidate" ELSE "recheck"

\* Mutant of HashMatches: the file is trusted because it is there.
FileExists(p, v) == outputs[v] # NoBytes

\* The file still has the hash the checkpoint recorded.
HashMatches(p, v) == outputs[v] = copy[p].done[v]

\* A variant the checkpoint names is restored from its file.
Restore(p, v) ==
    /\ copy[p].done[v] # NoBytes
    /\ HashMatches(p, v)
    /\ Goto(p, Run(v), AfterVariant(v))
    /\ prepared' = [prepared EXCEPT ![p][v] = outputs[v]]
    /\ UNCHANGED <<durable, world, seen, copy, held, records, erred>>

\* The adapter runs the whole variant on the dataset in memory, with whatever
\* implementation files are on disk now.
Invoke(p, v) ==
    /\ copy[p].done[v] = NoBytes
    /\ invocations < MaxInvocations
    /\ Goto(p, Run(v), HasRun(v))
    /\ invocations' = invocations + 1
    /\ madeBy' = [madeBy EXCEPT ![invocations + 1] =
                    [snapshot |-> seen[p].snapshot,
                     implementation |-> sources.implementation]]
    /\ prepared' = [prepared EXCEPT ![p][v] = Captured(invocations + 1)]
    /\ UNCHANGED <<durable, sources, seen, copy, held, records, erred>>

\* Mutant of WriteCapture: the file is not written before the checkpoint.
SkipCapture(p, v) ==
    /\ Goto(p, HasRun(v), Written(v))
    /\ UNCHANGED <<durable, world, seen, copy, prepared, held, records, erred>>

\* atomic_write of inputs/<variant>.jsonl with the captured bytes.
WriteCapture(p, v) ==
    /\ Goto(p, HasRun(v), Written(v))
    /\ outputs' = [outputs EXCEPT ![v] = prepared[p][v]]
    /\ UNCHANGED <<db, caseRows, rows, checkpoint, evidence, manifest, world,
                   seen, copy, prepared, held, records,
                   erred>>

MarkDone(cp, v, b) == [cp EXCEPT !.done[v] = b]

\* The checkpoint file is replaced by this process's copy, in which the
\* variant is now complete.
CheckpointVariant(p, v) ==
    /\ Goto(p, Written(v), AfterVariant(v))
    /\ checkpoint' = MarkDone(copy[p], v, prepared[p][v])
    /\ copy' = [copy EXCEPT ![p] = checkpoint']
    /\ UNCHANGED <<db, caseRows, rows, outputs, evidence, manifest, world,
                   seen, prepared, held,
                   records, erred>>

\* Mutant of Unchanged: the second fingerprint is not compared.
NotCompared(p) == TRUE

\* The implementation has the fingerprint taken at the start.
Unchanged(p) == sources.implementation = seen[p].implementation

\* The second fingerprint agrees.  The execution guard is disarmed and the
\* store closed.
Recheck(p) ==
    /\ Unchanged(p)
    /\ Goto(p, "recheck", "prepared")
    /\ UNCHANGED <<durable, world, seen, copy, prepared, held, records,
                   erred>>

-----------------------------------------------------------------------------
(* finalize_prepared_for_run                                               *)

\* Mutant of Cleared: the transaction forgets the derived rows.
NotCleared == rows

\* What reset_for_resume leaves of the derived rows.
Cleared == NoRows

\* reset_for_resume: one transaction deletes cases, variants and every
\* derived row and sets validating; then the finalization guard is armed.
ResetRows(p) ==
    /\ Goto(p, "prepared", "validating")
    /\ caseRows' = FALSE
    /\ rows' = Cleared
    /\ db' = "validating"
    /\ UNCHANGED <<checkpoint, outputs, evidence, manifest, world, seen, copy,
                   prepared, held, records, erred>>

\* insert_case and insert_variant, whose primary keys admit no second copy,
\* then status running.
InsertCases(p) ==
    /\ ~ caseRows
    /\ Goto(p, "validating", "evaluating")
    /\ caseRows' = TRUE
    /\ records' = [records EXCEPT ![p] = {}]
    /\ db' = "running"
    /\ UNCHANGED <<rows, checkpoint, outputs, evidence, manifest, world, seen,
                   copy, prepared, held, erred>>

\* Primary key (variant, case) and the foreign key into cases.
MayInsert(c) == caseRows /\ rows[c] = NoOutputs

\* One case: both outputs and both evaluations, made from the captured bytes
\* in memory, are inserted.
EvaluateCase(p, c) ==
    /\ pc[p] = "evaluating"
    /\ c \notin records[p]
    /\ MayInsert(c)
    /\ records' = [records EXCEPT ![p] = @ \cup {c}]
    /\ rows' = [rows EXCEPT ![c] = prepared[p]]
    /\ UNCHANGED <<db, caseRows, checkpoint, outputs, evidence, manifest,
                   world, pc, seen, copy, prepared, held, erred>>

\* Every case is evaluated: status analyzing, summary computed.
Analyze(p) ==
    /\ records[p] = Cases
    /\ Goto(p, "evaluating", "retain_baseline")
    /\ db' = "analyzing"
    /\ UNCHANGED <<caseRows, rows, checkpoint, outputs, evidence, manifest,
                   world, seen, copy, prepared, held, records, erred>>

Retain(v)      == IF v = "baseline" THEN "retain_baseline"
                                    ELSE "retain_candidate"
AfterRetain(v) == IF v = "baseline" THEN "retain_candidate" ELSE "evidence"

\* Mutant of RetainedFile: the file keeps the bytes before retention.
UnretainedFile(p, v) == prepared[p][v]

\* What storage retention leaves of a captured output.
RetainedFile(p, v) == Retained(seen[p], prepared[p][v])

\* inputs/<variant>.jsonl is overwritten by the bytes retention left.
WriteRetained(p, v) ==
    /\ Goto(p, Retain(v), AfterRetain(v))
    /\ outputs' = [outputs EXCEPT ![v] = RetainedFile(p, v)]
    /\ UNCHANGED <<db, caseRows, rows, checkpoint, evidence, manifest, world,
                   seen, copy, prepared, held, records,
                   erred>>

\* cases.jsonl, discordances.jsonl, summary.json and summary.md.
WriteEvidence(p) ==
    /\ Goto(p, "evidence", "manifest")
    /\ evidence' = prepared[p]
    /\ UNCHANGED <<db, caseRows, rows, checkpoint, outputs, manifest, world,
                   seen, copy, prepared, held, records,
                   erred>>

\* The manifest names the retained bytes and hashes the files found on disk;
\* it is written with status analyzing and the report is made from it.
WriteManifest(p) ==
    /\ Goto(p, "manifest", "seal")
    /\ manifest' = [status |-> "analyzing",
                    inputs |-> [v \in Variants |-> Retained(seen[p], prepared[p][v])],
                    files |-> outputs,
                    evidence |-> evidence,
                    binds |-> seen[p]]
    /\ held' = [held EXCEPT ![p] = manifest']
    /\ UNCHANGED <<db, caseRows, rows, checkpoint, outputs, evidence, world,
                   seen, copy, prepared, records,
                   erred>>

\* set_status(Complete) and the WAL checkpoint, before the database file is
\* hashed into the manifest.
SealDatabase(p) ==
    /\ Goto(p, "seal", "publish")
    /\ db' = "complete"
    /\ UNCHANGED <<caseRows, rows, checkpoint, outputs, evidence, manifest,
                   world, seen, copy, prepared, held, records,
                   erred>>

\* The manifest with status complete replaces the analyzing one, and the
\* finalization guard is disarmed.
PublishManifest(p) ==
    /\ Goto(p, "publish", "cleanup")
    /\ manifest' = [held[p] EXCEPT !.status = "complete"]
    /\ UNCHANGED <<db, caseRows, rows, checkpoint, outputs, evidence, world,
                   seen, copy, prepared, held, records,
                   erred>>

RemoveCheckpoint(p) ==
    /\ Goto(p, "cleanup", "idle")
    /\ checkpoint' = NoCheckpoint
    /\ UNCHANGED <<db, caseRows, rows, outputs, evidence, manifest, world,
                   seen, copy, prepared, held, records,
                   erred>>

-----------------------------------------------------------------------------
(* Errors, kills and the user's edits                                      *)

\* An armed guard's Drop records run_failed and sets the status to failed;
\* without one the status stays as it is.
StatusAfterError(p) == IF pc[p] \in Guarded THEN "failed" ELSE db

\* An ordinary error unwinds the attempt.
Unwind(p) ==
    /\ pc' = [pc EXCEPT ![p] = "idle"]
    /\ db' = StatusAfterError(p)
    /\ erred' = erred \cup {p}
    /\ UNCHANGED <<caseRows, rows, checkpoint, outputs, evidence, manifest,
                   world, seen, copy, prepared, held, records>>

\* A check that the code makes and that does not hold.
Refused(p) ==
    \/ pc[p] = "resuming" /\ ~ ResumableStatus(db)
    \/ \E v \in Variants :
          pc[p] = Run(v) /\ copy[p].done[v] # NoBytes /\ ~ HashMatches(p, v)
    \/ pc[p] = "recheck" /\ ~ Unchanged(p)
    \/ pc[p] = "validating" /\ caseRows
    \/ pc[p] = "evaluating" /\ \E c \in Cases \ records[p] : ~ MayInsert(c)

Refuse(p) == Refused(p) /\ Unwind(p)

\* A file, database or adapter operation returns an error.
Fail(p) == pc[p] \in Active /\ Unwind(p)

\* The process is killed: no cleanup code runs.
Kill(p) ==
    /\ pc[p] \in Active
    /\ pc' = [pc EXCEPT ![p] = "idle"]
    /\ UNCHANGED <<durable, world, seen, copy, prepared, held, records,
                   erred>>

\* The user edits the sources between or during attempts.
Edit ==
    /\ sources' \in Sources \ {sources}
    /\ \/ AllowRevert
       \/ /\ sources'.snapshot >= sources.snapshot
          /\ sources'.implementation >= sources.implementation
    /\ UNCHANGED <<durable, invocations, madeBy, memory>>

-----------------------------------------------------------------------------

Start(p) == CreateRun(p) \/ ReadCheckpoint(p)

Prepare(p) ==
    \/ PersistInputs(p)
    \/ WriteFirstCheckpoint(p)
    \/ AcceptResume(p)
    \/ BeginExecution(p)

Execute(p) ==
    \/ \E v \in Variants : Restore(p, v)
    \/ \E v \in Variants : Invoke(p, v)
    \/ \E v \in Variants : WriteCapture(p, v)
    \/ \E v \in Variants : CheckpointVariant(p, v)
    \/ Recheck(p)

Finalize(p) ==
    \/ ResetRows(p)
    \/ InsertCases(p)
    \/ \E c \in Cases : EvaluateCase(p, c)
    \/ Analyze(p)
    \/ \E v \in Variants : WriteRetained(p, v)
    \/ WriteEvidence(p)
    \/ WriteManifest(p)
    \/ SealDatabase(p)
    \/ PublishManifest(p)
    \/ RemoveCheckpoint(p)

\* The steps of a started attempt, which its own code takes.
Progress(p) == Prepare(p) \/ Execute(p) \/ Finalize(p) \/ Refuse(p)

\* What the code does not do by itself; a refusal is not an outside failure.
Disturb == Edit \/ \E p \in Procs : (Fail(p) /\ ~ Refused(p)) \/ Kill(p)

Next ==
    \/ \E p \in Procs : Start(p)
    \/ \E p \in Procs : Prepare(p)
    \/ \E p \in Procs : Execute(p)
    \/ \E p \in Procs : Finalize(p)
    \/ \E p \in Procs : Refuse(p)
    \/ \E p \in Procs : Fail(p)
    \/ \E p \in Procs : Kill(p)
    \/ Edit

Spec == Init /\ [][Next]_vars

\* A started attempt keeps running unless it is killed, and the user resumes
\* the run as long as it accepts that.
Fairness ==
    \A p \in Procs : WF_vars(Progress(p)) /\ WF_vars(ReadCheckpoint(p))

FairSpec == Spec /\ Fairness

-----------------------------------------------------------------------------
(* Properties                                                              *)

\* A manifest that says complete describes one consistent run
\* (finalize_prepared_for_run): the database is sealed, the two output files
\* are the retained form of exactly the bytes every case was evaluated from,
\* and the evidence and the manifest name the same bytes.
CompleteIsConsistent ==
    manifest.status = "complete" =>
        /\ db = "complete"
        /\ manifest.files = outputs
        /\ manifest.inputs = outputs
        /\ manifest.evidence = evidence
        /\ \A v \in Variants : outputs[v] = Retained(manifest.binds, evidence[v])
        /\ \A c \in Cases : rows[c] = evidence

\* Scoring uses the captured envelopes of the adapter, whatever the storage
\* settings: bytes that retention has rewritten are never evaluated
\* (recorded.rs 428: retention "must never feed back into scoring").
ScoringUsesCapture ==
    \A c \in Cases, v \in Variants : rows[c][v].form = "captured"

\* A resumed run never invokes again a variant that the checkpoint on disk
\* names as complete (prepare_or_restore); and as long as the checkpoint exists,
\* no crash, error, resume or later variant makes it forget one.
CompletedOnce ==
    [][\A v \in Variants : checkpoint.done[v] # NoBytes =>
          /\ \A p \in Procs : ~(pc[p] = Run(v) /\ pc'[p] = HasRun(v))
          /\ checkpoint'.exists => checkpoint'.done[v] = checkpoint.done[v]]_vars

\* "Completed runs are treated as immutable evidence" (run-lifecycle.md 14):
\* once the complete manifest is published, no later step of any process that
\* works on the run changes what it binds: the database, the rows, the outputs,
\* the evidence.  Two resumes at once break it (configured.rs 163-174).
CompleteIsFinal ==
    [][manifest.status = "complete" =>
          UNCHANGED <<db, caseRows, rows, outputs, evidence, manifest>>]_vars

\* The run is complete, and no process is past the status check of a resume.
Settled ==
    /\ manifest.status = "complete"
    /\ db = "complete"
    /\ \A p \in Procs : pc[p] \in {"idle", "resuming", "cleanup"}

\* What the code does keep of it, however many processes resume the run: a
\* complete run is changed only by an attempt that had passed the status check
\* before it was complete; without one it stays as it is for good.
FinalOnceSettled ==
    [][Settled =>
          /\ Settled'
          /\ UNCHANGED <<db, caseRows, rows, outputs, evidence, manifest>>]_vars

\* The hash and fingerprint locks: every output of a complete run was made
\* with the configuration, dataset and schema that its manifest binds
\* (verify_resume_compatibility) and by the implementation that it binds
\* (configured.rs 244-248).
BoundSources ==
    manifest.status = "complete" =>
        \A v \in Variants : madeBy[outputs[v].of] = manifest.binds

\* The file of v holds what retention leaves of the bytes that the checkpoint
\* names, and every case was already evaluated from those bytes.
Superseded(v) ==
    /\ outputs[v] = Retained(checkpoint.binds, checkpoint.done[v])
    /\ \A c \in Cases : rows[c][v] = checkpoint.done[v]

\* A completed variant that the checkpoint names is in its file with the bytes
\* whose hash the checkpoint recorded, so that a resume can restore it; the
\* file is given up only to retention, and only once the evaluation of every
\* case from it is in the database.
CheckpointRestorable ==
    \A v \in Variants :
        checkpoint.done[v] # NoBytes =>
            outputs[v] = checkpoint.done[v] \/ Superseded(v)

\* The stronger reading, that every completed variant can be restored
\* (resuming-runs.md 14): retention that rewrites breaks it.
CaptureRestorable ==
    \A v \in Variants :
        checkpoint.done[v] # NoBytes => outputs[v] = checkpoint.done[v]

\* Only a run whose manifest is published as complete has status complete
\* when no process works on it.
CompleteIsPublished ==
    (db = "complete" /\ \A p \in Procs : pc[p] = "idle")
        => manifest.status = "complete"

\* An ordinary error during execution or finalization of an allocated run
\* leaves the status failed.
ErrorMarksFailed ==
    [][\A p \in Procs :
          p \notin erred /\ p \in erred' /\ pc[p] \in Guarded \cup {"prepared"}
              => db' = "failed"]_vars

\* If kills, errors and edits stop, and the user goes on resuming, the run is
\* completed in the end, unless its checkpoint was never written or no longer
\* matches the sources, or retention has rewritten a file that it names (or
\* the model's bound on invocations is used up).
EventuallyComplete ==
    <>[][~ Disturb]_vars =>
        <>[](\/ db = "complete"
             \/ ~ Compatible(checkpoint)
             \/ ~ CaptureRestorable
             \/ invocations = MaxInvocations)

=============================================================================
