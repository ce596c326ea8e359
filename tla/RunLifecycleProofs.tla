------------------------- MODULE RunLifecycleProofs -------------------------
(***************************************************************************)
(* Theorems about RunLifecycle, for every set of processes and cases and   *)
(* every bound.                                                            *)
(***************************************************************************)
EXTENDS RunLifecycle, TLAPS

USE DEF Variants

\* The initial values have their types.
LEMMA InitialTypes ==
    /\ Initial \in Sources
    /\ NoBytes \in Bytes
    /\ NoOutputs \in VariantBytes
    /\ NoCheckpoint \in Checkpoints
    /\ NoManifest \in Manifests
  BY LifecycleAssumption
     DEF Initial, Sources, Versions, NoBytes, Bytes, OutputIds, NoOutputs,
         VariantBytes, NoCheckpoint, Checkpoints, NoManifest, Manifests

\* Retention keeps an output an output, of the same invocation.
LEMMA RetainedType ==
    ASSUME NEW s, NEW b \in Bytes
    PROVE  Retained(s, b) \in Bytes /\ Retained(s, b).of = b.of
  BY DEF Retained, Bytes

\* Marking a variant complete keeps a checkpoint a checkpoint.
LEMMA MarkDoneType ==
    ASSUME NEW cp \in Checkpoints, NEW v \in Variants, NEW b \in Bytes
    PROVE  MarkDone(cp, v, b) \in Checkpoints
<1>1. cp = [exists |-> cp.exists, binds |-> cp.binds, done |-> cp.done]
      /\ cp.exists \in BOOLEAN /\ cp.binds \in Sources
      /\ cp.done \in VariantBytes
  BY DEF Checkpoints
<1>2. [cp.done EXCEPT ![v] = b] \in VariantBytes
  BY <1>1 DEF VariantBytes
<1>3. MarkDone(cp, v, b) = [exists |-> cp.exists, binds |-> cp.binds,
                            done |-> [cp.done EXCEPT ![v] = b]]
  BY <1>1 DEF MarkDone
<1> QED BY <1>1, <1>2, <1>3 DEF Checkpoints

\* The execution of one variant moves between program counters.
LEMMA VariantSteps ==
    ASSUME NEW v \in Variants
    PROVE  {Run(v), HasRun(v), Written(v), AfterVariant(v), Retain(v),
            AfterRetain(v)} \subseteq PC
  BY DEF Run, HasRun, Written, AfterVariant, Retain, AfterRetain, PC, Active,
         Guarded, Unguarded, Execution, Finalization

\* The initial state is typed.
LEMMA TypesInitially == Init => TypeOK
<1> SUFFICES ASSUME Init PROVE TypeOK
  OBVIOUS
<1>1. rows \in [Cases -> VariantBytes]
  BY InitialTypes DEF Init, NoRows
<1>2. madeBy \in [OutputIds -> Sources] /\ invocations \in OutputIds
  BY InitialTypes, LifecycleAssumption DEF Init, OutputIds
<1>3. /\ pc \in [Procs -> PC]
      /\ seen \in [Procs -> Sources]
      /\ copy \in [Procs -> Checkpoints]
      /\ prepared \in [Procs -> VariantBytes]
      /\ records \in [Procs -> SUBSET Cases]
      /\ held \in [Procs -> Manifests]
  BY InitialTypes DEF Init, PC
<1> QED BY InitialTypes, <1>1, <1>2, <1>3 DEF Init, TypeOK, RunStatus

\* Every step of every process keeps the types.
LEMMA TypesStep == TypeOK /\ [Next]_vars => TypeOK'
<1> SUFFICES ASSUME TypeOK, [Next]_vars PROVE TypeOK'
  OBVIOUS
<1> USE DEF TypeOK
<1>1. ASSUME NEW p \in Procs, Start(p) PROVE TypeOK'
  <2>1. CASE CreateRun(p)
    BY <2>1 DEF CreateRun, Goto, world, RunStatus, PC, Active, Unguarded
  <2>2. CASE ReadCheckpoint(p)
    BY <2>2 DEF ReadCheckpoint, Loaded, Goto, world, durable, PC, Active,
                Unguarded
  <2> QED BY <1>1, <2>1, <2>2 DEF Start
<1>2. ASSUME NEW p \in Procs, Prepare(p) PROVE TypeOK'
  <2>1. CASE PersistInputs(p)
    BY <2>1 DEF PersistInputs, Goto, world, RunStatus, PC, Active, Unguarded
  <2>2. CASE WriteFirstCheckpoint(p)
    <3>1. checkpoint' \in Checkpoints
      BY <2>2, InitialTypes DEF WriteFirstCheckpoint, Checkpoints
    <3> QED BY <2>2, <3>1
            DEF WriteFirstCheckpoint, Goto, world, PC, Active, Unguarded
  <2>3. CASE AcceptResume(p)
    BY <2>3 DEF AcceptResume, Goto, world, RunStatus, PC, Active, Unguarded
  <2>4. CASE BeginExecution(p)
    BY <2>4, InitialTypes
       DEF BeginExecution, world, RunStatus, PC, Active, Guarded, Execution
  <2> QED BY <1>2, <2>1, <2>2, <2>3, <2>4 DEF Prepare
<1>3. ASSUME NEW p \in Procs, Execute(p) PROVE TypeOK'
  <2>1. ASSUME NEW v \in Variants, Restore(p, v) PROVE TypeOK'
    <3>1. pc' \in [Procs -> PC]
      BY <2>1, VariantSteps DEF Restore, Goto
    <3>2. prepared' \in [Procs -> VariantBytes]
      BY <2>1 DEF Restore, VariantBytes
    <3> QED BY <2>1, <3>1, <3>2 DEF Restore, durable, world
  <2>2. ASSUME NEW v \in Variants, Invoke(p, v) PROVE TypeOK'
    <3>1. pc' \in [Procs -> PC]
      BY <2>2, VariantSteps DEF Invoke, Goto
    <3>2. invocations + 1 \in OutputIds
      BY <2>2, LifecycleAssumption DEF Invoke, OutputIds
    <3>3. Captured(invocations + 1) \in Bytes
      BY <3>2 DEF Captured, Bytes
    <3>4. prepared' \in [Procs -> VariantBytes]
      BY <2>2, <3>3 DEF Invoke, VariantBytes
    <3>5. madeBy' \in [OutputIds -> Sources]
      BY <2>2 DEF Invoke, Sources
    <3> QED BY <2>2, <3>1, <3>2, <3>4, <3>5 DEF Invoke, durable
  <2>3. ASSUME NEW v \in Variants, WriteCapture(p, v) PROVE TypeOK'
    <3>1. pc' \in [Procs -> PC]
      BY <2>3, VariantSteps DEF WriteCapture, Goto
    <3>2. outputs' \in VariantBytes
      BY <2>3 DEF WriteCapture, VariantBytes
    <3> QED BY <2>3, <3>1, <3>2 DEF WriteCapture, world
  <2>4. ASSUME NEW v \in Variants, CheckpointVariant(p, v) PROVE TypeOK'
    <3>1. pc' \in [Procs -> PC]
      BY <2>4, VariantSteps DEF CheckpointVariant, Goto
    <3>2. copy[p] \in Checkpoints /\ prepared[p][v] \in Bytes
      BY DEF VariantBytes
    <3>3. MarkDone(copy[p], v, prepared[p][v]) \in Checkpoints
      BY <3>2, MarkDoneType
    <3>4. checkpoint' \in Checkpoints /\ copy' \in [Procs -> Checkpoints]
      BY <2>4, <3>3 DEF CheckpointVariant
    <3> QED BY <2>4, <3>1, <3>4 DEF CheckpointVariant, world
  <2>5. CASE Recheck(p)
    BY <2>5 DEF Recheck, Goto, durable, world, PC, Active, Unguarded
  <2> QED BY <1>3, <2>1, <2>2, <2>3, <2>4, <2>5 DEF Execute
<1>4. ASSUME NEW p \in Procs, Finalize(p) PROVE TypeOK'
  <2> USE DEF world, PC, Active, Guarded, Finalization
  <2>1. CASE ResetRows(p)
    BY <2>1, InitialTypes DEF ResetRows, Cleared, NoRows, Goto, RunStatus
  <2>2. CASE InsertCases(p)
    BY <2>2 DEF InsertCases, Goto, RunStatus
  <2>3. ASSUME NEW c \in Cases, EvaluateCase(p, c) PROVE TypeOK'
    BY <2>3 DEF EvaluateCase
  <2>4. CASE Analyze(p)
    BY <2>4 DEF Analyze, Goto, RunStatus
  <2>5. ASSUME NEW v \in Variants, WriteRetained(p, v) PROVE TypeOK'
    <3>1. pc' \in [Procs -> PC]
      BY <2>5, VariantSteps DEF WriteRetained, Goto
    <3>2. RetainedFile(p, v) \in Bytes
      BY RetainedType DEF RetainedFile, VariantBytes
    <3>3. outputs' \in VariantBytes
      BY <2>5, <3>2 DEF WriteRetained, VariantBytes
    <3> QED BY <2>5, <3>1, <3>3 DEF WriteRetained
  <2>6. CASE WriteEvidence(p)
    BY <2>6 DEF WriteEvidence, Goto
  <2>7. CASE WriteManifest(p)
    <3>1. [v \in Variants |-> Retained(seen[p], prepared[p][v])] \in VariantBytes
      BY RetainedType DEF VariantBytes
    <3>2. manifest' \in Manifests
      BY <2>7, <3>1 DEF WriteManifest, Manifests
    <3> QED BY <2>7, <3>2 DEF WriteManifest, Goto
  <2>8. CASE SealDatabase(p)
    BY <2>8 DEF SealDatabase, Goto, RunStatus
  <2>9. CASE PublishManifest(p)
    BY <2>9 DEF PublishManifest, Goto, Manifests, Unguarded
  <2>10. CASE RemoveCheckpoint(p)
    BY <2>10, InitialTypes DEF RemoveCheckpoint, Goto
  <2> QED BY <1>4, <2>1, <2>2, <2>3, <2>4, <2>5, <2>6, <2>7, <2>8, <2>9,
             <2>10 DEF Finalize
<1>5. ASSUME NEW p \in Procs, Unwind(p) PROVE TypeOK'
  BY <1>5 DEF Unwind, StatusAfterError, world, RunStatus, PC
<1>6. ASSUME NEW p \in Procs, Kill(p) PROVE TypeOK'
  BY <1>6 DEF Kill, durable, world, PC
<1>7. CASE Edit
  BY <1>7 DEF Edit, durable, memory
<1>8. CASE UNCHANGED vars
  BY <1>8 DEF vars, durable, world, memory
<1> QED BY <1>1, <1>2, <1>3, <1>4, <1>5, <1>6, <1>7, <1>8
        DEF Next, Refuse, Fail

\* The variables keep their types, however many processes work on the run.
THEOREM TypeCorrect == Spec => []TypeOK
  BY TypesInitially, TypesStep, PTL DEF Spec

-----------------------------------------------------------------------------
(* Scoring uses the captured bytes, however many processes work on the run *)

\* Whatever a process may evaluate is captured: the checkpoint on disk, each
\* copy of it, and the outputs held in memory.
CapturedOnly ==
    /\ \A v \in Variants : checkpoint.done[v].form = "captured"
    /\ \A p \in Procs, v \in Variants :
          copy[p].done[v].form = "captured" /\ prepared[p][v].form = "captured"
    /\ ScoringUsesCapture

\* Initially no bytes were rewritten by retention.
LEMMA CapturedOnlyInitially == Init => CapturedOnly
  BY DEF Init, CapturedOnly, ScoringUsesCapture, NoCheckpoint, NoOutputs,
         NoBytes, NoRows

\* No step moves rewritten bytes into a checkpoint, a process or a row: a
\* restore compares them with captured ones.
LEMMA CapturedOnlyStep == TypeOK /\ CapturedOnly /\ [Next]_vars => CapturedOnly'
<1> SUFFICES ASSUME TypeOK, CapturedOnly, [Next]_vars PROVE CapturedOnly'
  OBVIOUS
<1> USE DEF TypeOK, CapturedOnly, ScoringUsesCapture
<1>1. ASSUME NEW p \in Procs, Start(p) PROVE CapturedOnly'
  BY <1>1 DEF Start, CreateRun, ReadCheckpoint, Loaded, world, durable
<1>2. ASSUME NEW p \in Procs, Prepare(p) PROVE CapturedOnly'
  BY <1>2 DEF Prepare, PersistInputs, WriteFirstCheckpoint, AcceptResume,
              BeginExecution, NoOutputs, NoBytes, world
<1>3. ASSUME NEW p \in Procs, Execute(p) PROVE CapturedOnly'
  <2>1. ASSUME NEW v \in Variants, Restore(p, v) PROVE CapturedOnly'
    BY <2>1 DEF Restore, HashMatches, durable, VariantBytes
  <2>2. ASSUME NEW v \in Variants, Invoke(p, v) PROVE CapturedOnly'
    BY <2>2 DEF Invoke, Captured, durable, VariantBytes
  <2>3. ASSUME NEW v \in Variants, WriteCapture(p, v) PROVE CapturedOnly'
    BY <2>3 DEF WriteCapture, world
  <2>4. ASSUME NEW v \in Variants, CheckpointVariant(p, v) PROVE CapturedOnly'
    <3>1. copy[p] \in Checkpoints
      OBVIOUS
    <3>2. \A w \in Variants :
             MarkDone(copy[p], v, prepared[p][v]).done[w].form = "captured"
      BY <3>1 DEF MarkDone, Checkpoints, VariantBytes
    <3> QED BY <2>4, <3>2 DEF CheckpointVariant, world
  <2>5. CASE Recheck(p)
    BY <2>5 DEF Recheck, durable, world
  <2> QED BY <1>3, <2>1, <2>2, <2>3, <2>4, <2>5 DEF Execute
<1>4. ASSUME NEW p \in Procs, Finalize(p) PROVE CapturedOnly'
  <2> USE DEF world
  <2>1. ASSUME NEW c \in Cases, EvaluateCase(p, c) PROVE CapturedOnly'
    BY <2>1 DEF EvaluateCase
  <2>2. ASSUME NEW v \in Variants, WriteRetained(p, v) PROVE CapturedOnly'
    BY <2>2 DEF WriteRetained
  <2>3. CASE ResetRows(p)
    BY <2>3 DEF ResetRows, Cleared, NoRows, NoOutputs, NoBytes
  <2>4. CASE RemoveCheckpoint(p)
    BY <2>4 DEF RemoveCheckpoint, NoCheckpoint, NoOutputs, NoBytes
  <2>5. CASE InsertCases(p) \/ Analyze(p) \/ WriteEvidence(p)
    BY <2>5 DEF InsertCases, Analyze, WriteEvidence
  <2>6. CASE WriteManifest(p) \/ SealDatabase(p) \/ PublishManifest(p)
    BY <2>6 DEF WriteManifest, SealDatabase, PublishManifest
  <2> QED BY <1>4, <2>1, <2>2, <2>3, <2>4, <2>5, <2>6 DEF Finalize
<1>5. ASSUME NEW p \in Procs, Unwind(p) \/ Kill(p) PROVE CapturedOnly'
  BY <1>5 DEF Unwind, Kill, durable, world
<1>6. CASE Edit \/ UNCHANGED vars
  BY <1>6 DEF Edit, vars, durable, memory
<1> QED BY <1>1, <1>2, <1>3, <1>4, <1>5, <1>6 DEF Next, Refuse, Fail

\* Bytes rewritten by retention are never evaluated, by any number of
\* processes resuming the run concurrently.
THEOREM CaptureIsScored == Spec => []ScoringUsesCapture
<1>1. CapturedOnly => ScoringUsesCapture
  BY DEF CapturedOnly
<1> QED BY <1>1, CapturedOnlyInitially, CapturedOnlyStep, TypeCorrect, PTL
        DEF Spec

-----------------------------------------------------------------------------
(* A complete run is consistent, when attempts do not overlap              *)

FromRetention == {"retain_baseline", "retain_candidate", "evidence",
                  "manifest", "seal", "publish"}
BaselineRetained == {"retain_candidate", "evidence", "manifest", "seal",
                     "publish"}
BothRetained == {"evidence", "manifest", "seal", "publish"}

\* How far the finalization of process p has got: each step has established
\* its part of the evidence, and nothing has disturbed it since.
Finalizing(p) ==
    /\ pc[p] = "evaluating" =>
          \A c \in records[p] : rows[c] = prepared[p]
    /\ pc[p] \in FromRetention => \A c \in Cases : rows[c] = prepared[p]
    /\ pc[p] \in BaselineRetained =>
          outputs["baseline"] = RetainedFile(p, "baseline")
    /\ pc[p] \in BothRetained =>
          outputs["candidate"] = RetainedFile(p, "candidate")
    /\ pc[p] \in {"manifest", "seal", "publish"} => evidence = prepared[p]
    /\ pc[p] \in {"seal", "publish"} =>
          /\ held[p].files = outputs
          /\ held[p].inputs = outputs
          /\ held[p].evidence = evidence
          /\ held[p].binds = seen[p]
    /\ pc[p] = "publish" => db = "complete"

\* The inductive invariant: a published run is no longer worked on, except
\* by a resume that will be refused and by the removal of the checkpoint.
Consistency ==
    /\ TypeOK
    /\ \A p \in Procs : Finalizing(p)
    /\ CompleteIsConsistent
    /\ manifest.status = "complete" =>
          \A p \in Procs : pc[p] \in {"idle", "resuming", "cleanup"}

\* The run directory has no lock: attempts must not overlap.
OneAttempt == \A p, q \in Procs : p = q

\* Initially nothing is published and no attempt runs.
LEMMA ConsistencyInitially == Init => Consistency
<1> SUFFICES ASSUME Init PROVE Consistency
  OBVIOUS
<1>1. TypeOK
  BY TypesInitially
<1>2. manifest.status # "complete"
  BY DEF Init, NoManifest
<1>3. ASSUME NEW p \in Procs PROVE Finalizing(p)
  BY DEF Init, Finalizing, FromRetention, BaselineRetained, BothRetained
<1> QED BY <1>1, <1>2, <1>3 DEF Consistency, CompleteIsConsistent

\* The steps before finalization: the run is not published (or the resume is
\* refused), and finalization of this attempt has not begun.
LEMMA ConsistencyBefore ==
    ASSUME OneAttempt, Consistency, TypeOK', NEW p \in Procs,
           Start(p) \/ Prepare(p) \/ Execute(p)
    PROVE  Consistency'
<1> USE DEF OneAttempt, Consistency, TypeOK, Goto, world
<1>1. pc'[p] \notin {"evaluating"} \cup FromRetention
  BY DEF Start, CreateRun, ReadCheckpoint, Prepare, PersistInputs,
         WriteFirstCheckpoint, AcceptResume, BeginExecution, Execute, Restore,
         Invoke, WriteCapture, CheckpointVariant, Recheck, AfterVariant,
         HasRun, Written, FromRetention
<1>2. Finalizing(p)'
  BY <1>1 DEF Finalizing, FromRetention, BaselineRetained, BothRetained
<1>3. manifest' = manifest
  BY DEF Start, CreateRun, ReadCheckpoint, Prepare, PersistInputs,
         WriteFirstCheckpoint, AcceptResume, BeginExecution, Execute, Restore,
         Invoke, WriteCapture, CheckpointVariant, Recheck, durable
<1>4. manifest.status = "complete" => ReadCheckpoint(p)
  <2>1. manifest.status = "complete" =>
           db = "complete" /\ pc[p] \in {"idle", "resuming", "cleanup"}
    BY DEF CompleteIsConsistent
  <2> QED BY <2>1 DEF Start, CreateRun, Prepare, PersistInputs,
         WriteFirstCheckpoint, AcceptResume, ResumableStatus, BeginExecution,
         Execute, Restore, Invoke, WriteCapture, CheckpointVariant, Recheck,
         Run, HasRun, Written
<1>5. ReadCheckpoint(p) =>
         /\ UNCHANGED <<db, rows, outputs, evidence, manifest>>
         /\ pc'[p] = "resuming"
  BY DEF ReadCheckpoint, durable
<1> QED BY <1>2, <1>3, <1>4, <1>5 DEF CompleteIsConsistent

\* Finalization: each step establishes its own part and keeps the others.
LEMMA ConsistencyFinalize ==
    ASSUME OneAttempt, Consistency, TypeOK', NEW p \in Procs, Finalize(p)
    PROVE  Consistency'
<1> USE DEF OneAttempt, Consistency, TypeOK, Goto, world
<1> DEFINE Open == pc'[p] \notin {"idle", "cleanup"} /\ manifest' = manifest
<1>1. ASSUME Open, Finalizing(p)', pc[p] # "cleanup" PROVE Consistency'
  <2>1. manifest.status # "complete"
    BY <1>1 DEF Finalize, ResetRows, InsertCases, EvaluateCase, Analyze,
                WriteRetained, WriteEvidence, WriteManifest, SealDatabase,
                PublishManifest, RemoveCheckpoint, Retain
  <2> QED BY <1>1, <2>1 DEF CompleteIsConsistent
<1> USE DEF Finalizing, FromRetention, BaselineRetained, BothRetained
<1>2. CASE ResetRows(p) \/ InsertCases(p)
  BY <1>1, <1>2 DEF ResetRows, InsertCases
<1>3. ASSUME NEW c \in Cases, EvaluateCase(p, c) PROVE Consistency'
  <2>1. \A d \in records'[p] : rows'[d] = prepared'[p]
    BY <1>3 DEF EvaluateCase
  <2> QED BY <1>1, <1>3, <2>1 DEF EvaluateCase
<1>4. CASE Analyze(p)
  BY <1>1, <1>4 DEF Analyze
<1>5. ASSUME NEW v \in Variants, WriteRetained(p, v) PROVE Consistency'
  <2>1. CASE v = "baseline"
    BY <1>1, <1>5, <2>1
       DEF WriteRetained, Retain, AfterRetain, RetainedFile, VariantBytes
  <2>2. CASE v = "candidate"
    BY <1>1, <1>5, <2>2
       DEF WriteRetained, Retain, AfterRetain, RetainedFile, VariantBytes
  <2> QED BY <2>1, <2>2
<1>6. CASE WriteEvidence(p)
  BY <1>1, <1>6 DEF WriteEvidence, RetainedFile
<1>7. CASE WriteManifest(p)
  <2>1. outputs = [v \in Variants |-> Retained(seen[p], prepared[p][v])]
    BY <1>7 DEF WriteManifest, RetainedFile, VariantBytes
  <2>2. manifest'.status # "complete"
    BY <1>7 DEF WriteManifest
  <2>3. Finalizing(p)'
    BY <1>7, <2>1 DEF WriteManifest, RetainedFile
  <2> QED BY <2>2, <2>3 DEF CompleteIsConsistent
<1>8. CASE SealDatabase(p)
  BY <1>1, <1>8 DEF SealDatabase, RetainedFile
<1>9. CASE PublishManifest(p)
  <2>1. /\ manifest'.files = outputs
        /\ manifest'.inputs = outputs
        /\ manifest'.evidence = evidence
        /\ manifest'.binds = seen[p]
    BY <1>9 DEF PublishManifest, Manifests
  <2>2. CompleteIsConsistent'
    BY <1>9, <2>1 DEF PublishManifest, CompleteIsConsistent, RetainedFile
  <2> QED BY <1>9, <2>2 DEF PublishManifest
<1>10. CASE RemoveCheckpoint(p)
  BY <1>10 DEF RemoveCheckpoint, CompleteIsConsistent
<1> QED BY <1>2, <1>3, <1>4, <1>5, <1>6, <1>7, <1>8, <1>9, <1>10 DEF Finalize

\* Errors and kills only end the attempt; an error changes the status only
\* where the run is not yet published.
LEMMA ConsistencyEnd ==
    ASSUME OneAttempt, Consistency, TypeOK', NEW p \in Procs,
           Unwind(p) \/ Kill(p)
    PROVE  Consistency'
<1> USE DEF OneAttempt, Consistency, TypeOK, world
<1>1. pc'[p] = "idle" /\ UNCHANGED <<rows, outputs, evidence, manifest>>
  BY DEF Unwind, Kill, durable
<1>2. manifest.status = "complete" => db' = db
  BY DEF Unwind, Kill, durable, StatusAfterError, Guarded, Execution,
         Finalization
<1> QED BY <1>1, <1>2 DEF Finalizing, FromRetention, BaselineRetained,
                          BothRetained, CompleteIsConsistent

\* Every step of a single attempt keeps the consistency invariant.
LEMMA ConsistencyStep ==
    ASSUME OneAttempt
    PROVE  Consistency /\ [Next]_vars => Consistency'
<1> SUFFICES ASSUME Consistency, [Next]_vars PROVE Consistency'
  OBVIOUS
<1>1. TypeOK'
  BY TypesStep DEF Consistency
<1>2. ASSUME NEW p \in Procs, Start(p) \/ Prepare(p) \/ Execute(p)
      PROVE Consistency'
  BY <1>1, <1>2, ConsistencyBefore
<1>3. ASSUME NEW p \in Procs, Finalize(p) PROVE Consistency'
  BY <1>1, <1>3, ConsistencyFinalize
<1>4. ASSUME NEW p \in Procs, Unwind(p) \/ Kill(p) PROVE Consistency'
  BY <1>1, <1>4, ConsistencyEnd
<1>5. CASE Edit \/ UNCHANGED vars
  <2>1. UNCHANGED <<durable, memory>>
    BY <1>5 DEF Edit, vars
  <2> QED BY <1>1, <2>1 DEF durable, memory, Consistency, Finalizing,
                            CompleteIsConsistent, RetainedFile
<1> QED BY <1>2, <1>3, <1>4, <1>5 DEF Next, Refuse, Fail

\* A manifest that says complete describes one consistent run.
THEOREM CompleteRunConsistent ==
    ASSUME OneAttempt
    PROVE  Spec => []CompleteIsConsistent
<1>1. Consistency => CompleteIsConsistent
  BY DEF Consistency
<1> QED BY <1>1, ConsistencyInitially, ConsistencyStep, PTL DEF Spec

-----------------------------------------------------------------------------
(* A complete run that no attempt works on is final, however many          *)
(* processes resume it                                                     *)

\* The only steps of a settled run are resumes that are refused, the removal of
\* the checkpoint, and kills and errors of either.
THEOREM SettledRunIsFinal == Spec => FinalOnceSettled
<1>1. ASSUME TypeOK, [Next]_vars, Settled
      PROVE  /\ Settled'
             /\ UNCHANGED <<db, caseRows, rows, outputs, evidence, manifest>>
  <2> DEFINE Kept == UNCHANGED <<db, caseRows, rows, outputs, evidence,
                                 manifest>>
             Quiet == {"idle", "resuming", "cleanup"}
  <2> USE DEF TypeOK, Goto, world, durable
  <2>1. db = "complete" /\ \A p \in Procs : pc[p] \in Quiet
    BY <1>1 DEF Settled
  <2>2. ASSUME NEW p \in Procs, Start(p) \/ Prepare(p) \/ Execute(p)
        PROVE  Kept /\ pc' = [pc EXCEPT ![p] = "resuming"]
    <3>1. ReadCheckpoint(p)
      BY <2>1, <2>2 DEF Start, CreateRun, Prepare, PersistInputs,
           WriteFirstCheckpoint, AcceptResume, ResumableStatus,
           BeginExecution, Execute, Restore, Invoke, WriteCapture,
           CheckpointVariant, Recheck, Run, HasRun, Written
    <3> QED BY <3>1 DEF ReadCheckpoint
  <2>3. ASSUME NEW p \in Procs, Finalize(p)
        PROVE  Kept /\ pc' = [pc EXCEPT ![p] = "idle"]
    <3>1. RemoveCheckpoint(p)
      BY <2>1, <2>3 DEF Finalize, ResetRows, InsertCases, EvaluateCase,
           Analyze, WriteRetained, Retain, WriteEvidence, WriteManifest,
           SealDatabase, PublishManifest
    <3> QED BY <3>1 DEF RemoveCheckpoint
  <2>4. ASSUME NEW p \in Procs, Unwind(p) \/ Kill(p)
        PROVE  Kept /\ pc' = [pc EXCEPT ![p] = "idle"]
    BY <2>1, <2>4 DEF Unwind, Kill, StatusAfterError, Guarded, Execution,
                      Finalization
  <2>5. CASE Edit \/ UNCHANGED vars
    <3>1. Kept /\ UNCHANGED pc
      BY <2>5 DEF Edit, vars, memory
    <3> QED BY <1>1, <3>1 DEF Settled
  <2>6. ASSUME Kept, NEW p \in Procs, NEW to \in Quiet,
               pc' = [pc EXCEPT ![p] = to]
        PROVE  Settled'
    BY <1>1, <2>1, <2>6 DEF Settled
  <2> QED BY <1>1, <2>2, <2>3, <2>4, <2>5, <2>6 DEF Next, Refuse, Fail
<1>2. TypeOK /\ [Next]_vars =>
        [Settled =>
           /\ Settled'
           /\ UNCHANGED <<db, caseRows, rows, outputs, evidence, manifest>>]_vars
  BY <1>1
<1> QED BY <1>2, TypeCorrect, PTL DEF Spec, FinalOnceSettled

-----------------------------------------------------------------------------
(* The checkpoint, when attempts do not overlap                            *)

Unbound   == {"idle", "allocated", "inputs"}
Rechecked == {"prepared", "cleanup"} \cup Finalization

\* Where a process has the outputs of variant v.
Executed(v) ==
    {"recheck"} \cup Rechecked \cup
        IF v = "baseline"
          THEN {"run_candidate", "captured_candidate", "written_candidate"}
          ELSE {}

\* Where a process has them and has not yet overwritten the file.
Intact(v) ==
    Executed(v) \ ({"cleanup"} \cup
        IF v = "baseline" THEN BaselineRetained ELSE BothRetained)

\* The attempt of p works on the checkpoint that is on disk, and holds the
\* outputs that it names, which are in their files until retention.
Mirrors(p) ==
    /\ pc[p] \in {"allocated", "inputs"} => checkpoint = NoCheckpoint
    /\ pc[p] \notin Unbound =>
          copy[p] = checkpoint /\ checkpoint.binds = seen[p]
    /\ \A v \in Variants :
          /\ pc[p] \in {HasRun(v), Written(v)} =>
                checkpoint.done[v] = NoBytes /\ prepared[p][v] # NoBytes
          /\ pc[p] \in {Written(v)} \cup Intact(v) =>
                outputs[v] = prepared[p][v]
          /\ pc[p] \in Executed(v) =>
                prepared[p][v] = checkpoint.done[v] /\ prepared[p][v] # NoBytes

\* The file of a completed variant holds what was captured, or what retention
\* has made of it after the evaluation of every case.
Kept(v) ==
    checkpoint.done[v] # NoBytes =>
        outputs[v] = checkpoint.done[v] \/ Superseded(v)

\* The inductive invariant: before the run exists nothing works on it.
Checkpointing ==
    /\ \A p \in Procs : Mirrors(p)
    /\ \A v \in Variants : Kept(v)
    /\ db = "none" =>
          checkpoint = NoCheckpoint /\ \A p \in Procs : pc[p] = "idle"

\* Initially there is no checkpoint.
LEMMA CheckpointingInitially == Init => Checkpointing
<1> SUFFICES ASSUME Init PROVE Checkpointing
  OBVIOUS
<1>1. ASSUME NEW v \in Variants PROVE Kept(v)
  BY DEF Init, Kept, NoCheckpoint, NoOutputs
<1>2. ASSUME NEW p \in Procs PROVE Mirrors(p)
  BY DEF Init, Mirrors, Unbound, HasRun, Written, Executed, Intact, Rechecked,
         Finalization
<1> QED BY <1>1, <1>2 DEF Init, Checkpointing

\* Beginning an attempt: the checkpoint is written once, or read.
LEMMA CheckpointingBegin ==
    ASSUME OneAttempt, TypeOK, Checkpointing, NEW p \in Procs,
           Start(p) \/ Prepare(p)
    PROVE  Checkpointing'
<1> USE DEF OneAttempt, TypeOK, Goto, world, Checkpointing
<1>1. pc'[p] \in {"allocated", "inputs", "checkpointed", "resuming", "accepted",
                  "run_baseline"}
  BY DEF Start, CreateRun, ReadCheckpoint, Prepare, PersistInputs,
         WriteFirstCheckpoint, AcceptResume, BeginExecution
<1>2. /\ pc'[p] \in {"allocated", "inputs"} => checkpoint' = NoCheckpoint
      /\ pc'[p] \notin Unbound =>
            copy'[p] = checkpoint' /\ checkpoint'.binds = seen'[p]
  BY DEF Start, CreateRun, ReadCheckpoint, Prepare, PersistInputs,
         WriteFirstCheckpoint, AcceptResume, BeginExecution, Mirrors, Unbound,
         Compatible, Loaded, durable
<1>3. Mirrors(p)'
  BY <1>1, <1>2 DEF Mirrors, HasRun, Written, Executed, Intact, Rechecked,
            Finalization
<1>4. ASSUME NEW v \in Variants PROVE Kept(v)'
  <2>1. CASE WriteFirstCheckpoint(p)
    BY <2>1 DEF WriteFirstCheckpoint, Kept, NoOutputs
  <2>2. CASE ~ WriteFirstCheckpoint(p)
    <3>1. UNCHANGED <<checkpoint, outputs, rows>>
      BY <2>2 DEF Start, CreateRun, ReadCheckpoint, Prepare, PersistInputs,
                  AcceptResume, BeginExecution, durable
    <3> QED BY <3>1 DEF Kept, Superseded
  <2> QED BY <2>1, <2>2
<1>5. db' # "none"
  BY DEF Start, CreateRun, ReadCheckpoint, Compatible, NoCheckpoint, Prepare,
         PersistInputs, WriteFirstCheckpoint, AcceptResume, BeginExecution,
         durable
<1> QED BY <1>3, <1>4, <1>5

\* Executing the variants: each is captured, written and then marked, or
\* restored from its file.
LEMMA CheckpointingExecute ==
    ASSUME OneAttempt, TypeOK, Checkpointing, NEW p \in Procs, Execute(p)
    PROVE  Checkpointing'
<1> USE DEF OneAttempt, TypeOK, Goto, world, Checkpointing
<1>1. db' = db /\ db # "none"
  BY DEF Execute, Restore, Invoke, WriteCapture, CheckpointVariant, Recheck,
         Run, HasRun, Written, durable
<1> USE DEF Mirrors, Unbound, Executed, Intact, BaselineRetained, BothRetained,
            Rechecked, Finalization
<1>2. ASSUME NEW v \in Variants, Restore(p, v) PROVE Checkpointing'
  <2>1. /\ prepared'[p][v] = checkpoint.done[v] /\ checkpoint.done[v] # NoBytes
        /\ outputs[v] = prepared'[p][v]
    BY <1>2 DEF Restore, HashMatches, Run, VariantBytes
  <2>2. \A w \in Variants : w # v => prepared'[p][w] = prepared[p][w]
    BY <1>2 DEF Restore, VariantBytes
  <2>3. Mirrors(p)'
    <3>1. CASE v = "baseline"
      BY <1>2, <2>1, <2>2, <3>1
         DEF Restore, Run, HasRun, Written, AfterVariant, durable
    <3>2. CASE v = "candidate"
      <4>1. /\ pc[p] = "run_candidate" /\ pc'[p] = "recheck"
            /\ UNCHANGED <<checkpoint, outputs, copy, seen>>
        BY <1>2, <3>2 DEF Restore, Run, AfterVariant, durable
      <4>2. /\ prepared[p]["baseline"] = checkpoint.done["baseline"]
            /\ prepared[p]["baseline"] # NoBytes
            /\ outputs["baseline"] = prepared[p]["baseline"]
        BY <4>1
      <4>3. ASSUME NEW w \in Variants
            PROVE  /\ prepared'[p][w] = checkpoint.done[w]
                   /\ prepared'[p][w] # NoBytes
                   /\ outputs[w] = prepared'[p][w]
        BY <2>1, <2>2, <3>2, <4>2
      <4> QED BY <4>1, <4>3 DEF HasRun, Written
    <3> QED BY <3>1, <3>2
  <2>4. \A w \in Variants : Kept(w)'
    BY <1>2 DEF Restore, Kept, Superseded, durable
  <2> QED BY <1>1, <2>3, <2>4
<1>3. ASSUME NEW v \in Variants, Invoke(p, v) PROVE Checkpointing'
  <2>1. prepared'[p][v] # NoBytes /\ checkpoint.done[v] = NoBytes
    <3>1. prepared'[p][v] = Captured(invocations + 1)
      BY <1>3 DEF Invoke, VariantBytes
    <3>2. invocations + 1 # 0
      BY LifecycleAssumption DEF OutputIds
    <3> QED BY <1>3, <3>1, <3>2 DEF Invoke, Captured, NoBytes, Run
  <2>2. \A w \in Variants : w # v => prepared'[p][w] = prepared[p][w]
    BY <1>3 DEF Invoke, VariantBytes
  <2>3. Mirrors(p)'
    BY <1>3, <2>1, <2>2 DEF Invoke, Run, HasRun, Written, durable
  <2>4. \A w \in Variants : Kept(w)'
    BY <1>3 DEF Invoke, Kept, Superseded, durable
  <2> QED BY <1>1, <2>3, <2>4
<1>4. ASSUME NEW v \in Variants, WriteCapture(p, v) PROVE Checkpointing'
  <2>1. checkpoint.done[v] = NoBytes
    BY <1>4 DEF WriteCapture
  <2>2. outputs'[v] = prepared[p][v]
        /\ \A w \in Variants : w # v => outputs'[w] = outputs[w]
    BY <1>4 DEF WriteCapture, VariantBytes
  <2>3. Mirrors(p)'
    BY <1>4, <2>2 DEF WriteCapture, HasRun, Written
  <2>4. \A w \in Variants : Kept(w)'
    BY <1>4, <2>1, <2>2 DEF WriteCapture, Kept, Superseded
  <2> QED BY <1>1, <2>3, <2>4
<1>5. ASSUME NEW v \in Variants, CheckpointVariant(p, v) PROVE Checkpointing'
  <2>1. checkpoint' = MarkDone(checkpoint, v, prepared[p][v])
        /\ copy'[p] = checkpoint'
    BY <1>5 DEF CheckpointVariant, Written
  <2>2. /\ checkpoint'.done[v] = prepared[p][v]
        /\ \A w \in Variants : w # v => checkpoint'.done[w] = checkpoint.done[w]
        /\ checkpoint'.binds = checkpoint.binds
    BY <2>1 DEF MarkDone, Checkpoints, VariantBytes
  <2>3. Mirrors(p)'
    BY <1>5, <2>1, <2>2 DEF CheckpointVariant, HasRun, Written, AfterVariant
  <2>4. \A w \in Variants : Kept(w)'
    BY <1>5, <2>2 DEF CheckpointVariant, Kept, Superseded
  <2> QED BY <1>1, <2>3, <2>4
<1>6. CASE Recheck(p)
  <2>1. Mirrors(p)'
    BY <1>6 DEF Recheck, HasRun, Written, durable
  <2>2. \A w \in Variants : Kept(w)'
    BY <1>6 DEF Recheck, Kept, Superseded, durable
  <2> QED BY <1>1, <2>1, <2>2
<1> QED BY <1>2, <1>3, <1>4, <1>5, <1>6 DEF Execute

\* Finalizing: the rows are reset and filled while the files are intact;
\* retention rewrites the files when every case is evaluated; the checkpoint
\* goes when the run is published.
LEMMA CheckpointingFinalize ==
    ASSUME OneAttempt, Consistency, Checkpointing, NEW p \in Procs, Finalize(p)
    PROVE  Checkpointing'
<1> USE DEF OneAttempt, Consistency, TypeOK, Goto, world, Checkpointing,
            Mirrors, Unbound, Executed, Intact, BaselineRetained, BothRetained,
            Rechecked, Finalization
<1>1. db' # "none"
  BY DEF Finalize, ResetRows, InsertCases, EvaluateCase, Analyze,
         WriteRetained, Retain, WriteEvidence, WriteManifest, SealDatabase,
         PublishManifest, RemoveCheckpoint
<1>2. ASSUME pc[p] \in Rechecked, pc'[p] \in Rechecked,
             UNCHANGED <<checkpoint, copy, prepared, seen>>,
             \A v \in Variants : pc'[p] \in Intact(v) =>
                pc[p] \in Intact(v) /\ outputs'[v] = outputs[v]
      PROVE  Mirrors(p)'
  BY <1>2 DEF HasRun, Written
<1>3. ASSUME NEW v \in Variants, WriteRetained(p, v) PROVE Checkpointing'
  <2>1. \A w \in Variants : w # v => outputs'[w] = outputs[w]
    BY <1>3 DEF WriteRetained, VariantBytes
  <2>2. Mirrors(p)'
    BY <1>2, <1>3, <2>1 DEF WriteRetained, Retain, AfterRetain
  <2>3. outputs'[v] = Retained(checkpoint.binds, checkpoint.done[v])
    BY <1>3 DEF WriteRetained, Retain, RetainedFile, VariantBytes
  <2>4. \A c \in Cases : rows[c][v] = checkpoint.done[v]
    BY <1>3 DEF WriteRetained, Retain, Finalizing, FromRetention
  <2>5. \A w \in Variants : Kept(w)'
    BY <1>3, <2>1, <2>3, <2>4 DEF WriteRetained, Kept, Superseded
  <2> QED BY <1>1, <2>2, <2>5
<1>4. CASE RemoveCheckpoint(p)
  <2>1. Mirrors(p)'
    BY <1>4 DEF RemoveCheckpoint, HasRun, Written
  <2>2. \A v \in Variants : Kept(v)'
    BY <1>4 DEF RemoveCheckpoint, Kept, NoCheckpoint, NoOutputs
  <2> QED BY <1>1, <2>1, <2>2
<1>5. CASE ResetRows(p) \/ \E c \in Cases : EvaluateCase(p, c)
  <2>1. /\ UNCHANGED <<checkpoint, copy, prepared, seen, outputs>>
        /\ pc[p] \in {"prepared", "evaluating"}
        /\ pc'[p] \in {"validating", "evaluating"}
    BY <1>5 DEF ResetRows, EvaluateCase
  <2>2. Mirrors(p)'
    BY <1>2, <2>1
  <2>3. \A v \in Variants : outputs[v] = checkpoint.done[v]
    BY <2>1
  <2>4. \A v \in Variants : Kept(v)'
    BY <2>1, <2>3 DEF Kept
  <2> QED BY <1>1, <2>2, <2>4
<1>6. CASE \/ InsertCases(p) \/ Analyze(p) \/ WriteEvidence(p)
           \/ WriteManifest(p) \/ SealDatabase(p) \/ PublishManifest(p)
  <2>1. UNCHANGED <<checkpoint, copy, prepared, seen, outputs, rows>>
    BY <1>6 DEF InsertCases, Analyze, WriteEvidence, WriteManifest,
                SealDatabase, PublishManifest
  <2>2. /\ pc[p] \in Rechecked /\ pc'[p] \in Rechecked
        /\ \A v \in Variants : pc'[p] \in Intact(v) => pc[p] \in Intact(v)
    BY <1>6 DEF InsertCases, Analyze, WriteEvidence, WriteManifest,
                SealDatabase, PublishManifest
  <2>3. Mirrors(p)'
    BY <1>2, <2>1, <2>2
  <2>4. \A v \in Variants : Kept(v)'
    BY <2>1 DEF Kept, Superseded
  <2> QED BY <1>1, <2>3, <2>4
<1> QED BY <1>3, <1>4, <1>5, <1>6 DEF Finalize

\* Every step of a single attempt keeps the checkpoint invariant.
LEMMA CheckpointingStep ==
    ASSUME OneAttempt
    PROVE  Consistency /\ Checkpointing /\ [Next]_vars => Checkpointing'
<1> SUFFICES ASSUME Consistency, Checkpointing, [Next]_vars
             PROVE  Checkpointing'
  OBVIOUS
<1> USE DEF Consistency
<1>1. ASSUME NEW p \in Procs, Unwind(p) \/ Kill(p), pc[p] \in Active
      PROVE  Checkpointing'
  <2>1. pc[p] # "idle" /\ pc'[p] = "idle"
        /\ UNCHANGED <<checkpoint, outputs, rows, copy, prepared, seen>>
    BY <1>1 DEF Unwind, Kill, TypeOK, durable, Active, Guarded, Unguarded,
                Execution, Finalization
  <2>2. db' # "none"
    BY <1>1, <2>1 DEF Unwind, Kill, StatusAfterError, Checkpointing, durable
  <2>3. Mirrors(p)'
    BY <2>1 DEF Mirrors, Unbound, HasRun, Written, Executed, Intact, Rechecked,
                Finalization
  <2>4. \A v \in Variants : Kept(v)'
    BY <2>1 DEF Checkpointing, Kept, Superseded
  <2> QED BY <2>2, <2>3, <2>4 DEF Checkpointing, OneAttempt
<1>2. ASSUME NEW p \in Procs, Refused(p) PROVE pc[p] \in Active
  BY <1>2 DEF Refused, Run, Active, Guarded, Unguarded, Execution, Finalization
<1>3. CASE Edit \/ UNCHANGED vars
  <2>1. UNCHANGED <<durable, memory>>
    BY <1>3 DEF Edit, vars
  <2> QED BY <2>1 DEF durable, memory, Checkpointing, Mirrors, Kept, Superseded
<1> QED BY <1>1, <1>2, <1>3, CheckpointingBegin, CheckpointingExecute,
           CheckpointingFinalize DEF Next, Refuse, Fail, Kill

\* A single attempt's checkpoint invariant holds throughout.
LEMMA CheckpointingAlways ==
    ASSUME OneAttempt
    PROVE  Spec => []Checkpointing
  BY ConsistencyInitially, ConsistencyStep, CheckpointingInitially,
     CheckpointingStep, PTL DEF Spec

\* What the checkpoint calls done can be restored until every case is evaluated
\* from it, and only rewriting retention gives it up then.
THEOREM RestorableUntilEvaluated ==
    ASSUME OneAttempt
    PROVE  Spec => []CheckpointRestorable
<1>1. Checkpointing => CheckpointRestorable
  BY DEF Checkpointing, Kept, CheckpointRestorable
<1> QED BY <1>1, CheckpointingAlways, PTL

\* No variant that the checkpoint names is invoked again, and none is
\* forgotten while the checkpoint exists.
THEOREM VariantsCompletedOnce ==
    ASSUME OneAttempt
    PROVE  Spec => CompletedOnce
<1> DEFINE Once(v) ==
      checkpoint.done[v] # NoBytes =>
          /\ \A p \in Procs : ~(pc[p] = Run(v) /\ pc'[p] = HasRun(v))
          /\ checkpoint'.exists => checkpoint'.done[v] = checkpoint.done[v]
<1>1. ASSUME TypeOK, Checkpointing, [Next]_vars, NEW v \in Variants
      PROVE  Once(v)
  <2> USE <1>1 DEF OneAttempt, TypeOK, Checkpointing, Goto, Mirrors, Unbound, world
  <2>1. ASSUME NEW p \in Procs, Start(p) \/ Prepare(p) PROVE Once(v)
    BY <2>1 DEF Start, CreateRun, ReadCheckpoint, Prepare, PersistInputs,
         WriteFirstCheckpoint, AcceptResume, BeginExecution, durable, HasRun,
         NoCheckpoint, NoOutputs
  <2>2. ASSUME NEW p \in Procs, NEW w \in Variants, Invoke(p, w)
        PROVE  Once(v)
    BY <2>2 DEF Invoke, Run, HasRun, durable
  <2>3. ASSUME NEW p \in Procs, NEW w \in Variants, CheckpointVariant(p, w)
        PROVE  Once(v)
    <3>1. checkpoint' = MarkDone(checkpoint, w, prepared[p][w])
          /\ checkpoint.done[w] = NoBytes
      BY <2>3 DEF CheckpointVariant, Written
    <3>2. w # v => checkpoint'.done[v] = checkpoint.done[v]
      BY <3>1 DEF MarkDone, Checkpoints, VariantBytes
    <3>3. pc'[p] # HasRun(v)
      BY <2>3 DEF CheckpointVariant, HasRun, AfterVariant
    <3> QED BY <3>1, <3>2, <3>3
  <2>4. ASSUME NEW p \in Procs, Execute(p),
               \A w \in Variants : ~ Invoke(p, w) /\ ~ CheckpointVariant(p, w)
        PROVE  Once(v)
    BY <2>4 DEF Execute, Restore, WriteCapture, Recheck, HasRun, AfterVariant,
                Written, durable
  <2>5. ASSUME NEW p \in Procs, Finalize(p) PROVE Once(v)
    <3>1. pc'[p] # HasRun(v)
      BY <2>5 DEF Finalize, ResetRows, InsertCases, EvaluateCase, Analyze,
           WriteRetained, AfterRetain, WriteEvidence, WriteManifest,
           SealDatabase, PublishManifest, RemoveCheckpoint, HasRun
    <3>2. checkpoint' = checkpoint \/ checkpoint' = NoCheckpoint
      BY <2>5 DEF Finalize, ResetRows, InsertCases, EvaluateCase, Analyze,
           WriteRetained, WriteEvidence, WriteManifest, SealDatabase,
           PublishManifest, RemoveCheckpoint
    <3> QED BY <3>1, <3>2 DEF NoCheckpoint
  <2>6. ASSUME NEW p \in Procs, Unwind(p) \/ Kill(p) PROVE Once(v)
    BY <2>6 DEF Unwind, Kill, durable, HasRun
  <2>7. CASE Edit \/ UNCHANGED vars
    BY <2>7 DEF Edit, vars, durable, memory, Run, HasRun
  <2> QED BY <1>1, <2>1, <2>2, <2>3, <2>4, <2>5, <2>6, <2>7
          DEF Next, Refuse, Fail
<1>2. TypeOK /\ Checkpointing /\ [Next]_vars => [\A v \in Variants : Once(v)]_vars
  BY <1>1
<1> QED BY <1>2, CheckpointingAlways, TypeCorrect, PTL DEF Spec, CompletedOnce

-----------------------------------------------------------------------------
(* A complete run binds the sources it was made from, when attempts do not *)
(* overlap and no edit restores an earlier version                         *)

\* Invocation b ran with the snapshot of s and with an implementation that was
\* on disk at or after the time when s was read.
Made(b, s) ==
    /\ b.of <= invocations
    /\ madeBy[b.of].snapshot = s.snapshot
    /\ s.implementation <= madeBy[b.of].implementation
    /\ madeBy[b.of].implementation <= sources.implementation

\* What the outputs that p holds were made from, and what p will bind.
Bound(p) ==
    /\ pc[p] # "idle" => seen[p].implementation <= sources.implementation
    /\ \A v \in Variants :
          /\ pc[p] \in {HasRun(v), Written(v)} => Made(prepared[p][v], seen[p])
          /\ pc[p] \in Rechecked => madeBy[prepared[p][v].of] = seen[p]

MadeAsBound(v) ==
    checkpoint.done[v] # NoBytes => Made(checkpoint.done[v], checkpoint.binds)

\* The inductive invariant, beside the consistency and checkpoint invariants.
Binding ==
    /\ \A p \in Procs : Bound(p)
    /\ \A v \in Variants : MadeAsBound(v)
    /\ BoundSources

Invariants == Consistency /\ Checkpointing /\ Binding

\* Initially nothing is made and nothing is bound.
LEMMA BindingInitially == Init => Invariants
<1> SUFFICES ASSUME Init PROVE Binding
  BY ConsistencyInitially, CheckpointingInitially DEF Invariants
<1>1. ASSUME NEW v \in Variants PROVE MadeAsBound(v)
  BY DEF Init, MadeAsBound, NoCheckpoint, NoOutputs
<1>2. ASSUME NEW p \in Procs PROVE Bound(p)
  BY DEF Init, Bound, Unbound, HasRun, Written, Rechecked, Finalization
<1>3. BoundSources
  BY DEF Init, BoundSources, NoManifest
<1> QED BY <1>1, <1>2, <1>3 DEF Binding

\* What an invocation was made from is not changed by later ones.
LEMMA MadeStays ==
    ASSUME TypeOK, NEW b \in Bytes, NEW s \in Sources, Made(b, s),
           \/ UNCHANGED <<invocations, madeBy>>
           \/ \E p \in Procs, v \in Variants : Invoke(p, v),
           sources'.implementation >= sources.implementation,
           sources' \in Sources
    PROVE  Made(b, s)'
<1>1. /\ b.of \in Nat /\ invocations \in Nat
      /\ madeBy[b.of].implementation \in Nat
      /\ sources.implementation \in Nat /\ sources'.implementation \in Nat
  BY LifecycleAssumption DEF TypeOK, Bytes, OutputIds, Sources, Versions
<1>2. invocations' >= invocations /\ madeBy'[b.of] = madeBy[b.of]
  <2>1. CASE UNCHANGED <<invocations, madeBy>>
    BY <2>1, <1>1
  <2>2. ASSUME NEW p \in Procs, NEW v \in Variants, Invoke(p, v)
        PROVE  invocations' >= invocations /\ madeBy'[b.of] = madeBy[b.of]
    <3>1. b.of # invocations + 1
      BY <1>1 DEF Made
    <3> QED BY <1>1, <2>2, <3>1 DEF Invoke, TypeOK, Bytes
  <2> QED BY <2>1, <2>2
<1>3. invocations' \in Nat
  <2>1. CASE UNCHANGED <<invocations, madeBy>>
    BY <2>1, <1>1
  <2>2. CASE \E p \in Procs, v \in Variants : Invoke(p, v)
    BY <2>2, <1>1 DEF Invoke
  <2> QED BY <2>1, <2>2
<1> QED BY <1>1, <1>2, <1>3 DEF Made

\* Versions that agree on the snapshot and bound each other are the same.
LEMMA SameSources ==
    ASSUME NEW m \in Sources, NEW s \in Sources, m.snapshot = s.snapshot,
           s.implementation <= m.implementation,
           m.implementation <= s.implementation
    PROVE  m = s
<1>1. m.implementation \in Nat /\ s.implementation \in Nat
  BY LifecycleAssumption DEF Sources, Versions
<1>2. m.implementation = s.implementation
  BY <1>1
<1> QED BY <1>2 DEF Sources

\* Beginning an attempt: what is read at the start is what is bound.
LEMMA BindingBegin ==
    ASSUME OneAttempt, Invariants, NEW p \in Procs, Start(p) \/ Prepare(p)
    PROVE  Binding'
<1> USE DEF OneAttempt, Invariants, Consistency, TypeOK, Goto, Binding
<1>1. pc'[p] \in {"allocated", "inputs", "checkpointed", "resuming", "accepted",
                  "run_baseline"}
  BY DEF Start, CreateRun, ReadCheckpoint, Prepare, PersistInputs,
         WriteFirstCheckpoint, AcceptResume, BeginExecution
<1>2. UNCHANGED <<outputs, manifest, sources, invocations, madeBy>>
  BY DEF Start, CreateRun, ReadCheckpoint, Prepare, PersistInputs,
         WriteFirstCheckpoint, AcceptResume, BeginExecution, world, durable
<1>3. seen'[p] = sources \/ (seen'[p] = seen[p] /\ pc[p] # "idle")
  BY DEF Start, CreateRun, ReadCheckpoint, Prepare, PersistInputs,
         WriteFirstCheckpoint, AcceptResume, BeginExecution
<1>4. Bound(p)'
  <2>1. sources.implementation \in Nat
    BY LifecycleAssumption DEF Sources, Versions
  <2> QED BY <1>1, <1>2, <1>3, <2>1
          DEF Bound, HasRun, Written, Rechecked, Finalization
<1>5. ASSUME NEW v \in Variants PROVE MadeAsBound(v)'
  <2>1. CASE WriteFirstCheckpoint(p)
    BY <2>1 DEF WriteFirstCheckpoint, MadeAsBound, NoOutputs
  <2>2. CASE ~ WriteFirstCheckpoint(p)
    <3>1. UNCHANGED checkpoint
      BY <2>2 DEF Start, CreateRun, ReadCheckpoint, Prepare, PersistInputs,
                  AcceptResume, BeginExecution, durable
    <3> QED BY <1>2, <3>1 DEF MadeAsBound, Made
  <2> QED BY <2>1, <2>2
<1> QED BY <1>2, <1>4, <1>5 DEF BoundSources

\* Executing the variants: an invocation runs with what was bound, or with a
\* later implementation, which the second fingerprint rules out.
LEMMA BindingExecute ==
    ASSUME OneAttempt, Invariants, TypeOK', NEW p \in Procs, Execute(p)
    PROVE  Binding'
<1> USE DEF OneAttempt, Invariants, Consistency, TypeOK, Goto
<1>1. manifest' = manifest /\ manifest.status # "complete"
  BY DEF Execute, Restore, Invoke, WriteCapture, CheckpointVariant, Recheck,
         durable, Run, HasRun, Written
<1>2. BoundSources'
  BY <1>1 DEF BoundSources
<1>3. UNCHANGED <<sources, seen, held>> /\ pc[p] \notin Unbound
  BY DEF Execute, Restore, Invoke, WriteCapture, CheckpointVariant, Recheck,
         world, Run, HasRun, Written, Unbound
<1>4. \/ UNCHANGED <<invocations, madeBy>>
      \/ \E q \in Procs, v \in Variants : Invoke(q, v)
  BY DEF Execute, Restore, Invoke, WriteCapture, CheckpointVariant, Recheck,
         world
<1>5. sources'.implementation >= sources.implementation /\ sources' \in Sources
  BY <1>3 DEF Sources, Versions
<1>6. ASSUME NEW b \in Bytes, NEW s \in Sources, Made(b, s) PROVE Made(b, s)'
  BY <1>4, <1>5, <1>6, MadeStays
<1>7. seen[p] \in Sources /\ seen[p].implementation <= sources.implementation
      /\ checkpoint.binds = seen[p]
  BY <1>3 DEF Binding, Bound, Checkpointing, Mirrors, Unbound
<1>8. ASSUME \A v \in Variants :
                /\ pc'[p] \in {HasRun(v), Written(v)} =>
                      Made(prepared[p][v], seen[p])'
                /\ pc'[p] \in Rechecked =>
                      madeBy'[prepared'[p][v].of] = seen[p]
      PROVE  Bound(p)'
  BY <1>3, <1>7, <1>8 DEF Bound
<1>9. ASSUME UNCHANGED checkpoint PROVE \A v \in Variants : MadeAsBound(v)'
  <2>1. \A v \in Variants : checkpoint.done[v] \in Bytes
    BY DEF Checkpoints, VariantBytes
  <2>2. checkpoint.binds \in Sources
    BY DEF Checkpoints
  <2>3. ASSUME NEW v \in Variants, checkpoint.done[v] # NoBytes
        PROVE  Made(checkpoint.done[v], checkpoint.binds)'
    BY <1>6, <1>9, <2>1, <2>2, <2>3 DEF Binding, MadeAsBound
  <2> QED BY <1>9, <2>3 DEF MadeAsBound
<1> USE DEF Unbound, Rechecked, Finalization
<1>10. ASSUME NEW v \in Variants, Restore(p, v) PROVE Binding'
  <2>1. UNCHANGED checkpoint
        /\ pc'[p] \in {"run_candidate", "recheck"}
    BY <1>10 DEF Restore, AfterVariant, durable
  <2>2. Bound(p)'
    BY <1>8, <2>1 DEF HasRun, Written
  <2> QED BY <1>2, <1>9, <2>1, <2>2 DEF Binding
<1>11. ASSUME NEW v \in Variants, Invoke(p, v) PROVE Binding'
  <2>1. UNCHANGED checkpoint /\ pc'[p] = HasRun(v)
    BY <1>11 DEF Invoke, durable
  <2>2. prepared'[p][v] = Captured(invocations + 1)
    BY <1>11 DEF Invoke, VariantBytes
  <2>3. madeBy'[invocations + 1] = [snapshot |-> seen[p].snapshot,
                                    implementation |-> sources.implementation]
    BY <1>11, LifecycleAssumption DEF Invoke, OutputIds
  <2>4. Made(prepared[p][v], seen[p])'
    BY <1>3, <1>7, <1>11, <2>2, <2>3, LifecycleAssumption
       DEF Made, Captured, Invoke, OutputIds, Sources, Versions
  <2>5. \A w \in Variants :
           pc'[p] \in {HasRun(w), Written(w)} => Made(prepared[p][w], seen[p])'
    BY <2>1, <2>4 DEF HasRun, Written
  <2>6. Bound(p)'
    BY <1>8, <2>1, <2>5 DEF HasRun
  <2> QED BY <1>2, <1>9, <2>1, <2>6 DEF Binding
<1>12. ASSUME NEW v \in Variants, WriteCapture(p, v) PROVE Binding'
  <2>1. UNCHANGED <<checkpoint, prepared, invocations, madeBy>>
        /\ pc[p] = HasRun(v) /\ pc'[p] = Written(v)
    BY <1>12 DEF WriteCapture, world
  <2>2. Made(prepared[p][v], seen[p])'
    BY <1>3, <2>1 DEF Binding, Bound, Made
  <2>3. \A w \in Variants :
           pc'[p] \in {HasRun(w), Written(w)} => Made(prepared[p][w], seen[p])'
    BY <2>1, <2>2 DEF HasRun, Written
  <2>4. Bound(p)'
    BY <1>8, <2>1, <2>3 DEF Written
  <2> QED BY <1>2, <1>9, <2>1, <2>4 DEF Binding
<1>13. ASSUME NEW v \in Variants, CheckpointVariant(p, v) PROVE Binding'
  <2>1. /\ checkpoint' = MarkDone(checkpoint, v, prepared[p][v])
        /\ UNCHANGED <<prepared, invocations, madeBy>>
        /\ pc[p] = Written(v) /\ pc'[p] \in {"run_candidate", "recheck"}
    BY <1>13 DEF CheckpointVariant, Written, AfterVariant, Checkpointing,
                 Mirrors, world
  <2>2. /\ checkpoint'.binds = checkpoint.binds
        /\ checkpoint'.done[v] = prepared[p][v]
        /\ \A w \in Variants : w # v => checkpoint'.done[w] = checkpoint.done[w]
    BY <2>1 DEF MarkDone, Checkpoints, VariantBytes
  <2>3. Made(prepared[p][v], seen[p])'
    BY <1>3, <2>1 DEF Binding, Bound, Made
  <2>4. \A w \in Variants : MadeAsBound(w)'
    BY <1>3, <1>7, <2>1, <2>2, <2>3 DEF Binding, MadeAsBound, Made
  <2>5. Bound(p)'
    BY <1>8, <2>1, <2>2 DEF HasRun, Written
  <2> QED BY <1>2, <2>4, <2>5 DEF Binding
<1>14. CASE Recheck(p)
  <2>1. /\ UNCHANGED <<checkpoint, prepared, invocations, madeBy>>
        /\ pc[p] = "recheck" /\ pc'[p] = "prepared"
        /\ sources.implementation = seen[p].implementation
    BY <1>14 DEF Recheck, Unchanged, durable, world
  <2>2. ASSUME NEW v \in Variants PROVE madeBy[prepared[p][v].of] = seen[p]
    <3>1. Made(prepared[p][v], seen[p])
      BY <1>7, <2>1 DEF Checkpointing, Mirrors, Executed, Binding, MadeAsBound
    <3>2. madeBy[prepared[p][v].of] \in Sources
      BY DEF VariantBytes, Bytes
    <3>3. /\ madeBy[prepared[p][v].of].snapshot = seen[p].snapshot
          /\ seen[p].implementation <= madeBy[prepared[p][v].of].implementation
          /\ madeBy[prepared[p][v].of].implementation <= seen[p].implementation
      BY <2>1, <3>1 DEF Made
    <3> QED BY <1>7, <3>2, <3>3, SameSources
  <2>3. Bound(p)'
    BY <1>8, <2>1, <2>2 DEF HasRun, Written
  <2> QED BY <1>2, <1>9, <2>1, <2>3 DEF Binding
<1> QED BY <1>10, <1>11, <1>12, <1>13, <1>14 DEF Execute

\* Finalizing: the manifest binds what was read at the start, and its outputs
\* are the retained form of what was made from that.
LEMMA BindingFinalize ==
    ASSUME OneAttempt, Invariants, NEW p \in Procs, Finalize(p)
    PROVE  Binding'
<1> USE DEF OneAttempt, Invariants, Consistency, TypeOK, Goto, world, Binding,
            Unbound, Rechecked, Finalization
<1>1. UNCHANGED <<seen, prepared, sources, invocations, madeBy>>
      /\ pc[p] \in Rechecked
  BY DEF Finalize, ResetRows, InsertCases, EvaluateCase, Analyze,
         WriteRetained, Retain, WriteEvidence, WriteManifest, SealDatabase,
         PublishManifest, RemoveCheckpoint
<1>2. pc'[p] \in Rechecked \cup {"idle"}
  BY DEF Finalize, ResetRows, InsertCases, EvaluateCase, Analyze,
         WriteRetained, AfterRetain, WriteEvidence, WriteManifest,
         SealDatabase, PublishManifest, RemoveCheckpoint
<1>3. \/ UNCHANGED checkpoint
      \/ checkpoint' = NoCheckpoint /\ pc'[p] = "idle"
  BY DEF Finalize, ResetRows, InsertCases, EvaluateCase, Analyze,
         WriteRetained, WriteEvidence, WriteManifest, SealDatabase,
         PublishManifest, RemoveCheckpoint
<1>4. Bound(p)'
  BY <1>1, <1>2 DEF Bound, HasRun, Written
<1>5. \A v \in Variants : MadeAsBound(v)'
  BY <1>1, <1>3 DEF MadeAsBound, Made, NoCheckpoint, NoOutputs
<1>6. BoundSources'
  <2>1. CASE PublishManifest(p)
    <3>1. manifest'.binds = seen[p] /\ outputs' = outputs
      BY <2>1 DEF PublishManifest, Finalizing, Manifests
    <3>2. ASSUME NEW v \in Variants
          PROVE  outputs[v].of = prepared[p][v].of
      BY <2>1, RetainedType DEF PublishManifest, Finalizing, BaselineRetained,
                                BothRetained, RetainedFile, VariantBytes
    <3>3. \A v \in Variants : madeBy[prepared[p][v].of] = seen[p]
      BY <1>1 DEF Bound
    <3> QED BY <1>1, <3>1, <3>2, <3>3 DEF BoundSources
  <2>2. CASE RemoveCheckpoint(p)
    BY <1>1, <2>2 DEF RemoveCheckpoint, BoundSources
  <2>3. CASE ~ PublishManifest(p) /\ ~ RemoveCheckpoint(p)
    <3>1. manifest'.status # "complete"
      BY <2>3 DEF Finalize, ResetRows, InsertCases, EvaluateCase, Analyze,
           WriteRetained, Retain, WriteEvidence, WriteManifest, SealDatabase
    <3> QED BY <3>1 DEF BoundSources
  <2> QED BY <2>1, <2>2, <2>3
<1> QED BY <1>4, <1>5, <1>6

\* Every step of a single attempt keeps the binding, as long as the user's
\* edits move the versions forward.
LEMMA BindingStep ==
    ASSUME OneAttempt, AllowRevert = FALSE
    PROVE  Invariants /\ [Next]_vars => Invariants'
<1> SUFFICES ASSUME Invariants, [Next]_vars PROVE Binding'
  BY ConsistencyStep, CheckpointingStep DEF Invariants, Consistency
<1>1. TypeOK'
  BY TypesStep DEF Invariants, Consistency
<1>2. ASSUME NEW p \in Procs, Unwind(p) \/ Kill(p) PROVE Binding'
  <2>1. pc'[p] = "idle" /\ UNCHANGED <<checkpoint, outputs, manifest, world>>
    BY <1>2 DEF Unwind, Kill, Invariants, Consistency, TypeOK, durable
  <2>2. Bound(p)'
    BY <2>1 DEF Bound, Unbound, HasRun, Written, Rechecked, Finalization
  <2> QED BY <2>1, <2>2 DEF Invariants, Binding, OneAttempt, MadeAsBound, Made,
                            BoundSources, world
<1>3. CASE Edit
  <2> USE DEF Invariants, Consistency, TypeOK, Binding
  <2>1. UNCHANGED <<durable, memory, invocations, madeBy>>
        /\ sources'.implementation >= sources.implementation
        /\ sources' \in Sources
    BY <1>3 DEF Edit
  <2>2. sources.implementation \in Nat /\ sources'.implementation \in Nat
    BY <2>1, LifecycleAssumption DEF Sources, Versions
  <2>3. ASSUME NEW b \in Bytes
        PROVE  madeBy[b.of].implementation <= sources.implementation =>
                  madeBy[b.of].implementation <= sources'.implementation
    <3>1. madeBy[b.of].implementation \in Nat
      BY LifecycleAssumption DEF Bytes, Sources, Versions
    <3> QED BY <2>1, <2>2, <3>1
  <2>4. ASSUME NEW v \in Variants PROVE MadeAsBound(v)'
    <3>1. checkpoint.done[v] \in Bytes
      BY DEF Checkpoints, VariantBytes
    <3> QED BY <2>1, <2>3, <3>1 DEF MadeAsBound, Made, durable
  <2>5. ASSUME NEW p \in Procs PROVE Bound(p)'
    <3>1. seen[p].implementation \in Nat
      BY LifecycleAssumption DEF Sources, Versions
    <3>2. \A v \in Variants : prepared[p][v] \in Bytes
      BY DEF VariantBytes
    <3>3. pc[p] # "idle" => seen[p].implementation <= sources'.implementation
      BY <2>1, <2>2, <3>1 DEF Bound
    <3> QED BY <2>1, <2>3, <3>2, <3>3 DEF Bound, Made, durable, memory
  <2>6. BoundSources'
    BY <2>1 DEF BoundSources, durable
  <2> QED BY <2>4, <2>5, <2>6
<1>4. CASE UNCHANGED vars
  BY <1>4 DEF vars, durable, memory, world, Invariants, Binding, Bound,
              MadeAsBound, Made, BoundSources
<1> QED BY <1>1, <1>2, <1>3, <1>4, BindingBegin, BindingExecute,
           BindingFinalize DEF Next, Refuse, Fail

\* Every output of a complete run was made with the snapshot and by the
\* implementation that its manifest binds, however often the run was killed,
\* failed, edited and resumed.
THEOREM CompleteRunBindsSources ==
    ASSUME OneAttempt, AllowRevert = FALSE
    PROVE  Spec => []BoundSources
<1>1. Invariants => BoundSources
  BY DEF Invariants, Binding
<1> QED BY <1>1, BindingInitially, BindingStep, PTL DEF Spec

=============================================================================
