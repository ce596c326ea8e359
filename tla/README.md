# StructTrace: TLA+ models, checks and proofs

StructTrace compares two variants of a program that produces structured output,
a *baseline* and a *candidate*, case by case over a dataset, keeps the evidence
of the comparison, and decides by a *release gate* whether the candidate may be
deployed.  StructTrace Local (`structtrace open`) is a server for one user that
runs such comparisons as jobs, keeps their revisions, promotes candidates to the
next baseline, re-examines saved cases and exports packages for CI.

This directory holds TLA+ modules translated from the Rust source, the TLC
configurations that check them on small instances, and proofs of their main
properties that TLAPS checks for every value of the constants.  `PROJECT.json`
lists components, runs, the mutant of the model that each property must catch,
the source lines each definition stands for, hazards and theorems.

    tlc -workers 2 -config Lifecycle.cfg MCRunLifecycle     # one run
    tlapm RunLifecycleProofs.tla                            # one proof module

Source paths below are relative to `src/crates/`; `local_app.rs` is
`structtrace-cli/src/local_app.rs`.

## 1. The system

| Component | State it keeps | Operations | Interacts by |
|---|---|---|---|
| Run lifecycle (`engine`: `configured.rs`, `recorded.rs`, `storage.rs`) | one directory per run: SQLite status and rows, checkpoint, captured outputs, evidence, manifest; per process the checkpoint and outputs in memory | run, resume, execute a variant, finalize, fail | starts adapters; files shared with any other process |
| Configuration, dataset and outputs (`core`: `config.rs`, `dataset.rs`, `output.rs`) | the validated values | parse, validate, match rows with cases | called before anything runs, and by replay |
| Built-in evaluators (`evaluation.rs`) | none | check references, judge an output | called for every row |
| Scoring and release gate (`core`: `evaluation.rs`, `gate.rs`, `config.rs`, `statistics.rs`; `recorded.rs`) | rows, summary, decision of a run | validate, score a row, group, summarize, evaluate rules | called by the finalizer |
| Command adapter, external evaluators (`adapters`: `command.rs`, `evaluator.rs`, `protocol.rs`) | one subprocess with two pipes, rows so far | spawn, write, read, deadlines, wait, kill | pipes and signals |
| Python adapter and bridge | the callable | as a command adapter | pipes |
| OpenAI-compatible adapter (`openai.rs`) | a window of cases, each with its attempts, backoff and deadline | send, classify, retry, give up at the deadline, collect in order | HTTP |
| Local: comparison jobs (`local_app.rs`) | job files, job registry, comparison lock, revisions, pointer, run index | create, cancel, retry, execute, commit, stop, restart | HTTP handlers, tasks, blocking threads, the lock, files |
| Local: projects (`local_app.rs`) | project directory, staged sources, drafts, archive | upload, save, clear with garbage collection, archive, promote | files; comparison lock |
| Local: saved cases (`local_app.rs`) | `regressions.json` | pin, unpin, refresh, block a promotion | pin lock; revisions |
| Local: receipts and case index (`local_app.rs`) | a receipt for each verified run, an index of its cases, both keyed by hashes | open, list, page through cases | files of finished runs |
| Local: CI export (`local_app.rs`) | the export directory | check, remove, copy, bind, seal | reads a project without its lock |
| Replay and integrity (`replay.rs`, `artifact.rs`) | none | recompute a finished run and compare | reads a run directory |
| Run management (`main.rs`) | archives | gate, release-check, archive, delete | files of finished runs |
| Initialization (`initialize.rs`, and Local's comparison) | the files of a new project | templates, preset, import of exported rows, rules applied by Local | files; read by the first run |
| Parsers, statistics, hashing, privacy, reports, UI, packaging | none that a decision depends on | | |

### What is hard, and what makes each part correct

*Run lifecycle.*  A run is a sequence of file and database writes with a kill
possible between any two; a resumed attempt trusts a checkpoint by hashes.  No
lock protects the directory, users edit their files while adapters run, and
storage retention rewrites the very files that a resume would reread.  Correct
means: a manifest that says complete describes one consistent run, scored from
what the adapters returned; a completed variant is neither forgotten nor run
again; complete evidence is never changed; a run that is resumed often enough
completes.

*Release gate.*  Rows are grouped into evidence units, units whose rows
disagree lose their say, copies count once, and two dozen rules with different
severities combine into one status.  Correct means: the decision depends on the
evidence and not on its order or multiplicity, does not reward a worse
candidate, and authorizes only what really holds for the whole dataset.

*From files to scores.*  A configuration is validated by one set of functions and
used by another; references are checked by code written apart from the evaluators
that will read them; numbers, dates and keys are written in several ways.  Correct
means: an output is never failed for what its reference or the arithmetic is to
blame for, a perfect output passes, the facts of a result account for its status,
and nothing a model must not see is in what it is shown.

*Imports.*  Rows exported from elsewhere are guessed at by their first line, completed
and written file by file into a directory that a killed attempt may have left half
full; rules become options, options evaluators, and the two lists are paired again by
position.  Correct means: a configuration names files of one import, the first run
accepts what the import accepted and scores what the rows say, and every rule is
applied to its own field.

*OpenAI-compatible endpoints.*  Several cases wait at once for answers that come in
any order or never; a failed request may or may not be repeated, under one deadline
for all attempts of a case.  Correct means: row *i* is case *i*, it names the attempts
that were made, nothing that was paid for is sent twice without a reason, and the run
ends.

*Subprocesses.*  The other end of the pipes may answer twice, early, late or
never, write what nobody asked for, fork, close its pipes, ignore signals.
Correct means: the session ends, leaves nobody behind, and believes only what an
exactly behaving process wrote.

*Jobs.*  HTTP handlers, tasks that are dropped at an await, blocking threads that
are not, a polled lock that a panic poisons, shutdown and crash all meet in the
commit of a revision, which is two file operations.  Correct means: one
comparison at a time, no lost update, job files that tell the truth, every
accepted job settled.

*Projects and saved cases.*  Several handlers change the same directory; some hold
the comparison lock and some do not.  Garbage collection works from a set of
references read earlier.  Saved cases are relabelled after the commit that they
are to guard.  Correct means: what the pointer selects can be verified, history
can be followed, a promoted baseline is an authorized candidate byte for byte,
and a pinned case that fails blocks.

*Evidence.*  A finished run is read for years by pages, gates, archives and exports
that lock nothing, keep caches beside it, and read each file more than once, while
anybody may edit it.  Scores were computed from captured outputs, and only retained
ones are left.  Correct means: an unchanged run replays, whatever replays is what
would be written again, an answer that no edit overlapped is true, and an
authorization is one that the evidence still gives.

## 2. Modules

| Module | Models | Uses |
|---|---|---|
| `RunLifecycle` | one run and the processes that run and resume it | |
| `RunLifecycleProofs` | theorems | `RunLifecycle`, TLAPS |
| `JobContract` | what Local promises of a job | |
| `LocalJobs` | jobs, tasks, threads, lock, commit, restart | `INSTANCE JobContract` |
| `LocalJobsProofs` | theorems, among them the refinement | `LocalJobs`, TLAPS |
| `JsonValues` | values, pointers, numbers, decimals and dates as the code reads them | |
| `BuiltinEvaluators` | every built-in evaluator and the check of references | `JsonValues` |
| `Configuration` | `Config::validate` without the gate's part | `BuiltinEvaluators` |
| `CaseScoring` | from the files of a comparison to scored rows | `Configuration` |
| `ProjectInitialization` | initialization and import up to the first run | `CaseScoring` |
| `Scoring` | evaluation statuses composed into an outcome | |
| `ReleaseGate` | validation, evidence units, rules, decision | `Scoring` |
| `Replay` | the directory a finished run leaves, and `replay_run` | `INSTANCE Scoring` |
| `RunEvidence` | everything that reads a finished run, edits, receipts, index, archive | `Replay` |
| `RunEvidenceProofs` | theorems about the readers, and that replay is exact | `RunEvidence`, TLAPS |
| `ProjectStore` | one project's directory, sources, drafts, promotion | |
| `CiExport` | the export of a project while it changes | `ProjectStore` |
| `ProjectStoreProofs` | theorems about a project and its exports | `CiExport`, TLAPS |
| `RegressionSuite` | saved cases over the sequence of comparisons | |
| `ReleaseProofs` | theorems about scoring, the gate and the suite | `CaseScoring`, `ReleaseGate`, `RegressionSuite`, TLAPS |
| `ChildProcess` | a subprocess, its group and its pipes (external) | |
| `PersistentWorker` | one process for all cases: variant or evaluator | `ChildProcess` |
| `PersistentWorkerProofs` | theorems | `PersistentWorker`, TLAPS |
| `PerCaseWorker` | one process for each case | `ChildProcess` |
| `PerCaseWorkerProofs` | theorems | `PerCaseWorker`, TLAPS |
| `OpenAiAdapter` | concurrent cases against an endpoint | |
| `OpenAiAdapterProofs` | theorems | `OpenAiAdapter`, TLAPS |
| `MC*` | constants of the small instances | the module they name |

An operator whose comment begins with "Mutant" is a plausible bug: the body that
the definition after it would have.  It is not part of the specification.

### How state and actions correspond to the code

**RunLifecycle.**  `db`, `caseRows`, `rows` are the SQLite row's status and the
tables; `checkpoint`, `outputs`, `evidence`, `manifest` the files; `pc`, `seen`,
`copy`, `prepared`, `records`, `held` the memory of each OS process.  One action
is one durable write with the checks that lead to it, in the code's order:
`CreateRun`, `PersistInputs`, `WriteFirstCheckpoint`, or `ReadCheckpoint`,
`AcceptResume`; then `BeginExecution`, for each variant `Restore` or `Invoke`,
`WriteCapture`, `CheckpointVariant`; `Recheck`; then the finalizer from
`ResetRows` to `PublishManifest`, and `RemoveCheckpoint`.  `Fail` and `Refuse`
unwind through the failure guard, which is armed only in the states `Guarded`;
`Kill` runs nothing.  The bytes an adapter returns are the number of the
invocation, so that two invocations never agree by accident; `form` says whether
retention has rewritten them, which it does under the storage settings of the versions
in `Rewriting`.

**LocalJobs.**  `disk` and `registry` are the two copies of a job's status,
`cancel` the flags, `worker` the program counter of request, task and thread,
`lock` and `poisoned` the mutex, `base` what the comparison read as its
predecessor, `revisions` and `pointer` the commit, `index` what clients can
open.  `Stop`, `Exit`, `Crash` and `Restart` are the server's life; `Stop` drops
tasks and leaves blocking threads running, as the runtime does.

**Scoring, ReleaseGate.**  Operators for `compose_outcome`, the grouping of
`build_summary` and each rule of `evaluate_gate`; the state machine scores the
dataset row by row and then decides.  Rates are exact fractions, limits are in
percent.

**JsonValues, BuiltinEvaluators, Configuration, CaseScoring.**  A value is null, a
number, a text, a date, an array or an object; a number has the form in which it is
written (`plain`, `fraction`, `scientific`, ...) and an integer value, since the code
decides by the form which parser reads it; decimals overflow beyond `MaxDecimal`.  A
setting is the value class its check tells apart (`within`, `zero`, ...).
`CaseScoring` runs the steps of `run_recorded_with_snapshot` in their order, each of
which may refuse the comparison; one action scores one case.  `InputAssumption` says
what the inputs are made of: files, pointers and arrays are finite sequences.

**ProjectInitialization.**  A line is any object, its keys being those the code looks
for.  `session` is what a user asks for, one initialization after the other;
`Initialize` reads and judges the sources (`ReadExport` is
`read_or_normalize_outputs`, `ChosenEvaluators` and `Configured` build the configuration)
and checks that no file exists, `WriteFile` writes the next of the files in `plan`,
`Kill` leaves `directory` as it is, with a partial file or without.  `RunProject` is
what Local does with the configuration and its rules, or just the user's `run`; its
steps are then those of `CaseScoring`, on the files that are there.  `Adjusted` pairs
evaluators with ordinary rules by position, as `zip` does.  `SessionAssumption` says
what a request is made of: one of four kinds, and for an import finite sequences of
lines, rules and options.

**Replay, RunEvidence.**  `dir` maps the files of a run to their contents, a hash is
the content itself, and `None` a file that is not there.  `Finished` is what the
finalizer writes from captured outputs, `Verified` the conjunction of every check of
`replay_run`, in its order.  A request in `RunEvidence` takes one step for each time
the code reads the directory anew: opening a run inspects, reads manifest and summary
for the response, and reads both once more for the receipt.  `stamp` is the
fingerprint (length, inode, times) of `cases.jsonl`: every write gives a new one.
`disturbed`, `clean` and `true` are not in the code; they remember for the properties
whether an edit overlapped.  `Finishable` is what the finalizer is given: cases with
identifiers of their own, and for each a row as `RecordedOutputs` accepts it or an
adapter returns it.  A captured row whose metadata already holds
`_structtrace_parse_receipt` is left out; retention would overwrite it.

**ProjectStore.**  `project` is the directory (draft, pointer, revisions),
`staged` the uploaded sources, `job`, `promotion` and `clearing` how far each
request is.  Every step between two file operations of `accept_run`,
`delete_draft` with `garbage_collect_staged_sources`, and the comparison is an
action.  Bytes are the number of the run whose candidate they are, or 0.

**CiExport.**  `package` holds the files of the export directory, `export` how far the
request is and the revision it read.  Every file it copies is an action, so that
promotions and archiving come between; a kill or an error leaves what is there.

**RegressionSuite.**  `pins` is `regressions.json`; a read-modify-write of it is
one action, because the handlers hold `pin_lock` and replace the file
atomically.  `ending` is how far a comparison is after its commit: a job
refreshes the pins and then indexes its run, a synchronous request the other way
round, and the next comparison may commit before either.  `promotion` is how far each
request of `accept_run` is: it counts the labels (`CountLabels`, without `pin_lock`),
checks that its run is current (`CheckCurrent`) and, having staged and copied files,
replaces the pointer (`ReplacePointer`), with any step of any handler in between.
`follows`, and the set `counted` of a request, are no part of the code; they remember
for the properties whose refresh came before a refresh and which labels were counted.

**ChildProcess, PersistentWorker, PerCaseWorker.**  Pipes are bounded sequences
of units, a request being `RequestSize` units of which the last carries the case
number; signals act on `family`.  A deadline is an action that may happen as soon
as what it limits has not.  In `PersistentWorker` the variable `role` chooses
between `run_persistent` and `run_persistent_batch`, which differ in what a
malformed line costs and in how often they look for extra output.

**OpenAiAdapter.**  `window` is the stream's buffer: a slot is free only when the row
has been collected, which happens in the order of the cases.  `pc`, `asked`,
`retries`, `age` and `delay` are the future of each case; `Tick` is the clock; a
future that is ready, or whose deadline has passed, may be polled late.

## 3. The runs

| Run | States | What it shows |
|---|---:|---|
| `lifecycle` | 39 000 | one process at a time, killed, failing, edited under and resuming, two cases, storage settings that rewrite and, after an edit, others that do not: the safety properties of the run directory; a completed variant stays restorable at every kill until every case is evaluated from it; persistent resuming completes the run |
| `lifecycle_overlap` | violation | two processes resume one run: the slower rewrites what the faster has published as complete |
| `jobs` | 213 000 | two jobs and a synchronous request with cancellation, retry, failing writes, panic, stop, crash: a linear history, complete runs that can be opened, the job contract, and that every job of a server that stays up is settled |
| `gate` | 18 000 | all sequences of up to three blocks of rows (up to 297 rows) under six accepted configurations and one that validation refuses |
| `scoring` | 373 000 | every evaluator with its references and outputs, and every way in which a configuration or a file differs from a plain one; imports of every kind of row and rule, killed and tried again, with the first run |
| `store` | 2 060 000 | three kinds of traffic (section below): two jobs, edits, archiving and a kill with promotion and clearing each by itself; comparisons, promotion and clearing in any interleaving; exports among promotions and archiving |
| `suite` | 1 930 000 | three comparisons of both kinds that overlap, their refreshes in any order, pins from any run, a promotion in three steps, a kill, a full file: labels follow the history and block |
| `worker` | 442 000 | a persistent variant and a persistent evaluator against an arbitrary process |
| `per_case` | 189 000 | a process for each case, likewise, which may fork and exit before it reads |
| `openai` | 419 000 | three cases in two slots with one retry against an endpoint that may answer anything, late, or never |
| `evidence` | 502 000 | every kind of captured row under every retention setting, left alone; runs with one or two requests and up to two edits |
| `replay_retention` | violation | an unchanged run without raw outputs cannot be replayed |

A full check of a run takes between three seconds and, for `store`, two minutes.
What an invariant or property says is in the comment above it.  Several are
conjunctions: `CompletedOnce` (never invoked again, never forgotten),
`CasesDecide` (order is irrelevant, copies never help), `DecisionIsEarned` (an
authorization hides nothing, the status is the worst of its rules), `ProjectIsWhole`,
`HistoryKept`, `CasesAreSeparate`, `OutputsAreJudged` (bad outputs fail, perfect ones
pass), `FactsAddUp` (keyed arrays are compared by a matching, facts explain the
status), `StimulusDecides` (hidden fields stay hidden, equal stimuli are judged alike),
`ImportIsSound` (its five parts), `ReplayIsExact` (unchanged runs replay, replayed ones
are rederived).

### Bounds, and why they are enough

* `RunLifecycle`: `MaxVersion = 1` distinguishes edited from unedited sources,
  and four invocations allow each variant to be run twice.  A derived row concerns
  one case, so two cases suffice for a partial set of rows; a kill and a resume may
  happen any number of times, being bounded only through the invocations.  The first
  version has settings that rewrite and the second has not, so that a run is
  started under either.
* `LocalJobs`: conflicts are between two comparisons; the synchronous request is
  the third, which the retry of a job competes with.
* `ReleaseGate`: the release profile asks for 100 cases, so a row of the model is
  a block of up to 99 dataset rows that differ only in their stimulus; three blocks
  exceed every limit of the profile from both sides.  Duplicates, contradictory
  repetitions and relabelled cases need two blocks.
* `ProjectStore`, `CiExport`: two jobs, one promotion and one upload give a lost
  update, a parent that is missing, and a reference without a source.  A *traffic*,
  chosen in the initial state, names the kinds of request there are, those that may
  be in flight together, and the mappings they use.  It is an assumption about the
  *client*: the properties that do not survive every overlap say so themselves by
  `Serialized` and `WholeMappings`, and section 5 shows what happens without these.
  One package is exported at a time, for one mode.
* `RegressionSuite`: three comparisons let the refreshes of two swap while a third run
  is the one that is promoted; one case stands for all, since no handler relates two of
  them, and the file is full at the fifth label.  One promotion is in flight; the
  theorems are about any number.
* `RunEvidence`: two cases make the order of records, a removed one and a receipt of
  the wrong case possible; two requests let one use or destroy what the other leaves
  (a receipt, an index, the run itself); two edits change a file and restore it, or
  change a file and make the manifest agree.  `replay_run` is one step, so an edit
  within a replay is not distinguished from one before or after it.
* `CaseScoring`: differences are looked at one at a time: one evaluator with every
  small reference and output, and one departure from a plain configuration, dataset or
  output file.  `MaxDecimal = 3` lets products and sums overflow.
* `ProjectInitialization`: exports differ from a plain one in one line of the dataset
  or one or two of the candidate's outputs, in two or three rules in any order, or in
  one option.  Two initializations, of any two kinds, follow one another in an empty
  directory or one with a file that the first, the second or both would write; a kill
  may come before or in the middle of every file.
* `OpenAiAdapter`: three cases and two slots let a later case finish before an
  earlier one while a third waits for a slot; a backoff is shorter than the deadline or
  as long, and the `Retry-After` header asks for more than the longest backoff.

### Fairness, and why the code justifies it

* `RunLifecycle`: an attempt that has started goes on (`WF` of `Progress`), as a
  process does that is not killed; the user resumes a run again that may be
  resumed.  `EventuallyComplete` asks nothing unless kills, errors and edits stop.
* `LocalJobs`: `WF` of the steps of each comparison's task and thread: tokio polls
  tasks that are ready, and the waiting job polls `try_lock`.  Nothing obliges
  clients, failures, panics or the end of the server; `JobsSettle` promises
  nothing once the server stops.
* Workers: `WF` of the host's steps only.  Nothing is assumed of the child
  process, which may stop for ever at any point.  In `PerCaseWorker` the wait
  and its deadline share one fairness condition, so that draining output does not
  hold the deadline off.
* `OpenAiAdapter`: `WF` of the polling of each case and of the clock; the endpoint owes
  nothing.
* The other modules state safety only and have no fairness.

`CHECK_DEADLOCK FALSE` is in every configuration because all these systems may
stop: a run is complete, bounds are used up, the session is over.

## 4. What is proved

No theorem bounds the number of cases, processes, jobs, requests or the size of
pipes.  The proofs use the named assumptions of the modules and, where a theorem says
so, one of those below, which the code does not enforce; section 5 shows what happens
without it.

**RunLifecycleProofs.**  `TypeCorrect`.  `CaptureIsScored`: bytes rewritten by
retention are never evaluated, even when processes overlap; inductive because
`CapturedOnly` holds of `prepared` and of every `done` entry that a hash can match.
`SettledRunIsFinal` (`FinalOnceSettled`), for any number of processes that resume the
run at once: a complete run is changed only by an attempt that had passed the status
check before the run was complete; when there is none, nothing it binds changes again.
That such an attempt does change it is the run `lifecycle_overlap`.
`CompleteRunConsistent`: under `OneAttempt` (attempts do not overlap, which the code does
not enforce) a complete manifest describes one consistent run.  This is not inductive by
itself: `Consistency` adds, for every stage of finalization, what the stages before
it have established (`Finalizing`), and that a published run is only worked on by
a resume that is about to be refused or by the removal of its checkpoint.
Also under `OneAttempt`: `VariantsCompletedOnce` (a variant that the checkpoint names
is neither invoked again nor forgotten), and `RestorableUntilEvaluated`
(`CheckpointRestorable`: its outputs are those the checkpoint names, or what retention
has made of them once every case is evaluated from them), both from
`Checkpointing`: the process that works on the run holds the checkpoint that is on
disk, and a file of a completed variant is what the checkpoint names until the
evaluation is in the database.
`CompleteRunBindsSources` says that every output of a complete run was made from the
snapshot and by the implementation that its manifest binds; besides `OneAttempt` it
needs `AllowRevert = FALSE` (no edit is undone between two fingerprints).  `Binding`
carries it from the invocation through checkpoint, kill and resumption to the manifest.

**LocalJobsProofs.**  `TypeCorrect`; `OneExecutor` (with `PointerIsCommitted`);
`NoLostUpdate`; `CompletedIsShown` (a job seen complete can be opened, by this server
and by every later one); `ContractKept`, the refinement of `JobContract`.  The chain of
invariants is `Typed` (types, and what a returned worker carries), `Executing`
(exactly the holder of the lock is between acquiring it and returning, and the
revision it read is still the pointer), `Readable` (a complete status in memory is
backed by the index, one in a file by a committed revision), `Recorded` (a job file is
open exactly while its task or thread is at work).  `Readable` and `Recorded` rest on
`Executing`, and that on `Typed`; the refinement needs `Recorded`, without which a
settled job could be settled again.

**PersistentWorkerProofs.**  `TypeCorrect`, `GroupGone`, `FailureFinal` and
`SessionExact`.  `HostOK` adds to the types that there is room for the next row and
that nobody is alive before the start and after the end; `FailureOK` that accepted
rows precede the first failure; `ExactOK` that while the session is trusted every
line written is either a row or still in the pipe.  `SessionExact` assumes
`NothingHidden`: no blank line, and for an evaluator no text without an end of
line, since the looks at the output miss those.

**PerCaseWorkerProofs.**  `TypeCorrect`, and `CasesSeparated` (`CasesAreSeparate`)
of any process, whatever it does and when: a response is taken only from a process that
wrote this line and no more, exited successfully and left nobody; and when a case ends
its process is gone and so is every descendant, but for one that a process left which
could not be sent its request.  `Exact` is the invariant behind it: nothing that was
written escapes the drained output and the pipe, unless the drain has overflowed, and
the group is empty once it has been killed.  `WhatFinishes` says from which stages a
case can end.

**OpenAiAdapterProofs.**  `RowsExplainAttempts` and `RepeatsLicensed`, for any number of
cases, slots and retries and any delays.  `Explained` follows a case through its
future: while it sends, the records are numbered up to one less than the requests;
while it backs off, they are equal in number and the last failure is one that may be
repeated; its row has them all unless the deadline cut it off.  `InOrder` says that rows
and slots together are the cases started so far, in their order.

**ProjectStoreProofs.**  `PromotedCandidatesAreAuthorized` (`PromotedBytes`) holds in
every overlap of requests: `Licensed`, `Copied` and the names of the runs behind each
source carry the authorization from the run to the revision.  `ProjectsAreWhole`,
`ReferencesAreStaged` and `HistoriesAreKept` are about traffics in which promotions and
clearing run by themselves, which the properties say by `Serialized` and
`WholeMappings`.  `Whole` is their invariant: for every request, what it has read is
still so (`Loaded`, `Prepared`, `Committed`, `Promoting`, `Clearing`), the pointer
selects a revision whose ancestors are there, and every reference has its source.
`ExportsKeepProjects` shows that `CiExport` implements `ProjectStore`, step by step, so
that all of this holds of a project that is exported meanwhile
(`ExportedProjectsAreWhole`).  `ExportsAreOneRevision`: a sealed package is one committed
revision, whatever happens to the project; `Unique` (a number names one revision, live
or archived) and `Packing` (what was copied so far belongs to the revision that was
read) make it inductive.

**ReleaseProofs, scoring.**  `OutputsJudged` (`OutputsAreJudged`), `FactsAgree`
(`FactsAddUp`), `FinancialAgrees` (`FinancialIsConsistent`) and `StimulusAlone`
(`StimulusDecides`), for datasets, arrays, invoices and pointers of every length, every
configuration that validation accepts and every limit of decimals.  The inductive
invariant, `ScoringInvariant`, says that what was accepted stays as it was accepted, that
the rows and cases are those of accepted files, and that every result is that of its
evaluator on its case (`Judgement`), so that each property becomes one about evaluators.

* *What cannot be blamed.*  The reference check and the evaluators are separate code;
  for each kind a pair of lemmas (`PairsBad` and `PairsGolden`, ..., `KeyedBad` and
  `KeyedGolden`) takes an accepted evaluator and a checked reference and concludes that
  no parsed output ends in an error within the exact range, and that the reference passes.
* *Keyed arrays.*  Keys that can all be read and differ number the items of each side
  (`KeyedIsWell`).  If the sets of keys are equal, following them is the bijection that
  `Matching` asks for, and a bijection of equal items makes the sets of keys equal.
* *Invoices.*  What the lines sum to is a fold.  The library's fold is the solution of
  an equation over subsets of positions, and such a solution is what it should be
  because there is no least place at which it is not.  From there the error of each
  comparison is bounded by one tolerance, and they add up.  The first half of the
  property needs `TotalsApart`: two totals at one pointer, or a total at the amount of a
  line, share a fact, and then a failure of one may stand where the other could not be
  read.  No validation demands it, so it is a hypothesis of the property and not an
  assumption of the model.
* *Pointers.*  `FieldsIsolated` compares pointers as they are written, and what must not
  overlap are the places they lead to.  `PointersApart`: where two texts part that do not
  continue each other after a slash, the tokens around that place differ
  (`TokenDiffers`), and decoding keeps tokens apart, since a valid escape stands for a
  character that is written in no other way (`DecodedDiffer`).

**ReleaseProofs, the gate.**  `DecisionIsAboutCases` (`CasesDecide`),
`DecisionsAreEarned` (`DecisionIsEarned`), `LossesNeverHelp` (`DegradingNeverHelps`) and
`GateTypeCorrect`, for datasets of any number of rows of any size, every configuration
that validation accepts and every limit.  The inductive invariant, `GateInv`, is short: a
decision is the one on the rows that are there.  The work is in what `Decided` does when
the rows change.

* *Sums.*  Every count is a sum over a set of positions, which the library computes by a
  fold from an element that it chooses.  `SumIsTotal` shows that such a sum is the number
  of cells of a bar chart: a smallest subset on which the two differ would, without the
  chosen element, be a smaller one.  Then the library's theorems about cardinalities
  apply: parts are smaller, disjoint parts add up, one row can be taken away.
* *Order and copies.*  Two samples correspond if a bijection takes every representative
  to one with the same size and observations (`Corresponds`).  Then every count, the 95th
  percentile included, is the same (`SameQuality`, `SameEvidence`).  The representatives of
  a dataset and of a reordered one correspond (`Representative`: the first row of a unit
  in one order and in the other have the same signature, since a unit whose rows differ is
  a repeated trial).  With a copy they are the same rows, and there is one duplicate more
  (`CopySummary`).
* *Earned.*  The rows are the representatives, their duplicates and the repeated trials;
  a verdict excludes the last, and limits the second and what was not evaluated of the first
  (`Partition`, `PartsBound`, `UnknownBound`).  For an authorization the floors of the release
  profile give the numbers.
* *Losses.*  Each count moves in one direction when a case is lost (`ReplacedTally`,
  `ReplacedComponents`), and each rule passes a better count if it passes a worse one
  (`BetterMinimum`, `BetterMaximum`, `BetterDecline`, `BetterLarger`).  The decline over
  jointly scored pairs is the delicate one: the lost case may leave the pairs, and then the
  decline is no smaller and the pairs are fewer (`ReplacedJoint`).

**ReleaseProofs, the suite.**  `SuiteTypeCorrect`, and two properties in every order of
the handlers, with comparisons that overlap, across kills and with any number of
promotions between their count and their pointer.  `LabelledCasesPass`
(`PromotionRespectsLabels`): a candidate that becomes the baseline passes every saved
case whose label the request counted and, if it came from a job, every case that the
job had labelled by then.  `Truthful` says that a good label belongs to a run that
passed the case; `Guarded` carries what a request counted to its pointer, and that the
labels of an indexed job are complete, but for pins made of its own run.  The
property says no more because the code does no more (section 5).  `LabelsAreDeserved`
(`LabelsFollowHistory`): each label that a refresh gave is the one that the outcomes
deserve of its run, of the run of the pin, and of the run whose refresh came before, though
it is computed from the stored status alone.  `Historic` adds that the status is that
of the last label, and that a run is refreshed once.

**ReleaseProofs, imports.**  `ImportsAreSound` (`ImportIsSound`): any number of
initializations of any kinds, killed at any file, in a directory with or without other
files, with exports, rules and options of every number.  It assumes `SessionAssumption`
only.  The inductive invariant, `ImportInvariant`, has one part for each thing that may be
going on.

* *Writing and rest.*  While an attempt writes, the directory has the first files of its
  order, whole (`Writing`, `WroteOne`).  Otherwise the files are those of one attempt,
  perhaps a killed one, or from before (`Rest`, `WroteRests`).  An import writes its
  configuration after its other sources, so whoever finds it whole finds them.  A second
  attempt is refused because every kind writes a dataset and a configuration, and one of
  these first (`Orders`): whatever the first attempt left stands in the way of any other.
* *The first run.*  `Ran`: it works on what one import prepared, as far as its phase has
  come, and may only be refused for a reference that an evaluator cannot read.  An
  adjusted configuration is still valid (`AdjustedValid`), and what was accepted for the
  import is accepted again from the files it wrote (`ReadyIs`, `FirstRunKeeps`).
* *Rules.*  Keyed and ordinary rules are counted apart by their places (`NthBijection`)
  and become options, then evaluators, in this order (`ChosenByRules`); pairing the
  ordinary ones again by position meets each rule's own evaluator (`AdjustedByRules`), so
  that rules and evaluators other than that of totals are in bijection (`RulesPaired`).
* *Rows.*  Each format of an export says which case a line is of and what it holds
  (`EnvelopeSays`, `SimpleSays`); lines that name different cases make one row for
  each (`RowsOfLines`, `ExportedRows`).

**RunEvidenceProofs.**  For any finished run, any number of requests of any kinds and
any number of the edits modelled (`SpecFrom`): `AnswersAreTrue`, `PagesShowBoundRows`,
`AuthorizationsAreReproduced` and `ArchivesAreWhole`.  `Invariant` says of each
request, receipt, index and archive what the directory still owes it unless an edit
overlapped; the archive needs that what has been copied agrees with the manifest that
was copied or will be.  There the contents of files are opaque.  `ReplaysExactly`
opens them: `FinishedVerified` shows for every dataset, rows, settings and answers that a
finished directory replays if and only if it is `Reproducible`, check by check; and
`VerifiedRederived` that whatever replays after edits would be written again.  The
second is not a consequence of what replay checks.  A directory whose rows and
records both held a provider's own words would replay, and would be written otherwise;
it is the history that excludes it (`Evidence`: every record still repeats what was
retained of a captured row, and the error of its sanitized view).

**Only model-checked.**  Liveness: `EventuallyComplete`, `JobsSettle`, `SessionEnds`,
`RunEnds`, `RunSettles`.  Fairness and ENABLED are out of the prover's reach.

The type invariants of the modules that have theorems, and `SingleExecutor`, are proved
and no run repeats them.

## 5. Where the code and its documentation disagree

Two runs end in a violation of what the documentation says.

`lifecycle_overlap`: `docs/src/run-lifecycle.md:14` says that completed runs are treated as
immutable evidence.  `run --resume` reads the status once (`configured.rs:163`), and no
lock keeps a second process out.  One that read it before the first had finished
takes the run out of its complete status, resets its rows, and writes outputs, evidence and
manifest again.  `FinalOnceSettled` is what the code does keep, and it is proved.

`replay_retention`: `docs/src/replay.md:11` promises that a run that retains no raw outputs is replayed from
its retained parse receipts and parsed view.  No code reads those receipts, and an output that did
not parse is retained with neither a raw nor a parsed output, which
`RecordedOutputs::from_bytes_bounded` refuses.  `Reproducible` in `Replay` is the exact
condition under which an unchanged run replays (checked by `ReplayIsExact`); it has two
more parts.  Without raw outputs retention adds `_structtrace_parse_receipt` to the
metadata that `stable_evaluator_output` (`evaluator.rs:507`) puts into the request of
an external evaluator, so the hash that the evaluator's receipt binds no longer
matches; and with `retain_provider_responses` a provider's own error text is retained
although the score was computed with the text that replaces it (`recorded.rs:992`).

The models show further disagreements.  No run repeats them; each can be
reproduced by checking the named property on the named instance, which changes
these constants of a configuration here.

| Property | Instance | What the code does | What is said |
|---|---|---|---|
| `CompleteIsPublished` | `Lifecycle`, as it is | `recorded.rs:709` completes the status before 716 publishes the manifest; a run killed between is neither complete nor resumable (`configured.rs:166`) | `docs/src/run-lifecycle.md:5`: a killed run keeps its last non-complete state |
| `ErrorMarksFailed` | `Lifecycle`, as it is | no guard is armed between `configured.rs:259` and `recorded.rs:390` | the same line: an ordinary error marks the run failed |
| `BoundSources` | `Lifecycle`, `AllowRevert = TRUE` | an edit made and reverted between two fingerprints is not noticed (`configured.rs:244`) | `DECISIONS.md:162`: a change refuses finalization |
| `CancelPreventsLock` | `Jobs`, as it is | the flag is read before `try_lock`, not under it (`local_app.rs:1271`) | `local-ui.md:79`: waiting work cancels before it acquires the executor |
| `UnfinishedChangesNothing` | `Jobs`, as it is | when the server stops, the thread commits and the job is interrupted (2853) | `local-ui.md:94`: interruption cannot change the committed revision |
| `NoDecisionUnlessComplete` | `Jobs`, as it is | a job failed between rename and pointer is listed after a restart (2843, 3944) | `local-ui.md:82`: no decision for an incomplete job |
| `DiscordantPairsAreEvidence` | `Gate`, `Configs <- Discordance` | too few pairs are a failed rule (`gate.rs:277`) | `config.rs:828`: "treated as evidence sufficiency" |
| `MissingCoverageIsInsufficient` | `Gate`, as it is | latency coverage below its minimum fails (`gate.rs:307`) | `release-gates.md:16`: missing coverage is insufficient evidence |
| `MinCasesCountsRows` | `Gate`, as it is | `min_cases` is compared with evidence units (`recorded.rs:1172`) | `release-gates.md:3`: "total rows, unique semantic cases" |
| `CaptureRestorable` | `Lifecycle`, as it is | with retention that rewrites, the finalizer overwrites the captured outputs whose hashes the checkpoint keeps (`recorded.rs:527`), and resume refuses them (`configured.rs:586`) | `resuming-runs.md:14`: derived rows are recomputed from retained outputs |
| `AttemptsExplained`, of rows the deadline cut off too | `OpenAi` | the row of a case whose deadline ended it has no retries, whatever was sent (`openai.rs:146`) | `openai-compatible.md:27`: every attempt is retained |
| `OnlyCurrentIsPromoted` | `Store`, as it is | a comparison that commits during a promotion is replaced by the promotion of the run before it (1451, 1558) | `local_app.rs:1461`: only the current revision can be promoted |
| `PointerExists` | `Store`, promotions together with edits | a promotion publishes into an archived project and creates its directory (1558, 4421) | `local-ui.md:92`: only finalized runs are selected |
| `PointerVerifies` | `Store`, without `WholeMappings` | provenance is inherited whatever the mapping does to the bytes (2635); the next read refuses the revision (4313) | `local-ui.md:114`: reopen, comparison and export resolve the accepted baseline |
| `ReferencesStaged` | `Store`, without `Serialized` | the source of a promotion is collected before the pointer names it (4480, 1558) | `local-ui.md:91`: staged sources are retained |
| `HistoryKept` | `Store`, without `Serialized` | clearing a draft removes a directory that a first comparison commits into (1979) | the same line |
| `RetrySourcesRetained` | `Store`, as it is | collection does not look at job files (4480) | `local-ui.md:80`: jobs can be retried from retained sources |
| `ReopenedDraftCompares` | `Store`, a traffic whose mapping is `"reopened"` | reopening writes a mapping that promoted bytes do not have (2141, 3516) | `local-ui.md:114` |
| `PromotionRespectsPins` | `Suite`, as it is | a case pinned from an older run has no label for a newer run and does not block it (2324, 4075); a run can be promoted before its refresh (1109), or after a kill without one (1371) | `local-ui.md:102`: failing saved cases block promotion |
| `PromotionRespectsLabels`, of every label there is at the pointer | `Suite`, as it is | a synchronous comparison is indexed before its refresh (1113, 1119), and a promotion counts labels at 1435 and replaces the pointer at 1558: a failing label stored in between, or that of a pin made meanwhile, does not block | the same lines |
| `LabelsFollowHistory`, with the comparison before for the refresh before | `Suite`, as it is | refreshes of two comparisons may swap; a label builds on the last stored one (1370, 4039) | the same lines |
| `CasesAreSeparate`, without `at = "writing"` | `PerCase`, as it is | after a failed write a descendant that ignores SIGTERM is not killed (`command.rs:422`, 594) | `variant-adapters.md:12`: process trees are bounded |
| `RunEnds`, `SessionEnds` | `PerCase`, `Worker` with `RequestSize = 3`, `PipeSize = 2` | requests are written without a deadline (`command.rs:130`, 421; `evaluator.rs:253`) | the same lines: case deadlines are bounded |
| `SessionIsExact` | `Worker`, `"blank"` in `StrayLines`; an evaluator with `"unterminated"` | the last look accepts a blank line (`command.rs:285`); the look under 20 ms drops what it read (`evaluator.rs:303`) | `command-integration.md:13`, `custom-evaluators.md:12`: unsolicited output fails closed |

`RawTextWins` of `ProjectInitialization` (instance `Scoring`, as it is) is one more: a
row whose `raw_output` is no JSON and which has a `parsed_output` is no valid envelope;
an import then reads it as a row of the other format (`initialize.rs:95`), takes
`parsed_output` as its output (286) and drops the raw text.
`docs/src/recorded-output-format.md:17` says that a parsed output never hides invalid
raw text, and so does `output.rs:72`; a recorded run refuses the same file.

Another needs no run: every comparison adds a label to every pin, and nothing
removes one, while `read_pins` refuses a file above 4 MiB (3999-4060).
`Readable` models the refusal.

The readers of finished evidence keep what the code says of them only if nobody edits
the directory meanwhile.  The models have these windows, and the properties of
`RunEvidence` exclude each by name (`Undisturbed`, `clean`):

* A receipt is written from a manifest and a summary that are read again after the
  verification (`local_app.rs:3717`, 3813-3823), so a list may call verified what was
  edited in between; and one run that cannot be read fails the whole list.
* An index is built from rows read after the verification (1755-1779) and bound to the
  hash and fingerprint read before it.  Edited and restored rows, or another manifest,
  leave an index that refuses every page until somebody removes it.
* A release check answers from a summary read once more after the replay
  (`main.rs:1215`).
* An archive's copies are compared with the source they are copied from and not with
  the hash that the manifest binds (`main.rs:1016`).
* An export whose accepted baseline does not match is refused only after the previous
  export has been removed and half of the new one written (`local_app.rs:2483`, 2545).

## 6. What is not modelled, and why

* `doctor`, pruning and the list of local
  runs; duplicating a project.
* Bootstrap intervals and cost rules of the gate: the former are floating-point
  resampling; the latter repeat the latency rules.
* Parsing of YAML and of JSON text, schema compilation, hashing, redaction, reports, the
  browser UI, packaging: pure functions, I/O or clients.  A hash stands for the identity
  of bytes; the UI for requests in any order.
* In scoring: pointers that lead into arrays; texts and numbers are the categories that
  the code tells apart; custom composition and external evaluators are in `Scoring` and
  `Replay`.  `Configuration` accepts, as the code does, a limit such as `+1` or `.5` that
  the evaluator's own parser refuses.
* In imports: fields that lie deeper than the members of a line; prompts, the text of
  the generated files, the gate's thresholds, two initializations of one directory at
  once (`write_new` looks before it writes), and a preset file torn by a kill, which is
  a configuration that does not parse. An import does not look at references, so a first
  run may refuse what was imported; one pointer is chosen for all rows by the first of
  them, and overrides the one that was asked for if that row has it not; an output
  `null` cannot be imported.
* In evidence: filters, paging and search within the index; `replay_run` does not look
  at the manifest's status or kind, so neither does `Verified`.
* In exports: two exports that overlap (they share a directory and a mixture results),
  the saved cases, the integrity of the run and the gate's settings, which
  `RegressionSuite`, `RunEvidence` and `Configuration` have.
* Process logs, stderr, notes on saved cases and manual statuses: no decision
  depends on them.
* The Windows job object; the models follow the Unix process group.
* Of the four sources of a comparison `ProjectStore` keeps the baseline, and one
  project stands for all: projects share only the staged sources.

## 7. Plan

Done, in the order of importance: run lifecycle; jobs and their contract; gate;
project store; saved cases; subprocess sessions; the OpenAI-compatible adapter;
configuration, evaluators and scoring; initialization and imports; replay and the
readers of finished evidence; CI export; and a proof of every safety property that a
passing run checks.  Next:

1. The composition of `RunLifecycle` with `Replay`: every complete run replays.
2. The action and safety properties of two exports that overlap.
