---------------------------- MODULE RunEvidence -----------------------------
(***************************************************************************)
(* One finished run on disk, and everything that later relies on it: the   *)
(* run list and the run page of StructTrace Local with the receipt they    *)
(* keep, the case index, the gate and the release check, the archive and   *)
(* the deletion.  None of them takes a lock, and each reads the directory  *)
(* several times; files may be edited at any moment in between.            *)
(*                                                                         *)
(* A request is a sequence of steps, one for each time the code reads the  *)
(* directory anew.  replay_run, which reads it several times itself, is    *)
(* one step.                                                               *)
(***************************************************************************)
EXTENDS Replay

CONSTANTS
    Requests,   \* requests; each is made once
    MaxEdits    \* bound on edits of the directory

Kinds == {"open", "list", "page", "gate", "release_check", "archive", "delete"}

ASSUME EvidenceAssumption == MaxEdits \in Nat

VARIABLES
    dir,        \* the run directory
    stamp,      \* fingerprint of cases.jsonl: every write gives a new one
    index,      \* .structtrace-ui/case-index.sqlite3
    receipt,    \* the run's receipt under .structtrace/ui/run-integrity
    archive,    \* the archive's destination, and whether it is there
    request,    \* kind and progress of each request
    input,      \* what the run was made from
    edits       \* edits so far

vars == <<dir, stamp, index, receipt, archive, request, input, edits>>

\* saw: what it keeps from an earlier read; verdict and shown: its answer.
\* disturbed is no part of the code: the files edited since it began.
Unmade(kind) == [kind |-> kind, at |-> "none", saw |-> None, verdict |-> None, shown |-> None,
                 disturbed |-> {}]

Run == "run"

Empty     == [f \in {} |-> None]
NoArchive == [made |-> FALSE, files |-> Empty, complete |-> FALSE]

\* The run is finished; kinds are the requests that will be made of it.
InitFrom(made, spent, kinds) ==
    /\ Finishable(Run, made)
    /\ input = made
    /\ dir = Finished(Run, made)
    /\ stamp = 0
    /\ index = None
    /\ receipt = None
    /\ archive = NoArchive
    /\ request = [q \in Requests |->
          IF q \in DOMAIN kinds THEN Unmade(kinds[q])
          ELSE [Unmade(None) EXCEPT !.at = "failed"]]
    /\ edits = spent

-----------------------------------------------------------------------------
(* Edits                                                                   *)

InProgress(q) == request[q].at \notin {"none", "answered", "failed"}

Disturb(f) ==
    request' = [q \in Requests |->
        IF InProgress(q) THEN [request[q] EXCEPT !.disturbed = @ \cup {f}] ELSE request[q]]

Reversed(s) == [i \in DOMAIN s |-> s[Len(s) + 1 - i]]

\* What a file may be changed to: it is removed, restored, put in another
\* order, or altered in one place.
Altered(f) ==
    LET now == dir[f] IN
    CASE f = "summary" -> {[now EXCEPT !.authorized = ~@, !.status = "passed"]}
      [] f = "cases" ->
           {Reversed(now), Tail(now), [now EXCEPT ![1].candidate.deployed = TRUE]}
      [] f = "candidate" ->
           {Append(now, now[1])}
           \cup {[now EXCEPT ![1] = Row(@.case, "ok", None, v, None, @.notes)] : v \in Values}
      [] f = "dataset" ->
           {[now EXCEPT ![1].expected = v] : v \in Values}
      [] f = "receipts" ->
           {Tail(now), Append(now, now[1])}
           \cup {[now EXCEPT ![1].result = "passed", ![1].response = "passed"]}
      [] f = "configuration" -> {[now EXCEPT !.gate = "none"]}
      [] OTHER -> {}

EditFile(f) ==
    /\ edits < MaxEdits
    /\ edits' = edits + 1
    /\ \E content \in {None, Finished(Run, input)[f]}
                      \cup (IF dir[f] \in {None, <<>>} THEN {} ELSE Altered(f)) :
          /\ content # dir[f]
          /\ dir' = [dir EXCEPT ![f] = content]
    /\ stamp' = IF f = "cases" THEN stamp + 1 ELSE stamp
    /\ Disturb(f)
    /\ UNCHANGED <<index, receipt, archive, input>>

\* The manifest is made to bind what a file holds now, or no longer to bind it.
Rebind(f) ==
    /\ edits < MaxEdits
    /\ edits' = edits + 1
    /\ dir.manifest # None
    /\ f \in DOMAIN dir.manifest.bound
    /\ \E bound \in {[g \in DOMAIN dir.manifest.bound \ {f} |-> dir.manifest.bound[g]],
                     [dir.manifest.bound EXCEPT ![f] = dir[f]]} :
          /\ bound # dir.manifest.bound
          /\ dir' = [dir EXCEPT !.manifest = [@ EXCEPT
                !.bound = bound, !.dataset = dir.dataset,
                !.configuration = dir.configuration]]
    /\ Disturb("manifest")
    /\ UNCHANGED <<stamp, index, receipt, archive, input>>

Edit == (\E f \in Files \ {"source", "schema"} : EditFile(f)) \/ (\E f \in Files : Rebind(f))

-----------------------------------------------------------------------------
(* Steps                                                                   *)

At(q, kinds, at) == request[q].kind \in kinds /\ request[q].at = at

GoTo(q, at) == request' = [request EXCEPT ![q] = [@ EXCEPT !.at = at]]

Keep(q, at, saw) == request' = [request EXCEPT ![q] = [@ EXCEPT !.at = at, !.saw = saw]]

Answer(q, verdict, shown) ==
    request' = [request EXCEPT ![q] = [@ EXCEPT
        !.at = "answered", !.verdict = verdict, !.shown = shown]]

Fail(q) == GoTo(q, "failed")

Begin(q) ==
    /\ request[q].at = "none"
    /\ GoTo(q, "begun")
    /\ UNCHANGED <<dir, stamp, index, receipt, archive, input, edits>>

OnlyRequests == UNCHANGED <<dir, stamp, index, receipt, archive, input, edits>>

-----------------------------------------------------------------------------
(* inspect_run_integrity: the manifest and its hashes, then replay.        *)

HashesHold == \A f \in DOMAIN dir.manifest.bound : dir[f] = dir.manifest.bound[f]

\* Continue with the verdict that inspection has reached.
Inspected(q, verdict) ==
    request' = [request EXCEPT ![q] = [@ EXCEPT !.at = "inspected", !.verdict = verdict]]

InspectHashes(q) ==
    /\ \/ At(q, {"open"}, "begun") \/ At(q, {"page"}, "inspecting")
    /\ IF dir.manifest = None \/ dir.manifest.format # "supported"
       THEN Inspected(q, "not_verified")
       ELSE IF ~HashesHold THEN Inspected(q, "modified")
       ELSE GoTo(q, "replaying")
    /\ OnlyRequests

InspectReplay(q) ==
    /\ At(q, {"open", "page"}, "replaying")
    /\ Inspected(q, IF Verified(dir) THEN "verified" ELSE "replay_failed")
    /\ OnlyRequests

-----------------------------------------------------------------------------
(* get_run and list_runs                                                   *)

\* response_from_run_verified
ReadForReceipt(q) ==
    /\ At(q, {"open"}, "inspected")
    /\ IF request[q].verdict # "verified" THEN GoTo(q, "responding")
       ELSE IF dir.manifest = None \/ dir.summary = None THEN Fail(q)
       ELSE Keep(q, "binding", dir.summary)
    /\ OnlyRequests

\* write_run_integrity_receipt: what is listed was read before what is hashed.
\* true and clean are no part of the code.
WriteReceipt(q) ==
    /\ At(q, {"open"}, "binding")
    /\ IF dir.manifest = None \/ dir.summary = None
       THEN Fail(q) /\ UNCHANGED receipt
       ELSE /\ receipt' = [run |-> dir.manifest.run, manifest |-> dir.manifest,
                           summary |-> dir.summary, listing |-> request[q].saw,
                           true |-> Verified(dir),
                           clean |-> request[q].disturbed = {}]
            /\ GoTo(q, "responding")
    /\ UNCHANGED <<dir, stamp, index, archive, input, edits>>

RespondRun(q) ==
    /\ At(q, {"open"}, "responding")
    /\ IF dir.manifest = None \/ dir.summary = None THEN Fail(q)
       ELSE Answer(q, request[q].verdict, dir.summary)
    /\ OnlyRequests

\* Mutant: the summary is taken to be the one that was verified.
ReceiptHoldsManifest ==
    receipt # None /\ receipt.run = dir.manifest.run /\ receipt.manifest = dir.manifest

ReceiptHolds ==
    /\ receipt # None
    /\ receipt.run = dir.manifest.run
    /\ receipt.manifest = dir.manifest
    /\ receipt.summary = dir.summary

\* response_from_run_cached; one run that cannot be read fails the whole list.
ListRuns(q) ==
    /\ At(q, {"list"}, "begun")
    /\ IF \/ dir.manifest = None
          \/ receipt # None /\ receipt.manifest = dir.manifest /\ dir.summary = None
       THEN Fail(q)
       ELSE IF ReceiptHolds THEN Answer(q, "verified", receipt.listing)
       ELSE IF receipt # None THEN Answer(q, "modified", None)
       ELSE Answer(q, "not_verified", None)
    /\ OnlyRequests

-----------------------------------------------------------------------------
(* get_run_cases and ensure_case_index                                     *)

\* Mutant: an index is good as long as the manifest binds the same hash.
IndexCurrentByHash == index.hash = dir.manifest.bound.cases

IndexCurrent == index.hash = dir.manifest.bound.cases /\ index.fingerprint = stamp

FindIndex(q) ==
    /\ At(q, {"page"}, "begun")
    /\ IF dir.manifest = None \/ dir.cases = None THEN Fail(q)
       ELSE IF "cases" \notin DOMAIN dir.manifest.bound THEN Fail(q)
       ELSE IF index # None
       THEN IF IndexCurrent THEN GoTo(q, "paging") ELSE Fail(q)
       ELSE Keep(q, "inspecting",
                 [hash |-> dir.manifest.bound.cases, fingerprint |-> stamp])
    /\ OnlyRequests

\* The rows are read once more.
ReadRows(q) ==
    /\ At(q, {"page"}, "inspected")
    /\ IF request[q].verdict # "verified" \/ dir.cases = None THEN Fail(q)
       ELSE request' = [request EXCEPT ![q] = [@ EXCEPT !.at = "renaming", !.shown = dir.cases]]
    /\ OnlyRequests

\* Each request builds a file of its own and renames it over any other.  The
\* index is bound to what was read first.  clean is no part of the code.
RenameIndex(q) ==
    /\ At(q, {"page"}, "renaming")
    /\ IF dir.manifest = None THEN Fail(q) /\ UNCHANGED index
       ELSE /\ index' = [hash |-> request[q].saw.hash,
                         fingerprint |-> request[q].saw.fingerprint,
                         rows |-> request[q].shown,
                         clean |-> "cases" \notin request[q].disturbed]
            /\ GoTo(q, "paging")
    /\ UNCHANGED <<dir, stamp, receipt, archive, input, edits>>

ShowPage(q) ==
    /\ At(q, {"page"}, "paging")
    /\ IF index = None THEN Fail(q) ELSE Answer(q, "shown", index.rows)
    /\ OnlyRequests

-----------------------------------------------------------------------------
(* gate and release-check                                                  *)

ArtifactHolds(f) ==
    /\ dir.manifest # None
    /\ f \in DOMAIN dir.manifest.bound
    /\ dir[f] = dir.manifest.bound[f]

EnsureComplete == dir.manifest # None /\ dir.manifest.status = "complete"

GateStart(q) ==
    /\ At(q, {"gate", "release_check"}, "begun")
    /\ IF ~EnsureComplete \/ ~ArtifactHolds("summary") THEN Fail(q)
       ELSE GoTo(q, IF request[q].kind = "gate" THEN "deciding" ELSE "replaying")
    /\ OnlyRequests

GateReplay(q) ==
    /\ At(q, {"release_check"}, "replaying")
    /\ IF Verified(dir) THEN GoTo(q, "deciding") ELSE Fail(q)
    /\ OnlyRequests

\* Mutant: the status decides, authorized or not.
ExitCodeOfStatus(q, summary) == IF summary.status = "passed" THEN "zero" ELSE summary.status

\* The exit code; only a release check asks for the authorization.
ExitCode(q, summary) ==
    IF request[q].kind = "release_check" /\ ~summary.authorized THEN "failed"
    ELSE IF summary.status = "passed" THEN "zero" ELSE summary.status

GateDecide(q) ==
    /\ At(q, {"gate", "release_check"}, "deciding")
    /\ IF dir.summary = None THEN Fail(q)
       ELSE Answer(q, ExitCode(q, dir.summary), dir.summary)
    /\ OnlyRequests

-----------------------------------------------------------------------------
(* runs archive and runs delete                                            *)

\* verify_complete_manifest, and a destination that does not exist yet.
ArchiveStart(q) ==
    /\ At(q, {"archive"}, "begun")
    /\ IF \/ ~EnsureComplete
          \/ archive.made
          \/ \E f \in DOMAIN dir.manifest.bound : ~ArtifactHolds(f)
       THEN Fail(q) /\ UNCHANGED archive
       ELSE /\ archive' = [archive EXCEPT !.made = TRUE]
            /\ Keep(q, "copying", DOMAIN dir.manifest.bound \cup {"manifest"})
    /\ UNCHANGED <<dir, stamp, index, receipt, input, edits>>

\* copy_manifest_allowlist in the order of names: cases.jsonl, the receipts,
\* what is under inputs/, manifest.json, the report and the summary.
CopyOrder == <<"cases", "receipts", "baseline", "candidate", "configuration", "source",
               "dataset", "schema", "manifest", "report", "summary">>
Uncopied(q) == {i \in DOMAIN CopyOrder :
                  CopyOrder[i] \in request[q].saw \ DOMAIN archive.files}
NextCopied(q) == CopyOrder[CHOOSE i \in Uncopied(q) : \A j \in Uncopied(q) : i <= j]

CopyFile(q) ==
    /\ At(q, {"archive"}, "copying")
    /\ Uncopied(q) # {}
    /\ LET f == NextCopied(q) IN
       IF dir[f] = None THEN Fail(q) /\ UNCHANGED archive
       ELSE /\ archive' = [archive EXCEPT !.files =
                  [g \in DOMAIN @ \cup {f} |-> IF g = f THEN dir[f] ELSE @[g]]]
            /\ UNCHANGED request
    /\ UNCHANGED <<dir, stamp, index, receipt, input, edits>>

\* Mutant: the receipt comes first.
FinishArchiveEarly(q) ==
    /\ At(q, {"archive"}, "copying")
    /\ archive' = [archive EXCEPT !.complete = TRUE]
    /\ IF Uncopied(q) = {} THEN Answer(q, "archived", None) ELSE UNCHANGED request
    /\ UNCHANGED <<dir, stamp, index, receipt, input, edits>>

\* archive-verification.json is written last.
FinishArchive(q) ==
    /\ At(q, {"archive"}, "copying")
    /\ Uncopied(q) = {}
    /\ archive' = [archive EXCEPT !.complete = TRUE]
    /\ Answer(q, "archived", None)
    /\ UNCHANGED <<dir, stamp, index, receipt, input, edits>>

\* Only a run in an ended status is deleted, with everything under it.
DeleteRun(q) ==
    /\ At(q, {"delete"}, "begun")
    /\ IF dir.manifest = None
       THEN Fail(q) /\ UNCHANGED <<dir, index, stamp>>
       ELSE /\ dir' = [f \in DOMAIN dir |-> None]
            /\ index' = None
            /\ stamp' = stamp + 1
            /\ request' = [p \in Requests |->
                 IF p = q THEN [request[q] EXCEPT !.at = "answered", !.verdict = "deleted"]
                 ELSE IF InProgress(p)
                 THEN [request[p] EXCEPT !.disturbed = DOMAIN dir] ELSE request[p]]
    /\ UNCHANGED <<receipt, archive, input, edits>>

RequestStep(q) ==
    \/ Begin(q) \/ InspectHashes(q) \/ InspectReplay(q)
    \/ ReadForReceipt(q) \/ WriteReceipt(q) \/ RespondRun(q) \/ ListRuns(q)
    \/ FindIndex(q) \/ ReadRows(q) \/ RenameIndex(q) \/ ShowPage(q)
    \/ GateStart(q) \/ GateReplay(q) \/ GateDecide(q)
    \/ ArchiveStart(q) \/ CopyFile(q) \/ FinishArchive(q) \/ DeleteRun(q)

Next == Edit \/ \E q \in Requests : RequestStep(q)

-----------------------------------------------------------------------------
(* Properties                                                              *)

Answers(q, kind) ==
    request[q].kind = kind /\ request[q].at # "answered" /\ request'[q].at = "answered"
Undisturbed(q) == request[q].disturbed = {}
AsWritten      == dir = Finished(Run, input)

\* A finished run that nobody touched replays exactly when its settings and
\* outputs are of the kinds replay can reproduce, whatever the captured rows,
\* the retention settings and the external answers were (replay_run after
\* finalize_prepared_for_run_observed).
FinishedRunReplays == AsWritten => (Verified(dir) <=> Reproducible(input))

\* What replay accepts after any edits is what the finalizer would have
\* written for the inputs and answers that the directory now holds: its
\* records, in any order, and its summary.
VerifiedIsRederived ==
    Verified(dir) =>
        LET made == Finished(dir.manifest.run,
                      [setting |-> dir.configuration, dataset |-> dir.dataset,
                       schema |-> dir.schema,
                       captured |-> [v \in Variants |->
                           [i \in DOMAIN dir.dataset |-> RowOfCase(dir, v, i)]],
                       answers |-> [v \in Variants |->
                           [i \in DOMAIN dir.dataset |-> AnswerOf(dir, v, i)]]])
        IN  /\ {dir.cases[i] : i \in DOMAIN dir.cases}
                  = {made.cases[i] : i \in DOMAIN made.cases}
            /\ dir.summary = made.summary

\* Replay is exact: it accepts what was finished and is reproducible, and
\* nothing that differs from what would have been finished.
ReplayIsExact == FinishedRunReplays /\ VerifiedIsRederived

\* A run page that no edit overlapped tells the truth; and what the list shows
\* as verified is the present summary, with the present manifest once part of a
\* directory that replays, unless an edit overlapped the request that said so.
IntegrityAnswersAreTrue ==
    [][\A q \in Requests :
         /\ Answers(q, "open") /\ Undisturbed(q) =>
               /\ request'[q].verdict = "verified" <=> Verified(dir)
               /\ request'[q].shown = dir.summary
         /\ Answers(q, "list") /\ request'[q].verdict = "verified" /\ receipt.clean =>
               receipt.true /\ request'[q].shown = dir.summary]_vars

\* A page of cases shows the rows that cases.jsonl holds and the manifest
\* binds, unless one of them was edited meanwhile, or cases.jsonl while the
\* index was built; an index built before is not trusted after an edit.
PageShowsBoundRows ==
    [][\A q \in Requests :
         Answers(q, "page") /\ request[q].disturbed \cap {"cases", "manifest"} = {}
            /\ index.clean =>
               /\ request'[q].shown = dir.cases
               /\ ArtifactHolds("cases")]_vars

\* A release check that no edit overlapped exits with zero only for a complete
\* run that replays and whose own replayed summary authorizes deployment; the
\* gate alone, for a summary that its manifest binds.
AuthorizationIsReproduced ==
    [][\A q \in Requests : Undisturbed(q) =>
         /\ Answers(q, "release_check") /\ request'[q].verdict = "zero" =>
               /\ EnsureComplete /\ Verified(dir)
               /\ Summary(dir.manifest.run, dir.configuration, Replayed(dir)).authorized
         /\ Answers(q, "gate") /\ request'[q].verdict = "zero" => ArtifactHolds("summary")]_vars

\* An archive that has its receipt holds the manifest and every file that the
\* manifest binds, with the bound content, unless an edit overlapped the copy.
ArchiveIsWhole ==
    \A q \in Requests :
        request[q].kind = "archive" /\ request[q].saw # None
            /\ archive.complete /\ Undisturbed(q) =>
               /\ "manifest" \in DOMAIN archive.files
               /\ DOMAIN archive.files = DOMAIN archive.files.manifest.bound \cup {"manifest"}
               /\ \A f \in DOMAIN archive.files.manifest.bound :
                     archive.files[f] = archive.files.manifest.bound[f]

\* What docs/src/replay.md says: a run that retains neither raw outputs nor
\* provider responses is replayed from the canonical parsed view it retains.
RawDisabledRunsReplay ==
    AsWritten /\ ~input.setting.raw /\ ~input.setting.responses => Verified(dir)

=============================================================================
