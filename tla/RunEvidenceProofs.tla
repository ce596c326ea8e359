------------------------- MODULE RunEvidenceProofs --------------------------
(***************************************************************************)
(* Proofs about RunEvidence, for every finished run, any number of         *)
(* requests of any kinds and any edits: an archive is whole; whatever a    *)
(* list, a page or a release check answers is true unless an edit          *)
(* overlapped it; and replay is exact.  Where the files count only as they *)
(* were bound, their contents stay opaque; the last sections open them.    *)
(***************************************************************************)
EXTENDS RunEvidence, FiniteSetTheorems, SequenceTheorems, WellFoundedInduction, TLAPS

\* Nothing is assumed of the run that was made, of the edits that may still be
\* made or of the kinds of the requests.
SpecFrom(made, spent, kinds) == InitFrom(made, spent, kinds) /\ [][Next]_vars

Fields == {"kind", "at", "saw", "verdict", "shown", "disturbed"}

\* What the variables are made of; the contents of a file may be anything.
Shaped ==
    /\ DOMAIN request = Requests
    /\ \A q \in Requests :
          DOMAIN request[q] = Fields /\ request[q].disturbed \subseteq DOMAIN dir
    /\ DOMAIN archive = {"made", "files", "complete"}
    /\ DOMAIN dir = Files \cup {"manifest"}
    /\ dir.manifest # None =>
          {"bound", "dataset", "configuration"} \subseteq DOMAIN dir.manifest
             /\ DOMAIN dir.manifest.bound \subseteq Files
    /\ stamp \in Nat

-----------------------------------------------------------------------------
(* Opened and listed runs                                                  *)

\* The verdict of an undisturbed request is the one that the directory gives
\* now, and what it binds is what the directory holds.
OpenSound(q) ==
    request[q].kind = "open" =>
       /\ request[q].at = "binding" => request[q].verdict = "verified"
       /\ request[q].at \in {"inspected", "binding", "responding"} /\ Undisturbed(q) =>
             (request[q].verdict = "verified" <=> Verified(dir))
       /\ request[q].at = "binding" /\ Undisturbed(q) => request[q].saw = dir.summary

ReceiptSound ==
    receipt # None /\ receipt.clean =>
        receipt.true /\ receipt.listing = receipt.summary

-----------------------------------------------------------------------------
(* Gates and release checks                                                *)

GateSound(q) ==
    request[q].kind \in {"gate", "release_check"} /\ Undisturbed(q) =>
       /\ request[q].at \in {"replaying", "deciding"} =>
             EnsureComplete /\ ArtifactHolds("summary")
       /\ request[q].kind = "release_check" /\ request[q].at = "deciding" => Verified(dir)

-----------------------------------------------------------------------------
(* Pages of cases                                                          *)

\* key names the rows that the manifest of d binds and the file that is there.
Names(d, now, key) ==
    /\ d.manifest # None
    /\ "cases" \in DOMAIN d.manifest.bound
    /\ key.hash = d.manifest.bound.cases
    /\ key.fingerprint = now

RowsBound(d) == d.cases = d.manifest.bound.cases

\* A key is of this file or of one before it, and if it names the rows, they are
\* the rows.
Faithful(d, now, key) ==
    key.fingerprint \in 0..now /\ (Names(d, now, key) => RowsBound(d))

Indexing == {"inspecting", "replaying", "inspected", "renaming"}
RowsKept(q) == request[q].disturbed \cap {"cases", "manifest"} = {}

PageSound(q) ==
    request[q].kind = "page" =>
       /\ request[q].at \in Indexing =>
             /\ request[q].saw.fingerprint \in 0..stamp
             /\ "cases" \notin request[q].disturbed => request[q].saw.fingerprint = stamp
             /\ RowsKept(q) => Names(dir, stamp, request[q].saw)
       /\ request[q].at \in {"inspected", "renaming"} /\ request[q].verdict = "verified" =>
             Faithful(dir, stamp, request[q].saw)
       /\ request[q].at = "renaming" =>
             /\ request[q].verdict = "verified"
             /\ "cases" \notin request[q].disturbed => request[q].shown = dir.cases
       /\ request[q].at = "paging" /\ RowsKept(q) =>
             /\ ArtifactHolds("cases")
             /\ index # None /\ index.clean => index.fingerprint = stamp

IndexSound ==
    index # None =>
       /\ Faithful(dir, stamp, index)
       /\ index.clean /\ index.fingerprint = stamp => index.rows = dir.cases

-----------------------------------------------------------------------------
(* Archives                                                                *)

\* q is the request that made the archive.
Owner(q) ==
    /\ request[q].kind = "archive"
    /\ request[q].at \in {"copying", "answered"} \/ request[q].saw # None

Copied(files) ==
    /\ "manifest" \in DOMAIN files
    /\ DOMAIN files = DOMAIN files.manifest.bound \cup {"manifest"}
    /\ \A f \in DOMAIN files.manifest.bound : files[f] = files.manifest.bound[f]

ArchiveSound ==
    /\ ~archive.made => archive.files = Empty /\ ~archive.complete
    /\ \A q \in Requests : Owner(q) => archive.made
    /\ \A p, q \in Requests : Owner(p) /\ Owner(q) => p = q
    /\ \A q \in Requests : Owner(q) /\ request[q].at # "answered" => ~archive.complete
    /\ \A q \in Requests : Owner(q) /\ Undisturbed(q) /\ request[q].at = "copying" =>
          /\ dir.manifest # None
          /\ request[q].saw = DOMAIN dir.manifest.bound \cup {"manifest"}
          /\ \A f \in DOMAIN dir.manifest.bound : dir[f] = dir.manifest.bound[f]
          /\ DOMAIN archive.files \subseteq request[q].saw
          /\ \A f \in DOMAIN archive.files : archive.files[f] = dir[f]
    /\ \A q \in Requests : Owner(q) /\ Undisturbed(q) /\ request[q].at = "answered" =>
          Copied(archive.files)

-----------------------------------------------------------------------------
(* What a step does                                                        *)

\* q goes on, and is the only one that does.
Progress(q) ==
    /\ DOMAIN request' = Requests
    /\ \A p \in Requests : DOMAIN request'[p] = Fields
    /\ \A p \in Requests \ {q} : request'[p] = request[p]
    /\ request'[q].kind = request[q].kind
    /\ request'[q].disturbed = request[q].disturbed

\* A record put in the place of a request is progress of that request alone.
LEMMA Advanced ==
  ASSUME Shaped, NEW q \in Requests, NEW r, DOMAIN r = Fields,
         r.kind = request[q].kind, r.disturbed = request[q].disturbed,
         request' = [request EXCEPT ![q] = r]
  PROVE  Progress(q) /\ request'[q] = r
BY DEF Shaped, Progress

\* What GoTo changes and what it keeps.
LEMMA Gone ==
  ASSUME Shaped, NEW q \in Requests, NEW at, GoTo(q, at)
  PROVE  /\ Progress(q)
         /\ request'[q].at = at
         /\ request'[q].saw = request[q].saw
         /\ request'[q].verdict = request[q].verdict
         /\ request'[q].shown = request[q].shown
<1> DEFINE r == [request[q] EXCEPT !.at = at]
<1>1. DOMAIN r = Fields /\ r.kind = request[q].kind /\ r.disturbed = request[q].disturbed
  BY DEF Shaped, Fields
<1>2. /\ r.at = at /\ r.saw = request[q].saw /\ r.verdict = request[q].verdict
      /\ r.shown = request[q].shown
  BY DEF Shaped, Fields
<1>3. request' = [request EXCEPT ![q] = r]
  BY DEF GoTo, Shaped
<1> HIDE DEF r
<1> QED
  BY <1>1, <1>2, <1>3, Advanced

\* What Answer changes and what it keeps.
LEMMA Answered ==
  ASSUME Shaped, NEW q \in Requests, NEW verdict, NEW shown, Answer(q, verdict, shown)
  PROVE  /\ Progress(q)
         /\ request'[q].at = "answered"
         /\ request'[q].saw = request[q].saw
         /\ request'[q].verdict = verdict
         /\ request'[q].shown = shown
<1> DEFINE r == [request[q] EXCEPT !.at = "answered", !.verdict = verdict, !.shown = shown]
<1>1. DOMAIN r = Fields /\ r.kind = request[q].kind /\ r.disturbed = request[q].disturbed
  BY DEF Shaped, Fields
<1>2. r.at = "answered" /\ r.saw = request[q].saw /\ r.verdict = verdict /\ r.shown = shown
  BY DEF Shaped, Fields
<1>3. request' = [request EXCEPT ![q] = r]
  BY DEF Answer, Shaped
<1> HIDE DEF r
<1> QED
  BY <1>1, <1>2, <1>3, Advanced

\* What Inspected changes and what it keeps.
LEMMA Reached ==
  ASSUME Shaped, NEW q \in Requests, NEW verdict, Inspected(q, verdict)
  PROVE  /\ Progress(q)
         /\ request'[q].at = "inspected"
         /\ request'[q].saw = request[q].saw
         /\ request'[q].verdict = verdict
<1> DEFINE r == [request[q] EXCEPT !.at = "inspected", !.verdict = verdict]
<1>1. DOMAIN r = Fields /\ r.kind = request[q].kind /\ r.disturbed = request[q].disturbed
  BY DEF Shaped, Fields
<1>2. r.at = "inspected" /\ r.saw = request[q].saw /\ r.verdict = verdict
  BY DEF Shaped, Fields
<1>3. request' = [request EXCEPT ![q] = r]
  BY DEF Inspected, Shaped
<1> HIDE DEF r
<1> QED
  BY <1>1, <1>2, <1>3, Advanced

\* What Keep changes and what it keeps.
LEMMA Noted ==
  ASSUME Shaped, NEW q \in Requests, NEW at, NEW saw, Keep(q, at, saw)
  PROVE  /\ Progress(q)
         /\ request'[q].at = at
         /\ request'[q].saw = saw
         /\ request'[q].verdict = request[q].verdict
<1> DEFINE r == [request[q] EXCEPT !.at = at, !.saw = saw]
<1>1. DOMAIN r = Fields /\ r.kind = request[q].kind /\ r.disturbed = request[q].disturbed
  BY DEF Shaped, Fields
<1>2. r.at = at /\ r.saw = saw /\ r.verdict = request[q].verdict
  BY DEF Shaped, Fields
<1>3. request' = [request EXCEPT ![q] = r]
  BY DEF Keep, Shaped
<1> HIDE DEF r
<1> QED
  BY <1>1, <1>2, <1>3, Advanced

\* ReadRows fails, or holds the rows that are there under a verified verdict.
LEMMA RowsRead ==
  ASSUME Shaped, NEW q \in Requests, ReadRows(q)
  PROVE  /\ Progress(q)
         /\ request'[q].saw = request[q].saw
         /\ request'[q].verdict = request[q].verdict
         /\ \/ request'[q].at = "failed"
            \/ /\ request'[q].at = "renaming" /\ request'[q].shown = dir.cases
               /\ request[q].verdict = "verified"
<1>1. CASE request[q].verdict # "verified" \/ dir.cases = None
  BY <1>1, Gone DEF ReadRows, Fail
<1>2. CASE ~(request[q].verdict # "verified" \/ dir.cases = None)
  <2> DEFINE r == [request[q] EXCEPT !.at = "renaming", !.shown = dir.cases]
  <2>1. DOMAIN r = Fields /\ r.kind = request[q].kind /\ r.disturbed = request[q].disturbed
    BY DEF Shaped, Fields
  <2>2. /\ r.at = "renaming" /\ r.saw = request[q].saw /\ r.verdict = request[q].verdict
        /\ r.shown = dir.cases
    BY DEF Shaped, Fields
  <2>3. request' = [request EXCEPT ![q] = r]
    BY <1>2 DEF ReadRows, Shaped
  <2> HIDE DEF r
  <2> QED
    BY <1>2, <2>1, <2>2, <2>3, Advanced
<1> QED
  BY <1>1, <1>2

\* A step that leaves the requests alone is progress of any of them.
LEMMA Rested ==
  ASSUME Shaped, NEW q \in Requests, UNCHANGED request
  PROVE  Progress(q)
BY DEF Shaped, Progress

\* A request that goes on without deleting the run changes no file of it.
LEMMA StepProgress ==
  ASSUME Shaped, NEW q \in Requests, RequestStep(q), ~DeleteRun(q)
  PROVE  Progress(q) /\ UNCHANGED <<dir, stamp>>
<1> USE DEF OnlyRequests
<1>1. CASE Begin(q)
  BY <1>1, Gone DEF Begin
<1>2. CASE InspectHashes(q)
  BY <1>2, Gone, Reached DEF InspectHashes
<1>3. CASE InspectReplay(q)
  BY <1>3, Reached DEF InspectReplay
<1>4. CASE ReadForReceipt(q)
  BY <1>4, Gone, Noted DEF ReadForReceipt, Fail
<1>5. CASE WriteReceipt(q)
  BY <1>5, Gone DEF WriteReceipt, Fail
<1>6. CASE RespondRun(q)
  BY <1>6, Gone, Answered DEF RespondRun, Fail
<1>7. CASE ListRuns(q)
  BY <1>7, Gone, Answered DEF ListRuns, Fail
<1>8. CASE FindIndex(q)
  BY <1>8, Gone, Noted DEF FindIndex, Fail
<1>9. CASE ReadRows(q)
  BY <1>9, RowsRead DEF ReadRows
<1>10. CASE RenameIndex(q)
  BY <1>10, Gone DEF RenameIndex, Fail
<1>11. CASE ShowPage(q)
  BY <1>11, Gone, Answered DEF ShowPage, Fail
<1>12. CASE GateStart(q)
  BY <1>12, Gone DEF GateStart, Fail
<1>13. CASE GateReplay(q)
  BY <1>13, Gone DEF GateReplay, Fail
<1>14. CASE GateDecide(q)
  BY <1>14, Gone, Answered DEF GateDecide, Fail
<1>15. CASE ArchiveStart(q)
  BY <1>15, Gone, Noted DEF ArchiveStart, Fail
<1>16. CASE CopyFile(q)
  BY <1>16, Gone, Rested DEF CopyFile, Fail
<1>17. CASE FinishArchive(q)
  BY <1>17, Answered DEF FinishArchive
<1> QED
  BY <1>1, <1>2, <1>3, <1>4, <1>5, <1>6, <1>7, <1>8, <1>9, <1>10, <1>11, <1>12, <1>13, <1>14,
     <1>15, <1>16, <1>17 DEF RequestStep

\* p keeps what it has read and said, and is disturbed if it is in progress.
Watched(p) ==
    /\ request'[p].kind = request[p].kind
    /\ request'[p].at = request[p].at
    /\ request'[p].saw = request[p].saw
    /\ request'[p].verdict = request[p].verdict
    /\ request'[p].shown = request[p].shown
    /\ request[p].disturbed \subseteq request'[p].disturbed
    /\ InProgress(p) => ~Undisturbed(p)'

\* An edit disturbs every request in progress and changes nothing else of it.
LEMMA Disturbed ==
  ASSUME Shaped, NEW f, Disturb(f)
  PROVE  /\ DOMAIN request' = Requests
         /\ \A p \in Requests :
               /\ DOMAIN request'[p] = Fields
               /\ Watched(p)
               /\ InProgress(p) => f \in request'[p].disturbed
               /\ request'[p].disturbed \subseteq request[p].disturbed \cup {f}
<1>1. DOMAIN request' = Requests
  BY DEF Disturb
<1> SUFFICES ASSUME NEW p \in Requests
             PROVE  /\ DOMAIN request'[p] = Fields
                    /\ Watched(p)
                    /\ InProgress(p) => f \in request'[p].disturbed
                    /\ request'[p].disturbed \subseteq request[p].disturbed \cup {f}
    BY <1>1
<1>2. request'[p] = IF InProgress(p)
                    THEN [request[p] EXCEPT !.disturbed = request[p].disturbed \cup {f}]
                    ELSE request[p]
  BY DEF Disturb
<1>3. DOMAIN request[p] = Fields
  BY DEF Shaped
<1>4. CASE InProgress(p)
  <2>1. /\ DOMAIN request'[p] = Fields
        /\ request'[p].disturbed = request[p].disturbed \cup {f}
        /\ request'[p].kind = request[p].kind /\ request'[p].at = request[p].at
        /\ request'[p].saw = request[p].saw /\ request'[p].verdict = request[p].verdict
        /\ request'[p].shown = request[p].shown
    BY <1>2, <1>3, <1>4 DEF Fields
  <2> QED
    BY <2>1, <1>4 DEF Watched, Undisturbed
<1>5. CASE ~InProgress(p)
  BY <1>2, <1>3, <1>5 DEF Watched
<1> QED
  BY <1>4, <1>5

\* An edit of one file.
LEMMA FileEdited ==
  ASSUME Shaped, NEW f \in Files, EditFile(f)
  PROVE  /\ DOMAIN dir' = DOMAIN dir
         /\ \A g \in DOMAIN dir \ {f} : dir'[g] = dir[g]
         /\ stamp' = IF f = "cases" THEN stamp + 1 ELSE stamp
         /\ UNCHANGED <<index, receipt, archive, input>>
BY DEF EditFile

\* The manifest binds something else: another content, or one file less.
LEMMA Rebound ==
  ASSUME Shaped, NEW f \in Files, Rebind(f)
  PROVE  /\ DOMAIN dir' = DOMAIN dir
         /\ \A g \in DOMAIN dir \ {"manifest"} : dir'[g] = dir[g]
         /\ DOMAIN dir'.manifest = DOMAIN dir.manifest
         /\ DOMAIN dir'.manifest.bound \subseteq DOMAIN dir.manifest.bound
         /\ \A g \in DOMAIN dir'.manifest.bound :
               dir'.manifest.bound[g] \in {dir.manifest.bound[g], dir[g]}
         /\ dir.manifest # None
         /\ UNCHANGED <<stamp, index, receipt, archive, input>>
<1>1. PICK bound \in {[g \in DOMAIN dir.manifest.bound \ {f} |-> dir.manifest.bound[g]],
                      [dir.manifest.bound EXCEPT ![f] = dir[f]]} :
         dir' = [dir EXCEPT !.manifest = [dir.manifest EXCEPT
                    !.bound = bound, !.dataset = dir.dataset,
                    !.configuration = dir.configuration]]
  BY DEF Rebind, Shaped
<1>2. /\ DOMAIN bound \subseteq DOMAIN dir.manifest.bound
      /\ \A g \in DOMAIN bound : bound[g] \in {dir.manifest.bound[g], dir[g]}
  OBVIOUS
<1>3. dir.manifest # None /\ "bound" \in DOMAIN dir.manifest /\ "manifest" \in DOMAIN dir
  BY DEF Rebind, Shaped
<1>4. /\ DOMAIN dir' = DOMAIN dir
      /\ \A g \in DOMAIN dir \ {"manifest"} : dir'[g] = dir[g]
      /\ dir'.manifest = [dir.manifest EXCEPT !.bound = bound, !.dataset = dir.dataset,
                              !.configuration = dir.configuration]
  BY <1>1, <1>3
<1>5. DOMAIN dir'.manifest = DOMAIN dir.manifest /\ dir'.manifest.bound = bound
  BY <1>3, <1>4
<1> QED
  BY <1>2, <1>3, <1>4, <1>5 DEF Rebind

\* Everything under the run is removed, or there was nothing to remove.
LEMMA RunDeleted ==
  ASSUME Shaped, NEW q \in Requests, DeleteRun(q)
  PROVE  /\ request[q].kind = "delete" /\ UNCHANGED <<receipt, archive>>
         /\ \/ Progress(q) /\ UNCHANGED <<dir, index, stamp>>
            \/ /\ DOMAIN dir' = DOMAIN dir /\ dir'.manifest = None
               /\ index' = None /\ stamp' = stamp + 1
               /\ DOMAIN request' = Requests
               /\ request'[q].kind = "delete"
               /\ \A p \in Requests :
                     DOMAIN request'[p] = Fields /\ request'[p].disturbed \subseteq DOMAIN dir
               /\ \A p \in Requests \ {q} :
                     Watched(p) /\ (InProgress(p) => request'[p].disturbed = DOMAIN dir)
<1>1. request[q].kind = "delete" /\ UNCHANGED <<receipt, archive>>
  BY DEF DeleteRun, At
<1>2. CASE dir.manifest = None
  <2>1. Progress(q)
    BY <1>2, Gone DEF DeleteRun, Fail
  <2> QED
    BY <1>1, <1>2, <2>1 DEF DeleteRun
<1>3. CASE dir.manifest # None
  <2>1. /\ DOMAIN dir' = DOMAIN dir /\ dir'.manifest = None
        /\ index' = None /\ stamp' = stamp + 1 /\ DOMAIN request' = Requests
    BY <1>3 DEF DeleteRun, Shaped
  <2>2. \A p \in Requests :
           request'[p] = IF p = q THEN [request[q] EXCEPT !.at = "answered", !.verdict = "deleted"]
                         ELSE IF InProgress(p)
                         THEN [request[p] EXCEPT !.disturbed = DOMAIN dir] ELSE request[p]
    BY <1>3 DEF DeleteRun
  <2>3. \A p \in Requests : DOMAIN request[p] = Fields
    BY DEF Shaped
  <2>4. /\ request'[q].kind = "delete" /\ DOMAIN request'[q] = Fields
        /\ request'[q].disturbed \subseteq DOMAIN dir
    <3> DEFINE was == request[q]
    <3>1. request'[q] = [was EXCEPT !.at = "answered", !.verdict = "deleted"]
      BY <2>2
    <3>2. DOMAIN was = Fields /\ was.kind = "delete" /\ was.disturbed \subseteq DOMAIN dir
      BY <1>1, <2>3 DEF Shaped
    <3> HIDE DEF was
    <3>3. /\ request'[q].kind = was.kind /\ request'[q].disturbed = was.disturbed
          /\ DOMAIN request'[q] = DOMAIN was
      BY <3>1, <3>2 DEF Fields
    <3> QED
      BY <3>2, <3>3
  <2>5. ASSUME NEW p \in Requests \ {q}
        PROVE  /\ DOMAIN request'[p] = Fields /\ Watched(p)
               /\ request'[p].disturbed \subseteq DOMAIN dir
               /\ InProgress(p) => request'[p].disturbed = DOMAIN dir
    <3>1. CASE InProgress(p)
      <4>1. /\ DOMAIN request'[p] = Fields
            /\ request'[p].disturbed = DOMAIN dir
            /\ request'[p].kind = request[p].kind /\ request'[p].at = request[p].at
            /\ request'[p].saw = request[p].saw /\ request'[p].verdict = request[p].verdict
            /\ request'[p].shown = request[p].shown
        BY <2>2, <2>3, <3>1 DEF Fields
      <4>2. DOMAIN dir # {}
        BY DEF Shaped
      <4>3. request[p].disturbed \subseteq DOMAIN dir
        BY DEF Shaped
      <4> QED
        BY <4>1, <4>2, <4>3, <3>1 DEF Watched, Undisturbed
    <3>2. CASE ~InProgress(p)
      BY <2>2, <2>3, <3>2 DEF Watched, Shaped
    <3> QED
      BY <3>1, <3>2
  <2> QED
    BY <1>1, <2>1, <2>4, <2>5
<1> QED
  BY <1>2, <1>3

-----------------------------------------------------------------------------
(* The shape of the variables                                              *)

\* A finished directory has every file, and its manifest binds some of them.
LEMMA FinishedShape ==
  ASSUME NEW run, NEW made
  PROVE  /\ DOMAIN Finished(run, made) = Files \cup {"manifest"}
         /\ {"bound", "dataset", "configuration"} \subseteq DOMAIN Finished(run, made).manifest
         /\ DOMAIN Finished(run, made).manifest.bound \subseteq Files
<1> DEFINE files == FilesOf(run, made)
           manifest == Manifest(run, made.setting, files)
<1>1. DOMAIN Finished(run, made) = Files \cup {"manifest"}
  BY DEF Finished
<1>2. Finished(run, made).manifest = manifest
  BY DEF Finished
<1>3. DOMAIN manifest = {"format", "status", "run", "bound", "configuration", "source",
                         "dataset", "schema", "evaluation", "gate"}
  BY DEF Manifest
<1>4. manifest.bound = [f \in {g \in Files : files[g] # None} |-> files[f]]
  BY DEF Manifest
<1> HIDE DEF files, manifest
<1> QED
  BY <1>1, <1>2, <1>3, <1>4

\* The variables start with their shape.
LEMMA ShapedInitially ==
  ASSUME NEW made, NEW spent, NEW kinds, InitFrom(made, spent, kinds)
  PROVE  Shaped
<1>1. ASSUME NEW q \in Requests
      PROVE  DOMAIN request[q] = Fields /\ request[q].disturbed = {}
  <2>1. CASE q \in DOMAIN kinds
    BY <2>1 DEF InitFrom, Unmade, Fields
  <2>2. CASE q \notin DOMAIN kinds
    BY <2>2 DEF InitFrom, Unmade, Fields
  <2> QED
    BY <2>1, <2>2
<1>2. DOMAIN request = Requests /\ stamp \in Nat
  BY DEF InitFrom
<1>3. DOMAIN archive = {"made", "files", "complete"} /\ archive.files = Empty
      /\ archive.complete = FALSE
  BY DEF InitFrom, NoArchive
<1>4. dir = Finished(Run, made)
  BY DEF InitFrom
<1> QED
  BY <1>1, <1>2, <1>3, <1>4, FinishedShape DEF Shaped

\* A request keeps the fields of the archive.
LEMMA ArchiveShape ==
  ASSUME DOMAIN archive = {"made", "files", "complete"}, NEW q \in Requests, RequestStep(q)
  PROVE  DOMAIN archive' = {"made", "files", "complete"}
<1>1. CASE ArchiveStart(q)
  BY <1>1 DEF ArchiveStart
<1>2. CASE CopyFile(q)
  BY <1>2 DEF CopyFile
<1>3. CASE FinishArchive(q)
  BY <1>3 DEF FinishArchive
<1>4. CASE UNCHANGED archive
  BY <1>4
<1> QED
  BY <1>1, <1>2, <1>3, <1>4
  DEF RequestStep, OnlyRequests, Begin, InspectHashes, InspectReplay, ReadForReceipt,
      WriteReceipt, RespondRun, ListRuns, FindIndex, ReadRows, RenameIndex, ShowPage,
      GateStart, GateReplay, GateDecide, DeleteRun

\* An edit keeps the shape of the variables.
LEMMA EditShape ==
  ASSUME Shaped, Edit
  PROVE  Shaped'
<1>1. ASSUME NEW f \in Files, EditFile(f) PROVE Shaped'
  <2>1. /\ DOMAIN dir' = DOMAIN dir /\ dir'.manifest = dir.manifest
        /\ stamp' \in Nat /\ archive' = archive
    BY <1>1, FileEdited DEF Shaped, Files, InputFiles
  <2>2. /\ DOMAIN request' = Requests
        /\ \A p \in Requests :
              DOMAIN request'[p] = Fields
                /\ request'[p].disturbed \subseteq request[p].disturbed \cup {f}
    BY <1>1, Disturbed DEF EditFile
  <2> QED
    BY <2>1, <2>2 DEF Shaped
<1>2. ASSUME NEW f \in Files, Rebind(f) PROVE Shaped'
  <2>1. /\ DOMAIN dir' = DOMAIN dir /\ DOMAIN dir'.manifest = DOMAIN dir.manifest
        /\ DOMAIN dir'.manifest.bound \subseteq DOMAIN dir.manifest.bound
        /\ dir.manifest # None
        /\ stamp' = stamp /\ archive' = archive
    BY <1>2, Rebound
  <2>2. /\ DOMAIN request' = Requests
        /\ \A p \in Requests :
              DOMAIN request'[p] = Fields
                /\ request'[p].disturbed \subseteq request[p].disturbed \cup {"manifest"}
    BY <1>2, Disturbed DEF Rebind
  <2> QED
    BY <2>1, <2>2 DEF Shaped
<1> QED
  BY <1>1, <1>2 DEF Edit

\* A request keeps the shape of the variables.
LEMMA RequestShape ==
  ASSUME Shaped, NEW q \in Requests, RequestStep(q)
  PROVE  Shaped'
<1>1. DOMAIN archive' = {"made", "files", "complete"}
  BY ArchiveShape DEF Shaped
<1>2. CASE Progress(q) /\ UNCHANGED <<dir, stamp>>
  <2>1. \A p \in Requests : request'[p].disturbed = request[p].disturbed
    BY <1>2 DEF Progress
  <2> QED
    BY <1>1, <1>2, <2>1 DEF Progress, Shaped
<1>3. CASE ~(Progress(q) /\ UNCHANGED <<dir, stamp>>)
  <2>1. DeleteRun(q)
    BY <1>3, StepProgress
  <2>2. /\ DOMAIN dir' = DOMAIN dir /\ dir'.manifest = None /\ stamp' = stamp + 1
        /\ DOMAIN request' = Requests
        /\ \A p \in Requests :
              DOMAIN request'[p] = Fields /\ request'[p].disturbed \subseteq DOMAIN dir
    BY <1>3, <2>1, RunDeleted
  <2> QED
    BY <1>1, <2>2 DEF Shaped
<1> QED
  BY <1>2, <1>3

\* Every step keeps it.
LEMMA ShapedStep == Shaped /\ [Next]_vars => Shaped'
<1> SUFFICES ASSUME Shaped, [Next]_vars PROVE Shaped'
    OBVIOUS
<1>1. CASE UNCHANGED vars
  BY <1>1 DEF Shaped, vars
<1> QED
  BY <1>1, EditShape, RequestShape DEF Next

-----------------------------------------------------------------------------
(* What other requests and edits do to a request                           *)

\* An edit touches no receipt, archive or index, and disturbs the requests.
LEMMA EditWatched ==
  ASSUME Shaped, Edit
  PROVE  (\A p \in Requests : Watched(p)) /\ UNCHANGED <<receipt, archive, index>>
<1>1. ASSUME NEW f \in Files, EditFile(f)
      PROVE  (\A p \in Requests : Watched(p)) /\ UNCHANGED <<receipt, archive, index>>
  BY <1>1, Disturbed DEF EditFile
<1>2. ASSUME NEW f \in Files, Rebind(f)
      PROVE  (\A p \in Requests : Watched(p)) /\ UNCHANGED <<receipt, archive, index>>
  BY <1>2, Disturbed DEF Rebind
<1> QED
  BY <1>1, <1>2 DEF Edit

\* A request that is not a deletion is left alone by every other request, or
\* disturbed by one.
LEMMA OthersStep ==
  ASSUME Shaped, NEW q \in Requests, RequestStep(q), NEW p \in Requests \ {q}
  PROVE  \/ request'[p] = request[p] /\ UNCHANGED <<dir, stamp>>
         \/ Watched(p) /\ UNCHANGED <<receipt, archive>>
BY StepProgress, RunDeleted DEF Progress

-----------------------------------------------------------------------------
(* Opened and listed runs                                                  *)

\* What was said of a directory that has changed is no longer undisturbed.
LEMMA OpenWatched ==
  ASSUME NEW p \in Requests, OpenSound(p), Watched(p)
  PROVE  OpenSound(p)'
BY DEF OpenSound, Watched, InProgress

\* A run page is as sound as before while nothing changes.
LEMMA OpenAlone ==
  ASSUME NEW p \in Requests, OpenSound(p), request'[p] = request[p], dir' = dir
  PROVE  OpenSound(p)'
BY DEF OpenSound, Undisturbed

\* A supported manifest and hashes that hold are the least that replay asks.
LEMMA ReplayChecksHashes ==
  /\ dir.manifest = None \/ dir.manifest.format # "supported" => ~Verified(dir)
  /\ ~HashesHold => ~Verified(dir)
BY DEF Verified, Readable, HashesMatch, HashesHold

\* The steps of a run page keep it sound.
LEMMA OpenOwn ==
  ASSUME Shaped, NEW q \in Requests, request[q].kind = "open", OpenSound(q), RequestStep(q)
  PROVE  OpenSound(q)'
<1>0. Progress(q) /\ dir' = dir
  BY StepProgress DEF DeleteRun, At
<1>a. request'[q].kind = "open" /\ request'[q].disturbed = request[q].disturbed
  BY <1>0 DEF Progress
<1>b. ASSUME request'[q].at \notin {"inspected", "binding", "responding"}
      PROVE  OpenSound(q)'
  BY <1>b DEF OpenSound
<1>1. CASE Begin(q)
  BY <1>1, <1>b, Gone DEF Begin
<1>2. CASE InspectHashes(q)
  <2>1. CASE dir.manifest = None \/ dir.manifest.format # "supported"
    <3>1. request'[q].at = "inspected" /\ request'[q].verdict = "not_verified"
      BY <1>2, <2>1, Reached DEF InspectHashes
    <3>2. ~Verified(dir)
      BY <2>1, ReplayChecksHashes
    <3> QED
      BY <1>0, <3>1, <3>2 DEF OpenSound
  <2>2. CASE ~(dir.manifest = None \/ dir.manifest.format # "supported") /\ ~HashesHold
    <3>1. request'[q].at = "inspected" /\ request'[q].verdict = "modified"
      BY <1>2, <2>2, Reached DEF InspectHashes
    <3>2. ~Verified(dir)
      BY <2>2, ReplayChecksHashes
    <3> QED
      BY <1>0, <3>1, <3>2 DEF OpenSound
  <2>3. CASE ~(dir.manifest = None \/ dir.manifest.format # "supported") /\ HashesHold
    BY <1>2, <1>b, <2>3, Gone DEF InspectHashes
  <2> QED
    BY <2>1, <2>2, <2>3
<1>3. CASE InspectReplay(q)
  <2>1. /\ request'[q].at = "inspected"
        /\ request'[q].verdict = IF Verified(dir) THEN "verified" ELSE "replay_failed"
    BY <1>3, Reached DEF InspectReplay
  <2> QED
    BY <1>0, <2>1 DEF OpenSound
<1>4. CASE ReadForReceipt(q)
  <2>1. request[q].at = "inspected"
    BY <1>4 DEF ReadForReceipt, At
  <2>2. /\ request'[q].verdict = request[q].verdict
        /\ \/ request'[q].at \in {"responding", "failed"}
           \/ /\ request'[q].at = "binding" /\ request'[q].saw = dir.summary
              /\ request[q].verdict = "verified"
    BY <1>4, Gone, Noted DEF ReadForReceipt, Fail
  <2> QED
    BY <1>0, <1>a, <2>1, <2>2 DEF OpenSound, Undisturbed
<1>5. CASE WriteReceipt(q)
  <2>1. request[q].at = "binding"
    BY <1>5 DEF WriteReceipt, At
  <2>2. /\ request'[q].verdict = request[q].verdict
        /\ request'[q].at \in {"responding", "failed"}
    BY <1>5, Gone DEF WriteReceipt, Fail
  <2> QED
    BY <1>0, <1>a, <2>1, <2>2 DEF OpenSound, Undisturbed
<1>6. CASE RespondRun(q)
  BY <1>6, <1>b, Gone, Answered DEF RespondRun, Fail
<1> QED
  BY <1>1, <1>2, <1>3, <1>4, <1>5, <1>6
  DEF RequestStep, At, ListRuns, FindIndex, ReadRows, RenameIndex, ShowPage, GateStart,
      GateReplay, GateDecide, ArchiveStart, CopyFile, FinishArchive, DeleteRun

\* Every step does.
LEMMA OpenStep ==
  ASSUME Shaped, NEW p \in Requests, OpenSound(p), [Next]_vars
  PROVE  OpenSound(p)'
<1>1. CASE UNCHANGED vars
  BY <1>1 DEF vars, OpenSound, Undisturbed
<1>2. CASE Edit
  BY <1>2, EditWatched, OpenWatched
<1>3. ASSUME NEW q \in Requests, q # p, RequestStep(q)
      PROVE  OpenSound(p)'
  BY <1>3, OthersStep, OpenWatched, OpenAlone
<1>4. CASE RequestStep(p)
  <2>1. CASE request[p].kind = "open"
    BY <1>4, <2>1, OpenOwn
  <2>2. CASE request[p].kind # "open"
    <3>1. request'[p].kind # "open"
      BY <1>4, <2>2, StepProgress, RunDeleted DEF Progress
    <3> QED
      BY <3>1 DEF OpenSound
  <2> QED
    BY <2>1, <2>2
<1> QED
  BY <1>1, <1>2, <1>3, <1>4 DEF Next

\* A receipt that nothing disturbed lists the summary it binds, of a directory
\* that replayed.
LEMMA ReceiptStep ==
  ASSUME Shaped, \A q \in Requests : OpenSound(q), ReceiptSound, [Next]_vars
  PROVE  ReceiptSound'
<1>1. CASE UNCHANGED receipt
  BY <1>1 DEF ReceiptSound
<1>2. ASSUME NEW q \in Requests, WriteReceipt(q) PROVE ReceiptSound'
  <2>1. CASE dir.manifest = None \/ dir.summary = None
    BY <1>1, <1>2, <2>1 DEF WriteReceipt
  <2>2. CASE ~(dir.manifest = None \/ dir.summary = None)
    <3>1. /\ request[q].kind = "open" /\ request[q].at = "binding"
          /\ receipt'.true = Verified(dir) /\ receipt'.clean = Undisturbed(q)
          /\ receipt'.listing = request[q].saw /\ receipt'.summary = dir.summary
      BY <1>2, <2>2 DEF WriteReceipt, At, Undisturbed
    <3>2. Undisturbed(q) => Verified(dir) /\ request[q].saw = dir.summary
      BY <3>1 DEF OpenSound
    <3> QED
      BY <3>1, <3>2 DEF ReceiptSound
  <2> QED
    BY <2>1, <2>2
<1>3. CASE Edit
  BY <1>1, <1>3, EditWatched
<1> QED
  BY <1>1, <1>2, <1>3
  DEF Next, vars, RequestStep, OnlyRequests, Begin, InspectHashes, InspectReplay,
      ReadForReceipt, RespondRun, ListRuns, FindIndex, ReadRows, RenameIndex, ShowPage,
      GateStart, GateReplay, GateDecide, ArchiveStart, CopyFile, FinishArchive, DeleteRun

-----------------------------------------------------------------------------
(* Gates and release checks                                                *)

\* What a gate has checked of a directory that changed is no longer undisturbed.
LEMMA GateWatched ==
  ASSUME NEW p \in Requests, GateSound(p), Watched(p)
  PROVE  GateSound(p)'
BY DEF GateSound, Watched, InProgress

\* A gate is as sound as before while nothing changes.
LEMMA GateAlone ==
  ASSUME NEW p \in Requests, GateSound(p), request'[p] = request[p], dir' = dir
  PROVE  GateSound(p)'
BY DEF GateSound, Undisturbed, EnsureComplete, ArtifactHolds

\* The steps of a gate or release check keep it sound.
LEMMA GateOwn ==
  ASSUME Shaped, NEW q \in Requests, request[q].kind \in {"gate", "release_check"},
         GateSound(q), RequestStep(q)
  PROVE  GateSound(q)'
<1>0. Progress(q) /\ dir' = dir
  BY StepProgress DEF DeleteRun, At
<1>a. request'[q].kind = request[q].kind /\ request'[q].disturbed = request[q].disturbed
  BY <1>0 DEF Progress
<1>b. ASSUME request'[q].at \notin {"replaying", "deciding"} PROVE GateSound(q)'
  BY <1>b DEF GateSound
<1>1. CASE Begin(q)
  BY <1>1, <1>b, Gone DEF Begin
<1>2. CASE GateStart(q)
  <2>1. CASE ~EnsureComplete \/ ~ArtifactHolds("summary")
    BY <1>2, <1>b, <2>1, Gone DEF GateStart, Fail
  <2>2. CASE ~(~EnsureComplete \/ ~ArtifactHolds("summary"))
    <3>1. request'[q].at = IF request[q].kind = "gate" THEN "deciding" ELSE "replaying"
      BY <1>2, <2>2, Gone DEF GateStart
    <3> QED
      BY <1>0, <1>a, <2>2, <3>1 DEF GateSound, EnsureComplete, ArtifactHolds
  <2> QED
    BY <2>1, <2>2
<1>3. CASE GateReplay(q)
  <2>1. CASE ~Verified(dir)
    BY <1>3, <1>b, <2>1, Gone DEF GateReplay, Fail
  <2>2. CASE Verified(dir)
    <3>1. request[q].at = "replaying" /\ request'[q].at = "deciding"
      BY <1>3, <2>2, Gone DEF GateReplay, At
    <3> QED
      BY <1>0, <1>a, <2>2, <3>1 DEF GateSound, Undisturbed, EnsureComplete, ArtifactHolds
  <2> QED
    BY <2>1, <2>2
<1>4. CASE GateDecide(q)
  BY <1>4, <1>b, Gone, Answered DEF GateDecide, Fail
<1> QED
  BY <1>1, <1>2, <1>3, <1>4
  DEF RequestStep, At, InspectHashes, InspectReplay, ReadForReceipt, WriteReceipt, RespondRun,
      ListRuns, FindIndex, ReadRows, RenameIndex, ShowPage, ArchiveStart, CopyFile,
      FinishArchive, DeleteRun

\* Every step does.
LEMMA GateStep ==
  ASSUME Shaped, NEW p \in Requests, GateSound(p), [Next]_vars
  PROVE  GateSound(p)'
<1>1. CASE UNCHANGED vars
  BY <1>1 DEF vars, GateSound, Undisturbed, EnsureComplete, ArtifactHolds
<1>2. CASE Edit
  BY <1>2, EditWatched, GateWatched
<1>3. ASSUME NEW q \in Requests, q # p, RequestStep(q)
      PROVE  GateSound(p)'
  BY <1>3, OthersStep, GateWatched, GateAlone
<1>4. CASE RequestStep(p)
  <2>1. CASE request[p].kind \in {"gate", "release_check"}
    BY <1>4, <2>1, GateOwn
  <2>2. CASE request[p].kind \notin {"gate", "release_check"}
    <3>1. request'[p].kind \notin {"gate", "release_check"}
      BY <1>4, <2>2, StepProgress, RunDeleted DEF Progress
    <3> QED
      BY <3>1 DEF GateSound
  <2> QED
    BY <2>1, <2>2
<1> QED
  BY <1>1, <1>2, <1>3, <1>4 DEF Next

-----------------------------------------------------------------------------
(* Archives                                                                *)

\* An edit makes nobody the owner of the archive.
LEMMA OwnerWatched ==
  ASSUME NEW p \in Requests, Watched(p)
  PROVE  /\ Owner(p)' <=> Owner(p)
         /\ request'[p].at = request[p].at
         /\ Undisturbed(p)' => Undisturbed(p)
         /\ request[p].at = "copying" => ~Undisturbed(p)'
BY DEF Owner, Watched, Undisturbed, InProgress

\* A request that is left alone owns what it owned.
LEMMA OwnerAlone ==
  ASSUME NEW p \in Requests, request'[p] = request[p]
  PROVE  (Owner(p)' <=> Owner(p)) /\ (Undisturbed(p)' <=> Undisturbed(p))
BY DEF Owner, Undisturbed


\* A step that does not touch the archive, and in which no request becomes its
\* owner or ends as one.
LEMMA ArchiveKept ==
  ASSUME ArchiveSound, archive' = archive,
         \A p \in Requests : Owner(p)' =>
            /\ Owner(p)
            /\ request'[p].at = "copying" =>
                  request[p].at = "copying" /\ request'[p].saw = request[p].saw
            /\ request'[p].at = "answered" <=> request[p].at = "answered"
            /\ Undisturbed(p)' => Undisturbed(p)
            /\ request'[p].at = "copying" /\ Undisturbed(p)' => dir' = dir
  PROVE  ArchiveSound'
BY DEF ArchiveSound

\* Requests of other kinds keep the archive sound.
LEMMA ArchiveLeftAlone ==
  ASSUME Shaped, ArchiveSound, NEW q \in Requests, RequestStep(q), request[q].kind # "archive"
  PROVE  ArchiveSound'
<1>1. archive' = archive
  BY DEF RequestStep, At, OnlyRequests, Begin, InspectHashes, InspectReplay, ReadForReceipt,
         WriteReceipt, RespondRun, ListRuns, FindIndex, ReadRows, RenameIndex, ShowPage,
         GateStart, GateReplay, GateDecide, ArchiveStart, CopyFile, FinishArchive, DeleteRun
<1>2. ~Owner(q)'
  <2>1. request'[q].kind # "archive"
    BY StepProgress, RunDeleted DEF Progress
  <2> QED
    BY <2>1 DEF Owner
<1>3. ASSUME NEW p \in Requests \ {q}
      PROVE  Owner(p)' =>
                /\ Owner(p)
                /\ request'[p].at = "copying" =>
                      request[p].at = "copying" /\ request'[p].saw = request[p].saw
                /\ request'[p].at = "answered" <=> request[p].at = "answered"
                /\ Undisturbed(p)' => Undisturbed(p)
                /\ request'[p].at = "copying" /\ Undisturbed(p)' => dir' = dir
  <2>1. CASE request'[p] = request[p] /\ UNCHANGED <<dir, stamp>>
    BY <2>1, OwnerAlone
  <2>2. CASE Watched(p)
    BY <2>2, OwnerWatched DEF Watched
  <2> QED
    BY <2>1, <2>2, OthersStep
<1> QED
  BY <1>1, <1>2, <1>3, ArchiveKept

\* The first of the files that are still to be copied is one of them.
Below == {pair \in Nat \X Nat : pair[1] < pair[2]}

\* The order of the natural numbers is well-founded, as a set of pairs.
LEMMA BelowWellFounded == IsWellFoundedOn(Below, Nat)
<1>1. OpToRel(<, Nat) = Below
  BY Zenon DEF OpToRel, Below
<1> QED
  BY <1>1, NatLessThanWellFounded, Zenon

\* A set of natural numbers that is not empty has a least element.
LEMMA LeastNumber ==
  ASSUME NEW T \in SUBSET Nat, T # {}
  PROVE  \E m \in T : \A k \in T : m <= k
<1>1. PICK m \in T : \A k \in T : <<k, m>> \notin Below
  BY BelowWellFounded, WFMin, Zenon
<1>2. ASSUME NEW k \in T PROVE m <= k
  <2>1. ~(k < m)
    BY <1>1 DEF Below
  <2> QED
    BY <2>1
<1> QED
  BY <1>2

\* The file copied next is one that is listed and not copied yet.
LEMMA NextIsUncopied ==
  ASSUME NEW q \in Requests, Uncopied(q) # {}
  PROVE  NextCopied(q) \in request[q].saw \ DOMAIN archive.files
<1>1. Uncopied(q) \in SUBSET Nat
  BY DEF Uncopied, CopyOrder
<1>2. \E i \in Uncopied(q) : \A j \in Uncopied(q) : i <= j
  BY <1>1, LeastNumber
<1>3. PICK i \in Uncopied(q) : NextCopied(q) = CopyOrder[i]
  BY <1>2 DEF NextCopied
<1> QED
  BY <1>3 DEF Uncopied

\* Every file has its place in the order.
LEMMA EveryFileHasItsTurn ==
  ASSUME NEW q \in Requests, Uncopied(q) = {}
  PROVE  request[q].saw \cap (Files \cup {"manifest"}) \subseteq DOMAIN archive.files
<1>1. \A i \in DOMAIN CopyOrder : CopyOrder[i] \notin request[q].saw \ DOMAIN archive.files
  BY DEF Uncopied
<1>2. ASSUME NEW f \in Files \cup {"manifest"}
      PROVE  \E i \in DOMAIN CopyOrder : CopyOrder[i] = f
  <2>1. DOMAIN CopyOrder = 1..11
    BY DEF CopyOrder
  <2>2. /\ CopyOrder[1] = "cases" /\ CopyOrder[2] = "receipts" /\ CopyOrder[3] = "baseline"
        /\ CopyOrder[4] = "candidate" /\ CopyOrder[5] = "configuration"
        /\ CopyOrder[6] = "source" /\ CopyOrder[7] = "dataset" /\ CopyOrder[8] = "schema"
        /\ CopyOrder[9] = "manifest" /\ CopyOrder[10] = "report"
        /\ CopyOrder[11] = "summary"
    BY DEF CopyOrder
  <2>3. f \in {"cases", "receipts", "baseline", "candidate", "configuration", "source",
               "dataset", "schema", "manifest", "report", "summary"}
    BY DEF Files, InputFiles
  <2> QED
    BY <2>1, <2>2, <2>3
<1> QED
  BY <1>1, <1>2

\* The start of an archive keeps it sound.
LEMMA ArchiveStarted ==
  ASSUME Shaped, ArchiveSound, NEW q \in Requests, ArchiveStart(q)
  PROVE  ArchiveSound'
<1>0. request[q].kind = "archive" /\ request[q].at = "begun" /\ dir' = dir
  BY DEF ArchiveStart, At
<1>1. CASE Fail(q) /\ UNCHANGED archive
  <2>1. Progress(q) /\ request'[q].at = "failed" /\ request'[q].saw = request[q].saw
    BY <1>1, Gone DEF Fail
  <2>2. \A p \in Requests \ {q} : (Owner(p)' <=> Owner(p)) /\ request'[p] = request[p]
    BY <2>1, OwnerAlone DEF Progress
  <2>3. Owner(q)' => Owner(q)
    BY <1>0, <2>1 DEF Owner
  <2> QED
    BY <1>0, <1>1, <2>1, <2>2, <2>3, ArchiveKept DEF Undisturbed, Progress
<1>2. CASE ~(Fail(q) /\ UNCHANGED archive)
  <2>1. /\ EnsureComplete /\ ~archive.made
        /\ \A f \in DOMAIN dir.manifest.bound : ArtifactHolds(f)
        /\ archive' = [archive EXCEPT !.made = TRUE]
        /\ Keep(q, "copying", DOMAIN dir.manifest.bound \cup {"manifest"})
    BY <1>2 DEF ArchiveStart
  <2>2. archive'.made /\ archive'.files = Empty /\ ~archive'.complete
    BY <2>1 DEF Shaped, ArchiveSound
  <2>3. /\ Progress(q) /\ request'[q].at = "copying"
        /\ request'[q].saw = DOMAIN dir.manifest.bound \cup {"manifest"}
    BY <2>1, Noted
  <2>4. \A p \in Requests : ~Owner(p)
    BY <2>1 DEF ArchiveSound
  <2>5. \A p \in Requests \ {q} : ~Owner(p)'
    BY <2>3, <2>4, OwnerAlone DEF Progress
  <2>6. /\ dir.manifest # None
        /\ \A f \in DOMAIN dir.manifest.bound : dir[f] = dir.manifest.bound[f]
    BY <2>1 DEF EnsureComplete, ArtifactHolds
  <2>7. DOMAIN Empty = {}
    BY DEF Empty
  <2> QED
    BY <1>0, <2>2, <2>3, <2>5, <2>6, <2>7 DEF ArchiveSound
<1> QED
  BY <1>1, <1>2

\* A copied file keeps the archive sound.
LEMMA FileCopied ==
  ASSUME Shaped, ArchiveSound, NEW q \in Requests, CopyFile(q)
  PROVE  ArchiveSound'
<1>0. request[q].kind = "archive" /\ request[q].at = "copying" /\ dir' = dir /\ Owner(q)
  BY DEF CopyFile, At, Owner
<1>1. CASE Fail(q) /\ UNCHANGED archive
  <2>1. Progress(q) /\ request'[q].at = "failed" /\ request'[q].saw = request[q].saw
    BY <1>1, Gone DEF Fail
  <2>2. \A p \in Requests \ {q} : (Owner(p)' <=> Owner(p)) /\ request'[p] = request[p]
    BY <2>1, OwnerAlone DEF Progress
  <2> QED
    BY <1>0, <1>1, <2>1, <2>2, ArchiveKept DEF Undisturbed, Progress
<1>2. CASE ~(Fail(q) /\ UNCHANGED archive)
  <2> DEFINE f == NextCopied(q)
             files == [g \in DOMAIN archive.files \cup {f} |->
                          IF g = f THEN dir[f] ELSE archive.files[g]]
  <2>1. archive' = [archive EXCEPT !.files = files] /\ UNCHANGED request
    BY <1>2 DEF CopyFile
  <2>2. f \in request[q].saw
    BY NextIsUncopied DEF CopyFile
  <2>3. archive'.made = archive.made /\ archive'.complete = archive.complete
        /\ archive'.files = files
    BY <2>1 DEF Shaped
  <2>4. \A p \in Requests : (Owner(p)' <=> Owner(p)) /\ (Undisturbed(p)' <=> Undisturbed(p))
    BY <2>1, OwnerAlone
  <2>5. archive.made /\ \A p \in Requests \ {q} : ~Owner(p)
    BY <1>0 DEF ArchiveSound
  <2>6. /\ DOMAIN archive.files \subseteq request[q].saw => DOMAIN files \subseteq request[q].saw
        /\ (\A g \in DOMAIN archive.files : archive.files[g] = dir[g]) =>
               \A g \in DOMAIN files : files[g] = dir[g]
    BY <2>2
  <2> HIDE DEF files, f
  <2> QED
    BY <1>0, <2>1, <2>3, <2>4, <2>5, <2>6 DEF ArchiveSound
<1> QED
  BY <1>1, <1>2

\* An archive is declared complete only when every file is in it.
LEMMA ArchiveFinished ==
  ASSUME Shaped, ArchiveSound, NEW q \in Requests, FinishArchive(q)
  PROVE  ArchiveSound'
<1>0. request[q].kind = "archive" /\ request[q].at = "copying" /\ Owner(q)
  BY DEF FinishArchive, At, Owner
<1>1. /\ Progress(q) /\ request'[q].at = "answered" /\ request'[q].saw = request[q].saw
  BY Answered DEF FinishArchive
<1>2. /\ archive'.files = archive.files /\ archive'.made = archive.made
  BY DEF FinishArchive, Shaped
<1>3. archive.made /\ \A p \in Requests \ {q} : ~Owner(p)
  BY <1>0 DEF ArchiveSound
<1>4. \A p \in Requests \ {q} : ~Owner(p)'
  BY <1>1, <1>3, OwnerAlone DEF Progress
<1>5. Undisturbed(q) => Copied(archive.files)
  <2> SUFFICES ASSUME Undisturbed(q) PROVE Copied(archive.files)
      OBVIOUS
  <2>1. /\ dir.manifest # None
        /\ request[q].saw = DOMAIN dir.manifest.bound \cup {"manifest"}
        /\ \A f \in DOMAIN dir.manifest.bound : dir[f] = dir.manifest.bound[f]
        /\ DOMAIN archive.files \subseteq request[q].saw
        /\ \A f \in DOMAIN archive.files : archive.files[f] = dir[f]
    BY <1>0 DEF ArchiveSound
  <2>2. request[q].saw \subseteq Files \cup {"manifest"}
    BY <2>1 DEF Shaped
  <2>3. request[q].saw \subseteq DOMAIN archive.files
    BY <2>2, EveryFileHasItsTurn DEF FinishArchive
  <2>4. archive.files.manifest = dir.manifest
    BY <2>1, <2>3
  <2> QED
    BY <2>1, <2>3, <2>4 DEF Copied
<1>6. Undisturbed(q)' => Undisturbed(q)
  BY <1>1 DEF Progress, Undisturbed
<1> QED
  BY <1>0, <1>1, <1>2, <1>3, <1>4, <1>5, <1>6 DEF ArchiveSound, Copied

\* Every step keeps the archive sound.
LEMMA ArchiveStep == Shaped /\ ArchiveSound /\ [Next]_vars => ArchiveSound'
<1> SUFFICES ASSUME Shaped, ArchiveSound, [Next]_vars PROVE ArchiveSound'
    OBVIOUS
<1>1. CASE UNCHANGED vars
  BY <1>1 DEF vars, ArchiveSound, Owner, Undisturbed
<1>2. CASE Edit
  BY <1>2, EditWatched, OwnerWatched, ArchiveKept DEF Watched
<1>3. ASSUME NEW q \in Requests, RequestStep(q) PROVE ArchiveSound'
  <2>1. CASE request[q].kind # "archive"
    BY <1>3, <2>1, ArchiveLeftAlone
  <2>2. CASE request[q].kind = "archive" /\ Begin(q)
    <3>1. /\ Progress(q) /\ request[q].at = "none" /\ request'[q].at = "begun"
          /\ request'[q].saw = request[q].saw /\ archive' = archive /\ dir' = dir
      BY <2>2, Gone DEF Begin
    <3>2. \A p \in Requests \ {q} : (Owner(p)' <=> Owner(p)) /\ request'[p] = request[p]
      BY <3>1, OwnerAlone DEF Progress
    <3>3. Owner(q)' => Owner(q)
      BY <2>2, <3>1 DEF Owner
    <3> QED
      BY <3>1, <3>2, <3>3, ArchiveKept DEF Undisturbed, Progress
  <2>3. CASE request[q].kind = "archive" /\ ~Begin(q)
    <3>1. ArchiveStart(q) \/ CopyFile(q) \/ FinishArchive(q)
      BY <1>3, <2>3
      DEF RequestStep, At, InspectHashes, InspectReplay, ReadForReceipt, WriteReceipt,
          RespondRun, ListRuns, FindIndex, ReadRows, RenameIndex, ShowPage, GateStart,
          GateReplay, GateDecide, DeleteRun
    <3> QED
      BY <3>1, ArchiveStarted, FileCopied, ArchiveFinished
  <2> QED
    BY <2>1, <2>2, <2>3
<1> QED
  BY <1>1, <1>2, <1>3 DEF Next

-----------------------------------------------------------------------------
(* Pages of cases                                                          *)

\* What an edit leaves of the rows and of what is bound, by whom it disturbs.
LEMMA EditEffect ==
  ASSUME Shaped, Edit
  PROVE  /\ stamp' \in {stamp, stamp + 1}
         /\ stamp' = stamp => dir'.cases = dir.cases
         /\ \/ dir'.manifest = dir.manifest
            \/ /\ DOMAIN dir'.manifest.bound \subseteq DOMAIN dir.manifest.bound
               /\ dir.manifest # None /\ stamp' = stamp
               /\ "cases" \in DOMAIN dir'.manifest.bound =>
                     dir'.manifest.bound.cases \in {dir.manifest.bound.cases, dir.cases}
         /\ \A p \in Requests : InProgress(p) =>
               /\ "cases" \notin request'[p].disturbed => stamp' = stamp
               /\ "manifest" \notin request'[p].disturbed => dir'.manifest = dir.manifest
<1>1. ASSUME NEW f \in Files, EditFile(f)
      PROVE  /\ stamp' \in {stamp, stamp + 1}
             /\ stamp' = stamp => dir'.cases = dir.cases
             /\ dir'.manifest = dir.manifest
             /\ \A p \in Requests : InProgress(p) =>
                   ("cases" \notin request'[p].disturbed => stamp' = stamp)
  <2>1. /\ \A g \in DOMAIN dir \ {f} : dir'[g] = dir[g]
        /\ stamp' = IF f = "cases" THEN stamp + 1 ELSE stamp
    BY <1>1, FileEdited
  <2>2. \A p \in Requests : InProgress(p) => f \in request'[p].disturbed
    BY <1>1, Disturbed DEF EditFile
  <2>3. /\ "cases" \in DOMAIN dir /\ "manifest" \in DOMAIN dir /\ f # "manifest"
        /\ stamp \in Nat
    BY DEF Shaped, Files, InputFiles
  <2> QED
    BY <2>1, <2>2, <2>3
<1>2. ASSUME NEW f \in Files, Rebind(f)
      PROVE  /\ dir'.cases = dir.cases /\ dir.manifest # None /\ stamp' = stamp
             /\ DOMAIN dir'.manifest.bound \subseteq DOMAIN dir.manifest.bound
             /\ "cases" \in DOMAIN dir'.manifest.bound =>
                   dir'.manifest.bound.cases \in {dir.manifest.bound.cases, dir.cases}
             /\ \A p \in Requests : InProgress(p) => "manifest" \in request'[p].disturbed
  <2>1. "cases" \in DOMAIN dir \ {"manifest"}
    BY DEF Shaped, Files
  <2>2. \A p \in Requests : InProgress(p) => "manifest" \in request'[p].disturbed
    BY <1>2, Disturbed DEF Rebind
  <2> QED
    BY <1>2, <2>1, <2>2, Rebound
<1> QED
  BY <1>1, <1>2 DEF Edit

\* An edit makes no key name rows that it does not have.
LEMMA EditFaithful ==
  ASSUME Shaped, Edit, NEW key, Faithful(dir, stamp, key)
  PROVE  Faithful(dir', stamp', key)
<1>1. stamp \in Nat
  BY DEF Shaped
<1>2. CASE stamp' = stamp + 1
  BY <1>1, <1>2 DEF Faithful, Names
<1>3. CASE stamp' = stamp
  <2>1. dir'.cases = dir.cases
    BY <1>3, EditEffect
  <2>2. CASE dir'.manifest = dir.manifest
    BY <1>3, <2>1, <2>2 DEF Faithful, Names, RowsBound
  <2>3. CASE dir'.manifest # dir.manifest
    BY <1>3, <2>1, <2>3, EditEffect DEF Faithful, Names, RowsBound
  <2> QED
    BY <2>2, <2>3
<1> QED
  BY <1>2, <1>3, EditEffect

\* So does a deletion: there is no manifest any more.
LEMMA DeletedFaithful ==
  ASSUME Shaped, dir'.manifest = None, stamp' = stamp + 1, NEW key, Faithful(dir, stamp, key)
  PROVE  Faithful(dir', stamp', key)
BY DEF Shaped, Faithful, Names

\* A page of cases stays sound through an edit.
LEMMA PageEdited ==
  ASSUME Shaped, Edit, NEW p \in Requests, PageSound(p)
  PROVE  PageSound(p)'
<1> SUFFICES ASSUME request'[p].kind = "page" PROVE PageSound(p)'
    BY DEF PageSound
<1>1. /\ Watched(p) /\ index' = index
      /\ request[p].kind = "page" /\ stamp \in Nat
  BY EditWatched DEF Watched, Shaped
<1>2. InProgress(p) =>
         /\ "cases" \notin request'[p].disturbed => stamp' = stamp /\ dir'.cases = dir.cases
         /\ "manifest" \notin request'[p].disturbed => dir'.manifest = dir.manifest
  BY EditEffect
<1>3. stamp' \in {stamp, stamp + 1}
  BY EditEffect
<1>4. /\ "cases" \notin request'[p].disturbed => "cases" \notin request[p].disturbed
      /\ RowsKept(p)' => RowsKept(p) /\ "cases" \notin request'[p].disturbed
                         /\ "manifest" \notin request'[p].disturbed
  BY <1>1 DEF Watched, RowsKept
<1>5. request[p].at \in {"inspected", "renaming"} /\ request[p].verdict = "verified" =>
         Faithful(dir', stamp', request[p].saw)
  BY <1>1, EditFaithful DEF PageSound
<1>6. request[p].at \in Indexing =>
         /\ request[p].saw.fingerprint \in 0..stamp'
         /\ "cases" \notin request'[p].disturbed => request[p].saw.fingerprint = stamp'
         /\ RowsKept(p)' => Names(dir', stamp', request[p].saw)
  BY <1>1, <1>2, <1>3, <1>4 DEF PageSound, Indexing, InProgress, Names
<1>7. request[p].at = "renaming" =>
         /\ request[p].verdict = "verified"
         /\ "cases" \notin request'[p].disturbed => request[p].shown = dir'.cases
  BY <1>1, <1>2, <1>4 DEF PageSound, InProgress
<1>8. request[p].at = "paging" /\ RowsKept(p)' =>
         /\ ArtifactHolds("cases")'
         /\ index' # None /\ index'.clean => index'.fingerprint = stamp'
  BY <1>1, <1>2, <1>4 DEF PageSound, InProgress, ArtifactHolds
<1> QED
  BY <1>1, <1>5, <1>6, <1>7, <1>8 DEF PageSound, Watched

\* And through the deletion of the run.
LEMMA PageDeleted ==
  ASSUME Shaped, NEW p \in Requests, PageSound(p), Watched(p),
         InProgress(p) => request'[p].disturbed = DOMAIN dir,
         dir'.manifest = None, stamp' = stamp + 1
  PROVE  PageSound(p)'
<1> SUFFICES ASSUME request'[p].kind = "page" PROVE PageSound(p)'
    BY DEF PageSound
<1>1. /\ request[p].kind = "page" /\ stamp \in Nat
      /\ {"cases", "manifest"} \subseteq DOMAIN dir
  BY DEF Watched, Shaped, Files
<1>2. InProgress(p) => "cases" \in request'[p].disturbed /\ ~RowsKept(p)'
  BY <1>1 DEF RowsKept
<1>3. request[p].at \in {"inspected", "renaming"} /\ request[p].verdict = "verified" =>
         Faithful(dir', stamp', request[p].saw)
  BY <1>1, DeletedFaithful DEF PageSound
<1>4. request[p].at \in Indexing => request[p].saw.fingerprint \in 0..stamp'
  BY <1>1 DEF PageSound
<1>5. request[p].at = "renaming" => request[p].verdict = "verified"
  BY <1>1 DEF PageSound
<1> QED
  BY <1>1, <1>2, <1>3, <1>4, <1>5 DEF PageSound, Watched, Indexing, InProgress

\* Only a rename that an edit of the rows did not overlap makes a clean index,
\* and it is an index of the file that is there.
LEMMA IndexRenamed ==
  ASSUME Shaped, NEW q \in Requests, PageSound(q), RequestStep(q), ~DeleteRun(q)
  PROVE  \/ index' = index
         \/ /\ request[q].kind = "page" /\ request[q].at = "renaming"
            /\ Faithful(dir, stamp, index')
            /\ index'.clean => index'.fingerprint = stamp /\ index'.rows = dir.cases
<1>1. CASE RenameIndex(q) /\ dir.manifest # None
  <2>1. /\ request[q].kind = "page" /\ request[q].at = "renaming"
        /\ index'.hash = request[q].saw.hash
        /\ index'.fingerprint = request[q].saw.fingerprint
        /\ index'.rows = request[q].shown
        /\ index'.clean = ("cases" \notin request[q].disturbed)
    BY <1>1 DEF RenameIndex, At
  <2>2. Faithful(dir, stamp, request[q].saw)
    BY <2>1 DEF PageSound
  <2>3. Faithful(dir, stamp, index')
    BY <2>1, <2>2 DEF Faithful, Names
  <2>4. "cases" \notin request[q].disturbed =>
           request[q].saw.fingerprint = stamp /\ request[q].shown = dir.cases
    BY <2>1 DEF PageSound, Indexing
  <2> QED
    BY <2>1, <2>3, <2>4
<1>2. CASE RenameIndex(q) /\ dir.manifest = None
  BY <1>2 DEF RenameIndex
<1>3. CASE ~RenameIndex(q)
  BY <1>3
  DEF RequestStep, OnlyRequests, Begin, InspectHashes, InspectReplay, ReadForReceipt,
      WriteReceipt, RespondRun, ListRuns, FindIndex, ReadRows, ShowPage, GateStart,
      GateReplay, GateDecide, ArchiveStart, CopyFile, FinishArchive
<1> QED
  BY <1>1, <1>2, <1>3

\* A page that another request does not disturb still finds an index of the
\* file that is there, if the index it finds is clean.
LEMMA PageAlone ==
  ASSUME NEW p \in Requests, PageSound(p), request'[p] = request[p], UNCHANGED <<dir, stamp>>,
         index' # index => (index'.clean => index'.fingerprint = stamp)
  PROVE  PageSound(p)'
<1> SUFFICES ASSUME request[p].kind = "page" PROVE PageSound(p)'
    BY DEF PageSound
<1>1. RowsKept(p)' = RowsKept(p)
  BY DEF RowsKept
<1>2. ArtifactHolds("cases")' = ArtifactHolds("cases")
  BY DEF ArtifactHolds
<1>3. request[p].at = "paging" /\ RowsKept(p) =>
         /\ ArtifactHolds("cases")
         /\ index' # None /\ index'.clean => index'.fingerprint = stamp
  BY DEF PageSound
<1>4. UNCHANGED <<dir, stamp>> /\ request'[p] = request[p]
  OBVIOUS
<1> QED
  BY <1>1, <1>2, <1>3, <1>4 DEF PageSound

\* Replay checks the rows when the manifest binds them.
LEMMA ReplayChecksRows ==
  ASSUME Verified(dir), NEW key, key.fingerprint \in 0..stamp
  PROVE  Faithful(dir, stamp, key)
BY DEF Verified, HashesMatch, Faithful, Names, RowsBound

\* The steps of a page of cases keep it sound.
LEMMA PageOwn ==
  ASSUME Shaped, NEW q \in Requests, request[q].kind = "page", PageSound(q), IndexSound,
         RequestStep(q)
  PROVE  PageSound(q)'
<1>e. ~DeleteRun(q)
  BY DEF DeleteRun, At
<1>0. Progress(q) /\ dir' = dir /\ stamp' = stamp /\ stamp \in Nat
  BY <1>e, StepProgress DEF Shaped
<1>a. /\ request'[q].kind = "page" /\ request'[q].disturbed = request[q].disturbed
      /\ RowsKept(q)' = RowsKept(q)
  BY <1>0 DEF Progress, RowsKept
<1>b. ASSUME request'[q].at \notin Indexing \cup {"paging"}
      PROVE  PageSound(q)'
  BY <1>b DEF PageSound, Indexing
<1>c. ASSUME request[q].at \in Indexing, request'[q].at \in Indexing,
             request'[q].saw = request[q].saw,
             request'[q].at \in {"inspected", "renaming"} /\ request'[q].verdict = "verified" =>
                Faithful(dir, stamp, request[q].saw),
             request'[q].at = "renaming" =>
                request'[q].verdict = "verified" /\ request'[q].shown = dir.cases
      PROVE  PageSound(q)'
  <2>1. /\ request[q].saw.fingerprint \in 0..stamp
        /\ "cases" \notin request[q].disturbed => request[q].saw.fingerprint = stamp
        /\ RowsKept(q) => Names(dir, stamp, request[q].saw)
    BY <1>c DEF PageSound
  <2>2. request'[q].at # "paging"
    BY <1>c DEF Indexing
  <2> QED
    BY <1>0, <1>a, <1>c, <2>1, <2>2 DEF PageSound
<1>d. ASSUME request'[q].at = "paging",
             RowsKept(q) => ArtifactHolds("cases"),
             index' # None /\ index'.clean => index'.fingerprint = stamp
      PROVE  PageSound(q)'
  <2>1. ArtifactHolds("cases")' = ArtifactHolds("cases")
    BY <1>0 DEF ArtifactHolds
  <2>2. request'[q].at \notin Indexing
    BY <1>d DEF Indexing
  <2> QED
    BY <1>0, <1>a, <1>d, <2>1, <2>2 DEF PageSound
<1>1. CASE Begin(q)
  BY <1>1, <1>b, Gone DEF Begin, Indexing
<1>2. CASE FindIndex(q)
  <2>1. CASE dir.manifest = None \/ dir.cases = None \/ "cases" \notin DOMAIN dir.manifest.bound
    BY <1>2, <1>b, <2>1, Gone DEF FindIndex, Fail, Indexing
  <2>2. CASE /\ ~(dir.manifest = None \/ dir.cases = None
                    \/ "cases" \notin DOMAIN dir.manifest.bound)
             /\ index # None /\ IndexCurrent
    <3>1. request'[q].at = "paging" /\ index' = index
      BY <1>2, <2>2, Gone DEF FindIndex, OnlyRequests
    <3>2. Names(dir, stamp, index) /\ index.fingerprint = stamp
      BY <2>2 DEF Names, IndexCurrent
    <3>3. RowsBound(dir)
      BY <2>2, <3>2 DEF IndexSound, Faithful
    <3>4. ArtifactHolds("cases")
      BY <3>2, <3>3 DEF ArtifactHolds, Names, RowsBound
    <3> QED
      BY <1>d, <3>1, <3>2, <3>4
  <2>3. CASE /\ ~(dir.manifest = None \/ dir.cases = None
                    \/ "cases" \notin DOMAIN dir.manifest.bound)
             /\ index # None /\ ~IndexCurrent
    BY <1>2, <1>b, <2>3, Gone DEF FindIndex, Fail, Indexing
  <2>4. CASE /\ ~(dir.manifest = None \/ dir.cases = None
                    \/ "cases" \notin DOMAIN dir.manifest.bound)
             /\ index = None
    <3> DEFINE key == [hash |-> dir.manifest.bound.cases, fingerprint |-> stamp]
    <3>1. request'[q].at = "inspecting" /\ request'[q].saw = key
      BY <1>2, <2>4, Noted DEF FindIndex
    <3>2. key.fingerprint = stamp /\ Names(dir, stamp, key) /\ key.fingerprint \in 0..stamp
      BY <1>0, <2>4 DEF Names
    <3> HIDE DEF key
    <3> QED
      BY <1>0, <3>1, <3>2 DEF PageSound
  <2> QED
    BY <2>1, <2>2, <2>3, <2>4
<1>3. CASE InspectHashes(q)
  <2>1. request[q].at = "inspecting"
    BY <1>3 DEF InspectHashes, At
  <2>2. /\ request'[q].saw = request[q].saw
        /\ \/ request'[q].at = "inspected" /\ request'[q].verdict # "verified"
           \/ request'[q].at = "replaying"
    BY <1>3, Gone, Reached DEF InspectHashes
  <2> QED
    BY <1>c, <2>1, <2>2 DEF Indexing
<1>4. CASE InspectReplay(q)
  <2>1. request[q].at = "replaying"
    BY <1>4 DEF InspectReplay, At
  <2>2. /\ request'[q].saw = request[q].saw /\ request'[q].at = "inspected"
        /\ request'[q].verdict = "verified" => Verified(dir)
    BY <1>4, Reached DEF InspectReplay
  <2>3. request[q].saw.fingerprint \in 0..stamp
    BY <2>1 DEF PageSound, Indexing
  <2>4. request'[q].verdict = "verified" => Faithful(dir, stamp, request[q].saw)
    BY <2>2, <2>3, ReplayChecksRows
  <2> QED
    BY <1>c, <2>1, <2>2, <2>4 DEF Indexing
<1>5. CASE ReadRows(q)
  <2>1. request[q].at = "inspected"
    BY <1>5 DEF ReadRows, At
  <2>2. CASE request'[q].at = "failed"
    BY <1>b, <2>2 DEF Indexing
  <2>3. CASE request'[q].at = "renaming"
    <3>1. /\ request'[q].saw = request[q].saw /\ request'[q].verdict = request[q].verdict
          /\ request'[q].shown = dir.cases /\ request[q].verdict = "verified"
      BY <1>5, <2>3, RowsRead
    <3>2. Faithful(dir, stamp, request[q].saw)
      BY <2>1, <3>1 DEF PageSound
    <3> QED
      BY <1>c, <2>1, <2>3, <3>1, <3>2 DEF Indexing
  <2> QED
    BY <1>5, <2>2, <2>3, RowsRead
<1>6. CASE RenameIndex(q)
  <2>1. request[q].at = "renaming"
    BY <1>6 DEF RenameIndex, At
  <2>2. CASE dir.manifest = None
    BY <1>6, <1>b, <2>2, Gone DEF RenameIndex, Fail, Indexing
  <2>3. CASE dir.manifest # None
    <3>1. /\ request'[q].at = "paging"
          /\ index'.fingerprint = request[q].saw.fingerprint
          /\ index'.clean = ("cases" \notin request[q].disturbed)
      BY <1>6, <2>3, Gone DEF RenameIndex
    <3>2. /\ Faithful(dir, stamp, request[q].saw)
          /\ RowsKept(q) => Names(dir, stamp, request[q].saw)
          /\ "cases" \notin request[q].disturbed => request[q].saw.fingerprint = stamp
      BY <2>1 DEF PageSound, Indexing
    <3>3. RowsKept(q) => ArtifactHolds("cases")
      BY <3>2 DEF Faithful, Names, RowsBound, ArtifactHolds
    <3> QED
      BY <1>d, <3>1, <3>2, <3>3
  <2> QED
    BY <2>2, <2>3
<1>7. CASE ShowPage(q)
  BY <1>7, <1>b, Gone, Answered DEF ShowPage, Fail, Indexing
<1> QED
  BY <1>1, <1>2, <1>3, <1>4, <1>5, <1>6, <1>7
  DEF RequestStep, At, ReadForReceipt, WriteReceipt, RespondRun, ListRuns, GateStart,
      GateReplay, GateDecide, ArchiveStart, CopyFile, FinishArchive, DeleteRun

\* Every step does.
LEMMA PageStep ==
  ASSUME Shaped, \A q \in Requests : PageSound(q), IndexSound, [Next]_vars,
         NEW p \in Requests
  PROVE  PageSound(p)'
<1>1. CASE UNCHANGED vars
  BY <1>1, PageAlone DEF vars
<1>2. CASE Edit
  BY <1>2, PageEdited
<1>3. ASSUME NEW q \in Requests, q # p, RequestStep(q)
      PROVE  PageSound(p)'
  <2>1. CASE ~DeleteRun(q)
    BY <1>3, <2>1, StepProgress, IndexRenamed, PageAlone DEF Progress
  <2>2. CASE DeleteRun(q)
    <3>1. CASE Progress(q) /\ UNCHANGED <<dir, index, stamp>>
      BY <1>3, <3>1, PageAlone DEF Progress
    <3>2. CASE ~(Progress(q) /\ UNCHANGED <<dir, index, stamp>>)
      BY <1>3, <2>2, <3>2, RunDeleted, PageDeleted
    <3> QED
      BY <3>1, <3>2
  <2> QED
    BY <2>1, <2>2
<1>4. CASE RequestStep(p)
  <2>1. CASE request[p].kind = "page"
    BY <1>4, <2>1, PageOwn
  <2>2. CASE request[p].kind # "page"
    <3>1. request'[p].kind # "page"
      BY <1>4, <2>2, StepProgress, RunDeleted DEF Progress
    <3> QED
      BY <3>1 DEF PageSound
  <2> QED
    BY <2>1, <2>2
<1> QED
  BY <1>1, <1>2, <1>3, <1>4 DEF Next

\* Every step keeps the index sound.
LEMMA IndexStep ==
  ASSUME Shaped, \A q \in Requests : PageSound(q), IndexSound, [Next]_vars
  PROVE  IndexSound'
<1>1. CASE UNCHANGED <<index, dir, stamp>>
  BY <1>1 DEF IndexSound
<1>2. CASE Edit
  <2>1. index' = index
    BY <1>2, EditWatched
  <2>2. index # None => Faithful(dir', stamp', index)
    BY <1>2, EditFaithful DEF IndexSound
  <2>3. index # None /\ index.clean /\ index.fingerprint = stamp' => index.rows = dir'.cases
    <3> SUFFICES ASSUME index # None, index.clean, index.fingerprint = stamp'
                 PROVE  index.rows = dir'.cases
        OBVIOUS
    <3>1. index.fingerprint \in 0..stamp /\ stamp \in Nat
      BY DEF IndexSound, Faithful, Shaped
    <3>2. stamp' = stamp /\ dir'.cases = dir.cases
      BY <1>2, <3>1, EditEffect
    <3> QED
      BY <3>2 DEF IndexSound
  <2> QED
    BY <2>1, <2>2, <2>3 DEF IndexSound
<1>3. ASSUME NEW q \in Requests, RequestStep(q) PROVE IndexSound'
  <2>1. CASE ~DeleteRun(q)
    <3>1. UNCHANGED <<dir, stamp>>
      BY <1>3, <2>1, StepProgress
    <3>2. CASE index' = index
      BY <1>1, <3>1, <3>2
    <3>3. CASE index' # index
      BY <1>3, <2>1, <3>1, <3>3, IndexRenamed DEF IndexSound
    <3> QED
      BY <3>2, <3>3
  <2>2. CASE DeleteRun(q)
    BY <1>1, <2>2, RunDeleted DEF IndexSound
  <2> QED
    BY <2>1, <2>2
<1> QED
  BY <1>1, <1>2, <1>3 DEF Next, vars

-----------------------------------------------------------------------------
(* The invariant and what follows                                          *)

Invariant ==
    /\ Shaped
    /\ \A q \in Requests : OpenSound(q) /\ GateSound(q) /\ PageSound(q)
    /\ ReceiptSound
    /\ IndexSound
    /\ ArchiveSound

\* The invariant holds of the finished run before the first request.
LEMMA SoundInitially ==
  ASSUME NEW made, NEW spent, NEW kinds, InitFrom(made, spent, kinds)
  PROVE  Invariant
<1>1. ASSUME NEW q \in Requests
      PROVE  request[q].at \in {"none", "failed"} /\ request[q].saw = None
  <2>1. CASE q \in DOMAIN kinds
    BY <2>1 DEF InitFrom, Unmade
  <2>2. CASE q \notin DOMAIN kinds
    BY <2>2 DEF InitFrom, Unmade
  <2> QED
    BY <2>1, <2>2
<1>2. \A q \in Requests : OpenSound(q) /\ GateSound(q) /\ PageSound(q) /\ ~Owner(q)
  BY <1>1 DEF OpenSound, GateSound, PageSound, Indexing, Owner
<1>3. archive.files = Empty /\ archive.complete = FALSE
  BY DEF InitFrom, NoArchive
<1>4. receipt = None /\ index = None
  BY DEF InitFrom
<1> QED
  BY <1>2, <1>3, <1>4, ShapedInitially DEF Invariant, ReceiptSound, IndexSound, ArchiveSound

\* Every step keeps the invariant.
LEMMA SoundStep == Invariant /\ [Next]_vars => Invariant'
<1> SUFFICES ASSUME Invariant, [Next]_vars PROVE Invariant'
    OBVIOUS
<1>1. /\ Shaped /\ ReceiptSound /\ IndexSound /\ ArchiveSound
      /\ \A q \in Requests : OpenSound(q)
      /\ \A q \in Requests : GateSound(q)
      /\ \A q \in Requests : PageSound(q)
  BY DEF Invariant
<1>2. Shaped'
  BY <1>1, ShapedStep
<1>3. \A q \in Requests : OpenSound(q)'
  BY <1>1, OpenStep
<1>4. \A q \in Requests : GateSound(q)'
  BY <1>1, GateStep
<1>5. \A q \in Requests : PageSound(q)'
  BY <1>1, PageStep
<1>6. ReceiptSound'
  BY <1>1, ReceiptStep
<1>7. IndexSound'
  BY <1>1, IndexStep
<1>8. ArchiveSound'
  BY <1>1, ArchiveStep
<1> QED
  BY <1>2, <1>3, <1>4, <1>5, <1>6, <1>7, <1>8 DEF Invariant

\* The invariant always holds.
LEMMA AlwaysSound ==
  ASSUME NEW made, NEW spent, NEW kinds
  PROVE  SpecFrom(made, spent, kinds) => []Invariant
<1>1. InitFrom(made, spent, kinds) => Invariant
  BY SoundInitially
<1> QED
  BY <1>1, SoundStep, PTL DEF SpecFrom

\* A request is answered by its own steps only.
LEMMA OwnAnswer ==
  ASSUME Shaped, [Next]_vars, NEW q \in Requests, NEW kind, Answers(q, kind)
  PROVE  RequestStep(q)
<1>1. request'[q].at # request[q].at
  BY DEF Answers
<1>2. ~(UNCHANGED vars)
  BY <1>1 DEF vars
<1>3. ~Edit
  BY <1>1, EditWatched DEF Watched
<1>4. \A p \in Requests : RequestStep(p) => p = q
  BY <1>1, OthersStep DEF Watched
<1> QED
  BY <1>2, <1>3, <1>4 DEF Next

\* A run page is answered with the verdict that was reached and the summary
\* that is there.
LEMMA OpenAnswer ==
  ASSUME Shaped, NEW q \in Requests, RequestStep(q), Answers(q, "open")
  PROVE  /\ request[q].at = "responding"
         /\ request'[q].verdict = request[q].verdict
         /\ request'[q].shown = dir.summary
<1>1. CASE Begin(q)
  BY <1>1, Gone DEF Begin, Answers
<1>2. CASE InspectHashes(q)
  BY <1>2, Gone, Reached DEF InspectHashes, Answers
<1>3. CASE InspectReplay(q)
  BY <1>3, Reached DEF InspectReplay, Answers
<1>4. CASE ReadForReceipt(q)
  BY <1>4, Gone, Noted DEF ReadForReceipt, Fail, Answers
<1>5. CASE WriteReceipt(q)
  BY <1>5, Gone DEF WriteReceipt, Fail, Answers
<1>6. CASE RespondRun(q)
  BY <1>6, Gone, Answered DEF RespondRun, Fail, Answers, At
<1> QED
  BY <1>1, <1>2, <1>3, <1>4, <1>5, <1>6
  DEF RequestStep, At, ListRuns, FindIndex, ReadRows, RenameIndex, ShowPage, GateStart,
      GateReplay, GateDecide, ArchiveStart, CopyFile, FinishArchive, DeleteRun, Answers

\* The list says verified of a run only while its receipt holds.
LEMMA ListAnswer ==
  ASSUME Shaped, NEW q \in Requests, RequestStep(q), Answers(q, "list"),
         request'[q].verdict = "verified"
  PROVE  ReceiptHolds /\ request'[q].shown = receipt.listing
<1>1. CASE Begin(q)
  BY <1>1, Gone DEF Begin, Answers
<1>2. CASE ListRuns(q)
  BY <1>2, Gone, Answered DEF ListRuns, Fail, Answers
<1> QED
  BY <1>1, <1>2
  DEF RequestStep, At, InspectHashes, InspectReplay, ReadForReceipt, WriteReceipt, RespondRun,
      FindIndex, ReadRows, RenameIndex, ShowPage, GateStart, GateReplay, GateDecide,
      ArchiveStart, CopyFile, FinishArchive, DeleteRun, Answers

\* A page of cases is answered with the rows of the index.
LEMMA PageAnswer ==
  ASSUME Shaped, NEW q \in Requests, RequestStep(q), Answers(q, "page")
  PROVE  request[q].at = "paging" /\ index # None /\ request'[q].shown = index.rows
<1>1. CASE Begin(q)
  BY <1>1, Gone DEF Begin, Answers
<1>2. CASE InspectHashes(q)
  BY <1>2, Gone, Reached DEF InspectHashes, Answers
<1>3. CASE InspectReplay(q)
  BY <1>3, Reached DEF InspectReplay, Answers
<1>4. CASE FindIndex(q)
  BY <1>4, Gone, Noted DEF FindIndex, Fail, Answers
<1>5. CASE ReadRows(q)
  BY <1>5, RowsRead DEF Answers
<1>6. CASE RenameIndex(q)
  BY <1>6, Gone DEF RenameIndex, Fail, Answers
<1>7. CASE ShowPage(q)
  BY <1>7, Gone, Answered DEF ShowPage, Fail, Answers, At
<1> QED
  BY <1>1, <1>2, <1>3, <1>4, <1>5, <1>6, <1>7
  DEF RequestStep, At, ReadForReceipt, WriteReceipt, RespondRun, ListRuns, GateStart,
      GateReplay, GateDecide, ArchiveStart, CopyFile, FinishArchive, DeleteRun, Answers

\* A gate and a release check are answered by their decision.
LEMMA GateAnswer ==
  ASSUME Shaped, NEW q \in Requests, RequestStep(q),
         Answers(q, "gate") \/ Answers(q, "release_check")
  PROVE  request[q].at = "deciding" /\ request'[q].verdict = ExitCode(q, dir.summary)
<1>1. CASE Begin(q)
  BY <1>1, Gone DEF Begin, Answers
<1>2. CASE GateStart(q)
  BY <1>2, Gone DEF GateStart, Fail, Answers
<1>3. CASE GateReplay(q)
  BY <1>3, Gone DEF GateReplay, Fail, Answers
<1>4. CASE GateDecide(q)
  BY <1>4, Gone, Answered DEF GateDecide, Fail, Answers, At
<1> QED
  BY <1>1, <1>2, <1>3, <1>4
  DEF RequestStep, At, InspectHashes, InspectReplay, ReadForReceipt, WriteReceipt, RespondRun,
      ListRuns, FindIndex, ReadRows, RenameIndex, ShowPage, ArchiveStart, CopyFile,
      FinishArchive, DeleteRun, Answers

\* ArchiveIsWhole: an archive that says it is complete holds every file that its
\* manifest binds, with the content that it binds, unless an edit overlapped
\* the copy (archive_run, verify_complete_manifest, copy_manifest_allowlist).
THEOREM ArchivesAreWhole ==
  ASSUME NEW made, NEW spent, NEW kinds
  PROVE  SpecFrom(made, spent, kinds) => []ArchiveIsWhole
<1>1. Invariant => ArchiveIsWhole
  <2> SUFFICES ASSUME ArchiveSound, NEW q \in Requests, request[q].kind = "archive",
                      request[q].saw # None, archive.complete, Undisturbed(q)
               PROVE  Copied(archive.files)
      BY DEF Invariant, ArchiveIsWhole, Copied
  <2>1. Owner(q)
    BY DEF Owner
  <2>2. request[q].at = "answered"
    BY <2>1 DEF ArchiveSound
  <2> QED
    BY <2>1, <2>2 DEF ArchiveSound
<1> QED
  BY <1>1, AlwaysSound, PTL

\* IntegrityAnswersAreTrue: a run page that no edit overlapped says verified
\* exactly when the directory replays, and the list says so, from its receipt,
\* only of the summary that is there (get_run, list_runs).
THEOREM AnswersAreTrue ==
  ASSUME NEW made, NEW spent, NEW kinds
  PROVE  SpecFrom(made, spent, kinds) => IntegrityAnswersAreTrue
<1>1. ASSUME Invariant, [Next]_vars, NEW q \in Requests, Answers(q, "open"), Undisturbed(q)
      PROVE  /\ request'[q].verdict = "verified" <=> Verified(dir)
             /\ request'[q].shown = dir.summary
  <2>1. /\ request[q].at = "responding" /\ request[q].kind = "open"
        /\ request'[q].verdict = request[q].verdict
        /\ request'[q].shown = dir.summary
    BY <1>1, OwnAnswer, OpenAnswer DEF Invariant, Answers
  <2> QED
    BY <1>1, <2>1 DEF Invariant, OpenSound
<1>2. ASSUME Invariant, [Next]_vars, NEW q \in Requests, Answers(q, "list"),
             request'[q].verdict = "verified", receipt.clean
      PROVE  receipt.true /\ request'[q].shown = dir.summary
  <2>1. ReceiptHolds /\ request'[q].shown = receipt.listing
    BY <1>2, OwnAnswer, ListAnswer DEF Invariant
  <2> QED
    BY <1>2, <2>1 DEF Invariant, ReceiptSound, ReceiptHolds
<1>3. Invariant /\ [Next]_vars =>
        [\A q \in Requests :
            /\ Answers(q, "open") /\ Undisturbed(q) =>
                  /\ request'[q].verdict = "verified" <=> Verified(dir)
                  /\ request'[q].shown = dir.summary
            /\ Answers(q, "list") /\ request'[q].verdict = "verified" /\ receipt.clean =>
                  receipt.true /\ request'[q].shown = dir.summary]_vars
  BY <1>1, <1>2
<1> QED
  BY <1>3, AlwaysSound, PTL DEF IntegrityAnswersAreTrue, SpecFrom

\* PageShowsBoundRows: a page of cases shows the rows that the manifest binds,
\* whoever built the index (get_run_cases, ensure_case_index).
THEOREM PagesShowBoundRows ==
  ASSUME NEW made, NEW spent, NEW kinds
  PROVE  SpecFrom(made, spent, kinds) => PageShowsBoundRows
<1>1. ASSUME Invariant, [Next]_vars, NEW q \in Requests, Answers(q, "page"), RowsKept(q),
             index.clean
      PROVE  request'[q].shown = dir.cases /\ ArtifactHolds("cases")
  <2>1. /\ request[q].at = "paging" /\ request[q].kind = "page"
        /\ index # None /\ request'[q].shown = index.rows
    BY <1>1, OwnAnswer, PageAnswer DEF Invariant, Answers
  <2>2. ArtifactHolds("cases") /\ index.fingerprint = stamp
    BY <1>1, <2>1 DEF Invariant, PageSound
  <2> QED
    BY <1>1, <2>1, <2>2 DEF Invariant, IndexSound
<1>2. Invariant /\ [Next]_vars =>
        [\A q \in Requests :
            Answers(q, "page") /\ request[q].disturbed \cap {"cases", "manifest"} = {}
               /\ index.clean =>
                  /\ request'[q].shown = dir.cases
                  /\ ArtifactHolds("cases")]_vars
  BY <1>1 DEF RowsKept
<1> QED
  BY <1>2, AlwaysSound, PTL DEF PageShowsBoundRows, SpecFrom

\* AuthorizationIsReproduced: a release check that no edit overlapped exits with
\* zero only for a complete run whose replayed summary authorizes deployment, a
\* gate only for a summary that its manifest binds (release_check, gate).
THEOREM AuthorizationsAreReproduced ==
  ASSUME NEW made, NEW spent, NEW kinds
  PROVE  SpecFrom(made, spent, kinds) => AuthorizationIsReproduced
<1>1. ASSUME Invariant, [Next]_vars, NEW q \in Requests, Undisturbed(q),
             Answers(q, "release_check"), request'[q].verdict = "zero"
      PROVE  /\ EnsureComplete /\ Verified(dir)
             /\ Summary(dir.manifest.run, dir.configuration, Replayed(dir)).authorized
  <2>1. /\ request[q].kind = "release_check" /\ request[q].at = "deciding"
        /\ ExitCode(q, dir.summary) = "zero"
    BY <1>1, OwnAnswer, GateAnswer DEF Invariant, Answers
  <2>2. EnsureComplete /\ Verified(dir)
    BY <1>1, <2>1 DEF Invariant, GateSound
  <2>3. dir.summary.authorized
    BY <2>1 DEF ExitCode
  <2>4. dir.summary = Summary(dir.manifest.run, dir.configuration, Replayed(dir))
    BY <2>2 DEF Verified, SummaryMatches
  <2> QED
    BY <2>2, <2>3, <2>4
<1>2. ASSUME Invariant, [Next]_vars, NEW q \in Requests, Undisturbed(q),
             Answers(q, "gate"), request'[q].verdict = "zero"
      PROVE  ArtifactHolds("summary")
  <2>1. request[q].kind = "gate" /\ request[q].at = "deciding"
    BY <1>2, OwnAnswer, GateAnswer DEF Invariant, Answers
  <2> QED
    BY <1>2, <2>1 DEF Invariant, GateSound
<1>3. Invariant /\ [Next]_vars =>
        [\A q \in Requests : Undisturbed(q) =>
            /\ Answers(q, "release_check") /\ request'[q].verdict = "zero" =>
                  /\ EnsureComplete /\ Verified(dir)
                  /\ Summary(dir.manifest.run, dir.configuration, Replayed(dir)).authorized
            /\ Answers(q, "gate") /\ request'[q].verdict = "zero" =>
                  ArtifactHolds("summary")]_vars
  BY <1>1, <1>2
<1> QED
  BY <1>3, AlwaysSound, PTL DEF AuthorizationIsReproduced, SpecFrom

-----------------------------------------------------------------------------
(* What retention and sanitization do to a row                             *)

\* row has the fields of a row, and no other.
IsRow(row) == row = Row(row.case, row.status, row.raw, row.parsed, row.error, row.notes)

\* Fields of a row can be read and replaced.
LEMMA RowFields ==
  ASSUME NEW c, NEW s, NEW r, NEW p, NEW e, NEW n
  PROVE  LET row == Row(c, s, r, p, e, n) IN
         /\ row.case = c /\ row.status = s /\ row.raw = r /\ row.parsed = p
         /\ row.error = e /\ row.notes = n
         /\ IsRow(row)
BY DEF Row, IsRow

\* A row with other notes.
LEMMA NotesReplaced ==
  ASSUME NEW row, IsRow(row), NEW n
  PROVE  [row EXCEPT !.notes = n]
            = Row(row.case, row.status, row.raw, row.parsed, row.error, n)
<1> DEFINE c == row.case
           s == row.status
           r0 == row.raw
           p0 == row.parsed
           e0 == row.error
           n0 == row.notes
<1>1. row = [case |-> c, status |-> s, raw |-> r0, parsed |-> p0, error |-> e0, notes |-> n0]
  BY DEF IsRow, Row
<1> HIDE DEF c, s, r0, p0, e0, n0
<1>2. [row EXCEPT !.notes = n] = Row(c, s, r0, p0, e0, n)
  BY <1>1 DEF Row
<1> QED
  BY <1>2 DEF c, s, r0, p0, e0

\* A row with another error and other notes.
LEMMA ErrorReplaced ==
  ASSUME NEW row, IsRow(row), NEW e, NEW n
  PROVE  [row EXCEPT !.error = e, !.notes = n]
            = Row(row.case, row.status, row.raw, row.parsed, e, n)
<1> DEFINE c == row.case
           s == row.status
           r0 == row.raw
           p0 == row.parsed
           e0 == row.error
           n0 == row.notes
<1>1. row = [case |-> c, status |-> s, raw |-> r0, parsed |-> p0, error |-> e0, notes |-> n0]
  BY DEF IsRow, Row
<1> HIDE DEF c, s, r0, p0, e0, n0
<1>2. [row EXCEPT !.error = e] = Row(c, s, r0, p0, e, n0)
  BY <1>1 DEF Row
<1>3. [Row(c, s, r0, p0, e, n0) EXCEPT !.notes = n] = Row(c, s, r0, p0, e, n)
  BY DEF Row
<1>4. [row EXCEPT !.error = e, !.notes = n] = [[row EXCEPT !.error = e] EXCEPT !.notes = n]
  OBVIOUS
<1> QED
  BY <1>2, <1>3, <1>4 DEF c, s, r0, p0

\* Rows of a case are made of their fields.
LEMMA RowsAreRows ==
  ASSUME NEW id, NEW row \in Rows(id)
  PROVE  IsRow(row) /\ row.case = id
BY DEF Rows, Row, IsRow

\* Sanitization field by field.
LEMMA SanitizedRow ==
  ASSUME NEW row, IsRow(row)
  PROVE  Sanitized(row) = Row(row.case, row.status, row.raw, row.parsed, Redacted(row.error),
                              row.notes \ {"response", "prompt"})
<1>1. Sanitized(row) = [row EXCEPT !.error = Redacted(row.error),
                                   !.notes = row.notes \ {"response", "prompt"}]
  BY DEF Sanitized
<1> QED
  BY <1>1, ErrorReplaced

\* The fields of a sanitized row.
LEMMA SanitizedFields ==
  ASSUME NEW row, IsRow(row)
  PROVE  LET clean == Sanitized(row) IN
         /\ clean.status = row.status /\ clean.raw = row.raw /\ clean.parsed = row.parsed
         /\ clean.error = Redacted(row.error)
         /\ clean.notes = row.notes \ {"response", "prompt"}
         /\ IsRow(clean) /\ clean.case = row.case
<1> DEFINE c == row.case
           s == row.status
           r == row.raw
           p == row.parsed
           e == Redacted(row.error)
           n == row.notes \ {"response", "prompt"}
<1>1. Sanitized(row) = Row(c, s, r, p, e, n)
  BY SanitizedRow
<1> HIDE DEF c, s, r, p, e, n
<1>2. LET clean == Sanitized(row) IN
         /\ IsRow(clean) /\ clean.case = c /\ clean.status = s /\ clean.raw = r
         /\ clean.parsed = p /\ clean.error = e /\ clean.notes = n
  BY <1>1, RowFields
<1> QED
  BY <1>2 DEF c, s, r, p, e, n

\* The notes that retention without raw outputs leaves, and those that the
\* other settings remove.
NotesKept(row) ==
    (row.notes \ {"parse error"}) \cup {"parse receipt"}
        \cup (IF Strict(row) = None THEN {"parse error"} ELSE {})
Dropped(setting) ==
    (IF setting.responses THEN {} ELSE {"response"})
        \cup (IF setting.prompts THEN {} ELSE {"prompt"})

RawKept(row, setting)    == IF setting.raw THEN row.raw ELSE None
ParsedKept(row, setting) == IF setting.raw THEN row.parsed ELSE Strict(row)
ErrorKept(row, setting)  == IF setting.responses THEN row.error ELSE Redacted(row.error)
AllNotes(row, setting)   == IF setting.raw THEN row.notes ELSE NotesKept(row)

\* Retention without raw outputs, field by field.
LEMMA WithoutRawRow ==
  ASSUME NEW row, IsRow(row)
  PROVE  WithoutRaw(row)
            = Row(row.case, row.status, None, Strict(row), row.error, NotesKept(row))
<1> DEFINE c == row.case
           s == row.status
           r0 == row.raw
           p0 == row.parsed
           e0 == row.error
           n0 == row.notes
           p == Strict(row)
           n == NotesKept(row)
<1>1. row = [case |-> c, status |-> s, raw |-> r0, parsed |-> p0, error |-> e0, notes |-> n0]
  BY DEF IsRow, Row
<1>2. WithoutRaw(row) = [row EXCEPT !.raw = None, !.parsed = p, !.notes = n]
  BY DEF WithoutRaw, NotesKept
<1> HIDE DEF c, s, r0, p0, e0, n0, p, n
<1>3. [row EXCEPT !.raw = None] = Row(c, s, None, p0, e0, n0)
  BY <1>1 DEF Row
<1>4. [Row(c, s, None, p0, e0, n0) EXCEPT !.parsed = p] = Row(c, s, None, p, e0, n0)
  BY DEF Row
<1>5. [Row(c, s, None, p, e0, n0) EXCEPT !.notes = n] = Row(c, s, None, p, e0, n)
  BY DEF Row
<1>6. [row EXCEPT !.raw = None, !.parsed = p, !.notes = n]
        = [[[row EXCEPT !.raw = None] EXCEPT !.parsed = p] EXCEPT !.notes = n]
  OBVIOUS
<1> QED
  BY <1>2, <1>3, <1>4, <1>5, <1>6 DEF c, s, e0, p, n

\* Retention field by field.
LEMMA RetainedRow ==
  ASSUME NEW row, IsRow(row), NEW setting
  PROVE  Retained(row, setting) =
            Row(row.case, row.status, RawKept(row, setting), ParsedKept(row, setting),
                ErrorKept(row, setting), AllNotes(row, setting) \ Dropped(setting))
<1> DEFINE c == row.case
           s == row.status
           r == RawKept(row, setting)
           p == ParsedKept(row, setting)
           e == ErrorKept(row, setting)
           n == AllNotes(row, setting)
           text == IF setting.raw THEN row ELSE WithoutRaw(row)
           provider == IF setting.responses THEN text ELSE WithoutResponse(text)
           some == n \ (IF setting.responses THEN {} ELSE {"response"})
<1>1. text = Row(c, s, r, p, row.error, n)
  <2>1. CASE setting.raw
    BY <2>1 DEF IsRow, RawKept, ParsedKept, AllNotes
  <2>2. CASE ~setting.raw
    BY <2>2, WithoutRawRow DEF RawKept, ParsedKept, AllNotes
  <2> QED
    BY <2>1, <2>2
<1> HIDE DEF c, s, r, p, e, n, text
<1>2. provider = Row(c, s, r, p, e, some)
  <2>1. /\ IsRow(text) /\ text.case = c /\ text.status = s /\ text.raw = r
        /\ text.parsed = p /\ text.error = row.error /\ text.notes = n
    BY <1>1, RowFields
  <2>2. CASE setting.responses
    <3>1. some = n /\ e = row.error
      BY <2>2 DEF e, ErrorKept
    <3> QED
      BY <1>1, <2>2, <3>1
  <2>3. CASE ~setting.responses
    <3>1. WithoutResponse(text) = [text EXCEPT !.error = Redacted(text.error),
                                               !.notes = text.notes \ {"response"}]
      BY DEF WithoutResponse
    <3>2. e = Redacted(row.error) /\ some = n \ {"response"}
      BY <2>3 DEF e, ErrorKept
    <3>3. [text EXCEPT !.error = Redacted(text.error), !.notes = text.notes \ {"response"}]
            = Row(text.case, text.status, text.raw, text.parsed, Redacted(text.error),
                  text.notes \ {"response"})
      BY <2>1, ErrorReplaced
    <3> QED
      BY <2>1, <2>3, <3>1, <3>2, <3>3
  <2> QED
    BY <2>2, <2>3
<1>3. Retained(row, setting) = IF setting.prompts THEN provider ELSE WithoutPrompt(provider)
  BY DEF Retained, text
<1> HIDE DEF provider, some
<1>4. Retained(row, setting)
        = Row(c, s, r, p, e, some \ (IF setting.prompts THEN {} ELSE {"prompt"}))
  <2>1. /\ IsRow(provider) /\ provider.case = c /\ provider.status = s /\ provider.raw = r
        /\ provider.parsed = p /\ provider.error = e /\ provider.notes = some
    BY <1>2, RowFields
  <2>2. CASE setting.prompts
    <3>1. some \ {} = some
      BY DEF some
    <3> QED
      BY <1>2, <1>3, <2>2, <3>1
  <2>3. CASE ~setting.prompts
    <3>1. WithoutPrompt(provider) = [provider EXCEPT !.notes = provider.notes \ {"prompt"}]
      BY DEF WithoutPrompt
    <3> QED
      BY <1>3, <2>1, <2>3, <3>1, NotesReplaced
  <2> QED
    BY <2>2, <2>3
<1>5. some \ (IF setting.prompts THEN {} ELSE {"prompt"}) = n \ Dropped(setting)
  BY DEF some, Dropped
<1> QED
  BY <1>4, <1>5 DEF c, s, r, p, e, n

\* The fields of a retained row.
LEMMA RetainedFields ==
  ASSUME NEW row, IsRow(row), NEW setting
  PROVE  LET kept == Retained(row, setting) IN
         /\ IsRow(kept)
         /\ kept.case = row.case /\ kept.status = row.status
         /\ kept.raw = RawKept(row, setting) /\ kept.parsed = ParsedKept(row, setting)
         /\ kept.error = ErrorKept(row, setting)
         /\ kept.notes = AllNotes(row, setting) \ Dropped(setting)
<1> DEFINE c == row.case
           s == row.status
           r == RawKept(row, setting)
           p == ParsedKept(row, setting)
           e == ErrorKept(row, setting)
           n == AllNotes(row, setting) \ Dropped(setting)
<1>1. Retained(row, setting) = Row(c, s, r, p, e, n)
  BY RetainedRow
<1> HIDE DEF c, s, r, p, e, n
<1>2. LET kept == Retained(row, setting) IN
         /\ IsRow(kept) /\ kept.case = c /\ kept.status = s /\ kept.raw = r
         /\ kept.parsed = p /\ kept.error = e /\ kept.notes = n
  BY <1>1, RowFields
<1> QED
  BY <1>2 DEF c, s, r, p, e, n

\* Retention keeps the strict text.
LEMMA StrictKept ==
  ASSUME NEW row, IsRow(row), NEW setting
  PROVE  Strict(Retained(row, setting)) = Strict(row)
<1>1. Strict(row) \in Values \cup {None}
  BY DEF Strict
<1> QED
  BY <1>1, RetainedFields, ReplayAssumption DEF Strict, RawKept, ParsedKept

\* Retaining twice is retaining once.
LEMMA RetainedTwice ==
  ASSUME NEW row, IsRow(row), NEW a, NEW b,
         b.raw = a.raw, b.responses = a.responses, b.prompts = a.prompts
  PROVE  Retained(Retained(row, a), b) = Retained(row, a)
<1> DEFINE kept == Retained(row, a)
<1>1. /\ IsRow(kept) /\ Strict(kept) = Strict(row)
      /\ kept.raw = RawKept(row, a) /\ kept.parsed = ParsedKept(row, a)
      /\ kept.error = ErrorKept(row, a) /\ kept.notes = AllNotes(row, a) \ Dropped(a)
  BY RetainedFields, StrictKept
<1> HIDE DEF kept
<1>2. RawKept(kept, b) = kept.raw /\ ParsedKept(kept, b) = kept.parsed
  BY <1>1 DEF RawKept, ParsedKept
<1>3. ErrorKept(kept, b) = kept.error
  BY <1>1 DEF ErrorKept, Redacted
<1>4. AllNotes(kept, b) \ Dropped(b) = kept.notes
  <2>1. Dropped(b) = Dropped(a)
    BY DEF Dropped
  <2>2. CASE a.raw
    BY <1>1, <2>1, <2>2 DEF AllNotes
  <2>3. CASE ~a.raw
    <3>1. kept.notes = NotesKept(row) \ Dropped(a) /\ AllNotes(kept, b) = NotesKept(kept)
      BY <1>1, <2>3 DEF AllNotes
    <3> QED
      BY <1>1, <2>1, <3>1 DEF NotesKept, Dropped
  <2> QED
    BY <2>2, <2>3
<1> QED
  BY <1>1, <1>2, <1>3, <1>4, RetainedRow DEF kept, IsRow

-----------------------------------------------------------------------------
(* What a score depends on                                                 *)

\* Rows that agree in status, text and error are scored alike.
LEMMA SameScore ==
  ASSUME NEW case, NEW a, NEW b, NEW setting, NEW schema, NEW answer,
         a.status = b.status, Strict(a) = Strict(b), ParseError(a) = ParseError(b)
  PROVE  Evaluated(case, a, setting, schema, answer) = Evaluated(case, b, setting, schema, answer)
BY DEF Evaluated

\* A score repeats the error of the row.
LEMMA ScoreTellsError ==
  ASSUME NEW case, NEW row, NEW setting, NEW schema, NEW answer
  PROVE  /\ Evaluated(case, row, setting, schema, answer).parse_error = ParseError(row)
         /\ "parse_error" \in DOMAIN Evaluated(case, row, setting, schema, answer)
BY DEF Evaluated

-----------------------------------------------------------------------------
(* What replay has verified is what would be written again                 *)

\* s is a list of records.
IsSequence(s) == Len(s) \in Nat /\ DOMAIN s = 1..Len(s)

\* The output of a variant that a record repeats.
OutputOf(record, v) ==
    IF v = "baseline" THEN record.baseline_output ELSE record.candidate_output

\* A record repeats what was retained of a captured row, and its error.
Repeats(record, v, row, setting) ==
    /\ OutputOf(record, v) = Retained(row, setting)
    /\ record[v].parse_error = ParseError(Sanitized(row))

\* It does so of some row, for each variant.
Remembers(record, setting) ==
    /\ {"baseline_output", "candidate_output", "baseline", "candidate"} \subseteq DOMAIN record
    /\ \A v \in Variants :
          /\ "parse_error" \in DOMAIN record[v]
          /\ \E row : IsRow(row) /\ Repeats(record, v, row, setting)

\* No edit makes a record repeat another output or error, or changes what is
\* retained.
Remembered ==
    /\ dir.cases # None =>
          /\ IsSequence(dir.cases)
          /\ \A i \in DOMAIN dir.cases : Remembers(dir.cases[i], input.setting)
    /\ dir.configuration # None =>
          /\ {"raw", "responses", "prompts"} \subseteq DOMAIN dir.configuration
          /\ dir.configuration.raw = input.setting.raw
          /\ dir.configuration.responses = input.setting.responses
          /\ dir.configuration.prompts = input.setting.prompts

\* A sanitized row that has been retained is scored as the retained one, unless
\* the words of a provider were retained.
LEMMA RetainedScore ==
  ASSUME NEW row, IsRow(row), NEW a, NEW kept, kept = Retained(row, a),
         ParseError(kept) = ParseError(Sanitized(row)),
         NEW case, NEW setting, NEW schema, NEW answer
  PROVE  Evaluated(case, Sanitized(kept), setting, schema, answer)
            = Evaluated(case, kept, setting, schema, answer)
<1>1. IsRow(kept) /\ kept.status = row.status
  BY RetainedFields
<1> DEFINE clean == Sanitized(kept)
<1>2. /\ clean.status = kept.status /\ clean.raw = kept.raw /\ clean.parsed = kept.parsed
      /\ clean.error = Redacted(kept.error)
      /\ clean.notes = kept.notes \ {"response", "prompt"}
  BY <1>1, SanitizedFields
<1>3. Sanitized(row).error = Redacted(row.error) /\ Sanitized(row).status = row.status
  BY SanitizedFields
<1> HIDE DEF clean
<1>4. Strict(clean) = Strict(kept)
  BY <1>2 DEF Strict
<1>5. ParseError(clean) = ParseError(kept)
  <2>1. CASE kept.status = "ok"
    BY <1>2, <1>4, <2>1 DEF ParseError
  <2>2. CASE kept.status # "ok"
    <3>1. kept.error = Redacted(row.error)
      BY <1>1, <1>3, <2>2 DEF ParseError
    <3> QED
      BY <1>2, <2>2, <3>1 DEF ParseError, Redacted
  <2> QED
    BY <2>1, <2>2
<1> QED
  BY <1>2, <1>4, <1>5, SameScore DEF clean

\* The files of a finished run.
LEMMA FinishedFiles ==
  ASSUME NEW run, NEW made
  PROVE  LET d == Finished(run, made)
             records == RecordsOf(made.dataset, made.captured, made.setting, made.schema,
                                  made.answers)
         IN  /\ d.cases = records
             /\ d.summary = Summary(run, made.setting, records)
             /\ d.configuration = made.setting
             /\ d.dataset = made.dataset /\ d.schema = made.schema
             /\ d.receipts = ReceiptsOf(made.dataset, made.captured, made.setting, made.answers)
             /\ \A v \in Variants :
                   d[v] = [i \in DOMAIN made.dataset |->
                             Retained(made.captured[v][i], made.setting)]
             /\ d.manifest = Manifest(run, made.setting, FilesOf(run, made))
             /\ \A f \in Files : d[f] = FilesOf(run, made)[f]
<1> DEFINE d == Finished(run, made)
<1>1. \A f \in Files : d[f] = FilesOf(run, made)[f]
  BY DEF Finished, Files, InputFiles
<1>2. d.manifest = Manifest(run, made.setting, FilesOf(run, made))
  BY DEF Finished
<1>3. /\ {"cases", "summary", "configuration", "dataset", "schema", "receipts"} \subseteq Files
      /\ Variants \subseteq Files /\ Variants = InputFiles
  BY DEF Files, InputFiles, Variants
<1> HIDE DEF d
<1>4. /\ d.configuration = made.setting /\ d.dataset = made.dataset /\ d.schema = made.schema
      /\ d.receipts = ReceiptsOf(made.dataset, made.captured, made.setting, made.answers)
  BY <1>1, <1>3 DEF FilesOf, InputFiles
<1>5. /\ d.cases = RecordsOf(made.dataset, made.captured, made.setting, made.schema,
                             made.answers)
      /\ d.summary = Summary(run, made.setting,
                             RecordsOf(made.dataset, made.captured, made.setting, made.schema,
                                       made.answers))
  BY <1>1, <1>3 DEF FilesOf, InputFiles
<1>6. ASSUME NEW v \in Variants
      PROVE  d[v] = [i \in DOMAIN made.dataset |-> Retained(made.captured[v][i], made.setting)]
  BY <1>1, <1>3 DEF FilesOf, InputFiles
<1> QED
  BY <1>1, <1>2, <1>4, <1>5, <1>6 DEF d

\* Each case has one stored record, which is the one that is looked up.
LEMMA StoredOnce ==
  ASSUME NEW d, IsSequence(d.cases), RecordsMatch(d), NEW id \in Ids(d.dataset)
  PROVE  \E k \in DOMAIN d.cases : Stored(d, id) = {k} /\ RecordOf(d, id) = d.cases[k]
<1>1. IsFiniteSet(Stored(d, id))
  <2>1. Stored(d, id) \in SUBSET (1..Len(d.cases)) /\ Len(d.cases) \in Int
    BY DEF Stored, IsSequence
  <2>2. IsFiniteSet(1..Len(d.cases))
    BY <2>1, FS_Interval
  <2> QED
    BY <2>1, <2>2, FS_Subset
<1>2. PICK k : Stored(d, id) = {k}
  BY <1>1, FS_Singleton DEF RecordsMatch
<1>3. k \in DOMAIN d.cases
  BY <1>2 DEF Stored
<1>4. (CHOOSE i \in Stored(d, id) : TRUE) = k
  BY <1>2
<1> QED
  BY <1>2, <1>3, <1>4 DEF RecordOf

\* What the files of d would be finished from.
AsInput(d) ==
    [setting |-> d.configuration, dataset |-> d.dataset, schema |-> d.schema,
     captured |-> [v \in Variants |-> [i \in DOMAIN d.dataset |-> RowOfCase(d, v, i)]],
     answers |-> [v \in Variants |-> [i \in DOMAIN d.dataset |-> AnswerOf(d, v, i)]]]

\* Where replay finds no mismatch, every row is one that retention keeps as it
\* is and scoring cannot tell from its sanitized view.
LEMMA RowsAsKept ==
  ASSUME Remembered, Verified(dir), NEW v \in Variants, NEW i \in DOMAIN dir.dataset
  PROVE  LET row == RowOfCase(dir, v, i) IN
         /\ Retained(row, dir.configuration) = row
         /\ Evaluated(dir.dataset[i], Sanitized(row), dir.configuration, dir.schema,
                      AnswerOf(dir, v, i))
              = Rescored(dir, v, i)
<1> DEFINE id == dir.dataset[i].id
           row == RowOfCase(dir, v, i)
<1>1. /\ dir.cases # None /\ dir.configuration # None
      /\ RecordsMatch(dir) /\ EqualRecords(dir, i)
  BY DEF Verified, Readable, Files
<1>2. id \in Ids(dir.dataset)
  BY DEF Ids
<1>3. PICK k \in DOMAIN dir.cases : RecordOf(dir, id) = dir.cases[k]
  BY <1>1, <1>2, StoredOnce DEF Remembered
<1>4. Remembers(Replayed(dir)[i], input.setting)
  BY <1>1, <1>3 DEF Remembered, EqualRecords
<1>5. /\ OutputOf(Replayed(dir)[i], v) = row
      /\ Replayed(dir)[i][v] = Rescored(dir, v, i)
  BY DEF Replayed, OutputOf, Record, Variants
<1>6. PICK captured : /\ IsRow(captured) /\ row = Retained(captured, input.setting)
                      /\ ParseError(row) = ParseError(Sanitized(captured))
  <2>1. Rescored(dir, v, i).parse_error = ParseError(row)
    BY ScoreTellsError DEF Rescored
  <2> QED
    BY <1>4, <1>5, <2>1 DEF Remembers, Repeats
<1>7. Retained(row, dir.configuration) = row
  BY <1>1, <1>6, RetainedTwice DEF Remembered
<1>8. Evaluated(dir.dataset[i], Sanitized(row), dir.configuration, dir.schema,
                AnswerOf(dir, v, i))
        = Evaluated(dir.dataset[i], row, dir.configuration, dir.schema, AnswerOf(dir, v, i))
  <2> HIDE DEF row
  <2> QED
    BY <1>6, RetainedScore
<1> QED
  BY <1>7, <1>8 DEF Rescored

\* What replay has verified would be written again.
LEMMA VerifiedRederived ==
  ASSUME Remembered
  PROVE  VerifiedIsRederived
<1> SUFFICES ASSUME Verified(dir)
             PROVE  LET made == Finished(dir.manifest.run, AsInput(dir)) IN
                    /\ {dir.cases[i] : i \in DOMAIN dir.cases}
                         = {made.cases[i] : i \in DOMAIN made.cases}
                    /\ dir.summary = made.summary
    BY DEF VerifiedIsRederived, AsInput
<1> DEFINE from == AsInput(dir)
           records == RecordsOf(from.dataset, from.captured, from.setting, from.schema,
                                from.answers)
<1>1. /\ from.dataset = dir.dataset /\ from.setting = dir.configuration
      /\ from.schema = dir.schema
      /\ \A v \in Variants : \A i \in DOMAIN dir.dataset :
            /\ from.captured[v][i] = RowOfCase(dir, v, i)
            /\ from.answers[v][i] = AnswerOf(dir, v, i)
  BY DEF AsInput
<1> HIDE DEF from
<1>2. records = Replayed(dir)
  <2>1. ASSUME NEW i \in DOMAIN dir.dataset
        PROVE  records[i] = Replayed(dir)[i]
    <3> DEFINE E(v) == Evaluated(from.dataset[i], Sanitized(from.captured[v][i]), from.setting,
                                 from.schema, from.answers[v][i])
    <3>1. \A v \in Variants :
             /\ Retained(from.captured[v][i], from.setting) = RowOfCase(dir, v, i)
             /\ E(v) = Rescored(dir, v, i)
      BY <1>1, RowsAsKept
    <3>2. records[i] = Record(from.dataset[i],
                              Retained(from.captured["baseline"][i], from.setting),
                              Retained(from.captured["candidate"][i], from.setting),
                              E("baseline"), E("candidate"))
      BY <1>1 DEF RecordsOf
    <3>3. Replayed(dir)[i]
            = Record(dir.dataset[i], RowOfCase(dir, "baseline", i),
                     RowOfCase(dir, "candidate", i), Rescored(dir, "baseline", i),
                     Rescored(dir, "candidate", i))
      BY DEF Replayed
    <3> HIDE DEF E, records
    <3> QED
      BY <1>1, <3>1, <3>2, <3>3 DEF Variants
  <2>2. /\ records = [i \in DOMAIN dir.dataset |-> records[i]]
        /\ Replayed(dir) = [i \in DOMAIN dir.dataset |-> Replayed(dir)[i]]
    BY <1>1 DEF RecordsOf, Replayed
  <2> HIDE DEF records
  <2> QED
    BY <2>1, <2>2
<1>3. /\ Finished(dir.manifest.run, from).cases = records
      /\ Finished(dir.manifest.run, from).summary
           = Summary(dir.manifest.run, dir.configuration, records)
  BY <1>1, FinishedFiles
<1> HIDE DEF records
<1>4. dir.summary = Finished(dir.manifest.run, from).summary
  BY <1>2, <1>3 DEF Verified, SummaryMatches
<1>5. /\ IsSequence(dir.cases) /\ RecordsMatch(dir)
      /\ \A i \in DOMAIN dir.dataset : RecordOf(dir, dir.dataset[i].id) = Replayed(dir)[i]
  BY DEF Verified, Readable, Files, Remembered, EqualRecords
<1>6. DOMAIN Replayed(dir) = DOMAIN dir.dataset
  BY DEF Replayed
<1>7. \A k \in DOMAIN dir.cases : \E i \in DOMAIN dir.dataset : dir.cases[k] = Replayed(dir)[i]
  <2> SUFFICES ASSUME NEW k \in DOMAIN dir.cases
               PROVE  \E i \in DOMAIN dir.dataset : dir.cases[k] = Replayed(dir)[i]
      OBVIOUS
  <2> DEFINE id == dir.cases[k].case.id
  <2>1. id \in Ids(dir.dataset) /\ k \in Stored(dir, id)
    BY <1>5 DEF RecordsMatch, Stored
  <2>2. RecordOf(dir, id) = dir.cases[k]
    BY <1>5, <2>1, StoredOnce
  <2>3. PICK i \in DOMAIN dir.dataset : dir.dataset[i].id = id
    BY <2>1 DEF Ids
  <2> QED
    BY <1>5, <2>2, <2>3
<1>8. \A i \in DOMAIN dir.dataset : \E k \in DOMAIN dir.cases : Replayed(dir)[i] = dir.cases[k]
  <2> SUFFICES ASSUME NEW i \in DOMAIN dir.dataset
               PROVE  \E k \in DOMAIN dir.cases : Replayed(dir)[i] = dir.cases[k]
      OBVIOUS
  <2>1. dir.dataset[i].id \in Ids(dir.dataset)
    BY DEF Ids
  <2> QED
    BY <1>5, <2>1, StoredOnce
<1>9. {dir.cases[i] : i \in DOMAIN dir.cases} = {records[i] : i \in DOMAIN records}
  BY <1>2, <1>6, <1>7, <1>8
<1> QED
  BY <1>3, <1>4, <1>9 DEF from

\* The rows that are finished are rows of their cases.
LEMMA CapturedRows ==
  ASSUME NEW made, Finishable(Run, made), NEW v \in Variants, NEW i \in DOMAIN made.dataset
  PROVE  /\ made.captured[v][i] \in Rows(made.dataset[i].id)
         /\ IsRow(made.captured[v][i])
         /\ made.captured[v][i].case = made.dataset[i].id
         /\ Acceptable(made.captured[v][i])
<1>1. made.captured[v][i] \in Rows(made.dataset[i].id) /\ Acceptable(made.captured[v][i])
  BY DEF Finishable
<1> QED
  BY <1>1, RowsAreRows

\* A finished record, part by part.
LEMMA RecordParts ==
  ASSUME NEW made, Finishable(Run, made), NEW i \in DOMAIN made.dataset
  PROVE  LET record == Finished(Run, made).cases[i]
             E(v) == Evaluated(made.dataset[i], Sanitized(made.captured[v][i]), made.setting,
                               made.schema, made.answers[v][i])
         IN  /\ record = Record(made.dataset[i],
                                Retained(made.captured["baseline"][i], made.setting),
                                Retained(made.captured["candidate"][i], made.setting),
                                E("baseline"), E("candidate"))
             /\ record.case = made.dataset[i]
             /\ {"baseline_output", "candidate_output", "baseline", "candidate"}
                   \subseteq DOMAIN record
             /\ \A v \in Variants :
                   /\ OutputOf(record, v) = Retained(made.captured[v][i], made.setting)
                   /\ record[v] = E(v)
<1> DEFINE E(v) == Evaluated(made.dataset[i], Sanitized(made.captured[v][i]), made.setting,
                             made.schema, made.answers[v][i])
           record == Finished(Run, made).cases[i]
<1>1. record = Record(made.dataset[i],
                      Retained(made.captured["baseline"][i], made.setting),
                      Retained(made.captured["candidate"][i], made.setting),
                      E("baseline"), E("candidate"))
  <2>1. Finished(Run, made).cases = RecordsOf(made.dataset, made.captured, made.setting,
                                              made.schema, made.answers)
    BY FinishedFiles
  <2> QED
    BY <2>1 DEF RecordsOf
<1> HIDE DEF E, record
<1>2. /\ record.case = made.dataset[i]
      /\ {"baseline_output", "candidate_output", "baseline", "candidate"} \subseteq DOMAIN record
      /\ record.baseline_output = Retained(made.captured["baseline"][i], made.setting)
      /\ record.candidate_output = Retained(made.captured["candidate"][i], made.setting)
      /\ record["baseline"] = E("baseline") /\ record["candidate"] = E("candidate")
  BY <1>1 DEF Record
<1>3. \A v \in Variants : /\ OutputOf(record, v) = Retained(made.captured[v][i], made.setting)
                          /\ record[v] = E(v)
  BY <1>2 DEF OutputOf, Variants
<1> QED
  BY <1>1, <1>2, <1>3 DEF E, record

\* A finished record remembers its rows.
LEMMA FinishedRemembers ==
  ASSUME Finishable(Run, input)
  PROVE  /\ IsSequence(Finished(Run, input).cases)
         /\ \A i \in DOMAIN Finished(Run, input).cases :
               Remembers(Finished(Run, input).cases[i], input.setting)
         /\ Finished(Run, input).configuration = input.setting
<1> DEFINE cases == Finished(Run, input).cases
<1>1. /\ cases = RecordsOf(input.dataset, input.captured, input.setting, input.schema,
                           input.answers)
      /\ Finished(Run, input).configuration = input.setting
  BY FinishedFiles
<1>2. DOMAIN cases = DOMAIN input.dataset
  BY <1>1 DEF RecordsOf
<1>3. IsSequence(cases)
  <2>1. DOMAIN cases = 1..Len(input.dataset) /\ Len(input.dataset) \in Nat
    BY <1>2 DEF Finishable
  <2> HIDE DEF cases
  <2>2. Len(cases) = Len(input.dataset)
    BY <2>1
  <2> QED
    BY <2>1, <2>2 DEF IsSequence
<1>4. ASSUME NEW i \in DOMAIN cases
      PROVE  Remembers(cases[i], input.setting)
  <2>1. i \in DOMAIN input.dataset
    BY <1>2
  <2>2. /\ {"baseline_output", "candidate_output", "baseline", "candidate"}
              \subseteq DOMAIN cases[i]
        /\ \A v \in Variants :
              /\ OutputOf(cases[i], v) = Retained(input.captured[v][i], input.setting)
              /\ cases[i][v] = Evaluated(input.dataset[i], Sanitized(input.captured[v][i]),
                                         input.setting, input.schema, input.answers[v][i])
    BY <2>1, RecordParts
  <2> HIDE DEF cases
  <2>3. ASSUME NEW v \in Variants
        PROVE  /\ "parse_error" \in DOMAIN cases[i][v]
               /\ IsRow(input.captured[v][i])
               /\ Repeats(cases[i], v, input.captured[v][i], input.setting)
    <3>1. cases[i][v].parse_error = ParseError(Sanitized(input.captured[v][i]))
      BY <2>2, ScoreTellsError
    <3>2. "parse_error" \in DOMAIN cases[i][v]
      BY <2>2, ScoreTellsError
    <3> QED
      BY <2>1, <2>2, <3>1, <3>2, CapturedRows DEF Repeats
  <2> QED
    BY <2>2, <2>3 DEF Remembers
<1> QED
  BY <1>1, <1>3, <1>4

\* The invariant: what was finished, and what every edit has left of it.
Evidence == Finishable(Run, input) /\ Remembered

\* The run that was just finished remembers its rows.
LEMMA EvidenceInitially ==
  ASSUME NEW made, NEW spent, NEW kinds, InitFrom(made, spent, kinds)
  PROVE  Evidence
<1>1. Finishable(Run, input) /\ dir = Finished(Run, input)
  BY DEF InitFrom
<1> QED
  BY <1>1, FinishedRemembers DEF Evidence, Remembered, Finishable

\* A record whose score was altered repeats what it did.
LEMMA AlteredRemembers ==
  ASSUME NEW setting, NEW record, Remembers(record, setting)
  PROVE  Remembers([record EXCEPT !.candidate.deployed = TRUE], setting)
<1> DEFINE altered == [record EXCEPT !.candidate.deployed = TRUE]
<1>1. /\ {"baseline_output", "candidate_output", "baseline", "candidate"} \subseteq DOMAIN record
      /\ "parse_error" \in DOMAIN record.candidate
  BY DEF Remembers, Variants
<1>2. /\ DOMAIN altered = DOMAIN record
      /\ altered.baseline_output = record.baseline_output
      /\ altered.candidate_output = record.candidate_output
      /\ altered.baseline = record.baseline
      /\ altered.candidate.parse_error = record.candidate.parse_error
      /\ DOMAIN altered.candidate = DOMAIN record.candidate
  BY <1>1
<1> HIDE DEF altered
<1>3. ASSUME NEW v \in Variants
      PROVE  /\ "parse_error" \in DOMAIN altered[v]
             /\ \E row : IsRow(row) /\ Repeats(altered, v, row, setting)
  <2>1. PICK row : IsRow(row) /\ Repeats(record, v, row, setting)
    BY DEF Remembers
  <2>2. "parse_error" \in DOMAIN record[v]
    BY DEF Remembers
  <2>3. /\ OutputOf(altered, v) = OutputOf(record, v)
        /\ altered[v].parse_error = record[v].parse_error
        /\ DOMAIN altered[v] = DOMAIN record[v]
    BY <1>2 DEF OutputOf, Variants
  <2> QED
    BY <2>1, <2>2, <2>3 DEF Repeats
<1> QED
  BY <1>1, <1>2, <1>3 DEF Remembers, altered

\* The first record with a score that was altered.
FirstDeployed(now) == [now EXCEPT ![1].candidate.deployed = TRUE]

\* Whatever order, part or alteration of the records an edit leaves.
LEMMA CasesEdited ==
  ASSUME NEW setting, NEW now, IsSequence(now), now # <<>>,
         \A i \in DOMAIN now : Remembers(now[i], setting),
         NEW content \in {Reversed(now), Tail(now), FirstDeployed(now)}
  PROVE  IsSequence(content) /\ \A i \in DOMAIN content : Remembers(content[i], setting)
<1> DEFINE n == Len(now)
<1>1. n \in Nat /\ DOMAIN now = 1..n
  BY DEF IsSequence
<1>2. CASE content = Reversed(now)
  <2>1. DOMAIN content = 1..n /\ \A i \in 1..n : content[i] = now[n + 1 - i]
    BY <1>1, <1>2 DEF Reversed
  <2> HIDE DEF n
  <2>2. Len(content) = n
    BY <1>1, <2>1
  <2>3. \A i \in 1..n : n + 1 - i \in 1..n
    BY <1>1
  <2> QED
    BY <1>1, <2>1, <2>2, <2>3 DEF IsSequence
<1>3. CASE content = Tail(now)
  <2>1. \/ n = 0
        \/ DOMAIN content = 1..(n - 1) /\ \A i \in 1..(n - 1) : content[i] = now[i + 1]
    BY <1>1, <1>3
  <2>2. n # 0
    BY <1>1
  <2> HIDE DEF n
  <2>3. Len(content) = n - 1
    BY <1>1, <2>1, <2>2
  <2> QED
    BY <1>1, <2>1, <2>2, <2>3 DEF IsSequence
<1>4. CASE content = FirstDeployed(now)
  <2>1. /\ DOMAIN content = 1..n
        /\ \A i \in 1..n :
              content[i] = IF i = 1 THEN [now[1] EXCEPT !.candidate.deployed = TRUE] ELSE now[i]
    BY <1>1, <1>4 DEF FirstDeployed
  <2> HIDE DEF n
  <2>2. Len(content) = n
    BY <1>1, <2>1
  <2> QED
    BY <1>1, <2>1, <2>2, AlteredRemembers DEF IsSequence
<1> QED
  BY <1>2, <1>3, <1>4

\* Every step keeps it.
LEMMA EvidenceStep == Shaped /\ Evidence /\ [Next]_vars => Evidence'
<1> SUFFICES ASSUME Shaped, Evidence, [Next]_vars PROVE Evidence'
    OBVIOUS
<1>1. /\ Finishable(Run, input) /\ Remembered
      /\ {"cases", "configuration"} \subseteq DOMAIN dir \ {"manifest"}
  BY DEF Evidence, Shaped, Files
<1>2. CASE UNCHANGED <<dir, input>>
  BY <1>1, <1>2 DEF Evidence, Remembered
<1>3. ASSUME input' = input,
             \/ dir'.cases = None
             \/ /\ IsSequence(dir'.cases)
                /\ \A i \in DOMAIN dir'.cases : Remembers(dir'.cases[i], input.setting),
             dir'.configuration \in
                {None, dir.configuration, input.setting,
                 [dir.configuration EXCEPT !.gate = "none"]},
             dir.configuration = None => dir'.configuration \in {None, input.setting}
      PROVE  Evidence'
  <2>1. Finishable(Run, input)'
    BY <1>1, <1>3
  <2>2. ASSUME dir'.configuration # None
        PROVE  /\ {"raw", "responses", "prompts"} \subseteq DOMAIN dir'.configuration
               /\ dir'.configuration.raw = input.setting.raw
               /\ dir'.configuration.responses = input.setting.responses
               /\ dir'.configuration.prompts = input.setting.prompts
    <3>1. CASE dir'.configuration = input.setting
      BY <1>1, <3>1 DEF Finishable
    <3>2. CASE dir.configuration # None /\ dir'.configuration # input.setting
      BY <1>1, <1>3, <2>2, <3>2 DEF Remembered
    <3> QED
      BY <1>3, <2>2, <3>1, <3>2
  <2>3. dir'.cases # None =>
           /\ IsSequence(dir'.cases)
           /\ \A i \in DOMAIN dir'.cases : Remembers(dir'.cases[i], input.setting)
    BY <1>3
  <2> QED
    BY <1>3, <2>1, <2>2, <2>3 DEF Evidence, Remembered
<1>4. ASSUME NEW f \in Files, EditFile(f) PROVE Evidence'
  <2>1. /\ \A g \in DOMAIN dir \ {f} : dir'[g] = dir[g]
        /\ input' = input
    BY <1>4, FileEdited
  <2>2. PICK content \in {None, Finished(Run, input)[f]}
                            \cup (IF dir[f] \in {None, <<>>} THEN {} ELSE Altered(f)) :
           dir' = [dir EXCEPT ![f] = content]
    BY <1>4 DEF EditFile
  <2>3. dir'[f] = content
    BY <2>2 DEF Shaped
  <2>4. CASE f = "cases"
    <3>1. dir'.configuration = dir.configuration
      BY <1>1, <2>1, <2>4
    <3>2. CASE content \in {None, Finished(Run, input).cases}
      BY <1>1, <1>3, <2>1, <2>3, <2>4, <3>1, <3>2, FinishedRemembers
    <3>3. CASE content \notin {None, Finished(Run, input).cases}
      <4>1. /\ dir.cases # None /\ dir.cases # <<>>
            /\ content \in {Reversed(dir.cases), Tail(dir.cases), FirstDeployed(dir.cases)}
        BY <2>2, <2>4, <3>3 DEF Altered, FirstDeployed
      <4>2. IsSequence(content) /\ \A i \in DOMAIN content : Remembers(content[i], input.setting)
        BY <1>1, <4>1, CasesEdited DEF Remembered
      <4> QED
        BY <1>3, <2>1, <2>3, <2>4, <3>1, <4>2
    <3> QED
      BY <3>2, <3>3
  <2>5. CASE f # "cases"
    <3>1. dir'.cases = dir.cases
      BY <1>1, <2>1, <2>5
    <3>2. CASE f = "configuration"
      <4>1. \/ content \in {None, input.setting}
            \/ dir.configuration # None
                 /\ content = [dir.configuration EXCEPT !.gate = "none"]
        BY <1>1, <2>2, <3>2, FinishedRemembers DEF Altered
      <4> QED
        BY <1>1, <1>3, <2>1, <2>3, <3>1, <3>2, <4>1 DEF Remembered
    <3>3. CASE f # "configuration"
      <4>1. dir'.configuration = dir.configuration
        BY <1>1, <2>1, <3>3
      <4> QED
        BY <1>1, <1>3, <2>1, <3>1, <4>1 DEF Remembered
    <3> QED
      BY <3>2, <3>3
  <2> QED
    BY <2>4, <2>5
<1>5. ASSUME NEW f \in Files, Rebind(f) PROVE Evidence'
  <2>1. dir'.cases = dir.cases /\ dir'.configuration = dir.configuration /\ input' = input
    BY <1>1, <1>5, Rebound
  <2> QED
    BY <1>1, <1>3, <2>1 DEF Remembered
<1>6. ASSUME NEW q \in Requests, RequestStep(q) PROVE Evidence'
  <2>1. input' = input
    BY <1>6
    DEF RequestStep, OnlyRequests, Begin, InspectHashes, InspectReplay, ReadForReceipt,
        WriteReceipt, RespondRun, ListRuns, FindIndex, ReadRows, RenameIndex, ShowPage,
        GateStart, GateReplay, GateDecide, ArchiveStart, CopyFile, FinishArchive, DeleteRun
  <2>2. CASE dir' = dir
    BY <1>2, <2>1, <2>2
  <2>3. CASE dir' # dir
    <3>1. DeleteRun(q)
      BY <1>6, <2>3
      DEF RequestStep, OnlyRequests, Begin, InspectHashes, InspectReplay, ReadForReceipt,
          WriteReceipt, RespondRun, ListRuns, FindIndex, ReadRows, RenameIndex, ShowPage,
          GateStart, GateReplay, GateDecide, ArchiveStart, CopyFile, FinishArchive
    <3>2. dir' = [f \in DOMAIN dir |-> None]
      BY <2>3, <3>1 DEF DeleteRun
    <3>3. dir'.cases = None /\ dir'.configuration = None
      BY <1>1, <3>2
    <3> QED
      BY <1>3, <2>1, <3>3
  <2> QED
    BY <2>2, <2>3
<1> QED
  BY <1>2, <1>4, <1>5, <1>6 DEF Next, Edit, vars

-----------------------------------------------------------------------------
(* A finished run that nobody touched                                      *)

\* A score repeats what the external program answered.
LEMMA ScoreTellsAnswer ==
  ASSUME NEW case, NEW row, NEW setting, NEW schema, NEW answer
  PROVE  Evaluated(case, row, setting, schema, answer).results.external = answer
BY DEF Evaluated, S!ResultsOf

\* The fields of a manifest.
LEMMA ManifestFields ==
  ASSUME NEW run, NEW setting, NEW files
  PROVE  LET m == Manifest(run, setting, files) IN
         /\ m.format = "supported" /\ m.status = "complete" /\ m.run = run
         /\ DOMAIN m.bound = {g \in Files : files[g] # None}
         /\ \A f \in DOMAIN m.bound : m.bound[f] = files[f]
         /\ m.configuration = setting /\ m.source = files.source
         /\ m.dataset = files.dataset /\ m.schema = files.schema
         /\ m.evaluation = setting.evaluator /\ m.gate = setting.gate
BY DEF Manifest

\* What a finished directory says about itself holds.
LEMMA FinishedAgrees ==
  ASSUME NEW made, Finishable(Run, made)
  PROVE  LET d == Finished(Run, made) IN
         /\ HashesMatch(d) /\ CopiesMatch(d)
         /\ d.manifest # None /\ d.manifest.format = "supported"
         /\ \A f \in DOMAIN d.manifest.bound : d[f] # None
         /\ \A f \in Files \ {"receipts", "report"} : d[f] # None
         /\ d.configuration.evaluator # None => d.receipts # None
         /\ d.manifest.run = Run
<1> DEFINE d == Finished(Run, made)
           files == FilesOf(Run, made)
<1>1. /\ \A f \in Files : d[f] = files[f]
      /\ d.manifest = Manifest(Run, made.setting, files)
      /\ d.configuration = made.setting /\ d.dataset = made.dataset /\ d.schema = made.schema
  BY FinishedFiles
<1>2. /\ \A f \in (Files \cup {"manifest"}) \ {"receipts"} : d[f] # None
      /\ made.setting.evaluator # None => d.receipts # None
  BY DEF Finishable, Files
<1> HIDE DEF d, files
<1>3. /\ d.manifest.format = "supported" /\ d.manifest.run = Run
      /\ DOMAIN d.manifest.bound = {g \in Files : files[g] # None}
      /\ \A f \in DOMAIN d.manifest.bound : d.manifest.bound[f] = files[f]
      /\ d.manifest.configuration = made.setting /\ d.manifest.source = files.source
      /\ d.manifest.dataset = files.dataset /\ d.manifest.schema = files.schema
      /\ d.manifest.evaluation = made.setting.evaluator /\ d.manifest.gate = made.setting.gate
  BY <1>1, ManifestFields
<1>4. {"source", "dataset", "schema"} \subseteq Files
  BY DEF Files
<1>5. HashesMatch(d)
  BY <1>1, <1>3, <1>4 DEF HashesMatch
<1>6. CopiesMatch(d)
  BY <1>1, <1>3 DEF CopiesMatch
<1> QED
  BY <1>1, <1>2, <1>3, <1>5, <1>6 DEF d

\* The records are one for each case.
LEMMA FinishedCases ==
  ASSUME NEW made
  PROVE  DOMAIN Finished(Run, made).cases = DOMAIN made.dataset
<1>1. Finished(Run, made).cases = RecordsOf(made.dataset, made.captured, made.setting,
                                            made.schema, made.answers)
  BY FinishedFiles
<1>2. DOMAIN RecordsOf(made.dataset, made.captured, made.setting, made.schema, made.answers)
        = DOMAIN made.dataset
  BY DEF RecordsOf
<1> QED
  BY <1>1, <1>2

\* Each case finds its own retained row and its own record.
LEMMA FinishedLookup ==
  ASSUME NEW made, Finishable(Run, made), NEW i \in DOMAIN made.dataset
  PROVE  LET d == Finished(Run, made) IN
         /\ \A v \in Variants :
               RowOfCase(d, v, i) = Retained(made.captured[v][i], made.setting)
         /\ Stored(d, made.dataset[i].id) = {i}
         /\ RecordOf(d, made.dataset[i].id) = d.cases[i]
<1> DEFINE d == Finished(Run, made)
           id == made.dataset[i].id
<1>1. /\ d.dataset = made.dataset
      /\ \A v \in Variants :
            d[v] = [j \in DOMAIN made.dataset |-> Retained(made.captured[v][j], made.setting)]
  BY FinishedFiles
<1>2. DOMAIN d.cases = DOMAIN made.dataset
  BY FinishedCases
<1>3. \A j \in DOMAIN made.dataset : d.cases[j].case = made.dataset[j]
  BY RecordParts
<1>4. \A j \in DOMAIN made.dataset : made.dataset[j].id = id <=> j = i
  BY DEF Finishable
<1>5. \A v \in Variants : \A j \in DOMAIN made.dataset :
         Retained(made.captured[v][j], made.setting).case = made.dataset[j].id
  BY CapturedRows, RetainedFields
<1> HIDE DEF d
<1>6. ASSUME NEW v \in Variants
      PROVE  RowOfCase(d, v, i) = Retained(made.captured[v][i], made.setting)
  <2>1. /\ DOMAIN d[v] = DOMAIN made.dataset
        /\ \A j \in DOMAIN made.dataset : d[v][j] = Retained(made.captured[v][j], made.setting)
    BY <1>1
  <2>2. \A j \in DOMAIN d[v] : d[v][j].case = id <=> j = i
    BY <1>4, <1>5, <2>1
  <2>3. i \in DOMAIN d[v] /\ d[v][i] = Retained(made.captured[v][i], made.setting)
    BY <1>1
  <2>4. RowOf(d[v], id) = d[v][i]
    BY <2>2, <2>3 DEF RowOf
  <2> QED
    BY <1>1, <2>3, <2>4 DEF RowOfCase
<1>7. Stored(d, id) = {i}
  BY <1>1, <1>3, <1>4, <1>2 DEF Stored
<1>8. RecordOf(d, id) = d.cases[i]
  BY <1>7 DEF RecordOf
<1> QED
  BY <1>6, <1>7, <1>8 DEF d

\* One record for each case.
LEMMA FinishedRecords ==
  ASSUME NEW made, Finishable(Run, made)
  PROVE  RecordsMatch(Finished(Run, made))
<1> DEFINE d == Finished(Run, made)
<1>1. d.dataset = made.dataset /\ DOMAIN d.cases = DOMAIN made.dataset
  BY FinishedFiles, FinishedCases
<1>2. \A j \in DOMAIN made.dataset : d.cases[j].case = made.dataset[j]
  BY RecordParts
<1>3. \A j \in DOMAIN made.dataset : Stored(d, made.dataset[j].id) = {j}
  BY FinishedLookup
<1> HIDE DEF d
<1>4. \A id \in Ids(d.dataset) : Cardinality(Stored(d, id)) = 1
  BY <1>1, <1>3, FS_Singleton DEF Ids
<1> QED
  BY <1>1, <1>2, <1>4 DEF RecordsMatch, Ids, d

-----------------------------------------------------------------------------
(* The rows that can be read back                                          *)

\* An output that was delivered and is not strict JSON.
Unparsed(made, v, i) ==
    made.captured[v][i].status = "ok" /\ Strict(made.captured[v][i]) = None

\* A retained row is accepted unless its only text was removed.
LEMMA RetainedAcceptable ==
  ASSUME NEW made, Finishable(Run, made), NEW v \in Variants, NEW i \in DOMAIN made.dataset
  PROVE  Acceptable(Retained(made.captured[v][i], made.setting))
            <=> made.setting.raw \/ ~Unparsed(made, v, i)
<1> DEFINE row == made.captured[v][i]
           kept == Retained(row, made.setting)
<1>1. IsRow(row) /\ Acceptable(row)
  BY CapturedRows
<1>2. /\ kept.status = row.status
      /\ kept.raw = RawKept(row, made.setting) /\ kept.parsed = ParsedKept(row, made.setting)
      /\ kept.error = ErrorKept(row, made.setting)
  BY <1>1, RetainedFields
<1>3. kept.error = None <=> row.error = None
  BY <1>2, ReplayAssumption DEF ErrorKept, Redacted, Errors
<1>4. row.status # "ok" => Strict(row) = None
  BY <1>1, ReplayAssumption DEF Acceptable, Strict
<1>5. made.setting.raw \in BOOLEAN
  BY DEF Finishable
<1>6. Unparsed(made, v, i) <=> row.status = "ok" /\ Strict(row) = None
  BY DEF Unparsed
<1> HIDE DEF row, kept
<1>7. CASE made.setting.raw
  <2>1. kept.raw = row.raw /\ kept.parsed = row.parsed
    BY <1>2, <1>7 DEF RawKept, ParsedKept
  <2>2. Acceptable(kept)
    BY <1>1, <1>2, <1>3, <2>1 DEF Acceptable
  <2> QED
    BY <1>7, <2>2 DEF row, kept
<1>8. CASE ~made.setting.raw
  <2>1. kept.raw = None /\ kept.parsed = Strict(row)
    BY <1>2, <1>8 DEF RawKept, ParsedKept
  <2>2. Acceptable(kept) <=> ~(row.status = "ok" /\ Strict(row) = None)
    BY <1>1, <1>2, <1>3, <1>4, <2>1 DEF Acceptable
  <2> QED
    BY <1>8, <1>6, <2>2 DEF row, kept
<1> QED
  BY <1>7, <1>8 DEF row, kept

\* A finished directory can be read unless outputs that did not parse were
\* left without their text.
LEMMA FinishedReadable ==
  ASSUME NEW made, Finishable(Run, made)
  PROVE  Readable(Finished(Run, made))
            <=> made.setting.raw
                  \/ \A v \in Variants : \A i \in DOMAIN made.dataset : ~Unparsed(made, v, i)
<1> DEFINE d == Finished(Run, made)
<1>1. /\ d.dataset = made.dataset
      /\ \A v \in Variants :
            d[v] = [j \in DOMAIN made.dataset |-> Retained(made.captured[v][j], made.setting)]
  BY FinishedFiles
<1>2. \A v \in Variants : \A j \in DOMAIN made.dataset :
         Retained(made.captured[v][j], made.setting).case = made.dataset[j].id
  BY CapturedRows, RetainedFields
<1>3. \A j, k \in DOMAIN made.dataset : j # k => made.dataset[j].id # made.dataset[k].id
  BY DEF Finishable
<1>4. /\ d.manifest # None /\ d.manifest.format = "supported"
      /\ \A f \in DOMAIN d.manifest.bound : d[f] # None
      /\ \A f \in Files \ {"receipts", "report"} : d[f] # None
      /\ d.configuration.evaluator # None => d.receipts # None
  BY FinishedAgrees
<1>5. \A v \in Variants : \A i \in DOMAIN made.dataset :
         Acceptable(Retained(made.captured[v][i], made.setting))
            <=> made.setting.raw \/ ~Unparsed(made, v, i)
  BY RetainedAcceptable
<1> HIDE DEF d
<1>6. Readable(d) <=> \A v \in Variants : OutputsRead(d[v], d.dataset)
  BY <1>4 DEF Readable, InputFiles, Variants
<1>7. ASSUME NEW v \in Variants
      PROVE  OutputsRead(d[v], d.dataset)
               <=> \A i \in DOMAIN made.dataset : made.setting.raw \/ ~Unparsed(made, v, i)
  <2>1. DOMAIN d[v] = DOMAIN made.dataset
    BY <1>1
  <2>2. \A j \in DOMAIN made.dataset :
           /\ d[v][j] = Retained(made.captured[v][j], made.setting)
           /\ d[v][j].case = made.dataset[j].id
    BY <1>1, <1>2
  <2>3. \A j \in DOMAIN made.dataset : d[v][j].case \in Ids(d.dataset)
    BY <1>1, <2>2 DEF Ids
  <2> QED
    BY <1>3, <1>5, <2>1, <2>2, <2>3 DEF OutputsRead
<1> QED
  BY <1>6, <1>7 DEF d

-----------------------------------------------------------------------------
(* The receipts of a finished run                                          *)

\* The view of an output that an external evaluator is given, field by field.
StableText(row) ==
    IF row.parsed # None THEN row.parsed
    ELSE IF row.raw \in Values THEN row.raw ELSE None

\* The row that such a view is.
LEMMA StableRow ==
  ASSUME NEW row, IsRow(row)
  PROVE  StableOutput(row)
            = Row(row.case, row.status, StableText(row), StableText(row),
                  Redacted(row.error), row.notes \ {"response", "prompt"})
<1> DEFINE c == row.case
           s == row.status
           r0 == row.raw
           p0 == row.parsed
           e == Redacted(row.error)
           n == row.notes \ {"response", "prompt"}
           t == StableText(row)
           clean == Sanitized(row)
<1>1. StableOutput(row) = [clean EXCEPT !.raw = t, !.parsed = t]
  BY DEF StableOutput, StableText
<1>2. clean = Row(c, s, r0, p0, e, n)
  BY SanitizedRow
<1> HIDE DEF c, s, r0, p0, e, n, t, clean
<1>3. [Row(c, s, r0, p0, e, n) EXCEPT !.raw = t] = Row(c, s, t, p0, e, n)
  BY DEF Row
<1>4. [Row(c, s, t, p0, e, n) EXCEPT !.parsed = t] = Row(c, s, t, t, e, n)
  BY DEF Row
<1>5. [clean EXCEPT !.raw = t, !.parsed = t] = [[clean EXCEPT !.raw = t] EXCEPT !.parsed = t]
  OBVIOUS
<1> QED
  BY <1>1, <1>2, <1>3, <1>4, <1>5 DEF c, s, e, n, t

\* A retained row asks an external evaluator what the captured one asked,
\* exactly when its text was retained.
LEMMA SameQuestion ==
  ASSUME NEW made, Finishable(Run, made), NEW v \in Variants, NEW i \in DOMAIN made.dataset
  PROVE  StableOutput(Retained(made.captured[v][i], made.setting))
              = StableOutput(Sanitized(made.captured[v][i]))
            <=> made.setting.raw
<1> DEFINE row == made.captured[v][i]
           kept == Retained(row, made.setting)
           clean == Sanitized(row)
<1>1. IsRow(row) /\ row \in Rows(made.dataset[i].id)
  BY CapturedRows
<1>2. /\ IsRow(kept) /\ kept.case = row.case /\ kept.status = row.status
      /\ kept.raw = RawKept(row, made.setting) /\ kept.parsed = ParsedKept(row, made.setting)
      /\ kept.error = ErrorKept(row, made.setting)
      /\ kept.notes = AllNotes(row, made.setting) \ Dropped(made.setting)
  BY <1>1, RetainedFields
<1>3. /\ IsRow(clean) /\ clean.case = row.case /\ clean.status = row.status
      /\ clean.raw = row.raw /\ clean.parsed = row.parsed /\ clean.error = Redacted(row.error)
      /\ clean.notes = row.notes \ {"response", "prompt"}
  BY <1>1, SanitizedFields
<1>4. "parse receipt" \notin row.notes
  BY <1>1 DEF Rows
<1>5. Redacted(kept.error) = Redacted(row.error) /\ Redacted(clean.error) = Redacted(row.error)
  BY <1>2, <1>3 DEF ErrorKept, Redacted
<1> HIDE DEF row, kept, clean
<1>6. /\ StableOutput(kept)
           = Row(row.case, row.status, StableText(kept), StableText(kept),
                 Redacted(row.error), kept.notes \ {"response", "prompt"})
      /\ StableOutput(clean)
           = Row(row.case, row.status, StableText(clean), StableText(clean),
                 Redacted(row.error), clean.notes \ {"response", "prompt"})
  BY <1>2, <1>3, <1>5, StableRow
<1>7. CASE made.setting.raw
  <2>1. kept.raw = clean.raw /\ kept.parsed = clean.parsed
    BY <1>2, <1>3, <1>7 DEF RawKept, ParsedKept
  <2>2. StableText(kept) = StableText(clean)
    BY <2>1 DEF StableText
  <2>3. kept.notes \ {"response", "prompt"} = clean.notes \ {"response", "prompt"}
    BY <1>2, <1>3, <1>7 DEF AllNotes, Dropped
  <2> QED
    BY <1>6, <1>7, <2>2, <2>3 DEF row, kept, clean
<1>8. CASE ~made.setting.raw
  <2>1. /\ "parse receipt" \in kept.notes \ {"response", "prompt"}
        /\ "parse receipt" \notin clean.notes \ {"response", "prompt"}
    BY <1>2, <1>3, <1>4, <1>8 DEF AllNotes, NotesKept, Dropped
  <2>2. kept.notes \ {"response", "prompt"} # clean.notes \ {"response", "prompt"}
    BY <2>1
  <2>3. StableOutput(kept).notes # StableOutput(clean).notes
    BY <1>6, <2>2, RowFields
  <2> QED
    BY <1>8, <2>3 DEF row, kept, clean
<1> QED
  BY <1>7, <1>8

\* Two sequences of one length, one after the other.
LEMMA Joined ==
  ASSUME NEW s, NEW t, NEW n \in Nat,
         s = [i \in 1..n |-> s[i]], t = [i \in 1..n |-> t[i]]
  PROVE  /\ Len(s \o t) = 2 * n /\ DOMAIN (s \o t) = 1..(2 * n)
         /\ \A i \in 1..n : (s \o t)[i] = s[i] /\ (s \o t)[n + i] = t[i]
<1> DEFINE All == {s[i] : i \in 1..n} \cup {t[i] : i \in 1..n}
<1>1. \A i \in 1..n : s[i] \in All /\ t[i] \in All
  OBVIOUS
<1> HIDE DEF All
<1>2. s \in Seq(All) /\ Len(s) = n
  BY <1>1
<1>3. t \in Seq(All) /\ Len(t) = n
  BY <1>1
<1>4. /\ s \o t \in Seq(All) /\ Len(s \o t) = n + n
      /\ \A i \in 1..(n + n) : (s \o t)[i] = IF i <= n THEN s[i] ELSE t[i - n]
  BY <1>2, <1>3, ConcatProperties
<1>5. Len(s \o t) = 2 * n /\ DOMAIN (s \o t) = 1..(2 * n)
  BY <1>4
<1>6. ASSUME NEW i \in 1..n
      PROVE  (s \o t)[i] = s[i] /\ (s \o t)[n + i] = t[i]
  <2>1. i \in 1..(n + n) /\ n + i \in 1..(n + n) /\ i <= n /\ ~(n + i <= n) /\ n + i - n = i
    OBVIOUS
  <2> QED
    BY <1>4, <2>1
<1> QED
  BY <1>5, <1>6

\* Where a run keeps the receipt of a case and variant.
Place(made, v, i) == IF v = "baseline" THEN i ELSE Len(made.dataset) + i

\* The receipts of a finished run are one for each case and variant.
LEMMA FinishedReceipts ==
  ASSUME NEW made, Finishable(Run, made), made.setting.evaluator # None
  PROVE  LET d == Finished(Run, made) IN
         /\ Len(d.receipts) = 2 * Len(made.dataset)
         /\ \A v \in Variants : \A i \in DOMAIN made.dataset :
               /\ ReceiptsFor(d, v, i) = {Place(made, v, i)}
               /\ d.receipts[Place(made, v, i)]
                    = Receipt(made.dataset[i], Sanitized(made.captured[v][i]), v, made.setting,
                              made.answers[v][i])
<1> DEFINE d == Finished(Run, made)
           n == Len(made.dataset)
           Of(v) == [i \in DOMAIN made.dataset |->
                       Receipt(made.dataset[i], Sanitized(made.captured[v][i]), v,
                               made.setting, made.answers[v][i])]
           all == d.receipts
<1>1. n \in Nat \ {0} /\ DOMAIN made.dataset = 1..n
  BY DEF Finishable
<1>2. all = Of("baseline") \o Of("candidate")
  <2>1. all = ReceiptsOf(made.dataset, made.captured, made.setting, made.answers)
    BY FinishedFiles
  <2> HIDE DEF all, d
  <2> QED
    BY <2>1 DEF ReceiptsOf
<1>3. \A v \in Variants : \A i \in 1..n :
         /\ Of(v)[i] = Receipt(made.dataset[i], Sanitized(made.captured[v][i]), v,
                               made.setting, made.answers[v][i])
         /\ Of(v)[i].case = made.dataset[i].id /\ Of(v)[i].variant = v
  BY <1>1 DEF Receipt
<1>4. \A v \in Variants : Of(v) = [i \in 1..n |-> Of(v)[i]]
  BY <1>1
<1>5. \A i, j \in 1..n : made.dataset[i].id = made.dataset[j].id <=> i = j
  BY <1>1 DEF Finishable
<1>6. d.dataset = made.dataset
  BY FinishedFiles
<1> HIDE DEF n, Of, all, d
<1>7. /\ Len(all) = 2 * n /\ DOMAIN all = 1..(2 * n)
      /\ \A i \in 1..n : all[i] = Of("baseline")[i] /\ all[n + i] = Of("candidate")[i]
  BY <1>1, <1>2, <1>4, Joined DEF Variants
<1>8. /\ \A j \in 1..n : Place(made, "baseline", j) = j /\ Place(made, "candidate", j) = n + j
      /\ \A u \in Variants : \A j \in 1..n : Place(made, u, j) \in 1..(2 * n)
  BY <1>1 DEF Place, Variants, n
<1>9. ASSUME NEW r \in 1..(2 * n)
      PROVE  \E u \in Variants : \E j \in 1..n : r = Place(made, u, j)
  <2>1. CASE r <= n
    <3>1. r \in 1..n /\ r = Place(made, "baseline", r)
      BY <1>1, <1>8, <2>1
    <3> QED
      BY <3>1 DEF Variants
  <2>2. CASE ~(r <= n)
    <3>1. r - n \in 1..n /\ r = n + (r - n)
      BY <1>1, <2>2
    <3>2. r = Place(made, "candidate", r - n)
      BY <1>8, <3>1
    <3> QED
      BY <3>1, <3>2 DEF Variants
  <2> QED
    BY <2>1, <2>2
<1>10. ASSUME NEW v \in Variants, NEW i \in 1..n
      PROVE  /\ ReceiptsFor(d, v, i) = {Place(made, v, i)}
             /\ all[Place(made, v, i)] = Of(v)[i]
  <2>1. \A u \in Variants : \A j \in 1..n :
           Place(made, u, j) \in 1..(2 * n) /\ all[Place(made, u, j)] = Of(u)[j]
    BY <1>7, <1>8 DEF Variants
  <2>2. ASSUME NEW r \in DOMAIN all
        PROVE  all[r].case = made.dataset[i].id /\ all[r].variant = v
                 <=> r = Place(made, v, i)
    <3>1. PICK u \in Variants, j \in 1..n : r = Place(made, u, j)
      BY <1>7, <1>9, <2>1
    <3>2. all[r].case = made.dataset[j].id /\ all[r].variant = u
      BY <1>3, <2>1, <3>1
    <3>3. all[r].case = made.dataset[i].id /\ all[r].variant = v => r = Place(made, v, i)
      BY <1>5, <3>1, <3>2
    <3>4. all[Place(made, v, i)].case = made.dataset[i].id /\ all[Place(made, v, i)].variant = v
      BY <1>3, <2>1
    <3> QED
      BY <3>3, <3>4
  <2>3. ReceiptsFor(d, v, i) = {r \in DOMAIN all : r = Place(made, v, i)}
    BY <1>6, <2>2 DEF ReceiptsFor, all
  <2> QED
    BY <1>7, <2>1, <2>3
<1> QED
  BY <1>1, <1>3, <1>7, <1>10 DEF d, all, n

\* The receipt of a case: what it repeats.
LEMMA ReceiptFields ==
  ASSUME NEW case, NEW row, NEW v, NEW setting, NEW answer
  PROVE  LET r == Receipt(case, row, v, setting, answer) IN
         /\ r.request = Request(case, row, v)
         /\ r.definition = setting.evaluator /\ r.response = answer /\ r.result = answer
BY DEF Receipt

\* Requests differ where what they ask about does.
LEMMA RequestsTell ==
  ASSUME NEW case, NEW v, NEW a, NEW b
  PROVE  Request(case, a, v) = Request(case, b, v) <=> StableOutput(a) = StableOutput(b)
BY DEF Request

\* Replay scores a finished run with the answers it was given, and its receipts
\* bind what replay asks exactly when the texts were retained.
LEMMA FinishedAnswers ==
  ASSUME NEW made, Finishable(Run, made)
  PROVE  LET d == Finished(Run, made) IN
         /\ \A v \in Variants : \A i \in DOMAIN made.dataset :
               AnswerOf(d, v, i) = made.answers[v][i]
         /\ ReceiptsMatch(d) <=> made.setting.evaluator = None \/ made.setting.raw
<1> DEFINE d == Finished(Run, made)
           n == Len(made.dataset)
<1>1. d.dataset = made.dataset /\ d.configuration = made.setting
  BY FinishedFiles
<1>2. CASE made.setting.evaluator = None
  <2>1. \A v \in Variants : \A i \in DOMAIN made.dataset :
           made.answers[v][i] = "not_applicable"
    BY <1>2 DEF Finishable
  <2> HIDE DEF d
  <2>2. ReceiptsMatch(d)
    BY <1>1, <1>2 DEF ReceiptsMatch
  <2>3. \A v \in Variants : \A i \in DOMAIN made.dataset :
           AnswerOf(d, v, i) = made.answers[v][i]
    BY <1>1, <1>2, <2>1 DEF AnswerOf
  <2> QED
    BY <1>2, <2>2, <2>3 DEF d
<1>3. CASE made.setting.evaluator # None
  <2> DEFINE place(v, i) == Place(made, v, i)
             one(v, i) == d.receipts[place(v, i)]
  <2>1. /\ Len(d.receipts) = 2 * n
        /\ \A v \in Variants : \A i \in DOMAIN made.dataset :
              /\ ReceiptsFor(d, v, i) = {place(v, i)}
              /\ one(v, i) = Receipt(made.dataset[i], Sanitized(made.captured[v][i]), v,
                                     made.setting, made.answers[v][i])
    BY <1>3, FinishedReceipts
  <2>2. \A v \in Variants : \A i \in DOMAIN made.dataset :
           /\ one(v, i).request = Request(made.dataset[i], Sanitized(made.captured[v][i]), v)
           /\ one(v, i).definition = made.setting.evaluator
           /\ one(v, i).response = made.answers[v][i] /\ one(v, i).result = made.answers[v][i]
    BY <2>1, ReceiptFields
  <2>3. \A v \in Variants : \A i \in DOMAIN made.dataset :
           /\ RowOfCase(d, v, i) = Retained(made.captured[v][i], made.setting)
           /\ RecordOf(d, made.dataset[i].id)[v].results.external = made.answers[v][i]
    <3> TAKE v \in Variants
    <3> TAKE i \in DOMAIN made.dataset
    <3>1. /\ RowOfCase(d, v, i) = Retained(made.captured[v][i], made.setting)
          /\ RecordOf(d, made.dataset[i].id) = d.cases[i]
      BY FinishedLookup
    <3>2. d.cases[i][v] = Evaluated(made.dataset[i], Sanitized(made.captured[v][i]), made.setting,
                                    made.schema, made.answers[v][i])
      BY RecordParts
    <3> HIDE DEF d
    <3> QED
      BY <3>1, <3>2, ScoreTellsAnswer
  <2>4. \A v \in Variants : \A i \in DOMAIN made.dataset :
           Request(made.dataset[i], Sanitized(made.captured[v][i]), v)
              = Request(made.dataset[i], Retained(made.captured[v][i], made.setting), v)
             <=> made.setting.raw
    BY SameQuestion, RequestsTell
  <2>5. n \in Nat \ {0} /\ 1 \in DOMAIN made.dataset
    BY DEF Finishable
  <2> HIDE DEF d, n, one, place
  <2>6. \A v \in Variants : \A i \in DOMAIN made.dataset :
           AnswerOf(d, v, i) = made.answers[v][i]
    BY <1>1, <1>3, <2>1, <2>2 DEF AnswerOf, one
  <2>7. \A v \in Variants : \A i \in DOMAIN made.dataset :
           Bound(d, v, i, one(v, i)) <=> made.setting.raw
    BY <1>1, <2>2, <2>3, <2>4 DEF Bound
  <2>8. \A v \in Variants : \A i \in DOMAIN made.dataset : \A r \in ReceiptsFor(d, v, i) :
           /\ Bound(d, v, i, d.receipts[r]) <=> made.setting.raw
           /\ RecordOf(d, made.dataset[i].id)[v].results.external = d.receipts[r].result
    BY <2>1, <2>2, <2>3, <2>7 DEF one
  <2>9. \A v \in Variants : \A i \in DOMAIN made.dataset :
           Cardinality(ReceiptsFor(d, v, i)) = 1
    <3>1. \A r : Cardinality({r}) = 1
      BY FS_Singleton
    <3>2. \A v \in Variants : \A i \in DOMAIN made.dataset :
             ReceiptsFor(d, v, i) = {place(v, i)}
      BY <2>1
    <3> QED
      BY <3>1, <3>2
  <2>10. made.setting.raw => ReceiptsMatch(d)
    BY <1>1, <2>1, <2>8, <2>9 DEF ReceiptsMatch, n
  <2>11. ReceiptsMatch(d) => made.setting.raw
    <3>1. place("baseline", 1) \in ReceiptsFor(d, "baseline", 1) /\ "baseline" \in Variants
      BY <2>1, <2>5 DEF Variants
    <3> QED
      BY <1>1, <1>3, <2>5, <2>8, <3>1 DEF ReceiptsMatch
  <2> QED
    BY <1>3, <2>6, <2>10, <2>11 DEF d
<1> QED
  BY <1>2, <1>3

-----------------------------------------------------------------------------
(* The records of a finished run, replayed                                 *)

\* The words of a provider, retained.
Echoed(made, v, i) == made.setting.responses /\ made.captured[v][i].error = "echoed"

\* Where the output can be read back, its retained row has the error that was
\* scored unless the words of a provider were retained.
LEMMA SameError ==
  ASSUME NEW made, Finishable(Run, made), NEW v \in Variants, NEW i \in DOMAIN made.dataset,
         made.setting.raw \/ ~Unparsed(made, v, i)
  PROVE  ParseError(Retained(made.captured[v][i], made.setting))
              = ParseError(Sanitized(made.captured[v][i]))
            <=> ~Echoed(made, v, i)
<1> DEFINE row == made.captured[v][i]
           kept == Retained(row, made.setting)
           clean == Sanitized(row)
<1>1. IsRow(row) /\ Acceptable(row)
  BY CapturedRows
<1>2. /\ kept.status = row.status /\ kept.raw = RawKept(row, made.setting)
      /\ kept.error = ErrorKept(row, made.setting)
      /\ kept.notes = AllNotes(row, made.setting) \ Dropped(made.setting)
      /\ Strict(kept) = Strict(row)
  BY <1>1, RetainedFields, StrictKept
<1>3. /\ clean.status = row.status /\ clean.raw = row.raw /\ clean.parsed = row.parsed
      /\ clean.error = Redacted(row.error) /\ clean.notes = row.notes \ {"response", "prompt"}
  BY <1>1, SanitizedFields
<1>4. Echoed(made, v, i) <=> made.setting.responses /\ row.error = "echoed"
  BY DEF Echoed
<1>5. Unparsed(made, v, i) <=> row.status = "ok" /\ Strict(row) = None
  BY DEF Unparsed
<1> HIDE DEF row, kept, clean
<1>6. Strict(clean) = Strict(row)
  BY <1>3 DEF Strict
<1>7. CASE row.status # "ok"
  <2>1. ParseError(kept) = ErrorKept(row, made.setting) /\ ParseError(clean) = Redacted(row.error)
    BY <1>2, <1>3, <1>7 DEF ParseError
  <2>2. ErrorKept(row, made.setting) = Redacted(row.error)
           <=> ~(made.setting.responses /\ row.error = "echoed")
    BY DEF ErrorKept, Redacted
  <2> QED
    BY <1>4, <2>1, <2>2 DEF row, kept, clean
<1>8. CASE row.status = "ok"
  <2>1. ~Echoed(made, v, i)
    BY <1>1, <1>4, <1>8, ReplayAssumption DEF Acceptable, Errors
  <2>2. CASE Strict(row) # None
    <3>1. ParseError(kept) = None /\ ParseError(clean) = None
      BY <1>2, <1>3, <1>6, <1>8, <2>2 DEF ParseError
    <3> QED
      BY <2>1, <3>1 DEF row, kept, clean
  <2>3. CASE Strict(row) = None
    <3>1. made.setting.raw
      BY <1>5, <1>8, <2>3
    <3>2. /\ kept.raw = row.raw
          /\ "parse error" \in kept.notes <=> "parse error" \in row.notes
          /\ "parse error" \in clean.notes <=> "parse error" \in row.notes
      BY <1>2, <1>3, <3>1 DEF RawKept, AllNotes, Dropped
    <3>3. ParseError(kept) = ParseError(clean)
      BY <1>2, <1>3, <1>6, <1>8, <2>3, <3>2 DEF ParseError
    <3> QED
      BY <2>1, <3>3 DEF row, kept, clean
  <2> QED
    BY <2>2, <2>3
<1> QED
  BY <1>7, <1>8

\* A readable finished run replays into its own records unless the words of a
\* provider were retained.
LEMMA FinishedReplay ==
  ASSUME NEW made, Finishable(Run, made),
         \A v \in Variants : \A i \in DOMAIN made.dataset :
            made.setting.raw \/ ~Unparsed(made, v, i)
  PROVE  LET d == Finished(Run, made) IN
         \A i \in DOMAIN made.dataset :
            EqualRecords(d, i) <=> \A v \in Variants : ~Echoed(made, v, i)
<1> DEFINE d == Finished(Run, made)
<1>1. /\ d.dataset = made.dataset /\ d.configuration = made.setting /\ d.schema = made.schema
  BY FinishedFiles
<1>2. \A v \in Variants : \A i \in DOMAIN made.dataset : AnswerOf(d, v, i) = made.answers[v][i]
  BY FinishedAnswers
<1> SUFFICES ASSUME NEW i \in DOMAIN made.dataset
             PROVE  EqualRecords(d, i) <=> \A v \in Variants : ~Echoed(made, v, i)
    OBVIOUS
<1> DEFINE kept(v) == Retained(made.captured[v][i], made.setting)
           was(v) == Evaluated(made.dataset[i], Sanitized(made.captured[v][i]), made.setting,
                               made.schema, made.answers[v][i])
           again(v) == Rescored(d, v, i)
<1>3. \A v \in Variants : RowOfCase(d, v, i) = kept(v)
  BY FinishedLookup
<1>4. RecordOf(d, made.dataset[i].id)
        = Record(made.dataset[i], kept("baseline"), kept("candidate"), was("baseline"),
                 was("candidate"))
  <2>1. RecordOf(d, made.dataset[i].id) = d.cases[i]
    BY FinishedLookup
  <2>2. d.cases[i] = Record(made.dataset[i], kept("baseline"), kept("candidate"),
                            was("baseline"), was("candidate"))
    BY RecordParts
  <2> QED
    BY <2>1, <2>2
<1>5. \A v \in Variants :
         again(v) = Evaluated(made.dataset[i], kept(v), made.setting, made.schema,
                              made.answers[v][i])
  BY <1>1, <1>2, <1>3 DEF Rescored
<1>6. ASSUME NEW v \in Variants
      PROVE  was(v) = again(v) <=> ~Echoed(made, v, i)
  <2> DEFINE row == made.captured[v][i]
             clean == Sanitized(row)
  <2>1. IsRow(row)
    BY CapturedRows
  <2>2. kept(v).status = row.status /\ Strict(kept(v)) = Strict(row)
    BY <2>1, RetainedFields, StrictKept
  <2>3. clean.status = row.status /\ Strict(clean) = Strict(row)
    BY <2>1, SanitizedFields DEF Strict
  <2>4. ParseError(kept(v)) = ParseError(clean) <=> ~Echoed(made, v, i)
    BY SameError
  <2>5. was(v).parse_error = ParseError(clean) /\ again(v).parse_error = ParseError(kept(v))
    BY <1>5, ScoreTellsError
  <2>6. ParseError(kept(v)) = ParseError(clean) => was(v) = again(v)
    BY <1>5, <2>2, <2>3, SameScore
  <2> HIDE DEF clean, kept, was, again
  <2> QED
    BY <2>4, <2>5, <2>6
<1>7. Replayed(d)[i] = Record(made.dataset[i], kept("baseline"), kept("candidate"),
                              again("baseline"), again("candidate"))
  <2>1. Replayed(d)[i] = Record(d.dataset[i], RowOfCase(d, "baseline", i),
                                RowOfCase(d, "candidate", i), again("baseline"),
                                again("candidate"))
    BY <1>1 DEF Replayed
  <2> HIDE DEF d, kept, again
  <2> QED
    BY <1>1, <1>3, <2>1 DEF Variants
<1> HIDE DEF d, kept, was, again
<1>8. EqualRecords(d, i)
        <=> was("baseline") = again("baseline") /\ was("candidate") = again("candidate")
  BY <1>1, <1>4, <1>7 DEF EqualRecords, Record
<1> QED
  BY <1>6, <1>8 DEF Variants, d

\* Replay verifies a finished run that nobody touched exactly when it is
\* reproducible.
LEMMA FinishedVerified ==
  ASSUME NEW made, Finishable(Run, made)
  PROVE  Verified(Finished(Run, made)) <=> Reproducible(made)
<1> DEFINE d == Finished(Run, made)
           Legible == \A v \in Variants : \A i \in DOMAIN made.dataset :
                         made.setting.raw \/ ~Unparsed(made, v, i)
           Silent == \A v \in Variants : \A i \in DOMAIN made.dataset : ~Echoed(made, v, i)
           Asked == made.setting.evaluator = None \/ made.setting.raw
<1>1. Reproducible(made) <=> Legible /\ Silent /\ Asked
  <2>1. made.setting.raw \in BOOLEAN /\ made.setting.responses \in BOOLEAN
    BY DEF Finishable
  <2> DEFINE rows == {made.captured[v][i] : v \in Variants, i \in DOMAIN made.dataset}
  <2>2. (\A row \in rows : row.error # "echoed")
           <=> \A v \in Variants : \A i \in DOMAIN made.dataset :
                  made.captured[v][i].error # "echoed"
    OBVIOUS
  <2>3. (\A row \in rows : row.status = "ok" => Strict(row) # None)
           <=> \A v \in Variants : \A i \in DOMAIN made.dataset : ~Unparsed(made, v, i)
    BY DEF Unparsed
  <2>4. Reproducible(made) <=>
           /\ made.setting.responses => \A row \in rows : row.error # "echoed"
           /\ ~made.setting.raw =>
                 /\ made.setting.evaluator = None
                 /\ \A row \in rows : row.status = "ok" => Strict(row) # None
    BY DEF Reproducible
  <2>5. Silent <=> (made.setting.responses =>
           \A v \in Variants : \A i \in DOMAIN made.dataset :
              made.captured[v][i].error # "echoed")
    BY DEF Echoed
  <2>6. Legible <=> (~made.setting.raw =>
           \A v \in Variants : \A i \in DOMAIN made.dataset : ~Unparsed(made, v, i))
    OBVIOUS
  <2> HIDE DEF rows, Silent, Legible
  <2> QED
    BY <2>1, <2>2, <2>3, <2>4, <2>5, <2>6
<1>2. d.dataset = made.dataset /\ d.configuration = made.setting
  BY FinishedFiles
<1>3. HashesMatch(d) /\ CopiesMatch(d) /\ RecordsMatch(d) /\ d.manifest.run = Run
  BY FinishedAgrees, FinishedRecords
<1>4. Readable(d) <=> Legible
  <2>1. Readable(d) <=> made.setting.raw
           \/ \A v \in Variants : \A i \in DOMAIN made.dataset : ~Unparsed(made, v, i)
    BY FinishedReadable
  <2> QED
    BY <2>1
<1>5. ReceiptsMatch(d) <=> Asked
  BY FinishedAnswers
<1>6. Legible => ((\A i \in DOMAIN made.dataset : EqualRecords(d, i)) <=> Silent)
  <2> SUFFICES ASSUME Legible
               PROVE  (\A i \in DOMAIN made.dataset : EqualRecords(d, i)) <=> Silent
      OBVIOUS
  <2>1. \A i \in DOMAIN made.dataset :
           EqualRecords(d, i) <=> \A v \in Variants : ~Echoed(made, v, i)
    BY FinishedReplay
  <2> HIDE DEF d
  <2> QED
    BY <2>1
<1>7. (\A i \in DOMAIN made.dataset : EqualRecords(d, i)) => SummaryMatches(d)
  <2> SUFFICES ASSUME \A i \in DOMAIN made.dataset : EqualRecords(d, i)
               PROVE  SummaryMatches(d)
      OBVIOUS
  <2> DEFINE records == RecordsOf(made.dataset, made.captured, made.setting, made.schema,
                                  made.answers)
  <2>1. d.cases = records /\ d.summary = Summary(Run, made.setting, records)
    BY FinishedFiles
  <2>2. \A i \in DOMAIN made.dataset : RecordOf(d, made.dataset[i].id) = d.cases[i]
    BY FinishedLookup
  <2>3. records = [i \in DOMAIN made.dataset |-> records[i]]
    BY DEF RecordsOf
  <2>4. Replayed(d) = [i \in DOMAIN made.dataset |-> Replayed(d)[i]]
    BY <1>2 DEF Replayed
  <2> HIDE DEF d, records
  <2>5. \A i \in DOMAIN made.dataset : Replayed(d)[i] = records[i]
    BY <1>2, <2>1, <2>2 DEF EqualRecords
  <2>6. Replayed(d) = records
    BY <2>3, <2>4, <2>5
  <2> QED
    BY <1>2, <1>3, <2>1, <2>6 DEF SummaryMatches
<1> HIDE DEF d, Legible, Silent, Asked
<1>8. Verified(d) <=> Legible /\ Asked /\ \A i \in DOMAIN made.dataset : EqualRecords(d, i)
  BY <1>2, <1>3, <1>4, <1>5, <1>7 DEF Verified
<1> QED
  BY <1>1, <1>6, <1>8 DEF d

-----------------------------------------------------------------------------
(* Replay is exact                                                         *)

\* Replay verifies a run that nobody touched exactly when it is of the kinds
\* that can be reproduced, and whatever it verifies after edits is what the
\* finalizer would have written for the inputs and answers the directory now
\* holds (replay_run after finalize_prepared_for_run_observed).
THEOREM ReplaysExactly ==
  ASSUME NEW made, NEW spent, NEW kinds
  PROVE  SpecFrom(made, spent, kinds) => []ReplayIsExact
<1>1. Evidence => ReplayIsExact
  <2> SUFFICES ASSUME Evidence PROVE ReplayIsExact
      OBVIOUS
  <2>1. Finishable(Run, input) /\ Remembered
    BY DEF Evidence
  <2>2. FinishedRunReplays
    BY <2>1, FinishedVerified DEF FinishedRunReplays, AsWritten
  <2> QED
    BY <2>1, <2>2, VerifiedRederived DEF ReplayIsExact
<1>2. InitFrom(made, spent, kinds) => Evidence
  BY EvidenceInitially
<1>3. Shaped /\ Evidence /\ [Next]_vars => Evidence'
  BY EvidenceStep
<1>4. SpecFrom(made, spent, kinds) => []Shaped
  <2>1. Invariant => Shaped
    BY DEF Invariant
  <2> QED
    BY <2>1, AlwaysSound, PTL
<1> QED
  BY <1>1, <1>2, <1>3, <1>4, PTL DEF SpecFrom

=============================================================================
