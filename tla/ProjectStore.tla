---------------------------- MODULE ProjectStore ----------------------------
(***************************************************************************)
(* The files of one StructTrace Local project and the staged sources they  *)
(* refer to, under the handlers that change them: drafts, comparison jobs, *)
(* the promotion of a candidate to the next baseline, archiving, and       *)
(* clearing the draft with its collection of unreferenced sources.         *)
(*                                                                         *)
(* Comparisons and archiving hold comparison_lock; promotions, drafts and  *)
(* clearing do not.  LocalJobs models the life of a job; here a job is     *)
(* what it does to the project.  The run of a comparison is named by its   *)
(* revision.  Of the four sources of a comparison only the baseline is     *)
(* kept.  Bytes are a natural number: r > 0 are the candidate bytes of run *)
(* r, 0 are any bytes that are no run's candidate.                         *)
(***************************************************************************)
EXTENDS Naturals, FiniteSets, Functions

CONSTANTS
    Jobs,        \* comparison jobs
    Promotions,  \* promotion requests
    Traffics,    \* kinds of request that occur and overlap, with the baseline mappings
    MaxUploads, MaxCrashes, \* bounds
    None         \* no draft, revision or provenance

Kinds == {"compare", "promote", "clear", "edit", "export", "crash"}

\* How a request maps the rows of its baseline.
Mappings == {"reopened", "envelope", "partial"}

\* What the files name: a run, revision or source, a baseline, a pointer.
Names       == Nat \cup {None}
Provenances == [run : Names, source : Names]
Pointers    == [revision : Names, provenance : Provenances \cup {None}]

ASSUME StoreAssumption ==
    /\ Traffics \subseteq [kinds : SUBSET Kinds, together : SUBSET Kinds,
                           mappings : SUBSET Mappings]
    /\ MaxUploads \in Nat /\ MaxCrashes \in Nat
    /\ None \notin Nat \cup Mappings \cup Provenances \cup Pointers
    /\ Jobs \cap Promotions = {}
    /\ None \notin Jobs \cup Promotions

VARIABLES
    project,     \* the directory projects/<id>
    archived,    \* directories moved to archived-projects
    opened,      \* .structtrace/ui/draft.json is this project's draft
    staged,      \* bytes of each staged source that is on disk
    authorized,  \* runs whose release gate authorized deployment
    index,       \* the server's index of runs it can show
    lock,        \* holder of comparison_lock
    job,         \* request and progress of each comparison job
    promotion,   \* progress of each promotion
    clearing,    \* progress of the request that clears the draft
    lastSource, lastRevision, crashes,
    traffic      \* the traffic of this behaviour

files == <<project, archived, opened, staged>>
flow  == <<job, promotion, clearing, lock, index>>
vars  == <<files, flow, authorized, lastSource, lastRevision, crashes, traffic>>

\* One more file, or a file replaced.
With(f, name, content) ==
    [x \in DOMAIN f \cup {name} |-> IF x = name THEN content ELSE f[x]]

\* What the directory of a project holds: ui-draft.json (its baseline source),
\* current-revision.json, the revisions, and whether revisions/ exists.  One that
\* is not there holds nothing.
NoDirectory ==
    [exists |-> FALSE, draft |-> None, pointer |-> None, revisions |-> <<>>, made |-> FALSE]

\* create_dir_all
Made(dir) == [dir EXCEPT !.exists = TRUE]

Revisions(dir) == DOMAIN dir.revisions
Pointer(dir)   == dir.pointer

\* The revision that a directory selects.
Tip(dir) == IF Pointer(dir) = None THEN None ELSE dir.pointer.revision

Commit(dir, rev, receipt) ==
    [Made(dir) EXCEPT !.made = TRUE, !.revisions = With(@, rev, receipt)]

Point(dir, rev, provenance) ==
    [Made(dir) EXCEPT !.pointer = [revision |-> rev, provenance |-> provenance]]

\* current_project_revision accepts what the pointer of dir selects.
Verifies(dir) ==
    LET selected == dir.pointer.revision
        provenance == dir.pointer.provenance
    IN  /\ selected \in Revisions(dir)
        /\ dir.revisions[selected].provenance = provenance
        /\ provenance # None =>
              dir.revisions[selected].baseline = provenance.run

\* normalize_simple_outputs on a baseline source.  Rows of promoted bytes are
\* engine envelopes: the mapping of a reopened project, /id and /output, does
\* not resolve in them, and a mapping that leaves out recorded fields changes
\* them.
Resolves(bytes, mapping)   == bytes = 0 \/ mapping # "reopened"
Normalized(bytes, mapping) == IF mapping = "envelope" THEN bytes ELSE 0

-----------------------------------------------------------------------------
(* Progress                                                                *)

NoRequest == [source |-> None, mapping |-> None]
IdleJob   == [at |-> "none", request |-> NoRequest, bytes |-> None,
              parent |-> None, inherited |-> None, revision |-> None]
IdlePromotion == [at |-> "none", run |-> None, source |-> None,
                  revision |-> None]
NotClearing == [at |-> "idle", retained |-> {}]

JobActive       == {"waiting", "loaded", "prepared", "renamed", "published"}
PromotionActive == {"checked", "staged", "renamed"}
ClearActive     == {"removing", "collecting", "sweeping"}
Ended           == {"failed", "interrupted"}

InFlight ==
    (IF \E j \in Jobs : job[j].at \in JobActive THEN {"compare"} ELSE {})
    \cup (IF \E p \in Promotions : promotion[p].at \in PromotionActive
          THEN {"promote"} ELSE {})
    \cup (IF clearing.at \in ClearActive THEN {"clear"} ELSE {})

MayStart(kind) ==
    /\ kind \in traffic.kinds
    /\ InFlight = {} \/ InFlight \cup {kind} \subseteq traffic.together

Init ==
    /\ project = NoDirectory
    /\ archived = {}
    /\ opened = FALSE
    /\ staged = <<>>
    /\ authorized = {}
    /\ index = {}
    /\ lock = None
    /\ job = [j \in Jobs |-> IdleJob]
    /\ promotion = [p \in Promotions |-> IdlePromotion]
    /\ clearing = NotClearing
    /\ lastSource = 0
    /\ lastRevision = 0
    /\ crashes = 0
    /\ traffic \in Traffics

-----------------------------------------------------------------------------
(* Sources, drafts and archiving                                           *)

\* stage_source: the metadata file makes the upload visible.
UploadSource ==
    /\ MayStart("edit")
    /\ lastSource < MaxUploads + Cardinality(Promotions)
    /\ lastSource' = lastSource + 1
    /\ staged' = With(staged, lastSource', 0)
    /\ UNCHANGED <<project, archived, opened, flow, authorized, lastRevision, crashes, traffic>>

\* What a draft can name: an upload, or the accepted baseline that get_project
\* writes over the draft of a reopened project.
Uploads == {s \in DOMAIN staged : staged[s] = 0}
AcceptedBaseline ==
    IF Pointer(project) = None THEN {}
    ELSE IF project.pointer.provenance = None THEN {}
    ELSE {project.pointer.provenance.source}
Reopens == Verifies(project) /\ AcceptedBaseline \subseteq DOMAIN staged
Drafts  == Uploads \cup (IF Pointer(project) # None /\ Reopens THEN AcceptedBaseline ELSE {})

\* save_draft: the shared draft, then the project's copy of it.
SaveDraft(s) ==
    /\ MayStart("edit")
    /\ s \in Drafts
    /\ project' = [Made(project) EXCEPT !.draft = s]
    /\ opened' = TRUE
    /\ UNCHANGED <<archived, staged, flow, authorized, lastSource, lastRevision, crashes, traffic>>

\* Mutant: archiving does not wait for the comparison lock.
ArchiveUnlocked ==
    /\ MayStart("edit")
    /\ project.exists
    /\ archived' = archived \cup {project}
    /\ project' = NoDirectory
    /\ index' = {}
    /\ opened' = FALSE
    /\ UNCHANGED <<staged, job, promotion, clearing, lock, authorized, lastSource,
                   lastRevision, crashes, traffic>>

\* archive_project, under the lock.
ArchiveProject ==
    /\ MayStart("edit")
    /\ lock = None
    /\ project.exists
    /\ archived' = archived \cup {project}
    /\ project' = NoDirectory
    /\ index' = {}
    /\ opened' = FALSE
    /\ UNCHANGED <<staged, job, promotion, clearing, lock, authorized, lastSource,
                   lastRevision, crashes, traffic>>

-----------------------------------------------------------------------------
(* Clearing the draft                                                      *)

\* delete_draft decides whether the project is no more than a draft.
OnlyADraft == opened /\ project.exists /\ ~project.made /\ project.pointer = None

ClearDraft ==
    /\ MayStart("clear")
    /\ clearing.at = "idle"
    /\ clearing' = [clearing EXCEPT !.at = IF OnlyADraft THEN "removing" ELSE "collecting"]
    /\ opened' = FALSE
    /\ UNCHANGED <<project, archived, staged, job, promotion, lock, index, authorized,
                   lastSource, lastRevision, crashes, traffic>>

\* remove_dir_all takes whatever the directory holds by now.
RemoveProject ==
    /\ clearing.at = "removing"
    /\ clearing' = [clearing EXCEPT !.at = "collecting"]
    /\ project' = NoDirectory
    /\ UNCHANGED <<archived, opened, staged, job, promotion, lock, index, authorized,
                   lastSource, lastRevision, crashes, traffic>>

\* The sources that the draft and the pointer of a directory name.
References(dir) ==
    (IF dir.draft = None THEN {} ELSE {dir.draft})
    \cup (IF dir.pointer = None \/ dir.pointer.provenance = None THEN {}
          ELSE {dir.pointer.provenance.source})

Directories == archived \cup {project}

\* Mutant: archived projects are not scanned.
CollectLive ==
    /\ clearing.at = "collecting"
    /\ clearing' = [at |-> "sweeping",
                    retained |-> References(project)]
    /\ UNCHANGED <<files, job, promotion, lock, index, authorized, lastSource,
                   lastRevision, crashes, traffic>>

CollectReferences ==
    /\ clearing.at = "collecting"
    /\ clearing' = [at |-> "sweeping",
                    retained |-> UNION {References(dir) : dir \in Directories}]
    /\ UNCHANGED <<files, job, promotion, lock, index, authorized, lastSource,
                   lastRevision, crashes, traffic>>

SweepSources ==
    /\ clearing.at = "sweeping"
    /\ staged' = Restrict(staged, DOMAIN staged \cap clearing.retained)
    /\ clearing' = NotClearing
    /\ UNCHANGED <<project, archived, opened, job, promotion, lock, index, authorized,
                   lastSource, lastRevision, crashes, traffic>>

-----------------------------------------------------------------------------
(* Comparison jobs                                                         *)

GoTo(j, at) == job' = [job EXCEPT ![j].at = at]

\* create_job: the browser submits the draft it has saved.
CreateJob(j, mapping) ==
    /\ MayStart("compare")
    /\ job[j].at = "none"
    /\ project.exists
    /\ project.draft # None
    /\ job' = [job EXCEPT ![j] =
          [@ EXCEPT !.at = "waiting",
                    !.request = [source |-> project.draft, mapping |-> mapping]]]
    /\ UNCHANGED <<files, promotion, clearing, lock, index, authorized, lastSource,
                   lastRevision, crashes, traffic>>

\* retry_job: a new job with the request of an unsuccessful one.
RetryJob(j, old) ==
    /\ MayStart("compare")
    /\ job[j].at = "none"
    /\ job[old].at \in Ended
    /\ job' = [job EXCEPT ![j] = [@ EXCEPT !.at = "waiting", !.request = job[old].request]]
    /\ UNCHANGED <<files, promotion, clearing, lock, index, authorized, lastSource,
                   lastRevision, crashes, traffic>>

\* Mutant: the executor is not exclusive.
LoadUnlocked(j) ==
    /\ job[j].at = "waiting"
    /\ lock' = j
    /\ job[j].request.source \in DOMAIN staged
    /\ job' = [job EXCEPT ![j] =
          [@ EXCEPT !.at = "loaded", !.bytes = staged[job[j].request.source]]]
    /\ UNCHANGED <<files, promotion, clearing, index, authorized, lastSource,
                   lastRevision, crashes, traffic>>

\* Under the lock, load_staged_source reads the request's baseline.
LoadSources(j) ==
    /\ job[j].at = "waiting"
    /\ lock = None
    /\ lock' = j
    /\ job[j].request.source \in DOMAIN staged
    /\ job' = [job EXCEPT ![j] =
          [@ EXCEPT !.at = "loaded", !.bytes = staged[job[j].request.source]]]
    /\ UNCHANGED <<files, promotion, clearing, index, authorized, lastSource,
                   lastRevision, crashes, traffic>>

\* The parent revision, the baseline it passes on when the request compares
\* against it, and the normalized baseline.
Inherited(request) ==
    IF Pointer(project) = None THEN None
    ELSE IF project.pointer.provenance = None THEN None
    ELSE IF project.pointer.provenance.source = request.source
         THEN project.pointer.provenance
    ELSE None

Prepare(j) ==
    /\ job[j].at = "loaded"
    /\ Pointer(project) # None => Verifies(project)
    /\ Resolves(job[j].bytes, job[j].request.mapping)
    /\ job' = [job EXCEPT ![j] =
          [@ EXCEPT !.at = "prepared",
                    !.bytes = Normalized(job[j].bytes, job[j].request.mapping),
                    !.parent = Tip(project),
                    !.inherited = Inherited(job[j].request)]]
    /\ UNCHANGED <<files, promotion, clearing, lock, index, authorized, lastSource,
                   lastRevision, crashes, traffic>>

\* The job is cancelled, a source is missing, the revision does not verify, a
\* mapping does not resolve, or the engine fails: the attempt is dropped.
FailJob(j) ==
    /\ job[j].at \in {"waiting", "loaded", "prepared"}
    /\ GoTo(j, "failed")
    /\ lock' = IF lock = j THEN None ELSE lock
    /\ UNCHANGED <<files, promotion, clearing, index, authorized, lastSource,
                   lastRevision, crashes, traffic>>

\* The run finished; its directory is renamed to revisions/<id>.
CommitRevision(j, authorizes) ==
    LET rev == lastRevision + 1 IN
    /\ job[j].at = "prepared"
    /\ lastRevision' = rev
    /\ authorized' = IF authorizes THEN authorized \cup {rev} ELSE authorized
    /\ project' = Commit(project, rev,
          [state |-> "completed", run |-> rev, parent |-> job[j].parent,
           provenance |-> job[j].inherited, baseline |-> job[j].bytes])
    /\ job' = [job EXCEPT ![j] = [@ EXCEPT !.at = "renamed", !.revision = rev]]
    /\ UNCHANGED <<archived, opened, staged, promotion, clearing, lock, index,
                   lastSource, crashes, traffic>>

\* current-revision.json is replaced, and the lock released.
PublishRevision(j) ==
    /\ job[j].at = "renamed"
    /\ project' = Point(project, job[j].revision, job[j].inherited)
    /\ GoTo(j, "published")
    /\ lock' = None
    /\ UNCHANGED <<archived, opened, staged, promotion, clearing, index, authorized,
                   lastSource, lastRevision, crashes, traffic>>

IndexRun(j) ==
    /\ job[j].at = "published"
    /\ index' = index \cup {job[j].revision}
    /\ GoTo(j, "complete")
    /\ UNCHANGED <<files, promotion, clearing, lock, authorized, lastSource,
                   lastRevision, crashes, traffic>>

-----------------------------------------------------------------------------
(* Promotion of a candidate                                                *)

\* Mutant: any decision can be promoted.
PromotableUnauthorized(run) ==
    /\ run \in index
    /\ run \in Revisions(project)
    /\ Pointer(project) # None
    /\ Verifies(project)
    /\ project.pointer.revision = run
    /\ project.revisions[run].state = "completed"

\* accept_run reads the run, then the revision that the project selects.
Promotable(run) ==
    /\ run \in index \cap authorized
    /\ run \in Revisions(project)
    /\ Pointer(project) # None
    /\ Verifies(project)
    /\ project.pointer.revision = run
    /\ project.revisions[run].state = "completed"

CheckPromotion(p, run) ==
    /\ MayStart("promote")
    /\ promotion[p].at = "none"
    /\ Promotable(run)
    /\ promotion' = [promotion EXCEPT ![p] = [@ EXCEPT !.at = "checked", !.run = run]]
    /\ UNCHANGED <<files, job, clearing, lock, index, authorized, lastSource,
                   lastRevision, crashes, traffic>>

\* The candidate's bytes are read again and staged as a source of their own.
StageCandidate(p) ==
    /\ promotion[p].at = "checked"
    /\ promotion[p].run \in Revisions(project)
    /\ lastSource' = lastSource + 1
    /\ staged' = With(staged, lastSource', promotion[p].run)
    /\ promotion' = [promotion EXCEPT ![p] = [@ EXCEPT !.at = "staged", !.source = lastSource']]
    /\ UNCHANGED <<project, archived, opened, job, clearing, lock, index, authorized,
                   lastRevision, crashes, traffic>>

Provenance(p) == [run |-> promotion[p].run, source |-> promotion[p].source]

\* The definition of the source revision is copied, its baseline replaced by
\* the staged bytes, and the copy renamed to revisions/<id>.
CommitPromotion(p) ==
    LET rev == lastRevision + 1
        run == promotion[p].run
    IN
    /\ promotion[p].at = "staged"
    /\ run \in Revisions(project)
    /\ promotion[p].source \in DOMAIN staged
    /\ lastRevision' = rev
    /\ project' = Commit(project, rev,
          [state |-> "accepted", run |-> run, parent |-> run,
           provenance |-> Provenance(p), baseline |-> staged[promotion[p].source]])
    /\ promotion' = [promotion EXCEPT ![p] = [@ EXCEPT !.at = "renamed", !.revision = rev]]
    /\ UNCHANGED <<archived, opened, staged, job, clearing, lock, index, authorized,
                   lastSource, crashes, traffic>>

\* current-revision.json is replaced by what was read before: nothing is read
\* again, and no lock is held.
PublishPromotion(p) ==
    /\ promotion[p].at = "renamed"
    /\ project' = Point(project, promotion[p].revision, Provenance(p))
    /\ promotion' = [promotion EXCEPT ![p].at = "accepted"]
    /\ UNCHANGED <<archived, opened, staged, job, clearing, lock, index, authorized,
                   lastSource, lastRevision, crashes, traffic>>

\* The run or the staged source is gone.  Once the candidate is staged,
\* create_dir_all has made the revisions directory again.
RefusePromotion(p) ==
    /\ \/ promotion[p].at = "checked" /\ UNCHANGED project
       \/ /\ promotion[p].at = "staged"
          /\ project' = [Made(project) EXCEPT !.made = TRUE]
    /\ \/ promotion[p].run \notin Revisions(project)
       \/ promotion[p].at = "staged" /\ promotion[p].source \notin DOMAIN staged
    /\ promotion' = [promotion EXCEPT ![p].at = "refused"]
    /\ UNCHANGED <<archived, opened, staged, job, clearing, lock, index, authorized,
                   lastSource, lastRevision, crashes, traffic>>

-----------------------------------------------------------------------------
(* The server's process                                                    *)

\* The process is killed; the next one finds the runs that live revisions hold.
CrashAndRestart ==
    /\ "crash" \in traffic.kinds
    /\ crashes < MaxCrashes
    /\ crashes' = crashes + 1
    /\ job' = [j \in Jobs |->
          IF job[j].at \in JobActive THEN [job[j] EXCEPT !.at = "interrupted"] ELSE job[j]]
    /\ promotion' = [p \in Promotions |->
          IF promotion[p].at \in PromotionActive
          THEN [promotion[p] EXCEPT !.at = "refused"] ELSE promotion[p]]
    /\ clearing' = NotClearing
    /\ lock' = None
    /\ index' = {r \in Revisions(project) : project.revisions[r].state = "completed"}
    /\ UNCHANGED <<files, authorized, lastSource, lastRevision, traffic>>

JobStep(j) ==
    \/ \E mapping \in traffic.mappings : CreateJob(j, mapping)
    \/ \E old \in Jobs : RetryJob(j, old)
    \/ LoadSources(j) \/ Prepare(j) \/ FailJob(j)
    \/ \E authorizes \in BOOLEAN : CommitRevision(j, authorizes)
    \/ PublishRevision(j) \/ IndexRun(j)

PromotionStep(p) ==
    \/ \E run \in index : CheckPromotion(p, run)
    \/ StageCandidate(p) \/ CommitPromotion(p) \/ PublishPromotion(p)
    \/ RefusePromotion(p)

RequestStep ==
    \/ \E j \in Jobs : JobStep(j)
    \/ \E p \in Promotions : PromotionStep(p)
    \/ UploadSource \/ (\E s \in Drafts : SaveDraft(s)) \/ ArchiveProject
    \/ ClearDraft \/ RemoveProject \/ CollectReferences \/ SweepSources

Next == RequestStep \/ CrashAndRestart

Spec == Init /\ [][Next]_vars

-----------------------------------------------------------------------------
(* Properties                                                              *)

Revision   == 1..lastRevision
Source     == 1..lastSource
ProvenanceType == [run : Revision, source : Source] \cup {None}
ReceiptType == [state : {"completed", "accepted"}, run : Revision,
                parent : Revision \cup {None}, provenance : ProvenanceType,
                baseline : Revision \cup {0}]

IsDirectory(dir) ==
    /\ dir.draft \in Source \cup {None}
    /\ dir.pointer \in [revision : Revision, provenance : ProvenanceType] \cup {None}
    /\ dir.made \in BOOLEAN
    /\ DOMAIN dir.revisions \subseteq Revision
    /\ \A r \in DOMAIN dir.revisions : dir.revisions[r] \in ReceiptType

TypeOK ==
    /\ \A dir \in Directories : IsDirectory(dir)
    /\ opened \in BOOLEAN
    /\ DOMAIN staged \subseteq Source
    /\ \A s \in DOMAIN staged : staged[s] \in Revision \cup {0}
    /\ authorized \subseteq Revision
    /\ index \subseteq Revision
    /\ lock \in Jobs \cup {None}
    /\ lastSource \in Nat /\ lastRevision \in Nat /\ crashes \in 0..MaxCrashes
    /\ \A j \in Jobs :
          /\ job[j].at \in {"none", "complete"} \cup JobActive \cup Ended
          /\ lock = j <=> job[j].at \in {"loaded", "prepared", "renamed"}
    /\ \A p \in Promotions : promotion[p].at \in {"none", "accepted", "refused"} \cup PromotionActive
    /\ clearing.at \in {"idle"} \cup ClearActive

\* Promotions and the clearing of a draft meet no other request; they take no
\* lock, and the properties that ask for this do not hold without it.
Serialized == traffic.together \cap {"promote", "clear"} = {}

\* No comparison maps a part of the accepted baseline only.
WholeMappings == \A j \in Jobs : job[j].request.mapping # "partial"

\* The revision that a project selects is there and passes
\* current_project_revision: the project can be listed, reopened, compared
\* again and exported.
PointerVerifies ==
    Serialized /\ WholeMappings /\ Pointer(project) # None => Verifies(project)

\* A pointer never selects a revision that its project does not hold.
PointerExists ==
    Pointer(project) # None => project.pointer.revision \in Revisions(project)

\* A project, live or archived, holds the parent of every revision it holds:
\* its history can be followed to the first comparison.
AncestryKept ==
    Serialized => \A dir \in Directories : \A r \in Revisions(dir) :
        dir.revisions[r].parent \in Revisions(dir) \cup {None}

\* A project can always be read and its history followed.
ProjectIsWhole == PointerVerifies /\ AncestryKept

\* The pointer moves only from a revision to a child of it: no commit
\* overwrites one that it has not seen.  A committed revision leaves a project
\* only with the project, to the archive.
HistoryKept ==
    [][Serialized =>
         /\ Pointer(project') # Pointer(project) /\ project.exists /\ project'.exists =>
               LET rev == project'.pointer.revision IN
               /\ rev \in Revisions(project')
               /\ project'.revisions[rev].parent = Tip(project)
         /\ Revisions(project) \subseteq Revisions(project') \/ project \in archived']_vars

\* Every baseline that some revision, live or archived, calls accepted is the
\* candidate of a run whose release gate authorized deployment, and a promoted
\* revision holds exactly that candidate's bytes.
PromotedBytes ==
    \A dir \in Directories : \A r \in Revisions(dir) :
        LET receipt == dir.revisions[r] IN
        /\ receipt.provenance # None => receipt.provenance.run \in authorized
        /\ receipt.state = "accepted" =>
              receipt.provenance # None /\ receipt.baseline = receipt.provenance.run

\* The sources that the drafts and pointers of live and archived projects name
\* are on disk, so that the project can be reopened.
ReferencesStaged ==
    Serialized => \A dir \in Directories : References(dir) \subseteq DOMAIN staged

\* What accept_run says it guarantees: a promotion replaces the revision it
\* promotes.
OnlyCurrentIsPromoted ==
    [][\A p \in Promotions :
         promotion[p].at = "renamed" /\ promotion'[p].at = "accepted" =>
            Pointer(project) # None /\ project.pointer.revision = promotion[p].run]_vars

\* An unsuccessful job keeps the source it is to be retried from.
RetrySourcesRetained ==
    \A j \in Jobs : job[j].at \in Ended => job[j].request.source \in DOMAIN staged

\* The next comparison of a reopened project can read the accepted baseline
\* with the mapping that reopening wrote.
ReopenedDraftCompares ==
    \A j \in Jobs : job[j].at = "loaded" /\ job[j].request.mapping = "reopened" =>
        Resolves(job[j].bytes, "reopened")

=============================================================================
