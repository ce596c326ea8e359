------------------------- MODULE ProjectStoreProofs -------------------------
(***************************************************************************)
(* Theorems about ProjectStore, for every set of jobs, promotions and      *)
(* traffics and every bound; then about CiExport: an export leaves the     *)
(* project to ProjectStore's theorems, and what it seals is one revision.  *)
(***************************************************************************)
EXTENDS CiExport, TLAPS

USE DEF Revisions, Pointer

USE DEF Mappings, JobActive, PromotionActive, ClearActive, Ended

-----------------------------------------------------------------------------
(* Types: records of names                                                 *)

Receipts  == [state : {"completed", "accepted"}, run : Names, parent : Names,
              provenance : Provenances \cup {None}, baseline : Names]
Histories == UNION {[D -> Receipts] : D \in SUBSET Nat}
Folders   == [exists : BOOLEAN, draft : Names, pointer : Pointers \cup {None},
              revisions : Histories, made : BOOLEAN]
Stagings  == UNION {[D -> Names] : D \in SUBSET Nat}

JobStates       == {"none", "complete"} \cup JobActive \cup Ended
PromotionStates == {"none", "accepted", "refused"} \cup PromotionActive

Requests == [source : Names, mapping : Mappings \cup {None}]
JobForms == [at : JobStates, request : Requests, bytes : Names, parent : Names,
             inherited : Provenances \cup {None}, revision : Names]
PromotionForms == [at : PromotionStates, run : Names, source : Names, revision : Names]

Typed ==
    /\ project \in Folders
    /\ archived \subseteq Folders
    /\ staged \in Stagings
    /\ authorized \subseteq Nat
    /\ job \in [Jobs -> JobForms]
    /\ promotion \in [Promotions -> PromotionForms]
    /\ clearing \in [at : {"idle"} \cup ClearActive, retained : SUBSET Names]
    /\ lastSource \in Nat /\ lastRevision \in Nat
    /\ traffic.mappings \subseteq Mappings

-----------------------------------------------------------------------------
(* Operations on the files                                                 *)

\* create_dir_all changes nothing that a directory holds.
LEMMA MadeKeeps ==
    ASSUME NEW dir \in Folders
    PROVE  /\ Made(dir) \in Folders
           /\ Made(dir).exists
           /\ Made(dir).draft = dir.draft
           /\ Made(dir).pointer = dir.pointer
           /\ Made(dir).revisions = dir.revisions
           /\ Made(dir).made = dir.made
  BY DEF Made, Folders

\* Renaming a finished revision into place adds it and touches no other file.
LEMMA CommitAdds ==
    ASSUME NEW dir \in Folders, NEW rev \in Nat, NEW receipt \in Receipts
    PROVE  LET new == Commit(dir, rev, receipt) IN
           /\ new \in Folders
           /\ new.exists /\ new.made
           /\ new.draft = dir.draft
           /\ new.pointer = dir.pointer
           /\ DOMAIN new.revisions = DOMAIN dir.revisions \cup {rev}
           /\ new.revisions[rev] = receipt
           /\ \A r \in DOMAIN dir.revisions : r # rev => new.revisions[r] = dir.revisions[r]
<1> DEFINE new == Commit(dir, rev, receipt)
           g == With(dir.revisions, rev, receipt)
<1>1. /\ new = [Made(dir) EXCEPT !.made = TRUE, !.revisions = With(Made(dir).revisions, rev, receipt)]
      /\ Made(dir).revisions = dir.revisions
  BY MadeKeeps DEF Commit
<1>2. /\ DOMAIN g = DOMAIN dir.revisions \cup {rev}
      /\ g[rev] = receipt
      /\ \A r \in DOMAIN dir.revisions : r # rev => g[r] = dir.revisions[r]
      /\ g = [z \in DOMAIN dir.revisions \cup {rev} |-> IF z = rev THEN receipt ELSE dir.revisions[z]]
  BY DEF With
<1>3. PICK D \in SUBSET Nat : dir.revisions \in [D -> Receipts]
  BY DEF Folders, Histories
<1>4. g \in [D \cup {rev} -> Receipts]
  BY <1>2, <1>3
<1>5. g \in Histories
  BY <1>4 DEF Histories
<1> HIDE DEF g
<1>6. new = [Made(dir) EXCEPT !.made = TRUE, !.revisions = g]
  BY <1>1 DEF g
<1>7. /\ new \in Folders
      /\ new.exists /\ new.made
      /\ new.draft = dir.draft
      /\ new.pointer = dir.pointer
      /\ new.revisions = g
  BY <1>5, <1>6, MadeKeeps DEF Folders
<1> QED BY <1>2, <1>7

\* Replacing current-revision.json moves the pointer and touches no other file.
LEMMA PointMoves ==
    ASSUME NEW dir \in Folders, NEW rev \in Names, NEW provenance \in Provenances \cup {None}
    PROVE  LET new == Point(dir, rev, provenance) IN
           /\ new \in Folders
           /\ new.exists
           /\ new.draft = dir.draft
           /\ new.revisions = dir.revisions
           /\ new.made = dir.made
           /\ new.pointer # None
           /\ new.pointer.revision = rev
           /\ new.pointer.provenance = provenance
<1> DEFINE to == [revision |-> rev, provenance |-> provenance]
<1>1. to \in Pointers /\ to # None
  BY StoreAssumption DEF Pointers
<1>2. Point(dir, rev, provenance) = [Made(dir) EXCEPT !.pointer = to]
  BY DEF Point
<1> HIDE DEF to
<1>3. LET new == Point(dir, rev, provenance) IN
           /\ new \in Folders
           /\ new.exists
           /\ new.draft = dir.draft
           /\ new.revisions = dir.revisions
           /\ new.made = dir.made
           /\ new.pointer = to
  BY <1>1, <1>2, MadeKeeps DEF Folders
<1> QED BY <1>1, <1>3 DEF to

\* Staging a source adds it and keeps the bytes of the others.
LEMMA StagingAdds ==
    ASSUME NEW f \in Stagings, NEW s \in Nat, NEW bytes \in Names
    PROVE  LET new == With(f, s, bytes) IN
           /\ new \in Stagings
           /\ DOMAIN new = DOMAIN f \cup {s}
           /\ new[s] = bytes
           /\ \A z \in DOMAIN f : z # s => new[z] = f[z]
<1> DEFINE g == With(f, s, bytes)
<1>1. /\ DOMAIN g = DOMAIN f \cup {s}
      /\ g[s] = bytes
      /\ \A z \in DOMAIN f : z # s => g[z] = f[z]
      /\ g = [z \in DOMAIN f \cup {s} |-> IF z = s THEN bytes ELSE f[z]]
  BY DEF With
<1>2. PICK D \in SUBSET Nat : f \in [D -> Names]
  BY DEF Stagings
<1>3. g \in [D \cup {s} -> Names]
  BY <1>1, <1>2
<1> QED BY <1>1, <1>3 DEF Stagings

-----------------------------------------------------------------------------
(* Types                                                                   *)

\* A project that is not there is a directory that holds nothing.
LEMMA NoDirectoryType ==
    /\ NoDirectory \in Folders
    /\ DOMAIN NoDirectory.revisions = {}
    /\ NoDirectory.pointer = None /\ NoDirectory.draft = None
    /\ ~NoDirectory.exists /\ ~NoDirectory.made
<1>1. <<>> \in [{} -> Receipts] /\ DOMAIN <<>> = {}
  OBVIOUS
<1>2. <<>> \in Histories
  BY <1>1 DEF Histories
<1> QED BY <1>1, <1>2 DEF NoDirectory, Folders, Names

\* What a directory names are names.
LEMMA ReferencesType ==
    ASSUME NEW dir \in Folders
    PROVE  References(dir) \subseteq Names
  BY DEF References, Folders, Pointers, Provenances

\* What is staged is staged under a number, and its bytes have a name.
LEMMA StagedType ==
    ASSUME NEW f \in Stagings
    PROVE  /\ DOMAIN f \subseteq Nat
           /\ \A s \in DOMAIN f : f[s] \in Names
  BY DEF Stagings

\* The initial values have their types.
LEMMA TypesInitially == Init => Typed
<1> SUFFICES ASSUME Init PROVE Typed
  OBVIOUS
<1>1. staged \in Stagings
  <2>1. <<>> \in [{} -> Names]
    OBVIOUS
  <2> QED BY <2>1 DEF Init, Stagings
<1>2. job \in [Jobs -> JobForms] /\ promotion \in [Promotions -> PromotionForms]
  BY DEF Init, IdleJob, IdlePromotion, NoRequest, JobForms, PromotionForms, Requests,
         JobStates, PromotionStates, Names
<1>3. traffic.mappings \subseteq Mappings
  BY StoreAssumption DEF Init
<1> QED BY <1>1, <1>2, <1>3, NoDirectoryType DEF Init, Typed, NotClearing

\* Every step keeps the types.
LEMMA TypesStep == Typed /\ [Next]_vars => Typed'
<1> SUFFICES ASSUME Typed, [Next]_vars PROVE Typed'
  OBVIOUS
<1> USE DEF files, flow, vars
<1>1. CASE UNCHANGED vars
  BY <1>1 DEF Typed
<1>2. CASE UploadSource
  <2>1. lastSource' \in Nat /\ staged' = With(staged, lastSource', 0) /\ 0 \in Names
    BY <1>2 DEF UploadSource, Typed, Names
  <2>2. staged' \in Stagings
    BY <2>1, StagingAdds DEF Typed
  <2> QED BY <1>2, <2>1, <2>2 DEF UploadSource, Typed
<1>3. ASSUME NEW s \in Drafts, SaveDraft(s)
      PROVE  Typed'
  <2>1. s \in Names
    <3>1. DOMAIN staged \subseteq Names
      BY DEF Typed, Stagings, Names
    <3>2. AcceptedBaseline \subseteq Names
      BY DEF Typed, AcceptedBaseline, Folders, Pointers, Provenances
    <3> QED BY <3>1, <3>2 DEF Drafts, Uploads
  <2>2. project' \in Folders
    BY <1>3, <2>1, MadeKeeps DEF SaveDraft, Typed, Folders
  <2> QED BY <1>3, <2>2 DEF SaveDraft, Typed
<1>4. CASE ArchiveProject
  BY <1>4, NoDirectoryType DEF ArchiveProject, Typed
<1>5. CASE ClearDraft
  BY <1>5 DEF ClearDraft, Typed
<1>6. CASE RemoveProject
  BY <1>6, NoDirectoryType DEF RemoveProject, Typed
<1>7. CASE CollectReferences
  <2>1. UNION {References(dir) : dir \in Directories} \subseteq Names
    BY ReferencesType DEF Directories, Typed
  <2> QED BY <1>7, <2>1 DEF CollectReferences, Typed
<1>8. CASE SweepSources
  <2>1. staged' \in Stagings
    <3>1. PICK D \in SUBSET Nat : staged \in [D -> Names]
      BY DEF Typed, Stagings
    <3>2. staged' = [s \in D \cap clearing.retained |-> staged[s]]
      BY <1>8, <3>1 DEF SweepSources, Restrict
    <3>3. staged' \in [D \cap clearing.retained -> Names]
      BY <3>1, <3>2
    <3> QED BY <3>3 DEF Stagings
  <2> QED BY <1>8, <2>1 DEF SweepSources, Typed, NotClearing
<1>9. ASSUME NEW j \in Jobs, JobStep(j)
      PROVE  Typed'
  <2> USE <1>9
  <2> DEFINE Moves(form) ==
               /\ form \in JobForms
               /\ job' = [job EXCEPT ![j] = form]
               /\ UNCHANGED <<archived, staged, promotion, clearing, lastSource, traffic>>
  <2>0. ASSUME NEW form, Moves(form), project' \in Folders, authorized' \subseteq Nat,
               lastRevision' \in Nat
        PROVE  Typed'
    BY <2>0 DEF Typed
  <2>a. job[j] \in JobForms
    BY DEF Typed
  <2>1. ASSUME NEW mapping \in traffic.mappings, CreateJob(j, mapping)
        PROVE  Typed'
    <3>1. [source |-> project.draft, mapping |-> mapping] \in Requests
      BY DEF Typed, Folders, Requests
    <3>2. [job[j] EXCEPT !.at = "waiting",
             !.request = [source |-> project.draft, mapping |-> mapping]] \in JobForms
      BY <2>a, <3>1 DEF JobForms, JobStates
    <3> QED BY <2>0, <2>1, <3>2 DEF CreateJob, Typed
  <2>2. ASSUME NEW old \in Jobs, RetryJob(j, old)
        PROVE  Typed'
    <3>1. [job[j] EXCEPT !.at = "waiting", !.request = job[old].request] \in JobForms
      BY <2>a DEF Typed, JobForms, JobStates
    <3> QED BY <2>0, <2>2, <3>1 DEF RetryJob, Typed
  <2>3. CASE LoadSources(j)
    <3>1. staged[job[j].request.source] \in Names
      BY <2>3, StagedType DEF LoadSources, Typed
    <3>2. [job[j] EXCEPT !.at = "loaded", !.bytes = staged[job[j].request.source]] \in JobForms
      BY <2>a, <3>1 DEF JobForms, JobStates
    <3> QED BY <2>0, <2>3, <3>2 DEF LoadSources, Typed
  <2>4. CASE Prepare(j)
    <3>1. /\ Tip(project) \in Names
          /\ Inherited(job[j].request) \in Provenances \cup {None}
      BY DEF Typed, Folders, Pointers, Names, Inherited, Tip
    <3>2. Normalized(job[j].bytes, job[j].request.mapping) \in Names
      BY <2>a DEF JobForms, Normalized, Names
    <3> DEFINE form == [job[j] EXCEPT !.at = "prepared",
                          !.bytes = Normalized(job[j].bytes, job[j].request.mapping),
                          !.parent = Tip(project),
                          !.inherited = Inherited(job[j].request)]
    <3>3. form \in JobForms
      BY <2>a, <3>1, <3>2 DEF JobForms, JobStates
    <3>4. /\ job' = [job EXCEPT ![j] = form]
          /\ UNCHANGED <<files, promotion, clearing, authorized, lastSource, lastRevision, traffic>>
      BY <2>4 DEF Prepare
    <3> QED BY <2>0, <3>3, <3>4 DEF Typed
  <2>5. CASE FailJob(j)
    <3>1. [job[j] EXCEPT !.at = "failed"] \in JobForms
      BY <2>a DEF JobForms, JobStates
    <3> QED BY <2>0, <2>5, <3>1 DEF FailJob, GoTo, Typed
  <2>6. ASSUME NEW authorizes \in BOOLEAN, CommitRevision(j, authorizes)
        PROVE  Typed'
    <3> DEFINE rev == lastRevision + 1
               receipt == [state |-> "completed", run |-> rev, parent |-> job[j].parent,
                           provenance |-> job[j].inherited, baseline |-> job[j].bytes]
    <3>1. rev \in Nat /\ rev \in Names
      BY DEF Typed, Names
    <3>2. receipt \in Receipts
      BY <2>a, <3>1 DEF JobForms, Receipts
    <3>3. /\ project' = Commit(project, rev, receipt)
          /\ lastRevision' = rev
          /\ authorized' \subseteq authorized \cup {rev}
          /\ job' = [job EXCEPT ![j] = [@ EXCEPT !.at = "renamed", !.revision = rev]]
          /\ UNCHANGED <<archived, staged, promotion, clearing, lastSource, traffic>>
      BY <2>6 DEF CommitRevision
    <3> HIDE DEF rev, receipt
    <3>4. project' \in Folders
      BY <3>1, <3>2, <3>3, CommitAdds DEF Typed
    <3>5. [job[j] EXCEPT !.at = "renamed", !.revision = rev] \in JobForms
      BY <2>a, <3>1 DEF JobForms, JobStates
    <3> QED BY <2>0, <3>1, <3>3, <3>4, <3>5 DEF Typed
  <2>7. CASE PublishRevision(j)
    <3>1. project' \in Folders
      BY <2>a, <2>7, PointMoves DEF PublishRevision, Typed, JobForms
    <3>2. [job[j] EXCEPT !.at = "published"] \in JobForms
      BY <2>a DEF JobForms, JobStates
    <3> QED BY <2>0, <2>7, <3>1, <3>2 DEF PublishRevision, GoTo, Typed
  <2>8. CASE IndexRun(j)
    <3>1. [job[j] EXCEPT !.at = "complete"] \in JobForms
      BY <2>a DEF JobForms, JobStates
    <3> QED BY <2>0, <2>8, <3>1 DEF IndexRun, GoTo, Typed
  <2> QED BY <2>1, <2>2, <2>3, <2>4, <2>5, <2>6, <2>7, <2>8 DEF JobStep
<1>10. ASSUME NEW p \in Promotions, PromotionStep(p)
       PROVE  Typed'
  <2> USE <1>10
  <2> USE DEF PromotionForms
  <2>1. ASSUME NEW run \in index, CheckPromotion(p, run)
        PROVE  Typed'
    <3>1. run \in Names
      BY <2>1 DEF CheckPromotion, Promotable, Typed, Names
    <3> QED BY <2>1, <3>1 DEF CheckPromotion, Typed, PromotionStates
  <2>2. CASE StageCandidate(p)
    <3>1. lastSource' \in Nat /\ lastSource' \in Names
      BY <2>2 DEF StageCandidate, Typed, Names
    <3>2. staged' \in Stagings
      BY <2>2, <3>1, StagingAdds DEF StageCandidate, Typed
    <3> QED BY <2>2, <3>1, <3>2 DEF StageCandidate, Typed, PromotionStates
  <2>3. CASE CommitPromotion(p)
    <3> DEFINE rev == lastRevision + 1
               run == promotion[p].run
               receipt == [state |-> "accepted", run |-> run, parent |-> run,
                           provenance |-> Provenance(p),
                           baseline |-> staged[promotion[p].source]]
    <3>1. rev \in Nat /\ rev \in Names
      BY DEF Typed, Names
    <3>2. receipt \in Receipts
      <4>1. Provenance(p) \in Provenances /\ run \in Names
        BY DEF Typed, Provenance, Provenances
      <4>2. staged[promotion[p].source] \in Names
        BY <2>3, StagedType DEF CommitPromotion, Typed
      <4> QED BY <3>1, <4>1, <4>2 DEF Receipts
    <3>3. /\ project' = Commit(project, rev, receipt)
          /\ lastRevision' = rev
          /\ promotion' = [promotion EXCEPT ![p] = [@ EXCEPT !.at = "renamed", !.revision = rev]]
          /\ UNCHANGED <<archived, staged, authorized, job, clearing, lastSource, traffic>>
      BY <2>3 DEF CommitPromotion
    <3> HIDE DEF rev, receipt, run
    <3>4. project' \in Folders
      BY <3>1, <3>2, <3>3, CommitAdds DEF Typed
    <3> QED BY <3>1, <3>3, <3>4 DEF Typed, PromotionStates
  <2>4. CASE PublishPromotion(p)
    <3>1. Provenance(p) \in Provenances /\ promotion[p].revision \in Names
      BY DEF Typed, Provenance, Provenances
    <3>2. project' \in Folders
      BY <2>4, <3>1, PointMoves DEF PublishPromotion, Typed
    <3> QED BY <2>4, <3>2 DEF PublishPromotion, Typed, PromotionStates
  <2>5. CASE RefusePromotion(p)
    <3>1. project' \in Folders
      BY <2>5, MadeKeeps DEF RefusePromotion, Typed, Folders
    <3> QED BY <2>5, <3>1 DEF RefusePromotion, Typed, PromotionStates
  <2> QED BY <2>1, <2>2, <2>3, <2>4, <2>5 DEF PromotionStep
<1>11. CASE CrashAndRestart
  <2>1. ASSUME NEW j \in Jobs
        PROVE  [job[j] EXCEPT !.at = "interrupted"] \in JobForms
    BY DEF Typed, JobForms, JobStates
  <2>2. ASSUME NEW p \in Promotions
        PROVE  [promotion[p] EXCEPT !.at = "refused"] \in PromotionForms
    BY DEF Typed, PromotionForms, PromotionStates
  <2>3. job' \in [Jobs -> JobForms]
    BY <1>11, <2>1 DEF CrashAndRestart, Typed
  <2>4. promotion' \in [Promotions -> PromotionForms]
    BY <1>11, <2>2 DEF CrashAndRestart, Typed
  <2> QED BY <1>11, <2>3, <2>4 DEF CrashAndRestart, Typed, NotClearing
<1> QED BY <1>1, <1>2, <1>3, <1>4, <1>5, <1>6, <1>7, <1>8, <1>9, <1>10, <1>11
        DEF Next, RequestStep

-----------------------------------------------------------------------------
(* What accepted revisions hold                                            *)

Locked == {"loaded", "prepared", "renamed"}

\* New revisions and sources get names that nothing has.
Bounded ==
    /\ Revisions(project) \subseteq 1..lastRevision
    /\ authorized \subseteq 1..lastRevision
    /\ DOMAIN staged \subseteq 1..lastSource

\* A baseline that is selected, or on its way to a receipt, is an authorized
\* candidate.
Licensed ==
    /\ Pointer(project) # None /\ project.pointer.provenance # None =>
          project.pointer.provenance.run \in authorized
    /\ \A j \in Jobs : job[j].inherited # None => job[j].inherited.run \in authorized
    /\ \A p \in Promotions : promotion[p].at \in PromotionActive =>
          promotion[p].run \in authorized

\* The staged source of a promotion holds its candidate.
Copied ==
    \A p \in Promotions : promotion[p].at \in {"staged", "renamed"} =>
        /\ promotion[p].source \in 1..lastSource
        /\ promotion[p].source \in DOMAIN staged =>
              staged[promotion[p].source] = promotion[p].run

\* What PromotedBytes says of one receipt.
Earned(receipt, runs) ==
    /\ receipt.provenance # None => receipt.provenance.run \in runs
    /\ receipt.state = "accepted" =>
          receipt.provenance # None /\ receipt.baseline = receipt.provenance.run

Sound == Typed /\ Bounded /\ Licensed /\ Copied /\ PromotedBytes

\* Initially nothing is accepted.
LEMMA SoundInitially == Init => Sound
  BY TypesInitially, NoDirectoryType, StoreAssumption
     DEF Init, Sound, Bounded, Licensed, Copied, PromotedBytes, Directories,
         IdleJob, IdlePromotion

\* Every step keeps the names of revisions and sources below the next ones.
LEMMA BoundedStep == Typed /\ Bounded /\ [Next]_vars => Bounded'
<1> SUFFICES ASSUME Typed, Bounded, [Next]_vars PROVE Bounded'
  OBVIOUS
<1> USE DEF files, flow, vars
<1>1. CASE UNCHANGED vars
  BY <1>1 DEF Bounded
<1>2. CASE UploadSource
  <2>1. DOMAIN staged' = DOMAIN staged \cup {lastSource + 1}
    BY <1>2 DEF UploadSource, With
  <2> QED BY <1>2, <2>1 DEF UploadSource, Bounded, Typed
<1>3. ASSUME NEW s \in Drafts, SaveDraft(s)
      PROVE  Bounded'
  <2>1. project'.revisions = project.revisions
    BY <1>3, MadeKeeps DEF SaveDraft, Typed, Folders
  <2> QED BY <1>3, <2>1 DEF SaveDraft, Bounded
<1>4. CASE ArchiveProject \/ RemoveProject
  BY <1>4, NoDirectoryType DEF ArchiveProject, RemoveProject, Bounded
<1>5. CASE ClearDraft \/ CollectReferences \/ SweepSources \/ CrashAndRestart
  BY <1>5 DEF ClearDraft, CollectReferences, SweepSources, CrashAndRestart, Bounded, Restrict
<1>6. ASSUME NEW j \in Jobs, JobStep(j)
      PROVE  Bounded'
  <2>1. ASSUME NEW authorizes \in BOOLEAN, CommitRevision(j, authorizes)
        PROVE  Bounded'
    <3>1. /\ Revisions(project') = Revisions(project) \cup {lastRevision + 1}
          /\ lastRevision' = lastRevision + 1
          /\ authorized' \subseteq authorized \cup {lastRevision + 1}
      BY <2>1, MadeKeeps DEF CommitRevision, Commit, With, Typed, Folders
    <3> QED BY <2>1, <3>1 DEF CommitRevision, Bounded, Typed
  <2>2. CASE PublishRevision(j)
    <3>1. project'.revisions = project.revisions
      BY <2>2, MadeKeeps DEF PublishRevision, Point, Typed, Folders
    <3> QED BY <2>2, <3>1 DEF PublishRevision, Bounded
  <2> QED BY <1>6, <2>1, <2>2 DEF JobStep, CreateJob, RetryJob, LoadSources, Prepare,
          FailJob, IndexRun, Bounded
<1>7. ASSUME NEW p \in Promotions, PromotionStep(p)
      PROVE  Bounded'
  <2>1. CASE StageCandidate(p)
    <3>1. DOMAIN staged' = DOMAIN staged \cup {lastSource + 1}
      BY <2>1 DEF StageCandidate, With
    <3> QED BY <2>1, <3>1 DEF StageCandidate, Bounded, Typed
  <2>2. CASE CommitPromotion(p)
    <3>1. /\ Revisions(project') = Revisions(project) \cup {lastRevision + 1}
          /\ lastRevision' = lastRevision + 1
      BY <2>2, MadeKeeps DEF CommitPromotion, Commit, With, Typed, Folders
    <3> QED BY <2>2, <3>1 DEF CommitPromotion, Bounded, Typed
  <2>3. CASE PublishPromotion(p)
    <3>1. project'.revisions = project.revisions
      BY <2>3, MadeKeeps DEF PublishPromotion, Point, Typed, Folders
    <3> QED BY <2>3, <3>1 DEF PublishPromotion, Bounded
  <2>4. CASE RefusePromotion(p)
    <3>1. project'.revisions = project.revisions
      BY <2>4, MadeKeeps DEF RefusePromotion, Typed, Folders
    <3> QED BY <2>4, <3>1 DEF RefusePromotion, Bounded
  <2> QED BY <1>7, <2>1, <2>2, <2>3, <2>4 DEF PromotionStep, CheckPromotion, Bounded
<1> QED BY <1>1, <1>2, <1>3, <1>4, <1>5, <1>6, <1>7 DEF Next, RequestStep

\* Every step keeps candidates on their way to a receipt authorized.
LEMMA LicensedStep ==
    Typed /\ Licensed /\ PromotedBytes /\ [Next]_vars => Licensed'
<1> SUFFICES ASSUME Typed, Licensed, PromotedBytes, [Next]_vars PROVE Licensed'
  OBVIOUS
<1> USE DEF files, flow, vars
<1>1. CASE UNCHANGED vars
  BY <1>1 DEF Licensed
<1>2. CASE UploadSource
  BY <1>2 DEF UploadSource, Licensed
<1>3. ASSUME NEW s \in Drafts, SaveDraft(s)
      PROVE  Licensed'
  <2>1. project'.pointer = project.pointer
    BY <1>3, MadeKeeps DEF SaveDraft, Typed, Folders
  <2> QED BY <1>3, <2>1 DEF SaveDraft, Licensed
<1>4. CASE ArchiveProject \/ RemoveProject
  BY <1>4, NoDirectoryType DEF ArchiveProject, RemoveProject, Licensed
<1>5. CASE ClearDraft \/ CollectReferences \/ SweepSources
  BY <1>5 DEF ClearDraft, CollectReferences, SweepSources, Licensed
<1>6. ASSUME NEW j \in Jobs, JobStep(j)
      PROVE  Licensed'
  <2>1. ASSUME NEW mapping \in traffic.mappings, CreateJob(j, mapping)
        PROVE  Licensed'
    BY <2>1 DEF CreateJob, Licensed, Typed, JobForms
  <2>2. ASSUME NEW old \in Jobs, RetryJob(j, old)
        PROVE  Licensed'
    BY <2>2 DEF RetryJob, Licensed, Typed, JobForms
  <2>3. CASE LoadSources(j)
    BY <2>3 DEF LoadSources, Licensed, Typed, JobForms
  <2>4. CASE Prepare(j)
    <3>1. Inherited(job[j].request) # None => Inherited(job[j].request).run \in authorized
      BY DEF Inherited, Licensed
    <3>2. /\ job'[j].inherited = Inherited(job[j].request)
          /\ \A i \in Jobs : i # j => job'[i] = job[i]
      BY <2>4 DEF Prepare, Typed, JobForms
    <3> QED BY <2>4, <3>1, <3>2 DEF Prepare, Licensed
  <2>5. CASE FailJob(j) \/ IndexRun(j)
    BY <2>5 DEF FailJob, IndexRun, GoTo, Licensed, Typed, JobForms
  <2>6. ASSUME NEW authorizes \in BOOLEAN, CommitRevision(j, authorizes)
        PROVE  Licensed'
    <3>1. /\ project'.pointer = project.pointer
          /\ authorized \subseteq authorized'
      BY <2>6, MadeKeeps DEF CommitRevision, Commit, Typed, Folders
    <3>2. \A i \in Jobs : job'[i].inherited = job[i].inherited
      BY <2>6 DEF CommitRevision, Typed, JobForms
    <3> QED BY <2>6, <3>1, <3>2 DEF CommitRevision, Licensed
  <2>7. CASE PublishRevision(j)
    <3>1. project'.pointer.provenance = job[j].inherited
      BY <2>7, MadeKeeps DEF PublishRevision, Point, Typed, Folders, JobForms
    <3>2. \A i \in Jobs : job'[i].inherited = job[i].inherited
      BY <2>7 DEF PublishRevision, GoTo, Typed, JobForms
    <3> QED BY <2>7, <3>1, <3>2 DEF PublishRevision, Licensed
  <2> QED BY <1>6, <2>1, <2>2, <2>3, <2>4, <2>5, <2>6, <2>7 DEF JobStep
<1>7. ASSUME NEW p \in Promotions, PromotionStep(p)
      PROVE  Licensed'
  <2>1. ASSUME NEW run \in index, CheckPromotion(p, run)
        PROVE  Licensed'
    BY <2>1 DEF CheckPromotion, Promotable, Licensed, Typed, PromotionForms
  <2>2. CASE StageCandidate(p)
    BY <2>2 DEF StageCandidate, Licensed, Typed, PromotionForms
  <2>3. CASE CommitPromotion(p)
    <3>1. project'.pointer = project.pointer
      BY <2>3, MadeKeeps DEF CommitPromotion, Commit, Typed, Folders
    <3>2. \A q \in Promotions : /\ promotion'[q].run = promotion[q].run
                                /\ promotion'[q].at \in PromotionActive =>
                                      promotion[q].at \in PromotionActive
      BY <2>3 DEF CommitPromotion, Typed, PromotionForms
    <3> QED BY <2>3, <3>1, <3>2 DEF CommitPromotion, Licensed
  <2>4. CASE PublishPromotion(p)
    <3>1. project'.pointer.provenance.run = promotion[p].run
      BY <2>4, MadeKeeps DEF PublishPromotion, Point, Provenance, Typed, Folders
    <3>2. \A q \in Promotions : /\ promotion'[q].run = promotion[q].run
                                /\ promotion'[q].at \in PromotionActive =>
                                      promotion[q].at \in PromotionActive
      BY <2>4 DEF PublishPromotion, Typed, PromotionForms
    <3> QED BY <2>4, <3>1, <3>2 DEF PublishPromotion, Licensed
  <2>5. CASE RefusePromotion(p)
    <3>1. project'.pointer = project.pointer
      BY <2>5, MadeKeeps DEF RefusePromotion, Typed, Folders
    <3>2. \A q \in Promotions : /\ promotion'[q].run = promotion[q].run
                                /\ promotion'[q].at \in PromotionActive =>
                                      promotion[q].at \in PromotionActive
      BY <2>5 DEF RefusePromotion, Typed, PromotionForms
    <3> QED BY <2>5, <3>1, <3>2 DEF RefusePromotion, Licensed
  <2> QED BY <1>7, <2>1, <2>2, <2>3, <2>4, <2>5 DEF PromotionStep
<1>8. CASE CrashAndRestart
  <2>1. \A i \in Jobs : job'[i].inherited = job[i].inherited
    BY <1>8 DEF CrashAndRestart, Typed, JobForms
  <2>2. \A q \in Promotions : promotion'[q].at \notin PromotionActive
    BY <1>8 DEF CrashAndRestart, Typed, PromotionForms
  <2> QED BY <1>8, <2>1, <2>2 DEF CrashAndRestart, Licensed
<1> QED BY <1>1, <1>2, <1>3, <1>4, <1>5, <1>6, <1>7, <1>8 DEF Next, RequestStep

\* Every step keeps the candidates in the sources of promotions.
LEMMA CopiedStep == Typed /\ Bounded /\ Copied /\ [Next]_vars => Copied'
<1> SUFFICES ASSUME Typed, Bounded, Copied, [Next]_vars PROVE Copied'
  OBVIOUS
<1> USE DEF files, flow, vars
<1>1. CASE UNCHANGED vars
  BY <1>1 DEF Copied
<1>2. CASE UploadSource
  <2>1. /\ DOMAIN staged' = DOMAIN staged \cup {lastSource + 1}
        /\ \A s \in DOMAIN staged : s # lastSource + 1 => staged'[s] = staged[s]
    BY <1>2 DEF UploadSource, With
  <2> QED BY <1>2, <2>1 DEF UploadSource, Copied, Typed
<1>3. CASE SweepSources
  <2>1. /\ DOMAIN staged' \subseteq DOMAIN staged
        /\ \A s \in DOMAIN staged' : staged'[s] = staged[s]
    BY <1>3 DEF SweepSources, Restrict
  <2> QED BY <1>3, <2>1 DEF SweepSources, Copied
<1>4. CASE (\E s \in Drafts : SaveDraft(s)) \/ ArchiveProject \/ RemoveProject \/ ClearDraft
           \/ CollectReferences
  BY <1>4 DEF SaveDraft, ArchiveProject, RemoveProject, ClearDraft, CollectReferences, Copied
<1>5. ASSUME NEW j \in Jobs, JobStep(j)
      PROVE  Copied'
  BY <1>5 DEF JobStep, CreateJob, RetryJob, LoadSources, Prepare, FailJob, CommitRevision,
          PublishRevision, IndexRun, Copied
<1>6. ASSUME NEW p \in Promotions, PromotionStep(p)
      PROVE  Copied'
  <2>1. ASSUME NEW run \in index, CheckPromotion(p, run)
        PROVE  Copied'
    BY <2>1 DEF CheckPromotion, Copied, Typed, PromotionForms
  <2>2. CASE StageCandidate(p)
    <3>1. /\ DOMAIN staged' = DOMAIN staged \cup {lastSource + 1}
          /\ staged'[lastSource + 1] = promotion[p].run
          /\ \A s \in DOMAIN staged : s # lastSource + 1 => staged'[s] = staged[s]
      BY <2>2 DEF StageCandidate, With
    <3>2. /\ promotion'[p].run = promotion[p].run
          /\ promotion'[p].source = lastSource + 1
          /\ \A q \in Promotions : q # p => promotion'[q] = promotion[q]
      BY <2>2 DEF StageCandidate, Typed, PromotionForms
    <3> QED BY <2>2, <3>1, <3>2 DEF StageCandidate, Copied, Typed
  <2>3. CASE CommitPromotion(p)
    BY <2>3 DEF CommitPromotion, Copied, Typed, PromotionForms
  <2>4. CASE PublishPromotion(p)
    BY <2>4 DEF PublishPromotion, Copied, Typed, PromotionForms
  <2>5. CASE RefusePromotion(p)
    BY <2>5 DEF RefusePromotion, Copied, Typed, PromotionForms
  <2> QED BY <1>6, <2>1, <2>2, <2>3, <2>4, <2>5 DEF PromotionStep
<1>7. CASE CrashAndRestart
  <2>1. \A q \in Promotions : promotion'[q].at \notin PromotionActive
    BY <1>7 DEF CrashAndRestart, Typed, PromotionForms
  <2> QED BY <2>1 DEF Copied
<1> QED BY <1>1, <1>2, <1>3, <1>4, <1>5, <1>6, <1>7 DEF Next, RequestStep

\* Every step keeps what revisions call accepted authorized, and the candidate's.
LEMMA PromotedBytesStep ==
    Typed /\ Bounded /\ Licensed /\ Copied /\ PromotedBytes /\ [Next]_vars => PromotedBytes'
<1> SUFFICES ASSUME Typed, Bounded, Licensed, Copied, PromotedBytes, [Next]_vars
             PROVE  PromotedBytes'
  OBVIOUS
<1> USE DEF files, flow, vars
<1>a. \A dir \in archived \cup {project} : \A r \in Revisions(dir) :
         Earned(dir.revisions[r], authorized)
  BY DEF PromotedBytes, Directories, Earned
<1>b. ASSUME \A dir \in archived' \cup {project'} : \A r \in Revisions(dir) :
         Earned(dir.revisions[r], authorized')
      PROVE  PromotedBytes'
  BY <1>b DEF PromotedBytes, Directories, Earned
<1>c. ASSUME UNCHANGED <<archived, authorized>>, project'.revisions = project.revisions
      PROVE  PromotedBytes'
  BY <1>a, <1>b, <1>c
<1>1. CASE UNCHANGED vars
  BY <1>1, <1>c
<1>2. CASE UploadSource \/ ClearDraft \/ CollectReferences \/ SweepSources \/ CrashAndRestart
  BY <1>2, <1>c DEF UploadSource, ClearDraft, CollectReferences, SweepSources, CrashAndRestart
<1>3. ASSUME NEW s \in Drafts, SaveDraft(s)
      PROVE  PromotedBytes'
  <2>1. project'.revisions = project.revisions
    BY <1>3, MadeKeeps DEF SaveDraft, Typed, Folders
  <2> QED BY <1>3, <1>c, <2>1 DEF SaveDraft
<1>4. CASE ArchiveProject \/ RemoveProject
  BY <1>4, <1>a, <1>b, NoDirectoryType DEF ArchiveProject, RemoveProject
<1>5. ASSUME NEW j \in Jobs, JobStep(j)
      PROVE  PromotedBytes'
  <2>1. ASSUME NEW authorizes \in BOOLEAN, CommitRevision(j, authorizes)
        PROVE  PromotedBytes'
    <3> DEFINE rev == lastRevision + 1
               receipt == [state |-> "completed", run |-> rev, parent |-> job[j].parent,
                           provenance |-> job[j].inherited, baseline |-> job[j].bytes]
    <3>1. /\ project'.revisions = With(project.revisions, rev, receipt)
          /\ authorized \subseteq authorized'
          /\ archived' = archived
      BY <2>1, MadeKeeps DEF CommitRevision, Commit, Typed, Folders
    <3>2. /\ Revisions(project') = Revisions(project) \cup {rev}
          /\ \A r \in Revisions(project) : r # rev =>
                project'.revisions[r] = project.revisions[r]
          /\ project'.revisions[rev] = receipt
      BY <3>1 DEF With
    <3>3. Earned(receipt, authorized')
      BY <3>1 DEF Licensed, Earned
    <3> HIDE DEF receipt, rev
    <3>4. \A dir \in archived \cup {project} : \A r \in Revisions(dir) :
             Earned(dir.revisions[r], authorized')
      BY <1>a, <3>1 DEF Earned
    <3>5. \A r \in Revisions(project') : Earned(project'.revisions[r], authorized')
      BY <3>2, <3>3, <3>4
    <3> QED BY <1>b, <3>1, <3>4, <3>5
  <2>2. CASE PublishRevision(j)
    <3>1. project'.revisions = project.revisions
      BY <2>2, MadeKeeps DEF PublishRevision, Point, Typed, Folders
    <3> QED BY <2>2, <1>c, <3>1 DEF PublishRevision
  <2> QED BY <1>5, <1>c, <2>1, <2>2 DEF JobStep, CreateJob, RetryJob, LoadSources, Prepare,
          FailJob, IndexRun
<1>6. ASSUME NEW p \in Promotions, PromotionStep(p)
      PROVE  PromotedBytes'
  <2>1. CASE CommitPromotion(p)
    <3> DEFINE rev == lastRevision + 1
               run == promotion[p].run
               receipt == [state |-> "accepted", run |-> run, parent |-> run,
                           provenance |-> Provenance(p),
                           baseline |-> staged[promotion[p].source]]
    <3>1. /\ project'.revisions = With(project.revisions, rev, receipt)
          /\ UNCHANGED <<archived, authorized>>
      BY <2>1, MadeKeeps DEF CommitPromotion, Commit, Typed, Folders
    <3>2. /\ Revisions(project') = Revisions(project) \cup {rev}
          /\ \A r \in Revisions(project) : r # rev =>
                project'.revisions[r] = project.revisions[r]
          /\ project'.revisions[rev] = receipt
      BY <3>1 DEF With
    <3>3. Provenance(p) # None /\ Provenance(p).run = run
      BY StoreAssumption DEF Typed, PromotionForms, Provenance, Provenances
    <3>4. run \in authorized /\ staged[promotion[p].source] = run
      BY <2>1 DEF CommitPromotion, Licensed, Copied
    <3>5. Earned(receipt, authorized)
      BY <3>3, <3>4 DEF Earned
    <3> HIDE DEF receipt, rev, run
    <3>6. \A r \in Revisions(project') : Earned(project'.revisions[r], authorized)
      BY <1>a, <3>2, <3>5
    <3> QED BY <1>a, <1>b, <3>1, <3>6
  <2>2. CASE PublishPromotion(p)
    <3>1. project'.revisions = project.revisions
      BY <2>2, MadeKeeps DEF PublishPromotion, Point, Typed, Folders
    <3> QED BY <2>2, <1>c, <3>1 DEF PublishPromotion
  <2>3. CASE RefusePromotion(p)
    <3>1. project'.revisions = project.revisions
      BY <2>3, MadeKeeps DEF RefusePromotion, Typed, Folders
    <3> QED BY <2>3, <1>c, <3>1 DEF RefusePromotion
  <2> QED BY <1>6, <1>c, <2>1, <2>2, <2>3 DEF PromotionStep, CheckPromotion, StageCandidate
<1> QED BY <1>1, <1>2, <1>3, <1>4, <1>5, <1>6 DEF Next, RequestStep

-----------------------------------------------------------------------------
(* What the steps that write the project's files do                        *)

\* save_draft writes the draft and nothing else.
LEMMA SaveDraftEffect ==
    ASSUME Typed, NEW s \in Drafts, SaveDraft(s)
    PROVE  /\ project'.draft = s
           /\ project'.pointer = project.pointer
           /\ project'.revisions = project.revisions
           /\ project'.made = project.made
  BY MadeKeeps DEF SaveDraft, Typed, Folders

\* The commit of a comparison adds a revision and selects nothing.
LEMMA CommitRevisionEffect ==
    ASSUME Typed, Bounded, NEW j \in Jobs, NEW authorizes \in BOOLEAN,
           CommitRevision(j, authorizes)
    PROVE  /\ lastRevision + 1 \notin Revisions(project)
           /\ project'.draft = project.draft
           /\ project'.pointer = project.pointer
           /\ project'.made
           /\ Revisions(project') = Revisions(project) \cup {lastRevision + 1}
           /\ \A r \in Revisions(project) : project'.revisions[r] = project.revisions[r]
           /\ project'.revisions[lastRevision + 1].parent = job[j].parent
           /\ project'.revisions[lastRevision + 1].provenance = job[j].inherited
           /\ project'.revisions[lastRevision + 1].baseline = job[j].bytes
           /\ job'[j].at = "renamed" /\ job'[j].revision = lastRevision + 1
           /\ job'[j].request = job[j].request /\ job'[j].bytes = job[j].bytes
           /\ job'[j].parent = job[j].parent /\ job'[j].inherited = job[j].inherited
           /\ \A i \in Jobs : i # j => job'[i] = job[i]
<1> DEFINE rev == lastRevision + 1
           receipt == [state |-> "completed", run |-> rev, parent |-> job[j].parent,
                       provenance |-> job[j].inherited, baseline |-> job[j].bytes]
<1>1. /\ project'.draft = project.draft
      /\ project'.pointer = project.pointer
      /\ project'.made
      /\ project'.revisions = With(project.revisions, rev, receipt)
  BY MadeKeeps DEF CommitRevision, Commit, Typed, Folders
<1>2. rev \notin Revisions(project)
  BY DEF Bounded, Typed
<1>3. /\ Revisions(project') = Revisions(project) \cup {rev}
      /\ \A r \in Revisions(project) : project'.revisions[r] = project.revisions[r]
      /\ project'.revisions[rev] = receipt
  BY <1>1, <1>2 DEF With
<1>4. /\ job'[j].at = "renamed" /\ job'[j].revision = lastRevision + 1
      /\ job'[j].request = job[j].request /\ job'[j].bytes = job[j].bytes
      /\ job'[j].parent = job[j].parent /\ job'[j].inherited = job[j].inherited
      /\ \A i \in Jobs : i # j => job'[i] = job[i]
  BY DEF CommitRevision, Typed, JobForms
<1> QED BY <1>1, <1>2, <1>3, <1>4

\* Publishing a comparison selects its revision and changes nothing else.
LEMMA PublishRevisionEffect ==
    ASSUME Typed, NEW j \in Jobs, PublishRevision(j)
    PROVE  /\ project'.draft = project.draft
           /\ project'.pointer # None
           /\ project'.pointer.revision = job[j].revision
           /\ project'.pointer.provenance = job[j].inherited
           /\ project'.revisions = project.revisions
           /\ project'.made = project.made
           /\ job'[j] = [job[j] EXCEPT !.at = "published"]
           /\ \A i \in Jobs : i # j => job'[i] = job[i]
<1>1. job[j].revision \in Names /\ job[j].inherited \in Provenances \cup {None}
  BY DEF Typed, JobForms
<1>2. project' = Point(project, job[j].revision, job[j].inherited) /\ project \in Folders
  BY DEF PublishRevision, Typed
<1>3. /\ job'[j] = [job[j] EXCEPT !.at = "published"]
      /\ \A i \in Jobs : i # j => job'[i] = job[i]
  BY DEF PublishRevision, GoTo, Typed
<1>4. /\ project'.draft = project.draft
      /\ project'.pointer # None
      /\ project'.pointer.revision = job[j].revision
      /\ project'.pointer.provenance = job[j].inherited
      /\ project'.revisions = project.revisions
      /\ project'.made = project.made
  BY <1>1, <1>2, PointMoves
<1> QED BY <1>3, <1>4

\* The commit of a promotion adds a revision and selects nothing.
LEMMA CommitPromotionEffect ==
    ASSUME Typed, Bounded, NEW p \in Promotions, CommitPromotion(p)
    PROVE  /\ lastRevision + 1 \notin Revisions(project)
           /\ project'.draft = project.draft
           /\ project'.pointer = project.pointer
           /\ project'.made
           /\ Revisions(project') = Revisions(project) \cup {lastRevision + 1}
           /\ \A r \in Revisions(project) : project'.revisions[r] = project.revisions[r]
           /\ project'.revisions[lastRevision + 1].parent = promotion[p].run
           /\ project'.revisions[lastRevision + 1].provenance = Provenance(p)
           /\ project'.revisions[lastRevision + 1].baseline = staged[promotion[p].source]
           /\ promotion'[p].at = "renamed" /\ promotion'[p].revision = lastRevision + 1
           /\ promotion'[p].run = promotion[p].run /\ promotion'[p].source = promotion[p].source
           /\ \A q \in Promotions : q # p => promotion'[q] = promotion[q]
<1> DEFINE rev == lastRevision + 1
           run == promotion[p].run
           receipt == [state |-> "accepted", run |-> run, parent |-> run,
                       provenance |-> Provenance(p),
                       baseline |-> staged[promotion[p].source]]
<1>1. /\ project'.draft = project.draft
      /\ project'.pointer = project.pointer
      /\ project'.made
      /\ project'.revisions = With(project.revisions, rev, receipt)
  BY MadeKeeps DEF CommitPromotion, Commit, Typed, Folders
<1>2. rev \notin Revisions(project)
  BY DEF Bounded, Typed
<1>3. /\ Revisions(project') = Revisions(project) \cup {rev}
      /\ \A r \in Revisions(project) : project'.revisions[r] = project.revisions[r]
      /\ project'.revisions[rev] = receipt
  BY <1>1, <1>2 DEF With
<1>4. /\ promotion'[p].at = "renamed" /\ promotion'[p].revision = lastRevision + 1
      /\ promotion'[p].run = promotion[p].run /\ promotion'[p].source = promotion[p].source
      /\ \A q \in Promotions : q # p => promotion'[q] = promotion[q]
  BY DEF CommitPromotion, Typed, PromotionForms
<1> QED BY <1>1, <1>2, <1>3, <1>4

\* Publishing a promotion selects its revision and changes nothing else.
LEMMA PublishPromotionEffect ==
    ASSUME Typed, NEW p \in Promotions, PublishPromotion(p)
    PROVE  /\ project'.draft = project.draft
           /\ project'.pointer # None
           /\ project'.pointer.revision = promotion[p].revision
           /\ project'.pointer.provenance = Provenance(p)
           /\ project'.revisions = project.revisions
           /\ project'.made = project.made
           /\ promotion'[p] = [promotion[p] EXCEPT !.at = "accepted"]
           /\ \A q \in Promotions : q # p => promotion'[q] = promotion[q]
<1>1. promotion[p].revision \in Names /\ Provenance(p) \in Provenances \cup {None}
  BY DEF Typed, PromotionForms, Provenance, Provenances
<1>2. project' = Point(project, promotion[p].revision, Provenance(p)) /\ project \in Folders
  BY DEF PublishPromotion, Typed
<1>3. /\ promotion'[p] = [promotion[p] EXCEPT !.at = "accepted"]
      /\ \A q \in Promotions : q # p => promotion'[q] = promotion[q]
  BY DEF PublishPromotion, Typed
<1>4. /\ project'.draft = project.draft
      /\ project'.pointer # None
      /\ project'.pointer.revision = promotion[p].revision
      /\ project'.pointer.provenance = Provenance(p)
      /\ project'.revisions = project.revisions
      /\ project'.made = project.made
  BY <1>1, <1>2, PointMoves
<1> QED BY <1>3, <1>4

\* A refused promotion leaves at most an empty revisions directory.
LEMMA RefusePromotionEffect ==
    ASSUME Typed, NEW p \in Promotions, RefusePromotion(p)
    PROVE  /\ project'.draft = project.draft
           /\ project'.pointer = project.pointer
           /\ project'.revisions = project.revisions
           /\ project.made => project'.made
           /\ promotion'[p] = [promotion[p] EXCEPT !.at = "refused"]
           /\ \A q \in Promotions : q # p => promotion'[q] = promotion[q]
  BY MadeKeeps DEF RefusePromotion, Typed, Folders

\* Staging a candidate adds a source.
LEMMA StageCandidateEffect ==
    ASSUME Typed, Bounded, NEW p \in Promotions, StageCandidate(p)
    PROVE  /\ DOMAIN staged' = DOMAIN staged \cup {lastSource + 1}
           /\ staged'[lastSource + 1] = promotion[p].run
           /\ \A s \in DOMAIN staged : staged'[s] = staged[s]
           /\ promotion'[p].at = "staged" /\ promotion'[p].source = lastSource + 1
           /\ promotion'[p].run = promotion[p].run
           /\ \A q \in Promotions : q # p => promotion'[q] = promotion[q]
<1>1. lastSource + 1 \notin DOMAIN staged
  BY DEF Typed, Bounded
<1> QED BY <1>1 DEF StageCandidate, With, Typed, PromotionForms

\* An upload adds a source.
LEMMA UploadSourceEffect ==
    ASSUME Typed, Bounded, UploadSource
    PROVE  /\ DOMAIN staged \subseteq DOMAIN staged'
           /\ \A s \in DOMAIN staged : staged'[s] = staged[s]
<1>1. lastSource + 1 \notin DOMAIN staged
  BY DEF Typed, Bounded
<1> QED BY <1>1 DEF UploadSource, With, Typed

\* A job that prepares takes the revision it sees for its parent.
LEMMA PrepareEffect ==
    ASSUME Typed, NEW j \in Jobs, Prepare(j)
    PROVE  /\ job'[j].at = "prepared"
           /\ job'[j].request = job[j].request
           /\ job'[j].parent = Tip(project)
           /\ job'[j].inherited = Inherited(job[j].request)
           /\ job'[j].bytes = Normalized(job[j].bytes, job[j].request.mapping)
           /\ \A i \in Jobs : i # j => job'[i] = job[i]
  BY DEF Prepare, Typed, JobForms

\* The other steps of a job change its progress, its request and its bytes.
LEMMA JobEffect ==
    ASSUME Typed, NEW j \in Jobs,
           \/ \E mapping \in traffic.mappings : CreateJob(j, mapping)
           \/ \E old \in Jobs : RetryJob(j, old)
           \/ LoadSources(j) \/ FailJob(j) \/ IndexRun(j)
    PROVE  /\ job'[j].at \notin {"prepared", "renamed"}
           /\ job'[j].at = "loaded" =>
                 /\ job'[j].request.source \in DOMAIN staged
                 /\ job'[j].bytes = staged[job'[j].request.source]
           /\ \A i \in Jobs : i # j => job'[i] = job[i]
           /\ UNCHANGED <<files, promotion, clearing, lastSource, lastRevision>>
<1> USE DEF Typed, JobForms
<1>1. ASSUME NEW mapping \in traffic.mappings, CreateJob(j, mapping)
      PROVE  /\ job'[j].at = "waiting"
             /\ \A i \in Jobs : i # j => job'[i] = job[i]
             /\ UNCHANGED <<files, promotion, clearing, lastSource, lastRevision>>
  <2>1. PICK request : job' = [job EXCEPT ![j] = [job[j] EXCEPT !.at = "waiting", !.request = request]]
    BY <1>1 DEF CreateJob
  <2>2. UNCHANGED <<files, promotion, clearing, lastSource, lastRevision>>
    BY <1>1 DEF CreateJob
  <2> QED BY <2>1, <2>2
<1>2. ASSUME NEW old \in Jobs, RetryJob(j, old)
      PROVE  /\ job'[j].at = "waiting"
             /\ \A i \in Jobs : i # j => job'[i] = job[i]
             /\ UNCHANGED <<files, promotion, clearing, lastSource, lastRevision>>
  BY <1>2 DEF RetryJob
<1>3. CASE LoadSources(j)
  BY <1>3 DEF LoadSources
<1>4. CASE FailJob(j)
  BY <1>4 DEF FailJob, GoTo
<1>5. CASE IndexRun(j)
  BY <1>5 DEF IndexRun, GoTo
<1> QED BY <1>1, <1>2, <1>3, <1>4, <1>5

\* A crash ends every comparison and every promotion.
LEMMA CrashEffect ==
    ASSUME Typed, CrashAndRestart
    PROVE  /\ \A j \in Jobs : /\ job'[j].at \notin JobActive
                              /\ job'[j].request = job[j].request
           /\ \A p \in Promotions : promotion'[p].at \notin PromotionActive
           /\ clearing'.at = "idle"
           /\ UNCHANGED <<files, lastSource, lastRevision>>
  BY DEF CrashAndRestart, NotClearing, Typed, JobForms, PromotionForms

-----------------------------------------------------------------------------
(* Who may work at the same time                                           *)

\* The executor is exclusive.
Holding == \A j \in Jobs : lock = j <=> job[j].at \in Locked

\* Promotions and the clearing of a draft run alone.
Apart ==
    /\ \A p \in Promotions : promotion[p].at \in PromotionActive =>
          /\ \A j \in Jobs : job[j].at \notin JobActive
          /\ clearing.at = "idle"
          /\ \A q \in Promotions : promotion[q].at \in PromotionActive => q = p
    /\ clearing.at \in ClearActive => \A j \in Jobs : job[j].at \notin JobActive

\* Every step keeps the executor exclusive.
LEMMA HoldingStep == Typed /\ Holding /\ [Next]_vars => Holding'
<1> SUFFICES ASSUME Typed, Holding, [Next]_vars PROVE Holding'
  OBVIOUS
<1> USE DEF files, flow, vars, Locked
<1>a. None \notin Jobs
  BY StoreAssumption
<1>1. CASE UNCHANGED vars
  BY <1>1 DEF Holding
<1>2. CASE \/ UploadSource \/ (\E s \in Drafts : SaveDraft(s)) \/ ArchiveProject
           \/ ClearDraft \/ RemoveProject \/ CollectReferences \/ SweepSources
           \/ \E p \in Promotions : PromotionStep(p)
  BY <1>2 DEF UploadSource, SaveDraft, ArchiveProject, ClearDraft, RemoveProject,
         CollectReferences, SweepSources, PromotionStep, CheckPromotion, StageCandidate,
         CommitPromotion, PublishPromotion, RefusePromotion, Holding
<1>3. ASSUME NEW j \in Jobs, JobStep(j)
      PROVE  Holding'
  <2>a. job[j] \in JobForms
    BY DEF Typed
  <2>1. CASE \/ \E mapping \in traffic.mappings : CreateJob(j, mapping)
             \/ \E old \in Jobs : RetryJob(j, old)
    <3>1. /\ job[j].at = "none"
          /\ job'[j].at = "waiting"
          /\ \A i \in Jobs : i # j => job'[i] = job[i]
          /\ lock' = lock
      <4>1. PICK request :
              job' = [job EXCEPT ![j] = [job[j] EXCEPT !.at = "waiting", !.request = request]]
        BY <2>1 DEF CreateJob, RetryJob
      <4> QED BY <2>1, <2>a, <4>1 DEF CreateJob, RetryJob, Typed, JobForms
    <3> QED BY <3>1 DEF Holding
  <2>2. CASE LoadSources(j)
    BY <1>a, <2>2, <2>a DEF LoadSources, Holding, Typed, JobForms
  <2>3. CASE Prepare(j)
    BY <2>3, <2>a, PrepareEffect DEF Prepare, Holding
  <2>4. CASE FailJob(j)
    BY <1>a, <2>4, <2>a DEF FailJob, GoTo, Holding, Typed, JobForms
  <2>5. ASSUME NEW authorizes \in BOOLEAN, CommitRevision(j, authorizes)
        PROVE  Holding'
    BY <2>5, <2>a DEF CommitRevision, Holding, Typed, JobForms
  <2>6. CASE PublishRevision(j)
    BY <1>a, <2>6, <2>a DEF PublishRevision, GoTo, Holding, Typed, JobForms
  <2>7. CASE IndexRun(j)
    BY <2>7, <2>a DEF IndexRun, GoTo, Holding, Typed, JobForms
  <2> QED BY <1>3, <2>1, <2>2, <2>3, <2>4, <2>5, <2>6, <2>7 DEF JobStep
<1>4. CASE CrashAndRestart
  <2>1. \A j \in Jobs : job'[j].at \notin JobActive
    BY <1>4, CrashEffect
  <2> QED BY <1>a, <1>4, <2>1 DEF CrashAndRestart, Holding
<1> QED BY <1>1, <1>2, <1>3, <1>4 DEF Next, RequestStep

\* What is in flight when a request begins.
LEMMA StartsApart ==
    ASSUME Serialized, NEW kind \in Kinds, MayStart(kind)
    PROVE  /\ \A p \in Promotions : promotion[p].at \notin PromotionActive
           /\ clearing.at \notin ClearActive
           /\ kind \in {"promote", "clear"} => \A j \in Jobs : job[j].at \notin JobActive
<1>1. "promote" \notin traffic.together /\ "clear" \notin traffic.together
  BY DEF Serialized
<1>2. "promote" \notin InFlight /\ "clear" \notin InFlight
  BY <1>1 DEF MayStart
<1>3. kind \in {"promote", "clear"} => "compare" \notin InFlight
  BY <1>1 DEF MayStart
<1> QED BY <1>2, <1>3 DEF InFlight

\* Every step keeps promotions and clearing alone.
LEMMA ApartStep == Typed /\ Serialized /\ Apart /\ [Next]_vars => Apart'
<1> SUFFICES ASSUME Typed, Serialized, Apart, [Next]_vars PROVE Apart'
  OBVIOUS
<1> USE DEF files, flow, vars, Kinds
<1>1. CASE UNCHANGED vars
  BY <1>1 DEF Apart
<1>2. CASE UploadSource \/ (\E s \in Drafts : SaveDraft(s)) \/ ArchiveProject
  BY <1>2 DEF UploadSource, SaveDraft, ArchiveProject, Apart
<1>3. CASE ClearDraft
  <2>1. /\ \A p \in Promotions : promotion[p].at \notin PromotionActive
        /\ \A j \in Jobs : job[j].at \notin JobActive
    BY <1>3, StartsApart DEF ClearDraft
  <2> QED BY <1>3, <2>1 DEF ClearDraft, Apart
<1>4. CASE RemoveProject \/ CollectReferences \/ SweepSources
  BY <1>4 DEF RemoveProject, CollectReferences, SweepSources, NotClearing, Apart, Typed
<1>5. ASSUME NEW j \in Jobs, JobStep(j)
      PROVE  Apart'
  <2>1. CASE \/ \E mapping \in traffic.mappings : CreateJob(j, mapping)
             \/ \E old \in Jobs : RetryJob(j, old)
    <3>1. /\ \A p \in Promotions : promotion[p].at \notin PromotionActive
          /\ clearing.at \notin ClearActive
      BY <2>1, StartsApart DEF CreateJob, RetryJob
    <3> QED BY <2>1, <3>1 DEF CreateJob, RetryJob, Apart
  <2>2. CASE \/ LoadSources(j) \/ Prepare(j) \/ FailJob(j)
             \/ (\E authorizes \in BOOLEAN : CommitRevision(j, authorizes))
             \/ PublishRevision(j) \/ IndexRun(j)
    <3>1. job[j].at \in JobActive /\ UNCHANGED <<promotion, clearing>>
      BY <2>2 DEF LoadSources, Prepare, FailJob, CommitRevision, PublishRevision, IndexRun
    <3> QED BY <3>1 DEF Apart
  <2> QED BY <1>5, <2>1, <2>2 DEF JobStep
<1>6. ASSUME NEW p \in Promotions, PromotionStep(p)
      PROVE  Apart'
  <2>1. ASSUME NEW run \in index, CheckPromotion(p, run)
        PROVE  Apart'
    <3>1. /\ \A q \in Promotions : promotion[q].at \notin PromotionActive
          /\ clearing.at \notin ClearActive
          /\ \A j \in Jobs : job[j].at \notin JobActive
      BY <2>1, StartsApart DEF CheckPromotion
    <3> QED BY <2>1, <3>1 DEF CheckPromotion, Apart, Typed
  <2>2. CASE \/ StageCandidate(p) \/ CommitPromotion(p) \/ PublishPromotion(p)
             \/ RefusePromotion(p)
    <3>1. /\ promotion[p].at \in PromotionActive
          /\ UNCHANGED <<job, clearing>>
          /\ \A q \in Promotions : q # p => promotion'[q] = promotion[q]
      BY <2>2 DEF StageCandidate, CommitPromotion, PublishPromotion, RefusePromotion, Typed
    <3> QED BY <3>1 DEF Apart
  <2> QED BY <1>6, <2>1, <2>2 DEF PromotionStep
<1>7. CASE CrashAndRestart
  BY <1>7, CrashEffect DEF Apart
<1> QED BY <1>1, <1>2, <1>3, <1>4, <1>5, <1>6, <1>7 DEF Next, RequestStep

-----------------------------------------------------------------------------
(* Which steps change what                                                 *)

\* Revisions come with commits and leave with their directory.
LEMMA RevisionsChange ==
    ASSUME Typed, Bounded, [Next]_vars
    PROVE  \/ /\ archived' = archived
              /\ project'.revisions = project.revisions
              /\ project.made => project'.made
           \/ ArchiveProject \/ RemoveProject
           \/ \E j \in Jobs, authorizes \in BOOLEAN : CommitRevision(j, authorizes)
           \/ \E p \in Promotions : CommitPromotion(p)
<1> USE DEF files, flow, vars
<1>1. CASE UNCHANGED vars \/ UploadSource \/ ClearDraft \/ CollectReferences \/ SweepSources
           \/ CrashAndRestart
  BY <1>1 DEF UploadSource, ClearDraft, CollectReferences, SweepSources, CrashAndRestart
<1>2. ASSUME NEW s \in Drafts, SaveDraft(s)
      PROVE  /\ archived' = archived
             /\ project'.revisions = project.revisions
             /\ project.made => project'.made
  BY <1>2, SaveDraftEffect DEF SaveDraft
<1>3. ASSUME NEW j \in Jobs, JobStep(j)
      PROVE  \/ \E authorizes \in BOOLEAN : CommitRevision(j, authorizes)
             \/ /\ archived' = archived
                /\ project'.revisions = project.revisions
                /\ project.made => project'.made
  <2>1. CASE PublishRevision(j)
    BY <2>1, PublishRevisionEffect DEF PublishRevision
  <2>2. CASE Prepare(j)
    BY <2>2 DEF Prepare
  <2> QED BY <1>3, <2>1, <2>2, JobEffect DEF JobStep
<1>4. ASSUME NEW p \in Promotions, PromotionStep(p)
      PROVE  \/ CommitPromotion(p)
             \/ /\ archived' = archived
                /\ project'.revisions = project.revisions
                /\ project.made => project'.made
  <2>1. CASE PublishPromotion(p)
    BY <2>1, PublishPromotionEffect DEF PublishPromotion
  <2>2. CASE RefusePromotion(p)
    BY <2>2, RefusePromotionEffect DEF RefusePromotion
  <2> QED BY <1>4, <2>1, <2>2 DEF PromotionStep, CheckPromotion, StageCandidate
<1> QED BY <1>1, <1>2, <1>3, <1>4 DEF Next, RequestStep

\* A pointer moves when something is published, and leaves with its directory.
LEMMA PointerChange ==
    ASSUME Typed, Bounded, [Next]_vars
    PROVE  \/ project'.pointer = project.pointer
           \/ ArchiveProject \/ RemoveProject
           \/ \E j \in Jobs : PublishRevision(j)
           \/ \E p \in Promotions : PublishPromotion(p)
<1> USE DEF files, flow, vars
<1>1. CASE UNCHANGED vars \/ UploadSource \/ ClearDraft \/ CollectReferences \/ SweepSources
           \/ CrashAndRestart
  BY <1>1 DEF UploadSource, ClearDraft, CollectReferences, SweepSources, CrashAndRestart
<1>2. ASSUME NEW s \in Drafts, SaveDraft(s)
      PROVE  project'.pointer = project.pointer
  BY <1>2, SaveDraftEffect
<1>3. ASSUME NEW j \in Jobs, JobStep(j)
      PROVE  PublishRevision(j) \/ project'.pointer = project.pointer
  <2>1. ASSUME NEW authorizes \in BOOLEAN, CommitRevision(j, authorizes)
        PROVE  project'.pointer = project.pointer
    BY <2>1, CommitRevisionEffect
  <2>2. CASE Prepare(j)
    BY <2>2 DEF Prepare
  <2> QED BY <1>3, <2>1, <2>2, JobEffect DEF JobStep
<1>4. ASSUME NEW p \in Promotions, PromotionStep(p)
      PROVE  PublishPromotion(p) \/ project'.pointer = project.pointer
  <2>1. CASE CommitPromotion(p)
    BY <2>1, CommitPromotionEffect
  <2>2. CASE RefusePromotion(p)
    BY <2>2, RefusePromotionEffect
  <2> QED BY <1>4, <2>1, <2>2 DEF PromotionStep, CheckPromotion, StageCandidate
<1> QED BY <1>1, <1>2, <1>3, <1>4 DEF Next, RequestStep

\* A draft changes when it is saved, and leaves with its directory.
LEMMA DraftChange ==
    ASSUME Typed, Bounded, [Next]_vars
    PROVE  \/ project'.draft = project.draft
           \/ ArchiveProject \/ RemoveProject
           \/ \E s \in Drafts : SaveDraft(s)
<1> USE DEF files, flow, vars
<1>1. CASE UNCHANGED vars \/ UploadSource \/ ClearDraft \/ CollectReferences \/ SweepSources
           \/ CrashAndRestart
  BY <1>1 DEF UploadSource, ClearDraft, CollectReferences, SweepSources, CrashAndRestart
<1>2. ASSUME NEW j \in Jobs, JobStep(j)
      PROVE  project'.draft = project.draft
  <2>1. ASSUME NEW authorizes \in BOOLEAN, CommitRevision(j, authorizes)
        PROVE  project'.draft = project.draft
    BY <2>1, CommitRevisionEffect
  <2>2. CASE Prepare(j)
    BY <2>2 DEF Prepare
  <2>3. CASE PublishRevision(j)
    BY <2>3, PublishRevisionEffect
  <2> QED BY <1>2, <2>1, <2>2, <2>3, JobEffect DEF JobStep
<1>3. ASSUME NEW p \in Promotions, PromotionStep(p)
      PROVE  project'.draft = project.draft
  <2>1. CASE CommitPromotion(p)
    BY <2>1, CommitPromotionEffect
  <2>2. CASE RefusePromotion(p)
    BY <2>2, RefusePromotionEffect
  <2>3. CASE PublishPromotion(p)
    BY <2>3, PublishPromotionEffect
  <2> QED BY <1>3, <2>1, <2>2, <2>3 DEF PromotionStep, CheckPromotion, StageCandidate
<1> QED BY <1>1, <1>2, <1>3 DEF Next, RequestStep

\* A source stays on disk, with its bytes, until sources are collected.
LEMMA StagedChange ==
    ASSUME Typed, Bounded, [Next]_vars
    PROVE  /\ DOMAIN staged \subseteq DOMAIN staged' \/ SweepSources
           /\ \A s \in DOMAIN staged : s \in DOMAIN staged' => staged'[s] = staged[s]
<1> USE DEF files, flow, vars
<1>1. CASE \/ UNCHANGED vars \/ ClearDraft \/ CollectReferences \/ CrashAndRestart
           \/ (\E s \in Drafts : SaveDraft(s)) \/ ArchiveProject \/ RemoveProject
  BY <1>1 DEF ClearDraft, CollectReferences, CrashAndRestart, SaveDraft, ArchiveProject,
              RemoveProject
<1>2. CASE UploadSource
  BY <1>2, UploadSourceEffect
<1>3. CASE SweepSources
  BY <1>3 DEF SweepSources, Restrict
<1>4. ASSUME NEW j \in Jobs, JobStep(j)
      PROVE  staged' = staged
  BY <1>4 DEF JobStep, CreateJob, RetryJob, LoadSources, Prepare, FailJob, CommitRevision,
              PublishRevision, IndexRun
<1>5. ASSUME NEW p \in Promotions, PromotionStep(p)
      PROVE  /\ DOMAIN staged \subseteq DOMAIN staged'
             /\ \A s \in DOMAIN staged : staged'[s] = staged[s]
  <2>1. CASE StageCandidate(p)
    BY <2>1, StageCandidateEffect
  <2> QED BY <1>5, <2>1 DEF PromotionStep, CheckPromotion, CommitPromotion, PublishPromotion,
             RefusePromotion
<1> QED BY <1>1, <1>2, <1>3, <1>4, <1>5 DEF Next, RequestStep

\* What a step makes of one job, as far as the project's files are concerned.
LEMMA JobChange ==
    ASSUME Typed, Bounded, [Next]_vars, NEW i \in Jobs
    PROVE  \/ job'[i] = job[i]
           \/ job'[i].at \notin Locked
           \/ /\ job'[i].at = "loaded"
              /\ job'[i].request.source \in DOMAIN staged
              /\ job'[i].bytes = staged[job'[i].request.source]
              /\ staged' = staged
           \/ Prepare(i)
           \/ \E authorizes \in BOOLEAN : CommitRevision(i, authorizes)
<1> USE DEF files, flow, vars
<1>1. CASE \/ UNCHANGED vars \/ UploadSource \/ (\E s \in Drafts : SaveDraft(s))
           \/ ArchiveProject \/ ClearDraft \/ RemoveProject \/ CollectReferences \/ SweepSources
           \/ \E p \in Promotions : PromotionStep(p)
  BY <1>1 DEF UploadSource, SaveDraft, ArchiveProject, ClearDraft, RemoveProject,
         CollectReferences, SweepSources, PromotionStep, CheckPromotion, StageCandidate,
         CommitPromotion, PublishPromotion, RefusePromotion
<1>2. ASSUME NEW j \in Jobs, JobStep(j)
      PROVE  \/ job'[i] = job[i]
             \/ job'[i].at \notin Locked
             \/ /\ job'[i].at = "loaded"
                /\ job'[i].request.source \in DOMAIN staged
                /\ job'[i].bytes = staged[job'[i].request.source]
                /\ staged' = staged
             \/ Prepare(i)
             \/ \E authorizes \in BOOLEAN : CommitRevision(i, authorizes)
  <2>1. CASE Prepare(j)
    BY <2>1, PrepareEffect
  <2>2. ASSUME NEW authorizes \in BOOLEAN, CommitRevision(j, authorizes)
        PROVE  i = j \/ job'[i] = job[i]
    BY <2>2, CommitRevisionEffect
  <2>3. CASE PublishRevision(j)
    <3>1. job'[j] = [job[j] EXCEPT !.at = "published"] /\ job[j] \in JobForms
      BY <2>3, PublishRevisionEffect DEF Typed
    <3>2. job'[j].at = "published"
      BY <3>1 DEF JobForms
    <3> QED BY <2>3, <3>2, PublishRevisionEffect DEF Locked
  <2> QED BY <1>2, <2>1, <2>2, <2>3, JobEffect DEF JobStep, Locked
<1>3. CASE CrashAndRestart
  BY <1>3, CrashEffect DEF Locked
<1> QED BY <1>1, <1>2, <1>3 DEF Next, RequestStep

\* What a step makes of one promotion.
LEMMA PromotionChange ==
    ASSUME Typed, Bounded, [Next]_vars, NEW p \in Promotions
    PROVE  \/ promotion'[p] = promotion[p]
           \/ promotion'[p].at \notin PromotionActive
           \/ \E run \in index : CheckPromotion(p, run)
           \/ StageCandidate(p) \/ CommitPromotion(p)
<1> USE DEF files, flow, vars
<1>1. CASE \/ UNCHANGED vars \/ UploadSource \/ (\E s \in Drafts : SaveDraft(s))
           \/ ArchiveProject \/ ClearDraft \/ RemoveProject \/ CollectReferences \/ SweepSources
           \/ \E j \in Jobs : JobStep(j)
  BY <1>1 DEF UploadSource, SaveDraft, ArchiveProject, ClearDraft, RemoveProject,
         CollectReferences, SweepSources, JobStep, CreateJob, RetryJob, LoadSources, Prepare,
         FailJob, CommitRevision, PublishRevision, IndexRun
<1>2. ASSUME NEW q \in Promotions, PromotionStep(q)
      PROVE  \/ promotion'[p] = promotion[p]
             \/ promotion'[p].at \notin PromotionActive
             \/ \E run \in index : CheckPromotion(p, run)
             \/ StageCandidate(p) \/ CommitPromotion(p)
  <2>1. CASE \/ (\E run \in index : CheckPromotion(q, run)) \/ StageCandidate(q)
             \/ CommitPromotion(q)
    <3>1. q # p => promotion'[p] = promotion[p]
      BY <2>1 DEF CheckPromotion, StageCandidate, CommitPromotion, Typed
    <3> QED BY <2>1, <3>1
  <2>2. CASE PublishPromotion(q) \/ RefusePromotion(q)
    <3>1. /\ promotion'[q].at \in {"accepted", "refused"}
          /\ q # p => promotion'[p] = promotion[p]
      BY <2>2 DEF PublishPromotion, RefusePromotion, Typed, PromotionForms
    <3> QED BY <3>1
  <2> QED BY <1>2, <2>1, <2>2 DEF PromotionStep
<1>3. CASE CrashAndRestart
  BY <1>3, CrashEffect
<1> QED BY <1>1, <1>2, <1>3 DEF Next, RequestStep

\* What a step makes of the clearing of a draft.
LEMMA ClearingChange ==
    ASSUME Typed, Bounded, [Next]_vars
    PROVE  \/ clearing' = clearing
           \/ clearing'.at \notin {"removing", "sweeping"}
           \/ ClearDraft \/ CollectReferences
<1> USE DEF files, flow, vars
<1>1. CASE \/ UNCHANGED vars \/ UploadSource \/ (\E s \in Drafts : SaveDraft(s))
           \/ ArchiveProject
           \/ (\E j \in Jobs : JobStep(j)) \/ (\E p \in Promotions : PromotionStep(p))
  BY <1>1 DEF UploadSource, SaveDraft, ArchiveProject, JobStep, CreateJob, RetryJob,
         LoadSources, Prepare, FailJob, CommitRevision, PublishRevision, IndexRun,
         PromotionStep, CheckPromotion, StageCandidate, CommitPromotion, PublishPromotion,
         RefusePromotion
<1>2. CASE RemoveProject \/ SweepSources \/ CrashAndRestart
  BY <1>2, CrashEffect DEF RemoveProject, SweepSources, NotClearing, Typed
<1> QED BY <1>1, <1>2 DEF Next, RequestStep

-----------------------------------------------------------------------------
(* The project is whole                                                    *)

\* A directory holds the parents of its revisions.
Ancestry ==
    \A dir \in Directories : \A r \in Revisions(dir) :
        dir.revisions[r].parent \in Revisions(dir) \cup {None}

\* Only a directory made for revisions holds some; what is selected is there,
\* and the accepted baseline on disk is the candidate that the pointer names.
Selects ==
    /\ ~project.made => Revisions(project) = {}
    /\ Pointer(project) # None =>
          /\ project.pointer.revision \in Revisions(project)
          /\ project.pointer.provenance # None =>
                staged[project.pointer.provenance.source] = project.pointer.provenance.run

\* What drafts and pointers name is on disk.
OnDisk == \A dir \in Directories : References(dir) \subseteq DOMAIN staged

\* A job that has read its baseline holds the bytes that are on disk.
Loaded ==
    \A j \in Jobs : job[j].at = "loaded" =>
        /\ job[j].request.source \in DOMAIN staged
        /\ job[j].bytes = staged[job[j].request.source]

\* A job that has prepared saw the revision and the baseline still selected.
Prepared ==
    \A j \in Jobs : job[j].at \in {"prepared", "renamed"} =>
        /\ job[j].parent = Tip(project)
        /\ job[j].inherited # None =>
              /\ Pointer(project) # None
              /\ job[j].inherited = project.pointer.provenance

\* A job that has committed has its revision in the project.
Committed ==
    \A j \in Jobs : job[j].at = "renamed" =>
        /\ job[j].revision \in Revisions(project)
        /\ project.revisions[job[j].revision].parent = job[j].parent
        /\ project.revisions[job[j].revision].provenance = job[j].inherited
        /\ project.revisions[job[j].revision].baseline = job[j].bytes

\* A promotion works on the revision that is still selected, and its source and
\* its revision are there.
Promoting ==
    \A p \in Promotions : promotion[p].at \in PromotionActive =>
        /\ Pointer(project) # None
        /\ project.pointer.revision = promotion[p].run
        /\ promotion[p].at # "checked" => promotion[p].source \in DOMAIN staged
        /\ promotion[p].at = "renamed" =>
              /\ promotion[p].revision \in Revisions(project)
              /\ project.revisions[promotion[p].revision].parent = promotion[p].run
              /\ project.revisions[promotion[p].revision].provenance = Provenance(p)
              /\ project.revisions[promotion[p].revision].baseline = promotion[p].run

\* Clearing removes what is no more than a draft, and keeps what it has seen
\* named.
Clearing ==
    /\ clearing.at = "removing" => ~project.made /\ Pointer(project) = None
    /\ clearing.at = "sweeping" =>
          \A dir \in Directories : References(dir) \subseteq clearing.retained

Alone == Serialized /\ Typed /\ Bounded /\ Copied /\ Holding /\ Apart
Whole == Ancestry /\ Selects /\ OnDisk /\ Loaded /\ Prepared /\ Committed /\ Promoting /\ Clearing

\* While a job holds the lock, and does not move, the rest of the project grows.
LEMMA LockedUndisturbed ==
    ASSUME Alone, [Next]_vars, NEW j \in Jobs, job[j].at \in Locked,
           \/ job'[j] = job[j]
           \/ Prepare(j)
    PROVE  /\ project'.pointer = project.pointer
           /\ Revisions(project) \subseteq Revisions(project')
           /\ \A r \in Revisions(project) : project'.revisions[r] = project.revisions[r]
           /\ DOMAIN staged \subseteq DOMAIN staged'
<1> USE DEF Alone
<1>1. lock = j /\ job[j].at \in JobActive
  BY DEF Holding, Locked
<1>2. ~ArchiveProject
  BY <1>1, StoreAssumption DEF ArchiveProject
<1>3. ~RemoveProject /\ ~SweepSources
  BY <1>1 DEF RemoveProject, SweepSources, Apart
<1>4. ASSUME NEW i \in Jobs
      PROVE  ~PublishRevision(i)
  <2>1. CASE i = j
    <3>1. CASE job'[j] = job[j]
      BY <2>1, <3>1 DEF PublishRevision, GoTo, Typed, JobForms
    <3>2. CASE Prepare(j)
      BY <2>1, <3>2 DEF PublishRevision, Prepare
    <3> QED BY <3>1, <3>2
  <2>2. CASE i # j
    BY <1>1, <2>2 DEF PublishRevision, Holding, Locked
  <2> QED BY <2>1, <2>2
<1>5. ASSUME NEW p \in Promotions
      PROVE  ~PublishPromotion(p) /\ ~CommitPromotion(p)
  BY <1>1 DEF PublishPromotion, CommitPromotion, Apart
<1>6. project'.pointer = project.pointer
  BY <1>2, <1>3, <1>4, <1>5, PointerChange
<1>7. /\ Revisions(project) \subseteq Revisions(project')
      /\ \A r \in Revisions(project) : project'.revisions[r] = project.revisions[r]
  BY <1>2, <1>3, <1>5, RevisionsChange, CommitRevisionEffect
<1> QED BY <1>3, <1>6, <1>7, StagedChange

\* While a promotion is on its way, only the promotion writes the project.
LEMMA PromotionUndisturbed ==
    ASSUME Alone, [Next]_vars, NEW p \in Promotions, promotion[p].at \in PromotionActive,
           promotion'[p].at \in PromotionActive
    PROVE  /\ project'.pointer = project.pointer
           /\ Revisions(project) \subseteq Revisions(project')
           /\ \A r \in Revisions(project) : project'.revisions[r] = project.revisions[r]
           /\ DOMAIN staged \subseteq DOMAIN staged'
<1> USE DEF Alone
<1>1. ~ArchiveProject
  BY StartsApart DEF ArchiveProject, Kinds
<1>2. ~RemoveProject /\ ~SweepSources
  BY DEF RemoveProject, SweepSources, Apart
<1>3. ASSUME NEW j \in Jobs
      PROVE  ~PublishRevision(j)
  BY DEF PublishRevision, Apart
<1>4. ASSUME NEW q \in Promotions
      PROVE  ~PublishPromotion(q)
  <2>1. CASE q = p
    BY <2>1 DEF PublishPromotion, Typed, PromotionForms
  <2>2. CASE q # p
    BY <2>2 DEF PublishPromotion, Apart
  <2> QED BY <2>1, <2>2
<1>5. project'.pointer = project.pointer
  BY <1>1, <1>2, <1>3, <1>4, PointerChange
<1>6. /\ Revisions(project) \subseteq Revisions(project')
      /\ \A r \in Revisions(project) : project'.revisions[r] = project.revisions[r]
  BY <1>1, <1>2, RevisionsChange, CommitRevisionEffect, CommitPromotionEffect
<1> QED BY <1>2, <1>5, <1>6, StagedChange

\* While a draft is being cleared, only the request that clears it writes the
\* project.
LEMMA ClearingUndisturbed ==
    ASSUME Alone, [Next]_vars, clearing.at \in ClearActive, clearing' = clearing
    PROVE  UNCHANGED <<project, archived>>
<1> USE DEF Alone, files, flow, vars
<1>1. /\ \A j \in Jobs : job[j].at \notin JobActive
      /\ \A p \in Promotions : promotion[p].at \notin PromotionActive
  BY DEF Apart
<1>2. ~ArchiveProject /\ \A s \in Drafts : ~SaveDraft(s)
  BY StartsApart DEF ArchiveProject, SaveDraft, Kinds
<1>3. ~RemoveProject
  BY DEF RemoveProject, Typed
<1>4. CASE \/ UNCHANGED vars \/ UploadSource \/ ClearDraft \/ CollectReferences \/ SweepSources
           \/ CrashAndRestart
  BY <1>4 DEF UploadSource, ClearDraft, CollectReferences, SweepSources, CrashAndRestart
<1>5. ASSUME NEW j \in Jobs, JobStep(j)
      PROVE  UNCHANGED <<project, archived>>
  BY <1>1, <1>5 DEF JobStep, CreateJob, RetryJob, LoadSources, Prepare, FailJob,
         CommitRevision, PublishRevision, IndexRun
<1>6. ASSUME NEW p \in Promotions, PromotionStep(p)
      PROVE  UNCHANGED <<project, archived>>
  BY <1>1, <1>6 DEF PromotionStep, CheckPromotion, StageCandidate, CommitPromotion,
         PublishPromotion, RefusePromotion
<1> QED BY <1>2, <1>3, <1>4, <1>5, <1>6 DEF Next, RequestStep

\* Initially there is nothing.
LEMMA WholeInitially == Init => Whole /\ Holding /\ Apart
  BY NoDirectoryType, StoreAssumption
     DEF Init, Whole, Ancestry, Selects, OnDisk, Loaded, Prepared, Committed, Promoting,
         Clearing, Directories, References, Holding, Apart, Locked, IdleJob, IdlePromotion,
         NotClearing

\* Every step keeps the parents of revisions.
LEMMA AncestryStep == Alone /\ Whole /\ [Next]_vars => Ancestry'
<1> SUFFICES ASSUME Alone, Whole, [Next]_vars PROVE Ancestry'
  OBVIOUS
<1> USE DEF Alone, Whole, Directories
<1>1. CASE archived' = archived /\ project'.revisions = project.revisions
  BY <1>1 DEF Ancestry
<1>2. CASE ArchiveProject \/ RemoveProject
  BY <1>2, NoDirectoryType DEF ArchiveProject, RemoveProject, Ancestry
<1>3. ASSUME NEW j \in Jobs, NEW authorizes \in BOOLEAN, CommitRevision(j, authorizes)
      PROVE  Ancestry'
  <2>1. job[j].parent \in Revisions(project) \cup {None}
    BY <1>3 DEF CommitRevision, Prepared, Selects, Tip
  <2>2. archived' = archived
    BY <1>3 DEF CommitRevision
  <2> QED BY <1>3, <2>1, <2>2, CommitRevisionEffect DEF Ancestry
<1>4. ASSUME NEW p \in Promotions, CommitPromotion(p)
      PROVE  Ancestry'
  <2>1. promotion[p].run \in Revisions(project) /\ archived' = archived
    BY <1>4 DEF CommitPromotion
  <2> QED BY <1>4, <2>1, CommitPromotionEffect DEF Ancestry
<1> QED BY <1>1, <1>2, <1>3, <1>4, RevisionsChange

\* Every step keeps what drafts and pointers name on disk.
LEMMA OnDiskStep == Alone /\ Whole /\ [Next]_vars => OnDisk'
<1> SUFFICES ASSUME Alone, Whole, [Next]_vars PROVE OnDisk'
  OBVIOUS
<1> USE DEF Alone, Whole, Directories
<1>1. CASE SweepSources
  BY <1>1 DEF SweepSources, Restrict, OnDisk, Clearing, References
<1>2. CASE ArchiveProject \/ RemoveProject
  BY <1>2, NoDirectoryType DEF ArchiveProject, RemoveProject, OnDisk, References
<1>3. CASE ~SweepSources /\ ~ArchiveProject /\ ~RemoveProject
  <2>1. DOMAIN staged \subseteq DOMAIN staged' /\ archived' = archived
    <3>1. archived' = archived
      BY <1>3, RevisionsChange DEF CommitRevision, CommitPromotion
    <3> QED BY <1>3, <3>1, StagedChange
  <2>2. project'.draft = None \/ project'.draft \in DOMAIN staged
    <3>1. ASSUME NEW s \in Drafts, SaveDraft(s)
          PROVE  s \in DOMAIN staged
      BY DEF Drafts, Uploads, Reopens
    <3>2. project.draft = None \/ project.draft \in DOMAIN staged
      BY DEF OnDisk, References
    <3> QED BY <1>3, <3>1, <3>2, DraftChange, SaveDraftEffect
  <2>3. project'.pointer = None \/ project'.pointer.provenance = None
        \/ project'.pointer.provenance.source \in DOMAIN staged
    <3>1. project.pointer = None \/ project.pointer.provenance = None
          \/ project.pointer.provenance.source \in DOMAIN staged
      BY DEF OnDisk, References
    <3>2. ASSUME NEW j \in Jobs, PublishRevision(j)
          PROVE  job[j].inherited = None \/ job[j].inherited.source \in DOMAIN staged
      BY <3>1, <3>2 DEF PublishRevision, Prepared
    <3>3. ASSUME NEW p \in Promotions, PublishPromotion(p)
          PROVE  Provenance(p).source \in DOMAIN staged
      BY <3>3 DEF PublishPromotion, Promoting, Provenance
    <3> QED BY <1>3, <3>1, <3>2, <3>3, PointerChange, PublishRevisionEffect,
               PublishPromotionEffect
  <2>4. References(project') \subseteq DOMAIN staged
    BY <2>2, <2>3 DEF References
  <2>5. \A dir \in archived : References(dir) \subseteq DOMAIN staged
    BY DEF OnDisk
  <2> QED BY <2>1, <2>4, <2>5 DEF OnDisk
<1> QED BY <1>1, <1>2, <1>3

\* Every step keeps what is selected, and the accepted baseline.
LEMMA SelectsStep == Alone /\ Whole /\ [Next]_vars /\ OnDisk' => Selects'
<1> SUFFICES ASSUME Alone, Whole, [Next]_vars, OnDisk' PROVE Selects'
  OBVIOUS
<1> USE DEF Alone, Whole
<1>1. CASE ArchiveProject \/ RemoveProject
  BY <1>1, NoDirectoryType DEF ArchiveProject, RemoveProject, Selects
<1>2. CASE ~ArchiveProject /\ ~RemoveProject
  <2>1. /\ Revisions(project) \subseteq Revisions(project')
        /\ ~project'.made => Revisions(project') = {}
    BY <1>2, RevisionsChange, CommitRevisionEffect, CommitPromotionEffect DEF Selects
  <2>2. project' \in Directories'
    BY DEF Directories
  <2>3. CASE project'.pointer = project.pointer
    <3>1. ASSUME Pointer(project) # None, project.pointer.provenance # None
          PROVE  /\ project.pointer.provenance.source \in DOMAIN staged
                 /\ project.pointer.provenance.source \in DOMAIN staged'
      BY <2>2, <2>3, <3>1 DEF OnDisk, References, Directories
    <3> QED BY <2>1, <2>3, <3>1, StagedChange DEF Selects
  <2>4. ASSUME NEW j \in Jobs, PublishRevision(j)
        PROVE  Selects'
    <3>1. /\ job[j].revision \in Revisions(project)
          /\ staged' = staged
          /\ job[j].inherited # None => staged[job[j].inherited.source] = job[j].inherited.run
      BY <2>4 DEF PublishRevision, Committed, Prepared, Selects
    <3> QED BY <2>1, <2>4, <3>1, PublishRevisionEffect DEF Selects
  <2>5. ASSUME NEW p \in Promotions, PublishPromotion(p)
        PROVE  Selects'
    <3>1. /\ promotion[p].revision \in Revisions(project)
          /\ staged' = staged
          /\ staged[Provenance(p).source] = Provenance(p).run
      BY <2>5 DEF PublishPromotion, Promoting, Copied, Provenance
    <3> QED BY <2>1, <2>5, <3>1, PublishPromotionEffect DEF Selects
  <2> QED BY <1>2, <2>3, <2>4, <2>5, PointerChange
<1> QED BY <1>1, <1>2

\* Every step keeps the bytes that a job has read on disk.
LEMMA LoadedStep == Alone /\ Whole /\ [Next]_vars => Loaded'
<1> SUFFICES ASSUME Alone, Whole, [Next]_vars, NEW j \in Jobs, job'[j].at = "loaded"
             PROVE  /\ job'[j].request.source \in DOMAIN staged'
                    /\ job'[j].bytes = staged'[job'[j].request.source]
  BY DEF Loaded
<1> USE DEF Alone, Whole, Locked
<1>1. ~Prepare(j) /\ \A authorizes \in BOOLEAN : ~CommitRevision(j, authorizes)
  BY PrepareEffect, CommitRevisionEffect
<1>2. CASE job'[j] = job[j]
  <2>1. DOMAIN staged \subseteq DOMAIN staged'
    BY <1>2, LockedUndisturbed
  <2> QED BY <1>2, <2>1, StagedChange DEF Loaded
<1>3. CASE /\ job'[j].request.source \in DOMAIN staged
           /\ job'[j].bytes = staged[job'[j].request.source]
           /\ staged' = staged
  BY <1>3
<1> QED BY <1>1, <1>2, <1>3, JobChange

\* Every step keeps the revision and baseline that a prepared job saw selected.
LEMMA PreparedStep == Alone /\ Whole /\ [Next]_vars => Prepared'
<1> SUFFICES ASSUME Alone, Whole, [Next]_vars, NEW j \in Jobs,
                    job'[j].at \in {"prepared", "renamed"}
             PROVE  /\ job'[j].parent = Tip(project')
                    /\ job'[j].inherited # None =>
                          /\ Pointer(project') # None
                          /\ job'[j].inherited = project'.pointer.provenance
  BY DEF Prepared
<1> USE DEF Alone, Whole, Locked
<1>1. CASE job'[j] = job[j]
  <2>1. project'.pointer = project.pointer
    BY <1>1, LockedUndisturbed
  <2> QED BY <1>1, <2>1 DEF Prepared, Tip
<1>2. CASE Prepare(j)
  <2>1. project' = project
    BY <1>2 DEF Prepare, files
  <2> QED BY <1>2, <2>1, PrepareEffect DEF Inherited
<1>3. ASSUME NEW authorizes \in BOOLEAN, CommitRevision(j, authorizes)
      PROVE  /\ job'[j].parent = Tip(project')
             /\ job'[j].inherited # None =>
                   /\ Pointer(project') # None
                   /\ job'[j].inherited = project'.pointer.provenance
  <2>1. /\ project'.pointer = project.pointer
        /\ job'[j].parent = job[j].parent
        /\ job'[j].inherited = job[j].inherited
    BY <1>3, CommitRevisionEffect
  <2>2. job[j].at = "prepared"
    BY <1>3 DEF CommitRevision
  <2> QED BY <2>1, <2>2 DEF Prepared, Tip
<1> QED BY <1>1, <1>2, <1>3, JobChange

\* Every step keeps the revision that a job has committed.
LEMMA CommittedStep == Alone /\ Whole /\ [Next]_vars => Committed'
<1> SUFFICES ASSUME Alone, Whole, [Next]_vars, NEW j \in Jobs, job'[j].at = "renamed"
             PROVE  LET rev == job'[j].revision IN
                    /\ rev \in Revisions(project')
                    /\ project'.revisions[rev].parent = job'[j].parent
                    /\ project'.revisions[rev].provenance = job'[j].inherited
                    /\ project'.revisions[rev].baseline = job'[j].bytes
  BY DEF Committed
<1> USE DEF Alone, Whole, Locked
<1>1. CASE job'[j] = job[j]
  BY <1>1, LockedUndisturbed DEF Committed
<1>2. ~Prepare(j)
  BY PrepareEffect
<1>3. ASSUME NEW authorizes \in BOOLEAN, CommitRevision(j, authorizes)
      PROVE  LET rev == job'[j].revision IN
             /\ rev \in Revisions(project')
             /\ project'.revisions[rev].parent = job'[j].parent
             /\ project'.revisions[rev].provenance = job'[j].inherited
             /\ project'.revisions[rev].baseline = job'[j].bytes
  <2>1. /\ job'[j].revision = lastRevision + 1
        /\ job'[j].parent = job[j].parent
        /\ job'[j].inherited = job[j].inherited
        /\ job'[j].bytes = job[j].bytes
    BY <1>3, CommitRevisionEffect
  <2> QED BY <1>3, <2>1, CommitRevisionEffect
<1> QED BY <1>1, <1>2, <1>3, JobChange

\* Every step keeps what a promotion has checked, staged and committed in place.
LEMMA PromotingStep == Alone /\ Whole /\ [Next]_vars => Promoting'
<1> DEFINE Good(p) ==
        /\ Pointer(project) # None
        /\ project.pointer.revision = promotion[p].run
        /\ promotion[p].at # "checked" => promotion[p].source \in DOMAIN staged
        /\ promotion[p].at = "renamed" =>
              /\ promotion[p].revision \in Revisions(project)
              /\ project.revisions[promotion[p].revision].parent = promotion[p].run
              /\ project.revisions[promotion[p].revision].provenance = Provenance(p)
              /\ project.revisions[promotion[p].revision].baseline = promotion[p].run
<1> SUFFICES ASSUME Alone, Whole, [Next]_vars, NEW p \in Promotions,
                    promotion'[p].at \in PromotionActive
             PROVE  Good(p)'
  BY DEF Promoting
<1> USE DEF Alone, Whole
<1>1. CASE promotion'[p] = promotion[p]
  <2>1. Good(p)
    BY <1>1 DEF Promoting
  <2>2. promotion[p].at \in PromotionActive
    BY <1>1
  <2>3. /\ project'.pointer = project.pointer
        /\ Revisions(project) \subseteq Revisions(project')
        /\ \A r \in Revisions(project) : project'.revisions[r] = project.revisions[r]
        /\ DOMAIN staged \subseteq DOMAIN staged'
    BY <2>2, PromotionUndisturbed
  <2> QED BY <1>1, <2>1, <2>3 DEF Provenance
<1>2. ASSUME NEW run \in index, CheckPromotion(p, run)
      PROVE  Good(p)'
  BY <1>2 DEF CheckPromotion, Promotable, files, Typed, PromotionForms
<1>3. CASE StageCandidate(p)
  <2>1. /\ Good(p)
        /\ project' = project
    BY <1>3 DEF StageCandidate, Promoting
  <2>2. /\ promotion'[p].at = "staged"
        /\ promotion'[p].run = promotion[p].run
        /\ promotion'[p].source = lastSource + 1
    BY <1>3, StageCandidateEffect
  <2> QED BY <1>3, <2>1, <2>2, StageCandidateEffect
<1>4. CASE CommitPromotion(p)
  <2>1. /\ Good(p)
        /\ staged' = staged
        /\ staged[promotion[p].source] = promotion[p].run
        /\ promotion[p].at # "checked"
    BY <1>4 DEF CommitPromotion, Promoting, Copied
  <2>2. /\ promotion'[p].at = "renamed"
        /\ promotion'[p].run = promotion[p].run
        /\ promotion'[p].source = promotion[p].source
        /\ promotion'[p].revision = lastRevision + 1
    BY <1>4, CommitPromotionEffect
  <2>3. Provenance(p)' = Provenance(p)
    BY <2>2 DEF Provenance
  <2> QED BY <1>4, <2>1, <2>2, <2>3, CommitPromotionEffect
<1> QED BY <1>1, <1>2, <1>3, <1>4, PromotionChange

\* Every step keeps what the clearing of a draft relies on.
LEMMA ClearingStep == Alone /\ Whole /\ [Next]_vars => Clearing'
<1> SUFFICES ASSUME Alone, Whole, [Next]_vars PROVE Clearing'
  OBVIOUS
<1> USE DEF Alone, Whole
<1>1. CASE clearing' = clearing
  <2>1. CASE clearing.at \in ClearActive
    <3>1. UNCHANGED <<project, archived>>
      BY <1>1, <2>1, ClearingUndisturbed
    <3> QED BY <1>1, <3>1 DEF Clearing, Directories
  <2> QED BY <1>1, <2>1 DEF Clearing
<1>2. CASE ClearDraft
  BY <1>2 DEF ClearDraft, OnlyADraft, Clearing, Typed
<1>3. CASE CollectReferences
  BY <1>3 DEF CollectReferences, files, Clearing, Directories
<1>4. CASE clearing'.at \notin {"removing", "sweeping"}
  BY <1>4 DEF Clearing
<1> QED BY <1>1, <1>2, <1>3, <1>4, ClearingChange

-----------------------------------------------------------------------------
(* What the next read accepts                                              *)

\* A job that has begun has a request, and one that has not has none.
Requested ==
    \A j \in Jobs : job[j].request.mapping \in IF job[j].at = "none" THEN {None} ELSE Mappings

\* A job that passes the accepted baseline on, by a mapping that keeps it whole,
\* holds its bytes.
Agreed ==
    \A j \in Jobs :
        /\ job[j].at \in {"prepared", "renamed"}
        /\ job[j].request.mapping # "partial"
        /\ job[j].inherited # None
        => job[j].bytes = job[j].inherited.run

Verified == WholeMappings /\ Pointer(project) # None => Verifies(project)

\* A request is made once, when its job begins.
LEMMA RequestChange ==
    ASSUME Typed, Bounded, Requested, [Next]_vars, NEW i \in Jobs
    PROVE  \/ /\ job'[i].request = job[i].request
              /\ job'[i].at = "none" <=> job[i].at = "none"
           \/ /\ job[i].at = "none" /\ job'[i].at # "none"
              /\ job'[i].request.mapping \in Mappings
<1> USE DEF files, flow, vars
<1>1. CASE \/ UNCHANGED vars \/ UploadSource \/ (\E s \in Drafts : SaveDraft(s))
           \/ ArchiveProject \/ ClearDraft \/ RemoveProject \/ CollectReferences \/ SweepSources
           \/ \E p \in Promotions : PromotionStep(p)
  BY <1>1 DEF UploadSource, SaveDraft, ArchiveProject, ClearDraft, RemoveProject,
         CollectReferences, SweepSources, PromotionStep, CheckPromotion, StageCandidate,
         CommitPromotion, PublishPromotion, RefusePromotion
<1>2. ASSUME NEW j \in Jobs, JobStep(j)
      PROVE  \/ /\ job'[i].request = job[i].request
                /\ job'[i].at = "none" <=> job[i].at = "none"
             \/ /\ job[i].at = "none" /\ job'[i].at # "none"
                /\ job'[i].request.mapping \in Mappings
  <2>1. ASSUME NEW mapping \in traffic.mappings, CreateJob(j, mapping)
        PROVE  \/ i # j /\ job'[i] = job[i]
               \/ /\ job[i].at = "none" /\ job'[i].at # "none"
                  /\ job'[i].request.mapping \in Mappings
    <3> DEFINE request == [source |-> project.draft, mapping |-> mapping]
    <3>1. request.mapping \in Mappings
      BY DEF Typed
    <3>2. /\ job[j].at = "none"
          /\ job' = [job EXCEPT ![j] = [job[j] EXCEPT !.at = "waiting", !.request = request]]
      BY <2>1 DEF CreateJob
    <3> HIDE DEF request
    <3> QED BY <3>1, <3>2 DEF Typed, JobForms
  <2>2. ASSUME NEW old \in Jobs, RetryJob(j, old)
        PROVE  \/ i # j /\ job'[i] = job[i]
               \/ /\ job[i].at = "none" /\ job'[i].at # "none"
                  /\ job'[i].request.mapping \in Mappings
    <3>1. job[old].request.mapping \in Mappings
      BY <2>2 DEF RetryJob, Requested
    <3> QED BY <2>2, <3>1 DEF RetryJob, Typed, JobForms
  <2>3. CASE LoadSources(j)
    BY <2>3 DEF LoadSources, Typed, JobForms
  <2>4. CASE Prepare(j)
    BY <2>4, PrepareEffect DEF Prepare
  <2>5. CASE FailJob(j)
    BY <2>5 DEF FailJob, GoTo, Typed, JobForms
  <2>6. ASSUME NEW authorizes \in BOOLEAN, CommitRevision(j, authorizes)
        PROVE  /\ job'[i].request = job[i].request
               /\ job'[i].at = "none" <=> job[i].at = "none"
    BY <2>6, CommitRevisionEffect DEF CommitRevision
  <2>7. CASE PublishRevision(j)
    BY <2>7 DEF PublishRevision, GoTo, Typed, JobForms
  <2>8. CASE IndexRun(j)
    BY <2>8 DEF IndexRun, GoTo, Typed, JobForms
  <2> QED BY <1>2, <2>1, <2>2, <2>3, <2>4, <2>5, <2>6, <2>7, <2>8 DEF JobStep
<1>3. CASE CrashAndRestart
  BY <1>3 DEF CrashAndRestart, Typed, JobForms
<1> QED BY <1>1, <1>2, <1>3 DEF Next, RequestStep

\* Every step keeps requests.
LEMMA RequestedStep == Typed /\ Bounded /\ Requested /\ [Next]_vars => Requested'
  BY RequestChange DEF Requested

\* No mapping of a part becomes one of the whole.
LEMMA MappingsStay ==
    Typed /\ Bounded /\ Requested /\ [Next]_vars /\ WholeMappings' => WholeMappings
<1> SUFFICES ASSUME Typed, Bounded, Requested, [Next]_vars, WholeMappings', NEW j \in Jobs
             PROVE  job[j].request.mapping # "partial"
  BY DEF WholeMappings
<1>1. CASE job[j].at = "none"
  BY <1>1, StoreAssumption DEF Requested
<1>2. CASE job[j].at # "none"
  BY <1>2, RequestChange DEF WholeMappings
<1> QED BY <1>1, <1>2

\* Every step keeps the accepted baseline in the jobs that pass it on.
LEMMA AgreedStep ==
    Alone /\ Licensed /\ Requested /\ Whole /\ Agreed /\ [Next]_vars => Agreed'
<1> SUFFICES ASSUME Alone, Licensed, Requested, Whole, Agreed, [Next]_vars, NEW j \in Jobs,
                    job'[j].at \in {"prepared", "renamed"},
                    job'[j].request.mapping # "partial", job'[j].inherited # None
             PROVE  job'[j].bytes = job'[j].inherited.run
  BY DEF Agreed
<1> USE DEF Alone, Whole, Locked
<1>1. CASE job'[j] = job[j]
  BY <1>1 DEF Agreed
<1>2. CASE Prepare(j)
  <2> DEFINE provenance == project.pointer.provenance
             mapping == job[j].request.mapping
  <2>1. /\ Pointer(project) # None
        /\ provenance # None
        /\ provenance.source = job[j].request.source
        /\ job'[j].inherited = provenance
    BY <1>2, PrepareEffect DEF Inherited
  <2>2. job[j].at = "loaded" /\ Resolves(job[j].bytes, mapping)
    BY <1>2 DEF Prepare
  <2>3. job[j].bytes = provenance.run
    BY <2>1, <2>2 DEF Loaded, Selects
  <2>4. job[j].bytes # 0
    <3>1. provenance.run \in 1..lastRevision
      BY <2>1 DEF Licensed, Bounded
    <3> QED BY <2>3, <3>1 DEF Typed
  <2>5. mapping = "envelope"
    <3>1. mapping \in Mappings /\ mapping # "reopened"
      BY <2>2, <2>4 DEF Requested, Resolves
    <3> QED BY <1>2, <3>1, PrepareEffect
  <2>6. job'[j].bytes = job[j].bytes
    BY <1>2, <2>5, PrepareEffect DEF Normalized
  <2> QED BY <2>1, <2>3, <2>6
<1>3. ASSUME NEW authorizes \in BOOLEAN, CommitRevision(j, authorizes)
      PROVE  job'[j].bytes = job'[j].inherited.run
  <2>1. job[j].at = "prepared"
    BY <1>3 DEF CommitRevision
  <2> QED BY <1>3, <2>1, CommitRevisionEffect DEF Agreed
<1> QED BY <1>1, <1>2, <1>3, JobChange

\* Every step keeps the selected revision one that the next read accepts.
LEMMA VerifiedStep ==
    Alone /\ Requested /\ Whole /\ Agreed /\ Verified /\ [Next]_vars => Verified'
<1> SUFFICES ASSUME Alone, Requested, Whole, Agreed, Verified, [Next]_vars,
                    WholeMappings', Pointer(project') # None
             PROVE  Verifies(project')
  BY DEF Verified
<1> USE DEF Alone, Whole
<1>1. WholeMappings
  BY MappingsStay
<1>2. CASE ArchiveProject \/ RemoveProject
  BY <1>2, NoDirectoryType DEF ArchiveProject, RemoveProject
<1>3. CASE ~ArchiveProject /\ ~RemoveProject
  <2>1. /\ Revisions(project) \subseteq Revisions(project')
        /\ \A r \in Revisions(project) : project'.revisions[r] = project.revisions[r]
    BY <1>3, RevisionsChange, CommitRevisionEffect, CommitPromotionEffect
  <2>2. CASE project'.pointer = project.pointer
    BY <1>1, <2>1, <2>2 DEF Verified, Verifies
  <2>3. ASSUME NEW j \in Jobs, PublishRevision(j)
        PROVE  Verifies(project')
    <3> DEFINE rev == job[j].revision
    <3>1. /\ job[j].at = "renamed"
          /\ job[j].request.mapping # "partial"
      BY <1>1, <2>3 DEF PublishRevision, WholeMappings
    <3>2. /\ rev \in Revisions(project)
          /\ project.revisions[rev].provenance = job[j].inherited
          /\ job[j].inherited # None => project.revisions[rev].baseline = job[j].inherited.run
      BY <3>1 DEF Committed, Agreed
    <3> QED BY <2>3, <3>2, PublishRevisionEffect DEF Verifies
  <2>4. ASSUME NEW p \in Promotions, PublishPromotion(p)
        PROVE  Verifies(project')
    <3> DEFINE rev == promotion[p].revision
    <3>1. /\ rev \in Revisions(project)
          /\ project.revisions[rev].provenance = Provenance(p)
          /\ project.revisions[rev].baseline = Provenance(p).run
      BY <2>4 DEF PublishPromotion, Promoting, Provenance
    <3> QED BY <2>4, <3>1, PublishPromotionEffect DEF Verifies
  <2> QED BY <1>3, <2>2, <2>3, <2>4, PointerChange
<1> QED BY <1>2, <1>3

-----------------------------------------------------------------------------
(* Theorems                                                                *)

\* The inductive invariant: what holds whatever overlaps, and what holds when
\* promotions and the clearing of a draft run alone.
Invariant ==
    /\ Sound /\ Holding /\ Requested
    /\ Serialized => Apart /\ Whole /\ Agreed /\ Verified

\* It holds initially.
LEMMA InvariantInitially == Init => Invariant
<1> SUFFICES ASSUME Init PROVE Invariant
  OBVIOUS
<1>1. Requested /\ Agreed
  BY DEF Init, IdleJob, NoRequest, Requested, Agreed
<1>2. Verified
  BY NoDirectoryType DEF Init, Verified
<1> QED BY <1>1, <1>2, SoundInitially, WholeInitially DEF Invariant

\* Every step keeps it.
LEMMA InvariantStep == Invariant /\ [Next]_vars => Invariant'
<1> SUFFICES ASSUME Invariant, [Next]_vars PROVE Invariant'
  OBVIOUS
<1>1. Sound' /\ Holding' /\ Requested'
  BY TypesStep, BoundedStep, LicensedStep, CopiedStep, PromotedBytesStep, HoldingStep,
     RequestedStep DEF Invariant, Sound
<1>2. traffic' = traffic
  BY DEF Next, RequestStep, JobStep, PromotionStep, UploadSource, SaveDraft, ArchiveProject,
         ClearDraft, RemoveProject, CollectReferences, SweepSources, CreateJob, RetryJob,
         LoadSources, Prepare, FailJob, CommitRevision, PublishRevision, IndexRun,
         CheckPromotion, StageCandidate, CommitPromotion, PublishPromotion, RefusePromotion,
         CrashAndRestart, vars
<1>3. ASSUME Serialized
      PROVE  Apart' /\ Whole' /\ Agreed' /\ Verified'
  <2>1. Alone /\ Licensed /\ Requested /\ Whole /\ Agreed /\ Verified
    BY <1>3 DEF Invariant, Sound, Alone
  <2>2. Apart'
    BY <2>1, ApartStep DEF Alone
  <2>3. OnDisk' /\ Selects'
    BY <2>1, OnDiskStep, SelectsStep
  <2>4. Whole'
    BY <2>1, <2>3, AncestryStep, LoadedStep, PreparedStep, CommittedStep, PromotingStep,
       ClearingStep DEF Whole
  <2>5. Agreed' /\ Verified'
    BY <2>1, AgreedStep, VerifiedStep
  <2> QED BY <2>2, <2>4, <2>5
<1>4. Serialized' => Serialized
  BY <1>2 DEF Serialized
<1> QED BY <1>1, <1>3, <1>4 DEF Invariant

\* It holds always.
LEMMA InvariantAlways == Spec => []Invariant
  BY InvariantInitially, InvariantStep, PTL DEF Spec

\* Whatever requests overlap, every baseline that a revision calls accepted is
\* the candidate of a run whose release gate authorized deployment, and a
\* promoted revision holds exactly that candidate's bytes (accept_run).
THEOREM PromotedCandidatesAreAuthorized == Spec => []PromotedBytes
<1>1. Invariant => PromotedBytes
  BY DEF Invariant, Sound
<1> QED BY <1>1, InvariantAlways, PTL

\* When promotions and clearing run alone, comparisons overlap with anything
\* else and the server may be killed between any two writes, the revision that a
\* project selects passes current_project_revision, and every directory, live or
\* archived, holds the parents of its revisions.
THEOREM ProjectsAreWhole == Spec => []ProjectIsWhole
<1>1. Invariant => ProjectIsWhole
  BY DEF Invariant, Whole, Verified, Ancestry, ProjectIsWhole, PointerVerifies, AncestryKept
<1> QED BY <1>1, InvariantAlways, PTL

\* Under the same condition the sources that drafts and pointers name are on
\* disk: garbage_collect_staged_sources never takes one that is needed to reopen
\* a project.
THEOREM ReferencesAreStaged == Spec => []ReferencesStaged
<1>1. Invariant => ReferencesStaged
  BY DEF Invariant, Whole, OnDisk, ReferencesStaged
<1> QED BY <1>1, InvariantAlways, PTL

\* Under the same condition current-revision.json moves only from a revision to
\* a child of it, and a committed revision leaves a project only with the
\* project, to the archive.
THEOREM HistoriesAreKept == Spec => HistoryKept
<1> DEFINE Kept ==
        Serialized =>
          /\ Pointer(project') # Pointer(project) /\ project.exists /\ project'.exists =>
                LET rev == project'.pointer.revision IN
                /\ rev \in Revisions(project')
                /\ project'.revisions[rev].parent = Tip(project)
          /\ Revisions(project) \subseteq Revisions(project') \/ project \in archived'
<1>1. Invariant /\ [Next]_vars => Kept
  <2> SUFFICES ASSUME Invariant, [Next]_vars, Serialized
               PROVE  /\ Pointer(project') # Pointer(project) /\ project.exists
                            /\ project'.exists =>
                            /\ project'.pointer.revision \in Revisions(project')
                            /\ project'.revisions[project'.pointer.revision].parent
                                  = Tip(project)
                      /\ \/ Revisions(project) \subseteq Revisions(project')
                         \/ project \in archived'
    OBVIOUS
  <2> USE DEF Invariant, Sound, Whole
  <2>1. ASSUME Pointer(project') # Pointer(project), project'.exists
        PROVE  /\ project'.pointer.revision \in Revisions(project')
               /\ project'.revisions[project'.pointer.revision].parent = Tip(project)
    <3>1. ~ArchiveProject /\ ~RemoveProject
      BY <2>1, NoDirectoryType DEF ArchiveProject, RemoveProject
    <3>2. ASSUME NEW j \in Jobs, PublishRevision(j)
          PROVE  /\ project'.pointer.revision \in Revisions(project')
                 /\ project'.revisions[project'.pointer.revision].parent = Tip(project)
      BY <3>2, PublishRevisionEffect DEF PublishRevision, Committed, Prepared
    <3>3. ASSUME NEW p \in Promotions, PublishPromotion(p)
          PROVE  /\ project'.pointer.revision \in Revisions(project')
                 /\ project'.revisions[project'.pointer.revision].parent = Tip(project)
      BY <3>3, PublishPromotionEffect DEF PublishPromotion, Promoting, Tip
    <3> QED BY <2>1, <3>1, <3>2, <3>3, PointerChange
  <2>2. \/ Revisions(project) \subseteq Revisions(project')
        \/ project \in archived'
    <3>1. CASE ArchiveProject
      BY <3>1 DEF ArchiveProject
    <3>2. CASE RemoveProject
      BY <3>2 DEF RemoveProject, Clearing, Selects
    <3>3. CASE ~ArchiveProject /\ ~RemoveProject
      BY <3>3, RevisionsChange, CommitRevisionEffect, CommitPromotionEffect
    <3> QED BY <3>1, <3>2, <3>3
  <2> QED BY <2>1, <2>2
<1>2. Invariant /\ [Next]_vars => [Kept]_vars
  BY <1>1
<1> QED BY <1>2, InvariantAlways, PTL DEF Spec, HistoryKept

-----------------------------------------------------------------------------
(* Exports and the project                                                 *)

\* An export's steps leave the project alone, and the other steps are
\* ProjectStore's: CiExport implements ProjectStore.
THEOREM ExportsKeepProjects == CiSpec => Spec
<1>1. CiInit => Init
  BY DEF CiInit
<1>2. [CiNext]_allVars => [Next]_vars
  <2> SUFFICES ASSUME [CiNext]_allVars PROVE [Next]_vars
    OBVIOUS
  <2>1. CASE UNCHANGED allVars
    BY <2>1 DEF allVars
  <2>2. CASE RequestStep \/ CrashAndRestart
    BY <2>2 DEF Next
  <2>3. CASE ExportStep
    BY <2>3 DEF ExportStep, CheckExport, WipePackage, CopyBaseline, CopyCandidate,
           WriteConfiguration, BindBaseline, SealPackage, FailExport
  <2> QED BY <2>1, <2>2, <2>3 DEF CiNext
<1> QED BY <1>1, <1>2, PTL DEF CiSpec, Spec

-----------------------------------------------------------------------------
(* Revisions                                                               *)

\* A revision has one content, in whichever directory it is.
Unique ==
    /\ \A dir \in Directories : Revisions(dir) \subseteq 1..lastRevision
    /\ \A one, other \in Directories : \A r \in Revisions(one) \cap Revisions(other) :
          one.revisions[r] = other.revisions[r]

\* Numbers of revisions only grow, by one at a time.
LEMMA RevisionsCounted ==
    ASSUME [Next]_vars
    PROVE  lastRevision' \in {lastRevision, lastRevision + 1}
  BY DEF Next, RequestStep, JobStep, PromotionStep, UploadSource, SaveDraft, ArchiveProject,
         ClearDraft, RemoveProject, CollectReferences, SweepSources, CreateJob, RetryJob,
         LoadSources, Prepare, FailJob, CommitRevision, PublishRevision, IndexRun,
         CheckPromotion, StageCandidate, CommitPromotion, PublishPromotion, RefusePromotion,
         CrashAndRestart, vars

\* Every step copies revisions, and adds at most the next one, to the project.
LEMMA RevisionsCopied ==
    ASSUME Typed, Bounded, [Next]_vars,
           NEW dir \in Directories', NEW r \in Revisions(dir)
    PROVE  \/ \E old \in Directories :
                 r \in Revisions(old) /\ old.revisions[r] = dir.revisions[r]
           \/ r = lastRevision + 1 /\ lastRevision' = r /\ dir = project'
<1> USE DEF Directories
<1>1. CASE dir \in archived
  BY <1>1
<1>2. CASE archived' = archived /\ project'.revisions = project.revisions
  BY <1>1, <1>2
<1>3. CASE ArchiveProject \/ RemoveProject
  BY <1>3, NoDirectoryType DEF ArchiveProject, RemoveProject
<1>4. ASSUME NEW j \in Jobs, NEW authorizes \in BOOLEAN, CommitRevision(j, authorizes)
      PROVE  \/ r \in Revisions(project) /\ project.revisions[r] = project'.revisions[r]
             \/ r \notin Revisions(project')
             \/ r = lastRevision + 1 /\ lastRevision' = r
  BY <1>4, CommitRevisionEffect DEF CommitRevision
<1>5. ASSUME NEW p \in Promotions, CommitPromotion(p)
      PROVE  \/ r \in Revisions(project) /\ project.revisions[r] = project'.revisions[r]
             \/ r \notin Revisions(project')
             \/ r = lastRevision + 1 /\ lastRevision' = r
  BY <1>5, CommitPromotionEffect DEF CommitPromotion
<1>6. CASE dir = project' /\ archived' = archived
  BY <1>2, <1>3, <1>4, <1>5, <1>6, RevisionsChange
<1>7. archived' = archived \/ ArchiveProject \/ RemoveProject
  BY RevisionsChange DEF CommitRevision, CommitPromotion
<1> QED BY <1>1, <1>3, <1>6, <1>7

\* Every step keeps revisions unique.
LEMMA UniqueStep == Typed /\ Bounded /\ Unique /\ [Next]_vars => Unique'
<1> SUFFICES ASSUME Typed, Bounded, Unique, [Next]_vars PROVE Unique'
  OBVIOUS
<1>1. lastRevision \in Nat /\ lastRevision' \in {lastRevision, lastRevision + 1}
  BY RevisionsCounted DEF Typed
<1>2. ASSUME NEW dir \in Directories', NEW r \in Revisions(dir)
      PROVE  r \in 1..lastRevision'
  <2>1. CASE \E old \in Directories : r \in Revisions(old)
    <3>1. r \in 1..lastRevision
      BY <2>1 DEF Unique
    <3> QED BY <1>1, <3>1
  <2>2. CASE r = lastRevision + 1 /\ lastRevision' = r
    BY <1>1, <2>2
  <2> QED BY <1>2, <2>1, <2>2, RevisionsCopied
<1>3. ASSUME NEW one \in Directories', NEW other \in Directories',
             NEW r \in Revisions(one) \cap Revisions(other)
      PROVE  one.revisions[r] = other.revisions[r]
  <2>1. \A old \in Directories : r \in Revisions(old) => r # lastRevision + 1
    BY <1>1 DEF Unique
  <2>2. r \in Revisions(one) /\ r \in Revisions(other)
    BY <1>3
  <2>3. \/ \E old \in Directories :
              r \in Revisions(old) /\ old.revisions[r] = one.revisions[r]
        \/ r = lastRevision + 1 /\ one = project'
    BY <2>2, RevisionsCopied
  <2>4. \/ \E old \in Directories :
              r \in Revisions(old) /\ old.revisions[r] = other.revisions[r]
        \/ r = lastRevision + 1 /\ other = project'
    BY <2>2, RevisionsCopied
  <2>5. \A old, new \in Directories :
           r \in Revisions(old) /\ r \in Revisions(new) => old.revisions[r] = new.revisions[r]
    BY DEF Unique
  <2> QED BY <2>1, <2>3, <2>4, <2>5
<1> QED BY <1>2, <1>3 DEF Unique

-----------------------------------------------------------------------------
(* The package                                                             *)

\* The content of a file is what a revision holds, in whichever of these
\* directories it is.
BaselineOf(rev, content, dirs) ==
    \A dir \in dirs : rev \in Revisions(dir) => content = dir.revisions[rev].baseline
CandidateOf(rev, content, dirs) ==
    \A dir \in dirs : rev \in Revisions(dir) => content = dir.revisions[rev].run

Accepted(pointer) == IF pointer.provenance = None THEN {} ELSE {"accepted"}

\* How far the package of a running export has come.
Packing ==
    LET rev == export.saw.revision IN
    /\ export.at \in {"idle", "checked", "baseline", "candidate", "configuration",
                      "binding", "sealing"}
    /\ export.at # "idle" => rev \in 1..lastRevision
    /\ export.at = "baseline" => DOMAIN package = {}
    /\ export.at = "candidate" => DOMAIN package = {"baseline"}
    /\ export.at = "configuration" => DOMAIN package = {"baseline", "candidate"}
    /\ export.at = "binding" => DOMAIN package = {"baseline", "candidate", "configuration"}
    /\ export.at = "sealing" =>
          /\ DOMAIN package = {"baseline", "candidate", "configuration"}
                                 \cup Accepted(export.saw)
          /\ export.saw.provenance # None =>
                /\ package.accepted = export.saw.provenance
                /\ package.baseline = export.saw.provenance.run
    /\ export.at \in {"candidate", "configuration", "binding", "sealing"} =>
          BaselineOf(rev, package.baseline, Directories)
    /\ export.at \in {"configuration", "binding", "sealing"} =>
          CandidateOf(rev, package.candidate, Directories)
    /\ export.at \in {"binding", "sealing"} => package.configuration = rev

\* What has been sealed was a revision.
Sealed ==
    "revision" \in DOMAIN package =>
        /\ package.revision.revision \in 1..lastRevision
        /\ DOMAIN package = {"baseline", "candidate", "configuration", "revision"}
                               \cup Accepted(package.revision)
        /\ package.configuration = package.revision.revision
        /\ package.revision.provenance # None =>
              /\ package.accepted = package.revision.provenance
              /\ package.baseline = package.revision.provenance.run
        /\ BaselineOf(package.revision.revision, package.baseline, Directories)
        /\ CandidateOf(package.revision.revision, package.candidate, Directories)

\* One more file leaves the others as they are.
LEMMA WriteAdds ==
    ASSUME NEW file, NEW content, Write(file, content)
    PROVE  /\ DOMAIN package' = DOMAIN package \cup {file}
           /\ package'[file] = content
           /\ \A f \in DOMAIN package : f # file => package'[f] = package[f]
  BY DEF Write, With

\* What is copied stays what the revision holds.
LEMMA CopiesStay ==
    ASSUME Typed, Bounded, [Next]_vars, NEW rev \in 1..lastRevision, NEW content
    PROVE  /\ BaselineOf(rev, content, Directories) => BaselineOf(rev, content, Directories')
           /\ CandidateOf(rev, content, Directories) => CandidateOf(rev, content, Directories')
<1>1. \A dir \in Directories' : rev \in Revisions(dir) =>
         \E old \in Directories :
            rev \in Revisions(old) /\ old.revisions[rev] = dir.revisions[rev]
  BY RevisionsCopied DEF Typed
<1> QED BY <1>1 DEF BaselineOf, CandidateOf

\* A step of the project's requests keeps the package and what is packed.
LEMMA PackingUndisturbed ==
    ASSUME Typed, Bounded, Packing, Sealed, [Next]_vars, package' = package
    PROVE  /\ Sealed'
           /\ export' = export => Packing'
           /\ export' = IdleExport => Packing'
<1>1. \A rev \in 1..lastRevision : rev \in 1..lastRevision'
  BY RevisionsCounted DEF Typed
<1>2. Sealed'
  BY <1>1, CopiesStay DEF Sealed, Accepted
<1>3. ASSUME export' = export
      PROVE  Packing'
  <2>1. CASE export.at = "idle"
    BY <1>3, <2>1 DEF Packing
  <2>2. CASE export.at # "idle"
    <3>1. export.saw.revision \in 1..lastRevision
      BY <2>2 DEF Packing
    <3> DEFINE rev == export.saw.revision
    <3>2. /\ BaselineOf(rev, package.baseline, Directories) =>
                BaselineOf(rev, package.baseline, Directories')
          /\ CandidateOf(rev, package.candidate, Directories) =>
                CandidateOf(rev, package.candidate, Directories')
      BY <3>1, CopiesStay
    <3> QED BY <1>1, <1>3, <2>2, <3>1, <3>2 DEF Packing, Accepted
  <2> QED BY <2>1, <2>2
<1>4. ASSUME export' = IdleExport
      PROVE  Packing'
  BY <1>4 DEF Packing, IdleExport
<1> QED BY <1>2, <1>3, <1>4

\* The steps of an export keep what is packed, and seal one revision.
LEMMA ExportPacks ==
    Typed /\ Bounded /\ Unique /\ Packing /\ Sealed /\ ExportStep => Packing' /\ Sealed'
<1> SUFFICES ASSUME Typed, Bounded, Unique, Packing, Sealed, ExportStep
             PROVE  Packing' /\ Sealed'
  OBVIOUS
<1> USE DEF To
<1>1. UNCHANGED <<vars, project, archived, lastRevision>>
  BY DEF ExportStep, CheckExport, WipePackage, CopyBaseline, CopyCandidate, WriteConfiguration,
         BindBaseline, SealPackage, FailExport, vars, files
<1>2. Directories' = Directories
  BY <1>1 DEF Directories
<1>3. \A dir \in Directories :
         export.saw.revision \in Revisions(dir) \cap Revisions(project) =>
            dir.revisions[export.saw.revision] = project.revisions[export.saw.revision]
  BY DEF Unique, Directories
<1>4. ASSUME NEW run \in index, CheckExport(run)
      PROVE  Packing' /\ Sealed'
  <2>1. /\ package' = package
        /\ export' = [at |-> "checked", saw |-> project.pointer]
        /\ project.pointer.revision \in 1..lastRevision
    BY <1>4 DEF CheckExport, Verifies, Bounded
  <2>2. export'.at = "checked" /\ export'.saw = project.pointer
    BY <2>1
  <2> QED BY <1>1, <1>2, <2>1, <2>2 DEF Packing, Sealed
<1> DEFINE rev == export.saw.revision
<1>5. CASE WipePackage
  <2>1. export'.at = "baseline" /\ export'.saw = export.saw
    BY <1>5 DEF WipePackage
  <2>2. DOMAIN package' = {}
    BY <1>5 DEF WipePackage, NoFiles
  <2> QED BY <1>1, <1>5, <2>1, <2>2 DEF WipePackage, Packing, Sealed
<1>6. CASE CopyBaseline
  <2>1. export'.at = "candidate" /\ export'.saw = export.saw
    BY <1>6 DEF CopyBaseline
  <2>2. /\ DOMAIN package' = {"baseline"}
        /\ package'.baseline = project.revisions[rev].baseline
        /\ rev \in Revisions(project)
    BY <1>6, WriteAdds DEF CopyBaseline, Seen, Packing
  <2>3. BaselineOf(rev, package'.baseline, Directories)
    BY <1>3, <2>2 DEF BaselineOf
  <2> QED BY <1>1, <1>2, <1>6, <2>1, <2>2, <2>3 DEF CopyBaseline, Packing, Sealed
<1>7. CASE CopyCandidate
  <2>1. export'.at = "configuration" /\ export'.saw = export.saw
    BY <1>7 DEF CopyCandidate
  <2>2. /\ DOMAIN package' = {"baseline", "candidate"}
        /\ package'.baseline = package.baseline
        /\ package'.candidate = project.revisions[rev].run
        /\ rev \in Revisions(project)
    BY <1>7, WriteAdds DEF CopyCandidate, Seen, Packing
  <2>3. CandidateOf(rev, package'.candidate, Directories)
    BY <1>3, <2>2 DEF CandidateOf
  <2> QED BY <1>1, <1>2, <1>7, <2>1, <2>2, <2>3 DEF CopyCandidate, Packing, Sealed
<1>8. CASE WriteConfiguration
  <2>1. export'.at = "binding" /\ export'.saw = export.saw
    BY <1>8 DEF WriteConfiguration
  <2>2. /\ DOMAIN package' = {"baseline", "candidate", "configuration"}
        /\ package'.baseline = package.baseline
        /\ package'.candidate = package.candidate
        /\ package'.configuration = rev
    <3>1. /\ export.at = "configuration"
          /\ Write("configuration", rev)
      BY <1>8 DEF WriteConfiguration
    <3>2. DOMAIN package = {"baseline", "candidate"}
      BY <3>1 DEF Packing
    <3>3. /\ DOMAIN package' = DOMAIN package \cup {"configuration"}
          /\ package'["configuration"] = rev
          /\ \A f \in DOMAIN package : f # "configuration" => package'[f] = package[f]
      BY <3>1, WriteAdds
    <3> HIDE DEF rev
    <3> QED BY <3>2, <3>3
  <2> QED BY <1>1, <1>2, <1>8, <2>1, <2>2 DEF WriteConfiguration, Packing, Sealed
<1>9. CASE BindBaseline
  <2>1. export.at = "binding" /\ export'.at = "sealing" /\ export'.saw = export.saw
    BY <1>9 DEF BindBaseline
  <2>2. CASE export.saw.provenance = None
    <3>1. package' = package
      BY <1>9, <2>2 DEF BindBaseline
    <3> QED BY <1>1, <1>2, <2>1, <2>2, <3>1 DEF Packing, Sealed, Accepted
  <2>3. CASE export.saw.provenance # None
    <3>1. /\ package.baseline = export.saw.provenance.run
          /\ Write("accepted", export.saw.provenance)
      BY <1>9, <2>3 DEF BindBaseline
    <3>2. /\ DOMAIN package = {"baseline", "candidate", "configuration"}
          /\ DOMAIN package' = DOMAIN package \cup {"accepted"}
          /\ package'["accepted"] = export.saw.provenance
          /\ \A f \in DOMAIN package : f # "accepted" => package'[f] = package[f]
      BY <2>1, <3>1, WriteAdds DEF Packing
    <3>3. /\ DOMAIN package' = {"baseline", "candidate", "configuration", "accepted"}
          /\ package'.baseline = package.baseline
          /\ package'.candidate = package.candidate
          /\ package'.configuration = package.configuration
          /\ package'.accepted = export.saw.provenance
      BY <3>2
    <3> QED BY <1>1, <1>2, <2>1, <2>3, <3>1, <3>3 DEF Packing, Sealed, Accepted
  <2> QED BY <2>2, <2>3
<1>10. CASE SealPackage
  <2>1. export.at = "sealing" /\ export'.at = "idle"
    BY <1>10 DEF SealPackage, IdleExport
  <2>2. Packing'
    BY <2>1 DEF Packing
  <2>a. /\ DOMAIN package = {"baseline", "candidate", "configuration"} \cup Accepted(export.saw)
        /\ DOMAIN package' = DOMAIN package \cup {"revision"}
        /\ package'["revision"] = export.saw
        /\ \A f \in DOMAIN package : f # "revision" => package'[f] = package[f]
    BY <1>10, <2>1, WriteAdds DEF SealPackage, Packing
  <2>3. /\ DOMAIN package' = {"baseline", "candidate", "configuration", "revision"}
                                \cup Accepted(export.saw)
        /\ package'.revision = export.saw
        /\ package'.baseline = package.baseline
        /\ package'.candidate = package.candidate
        /\ package'.configuration = package.configuration
        /\ export.saw.provenance # None => package'.accepted = package.accepted
    BY <2>a DEF Accepted
  <2> QED BY <1>1, <1>2, <2>1, <2>2, <2>3 DEF Packing, Sealed, Accepted
<1>11. CASE FailExport
  BY <1>1, <1>2, <1>11 DEF FailExport, IdleExport, Packing, Sealed
<1> QED BY <1>4, <1>5, <1>6, <1>7, <1>8, <1>9, <1>10, <1>11 DEF ExportStep

-----------------------------------------------------------------------------
(* Theorems                                                                *)

CiInvariant == Unique /\ Packing /\ Sealed

\* It holds initially.
LEMMA CiInitially == CiInit => CiInvariant
  BY NoDirectoryType DEF CiInit, Init, CiInvariant, Unique, Directories, Packing, Sealed,
     NoFiles, IdleExport

\* Every step keeps it.
LEMMA CiStep == Invariant /\ CiInvariant /\ [CiNext]_allVars => CiInvariant'
<1> SUFFICES ASSUME Invariant, CiInvariant, [CiNext]_allVars PROVE CiInvariant'
  OBVIOUS
<1> USE DEF CiInvariant
<1>1. Typed /\ Bounded
  BY DEF Invariant, Sound
<1>2. CASE \/ UNCHANGED allVars
           \/ RequestStep /\ UNCHANGED exportVars
           \/ CrashAndRestart /\ export' = IdleExport /\ UNCHANGED package
  <2>1. [Next]_vars /\ package' = package /\ (export' = export \/ export' = IdleExport)
    BY <1>2 DEF Next, allVars, exportVars
  <2> QED BY <1>1, <2>1, UniqueStep, PackingUndisturbed
<1>3. CASE ExportStep
  <2>1. UNCHANGED vars
    BY <1>3 DEF ExportStep, CheckExport, WipePackage, CopyBaseline, CopyCandidate,
           WriteConfiguration, BindBaseline, SealPackage, FailExport
  <2>2. Unique'
    BY <2>1 DEF Unique, Directories, vars, files
  <2> QED BY <1>1, <1>3, <2>2, ExportPacks
<1> QED BY <1>2, <1>3 DEF CiNext

\* Whatever comparisons, promotions and archiving do meanwhile, wherever an
\* earlier export ended and whatever it left behind, a package that holds
\* project-revision.json is one committed revision, whole: its outputs are that
\* revision's, and accepted-baseline.json is there exactly when the revision has
\* an accepted baseline, whose bytes the package then holds (generate_ci).
THEOREM ExportsAreOneRevision == CiSpec => []ExportIsOneRevision
<1>1. CiInvariant => ExportIsOneRevision
  BY DEF CiInvariant, Sealed, Accepted, BaselineOf, CandidateOf, ExportIsOneRevision
<1>2. CiSpec => []Invariant
  BY ExportsKeepProjects, InvariantAlways, PTL
<1> QED BY <1>1, <1>2, CiInitially, CiStep, PTL DEF CiSpec

\* What ProjectStore's theorems say of a project holds while it is exported.
THEOREM ExportedProjectsAreWhole ==
    CiSpec => [](PromotedBytes /\ ProjectIsWhole /\ ReferencesStaged) /\ HistoryKept
  BY ExportsKeepProjects, PromotedCandidatesAreAuthorized, ProjectsAreWhole,
     ReferencesAreStaged, HistoriesAreKept, PTL

=============================================================================
