------------------------------ MODULE CiExport ------------------------------
(***************************************************************************)
(* generate_ci: the committed definition of a project is copied into       *)
(* .structtrace/exports/<project>-<mode>, file by file and without a lock, *)
(* while ProjectStore's handlers change the project.  The client exports   *)
(* for one mode, one package at a time.                                    *)
(*                                                                         *)
(* The run's integrity, the saved cases and the gate's settings are taken  *)
(* to be in order; RunEvidence, RegressionSuite and Configuration have     *)
(* them.                                                                   *)
(***************************************************************************)
EXTENDS ProjectStore

VARIABLES
    package,    \* the files of the export directory
    export      \* progress of the export request

exportVars == <<package, export>>
allVars    == <<vars, package, export>>

NoFiles    == [f \in {} |-> None]
IdleExport == [at |-> "idle", saw |-> None]

CiInit ==
    /\ Init
    /\ package = NoFiles
    /\ export = IdleExport

-----------------------------------------------------------------------------
(* Steps                                                                   *)

Exporting == export.at # "idle"

To(at) == export' = [export EXCEPT !.at = at]

Write(file, content) == package' = With(package, file, content)

\* The run is offered, the project's pointer verifies and selects a revision
\* of that run.  The configuration and the workflow are made from it at once.
CheckExport(run) ==
    /\ MayStart("export")
    /\ ~Exporting
    /\ run \in index
    /\ run \in Revisions(project)
    /\ Pointer(project) # None
    /\ Verifies(project)
    /\ project.revisions[project.pointer.revision].run = run
    /\ export' = [at |-> "checked", saw |-> project.pointer]
    /\ UNCHANGED <<vars, package>>

\* Mutant: what an earlier export wrote is left in place.
KeepPackage ==
    /\ export.at = "checked"
    /\ To("baseline")
    /\ UNCHANGED <<vars, package>>

\* The directory is removed.
WipePackage ==
    /\ export.at = "checked"
    /\ package' = NoFiles
    /\ To("baseline")
    /\ UNCHANGED vars

\* What the revision that the request has seen holds by now.
Seen == project.revisions[export.saw.revision]

\* outputs/baseline.jsonl, then outputs/candidate.jsonl, are read from the
\* revision's directory; archiving may have moved it.
CopyBaseline ==
    /\ export.at = "baseline"
    /\ export.saw.revision \in Revisions(project)
    /\ Write("baseline", Seen.baseline)
    /\ To("candidate")
    /\ UNCHANGED vars

CopyCandidate ==
    /\ export.at = "candidate"
    /\ export.saw.revision \in Revisions(project)
    /\ Write("candidate", Seen.run)
    /\ To("configuration")
    /\ UNCHANGED vars

WriteConfiguration ==
    /\ export.at = "configuration"
    /\ Write("configuration", export.saw.revision)
    /\ To("binding")
    /\ UNCHANGED vars

\* The accepted baseline is compared with the bytes that were written.
BindBaseline ==
    /\ export.at = "binding"
    /\ IF export.saw.provenance = None THEN UNCHANGED package
       ELSE /\ package.baseline = export.saw.provenance.run
            /\ Write("accepted", export.saw.provenance)
    /\ To("sealing")
    /\ UNCHANGED vars

\* project-revision.json is written last.
SealPackage ==
    /\ export.at = "sealing"
    /\ Write("revision", export.saw)
    /\ export' = IdleExport
    /\ UNCHANGED vars

\* The revision is gone to the archive, the bytes do not match, a file cannot be
\* written, or the process is killed: the package stays as it is.
FailExport ==
    /\ Exporting
    /\ export' = IdleExport
    /\ UNCHANGED <<vars, package>>

ExportStep ==
    \/ \E run \in index : CheckExport(run)
    \/ WipePackage \/ CopyBaseline \/ CopyCandidate \/ WriteConfiguration
    \/ BindBaseline \/ SealPackage \/ FailExport

\* The other requests that begin during an export.
MayOverlap == Exporting => InFlight' \subseteq traffic.together

CiNext ==
    \/ RequestStep /\ MayOverlap /\ UNCHANGED exportVars
    \/ CrashAndRestart /\ export' = IdleExport /\ UNCHANGED package
    \/ ExportStep

CiSpec == CiInit /\ [][CiNext]_allVars

-----------------------------------------------------------------------------
(* Properties                                                              *)

\* A package with its project-revision.json is one committed revision, whole,
\* as it was when the request read it, and holds accepted-baseline.json exactly
\* when that revision has an accepted baseline, whose bytes it then exports,
\* whatever was exported before, wherever an earlier export ended, and whatever
\* other requests did to the project meanwhile.
ExportIsOneRevision ==
    "revision" \in DOMAIN package =>
        LET seal == package.revision IN
        /\ DOMAIN package = {"baseline", "candidate", "configuration", "revision"}
              \cup (IF seal.provenance = None THEN {} ELSE {"accepted"})
        /\ package.configuration = seal.revision
        /\ seal.provenance # None =>
              /\ package.accepted = seal.provenance
              /\ package.baseline = seal.provenance.run
        /\ \A dir \in Directories : seal.revision \in Revisions(dir) =>
              /\ package.baseline = dir.revisions[seal.revision].baseline
              /\ package.candidate = dir.revisions[seal.revision].run

=============================================================================
