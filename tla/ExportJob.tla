------------------------------ MODULE ExportJob ------------------------------
(***************************************************************************)
(* The year export.  A worker claims the job's row, stores a snapshot of   *)
(* what the projects hold, copies the objects into a staging directory of  *)
(* the NAS, and publishes that directory by one rename; then it completes  *)
(* the row.  The lease of the row fences the database.  It does not fence  *)
(* the directory, whose path is the same for every pass over the job.      *)
(*                                                                         *)
(* Abstractions:                                                           *)
(*  - One job: the index export_jobs_single_active_idx admits one that is  *)
(*    not over, and each job has directories of its own.                   *)
(*  - An object is saved in one step; a partial file under a temporary     *)
(*    name is never renamed.  Byte limits and portable names are among the *)
(*    errors that may end a pass.                                          *)
(*  - claim_until is a lease that may lapse at any time; all fences read   *)
(*    the token and the clock in the statement that writes.                *)
(*  - The consumers of a pass interleave, so the objects of a project are  *)
(*    saved in any order.  One project.                                    *)
(***************************************************************************)
EXTENDS Naturals

CONSTANTS Item,         \* objects of the project
          Exporter,     \* passes of the export workers, by their token
          NoExporter,   \* no claim
          MaxClaims     \* max_attempts of the job

ASSUME ExportParameters == NoExporter \notin Exporter /\ MaxClaims \in Nat \ {0}

VARIABLES
    exportJob,   \* the row of export_jobs
    sources,     \* what became of each object since the job was made
    staging,     \* the staging directory of the job, if there is one
    exported,    \* the published directory, if there is one
    exporter     \* what each pass is doing

exportVars == <<exportJob, sources, staging, exported, exporter>>

NoDirectory == [exists |-> FALSE, files |-> {}, manifest |-> FALSE,
                saved |-> {}, missing |-> {}]
NoPass == [at |-> "idle", taken |-> FALSE, snapshot |-> {}, saved |-> {},
           missing |-> {}]

ExportInit ==
    /\ exportJob \in [state : {"QUEUED"}, holder : {NoExporter}, claims : {0},
                      dryRun : BOOLEAN, taken : {FALSE}, snapshot : {{}}]
    /\ sources = [i \in Item |-> "ready"]
    /\ staging = NoDirectory /\ exported = NoDirectory
    /\ exporter = [e \in Exporter |-> NoPass]

ExporterTo(e, l) == exporter' = [exporter EXCEPT ![e].at = l]

\* The fence of every update of the row by a pass.
OwnsExport(e) == exportJob.state = "RUNNING" /\ exportJob.holder = e

-----------------------------------------------------------------------------
\* A job that waits, or whose claim has lapsed, and has attempts left.
ClaimExport(e) ==
    /\ exporter[e].at = "idle"
    /\ \/ exportJob.state = "QUEUED"
       \/ exportJob.state = "RUNNING" /\ exportJob.holder = NoExporter
    /\ exportJob.claims < MaxClaims
    /\ exportJob' = [exportJob EXCEPT !.state = "RUNNING", !.holder = e,
                                      !.claims = @ + 1]
    /\ exporter' = [exporter EXCEPT
                       ![e] = [NoPass EXCEPT !.at = "claimed",
                                  !.taken = exportJob.taken,
                                  !.snapshot = exportJob.snapshot]]
    /\ UNCHANGED <<sources, staging, exported>>

\* claimNext also fails a job whose last attempt lapsed.
ExhaustExport ==
    /\ exportJob.state = "RUNNING" /\ exportJob.holder = NoExporter
    /\ exportJob.claims >= MaxClaims
    /\ exportJob' = [exportJob EXCEPT !.state = "FAILED"]
    /\ UNCHANGED <<sources, staging, exported, exporter>>

\* A dry run needs no directory.
AfterSnapshot == IF exportJob.dryRun THEN "acknowledging" ELSE "preparing"

LoadSnapshot(e) ==
    /\ exporter[e].at = "claimed" /\ exporter[e].taken
    /\ ExporterTo(e, AfterSnapshot)
    /\ UNCHANGED <<exportJob, sources, staging, exported>>

\* The first pass stores what is READY; it fails when it lost its claim.
CreateSnapshot(e) ==
    /\ exporter[e].at = "claimed" /\ ~exporter[e].taken
    /\ OwnsExport(e) /\ ~exportJob.taken
    /\ LET ready == {i \in Item : sources[i] \in {"ready", "changed"}} IN
       /\ exportJob' = [exportJob EXCEPT !.taken = TRUE, !.snapshot = ready]
       /\ exporter' = [exporter EXCEPT ![e].at = AfterSnapshot,
                                       ![e].snapshot = ready]
    /\ sources' = [i \in Item |-> IF sources[i] = "changed" THEN "ready" ELSE sources[i]]
    /\ UNCHANGED <<staging, exported>>

\* prepare finds the directory published, or starts the staging anew.  A
\* published directory without a manifest is an error.
PrepareStage(e) ==
    /\ exporter[e].at = "preparing"
    /\ \/ /\ exported.manifest
          /\ exporter' = [exporter EXCEPT ![e].at = "found",
                             ![e].saved = exported.saved,
                             ![e].missing = exported.missing]
          /\ UNCHANGED staging
       \/ /\ ~exported.exists
          /\ staging' = [NoDirectory EXCEPT !.exists = TRUE]
          /\ ExporterTo(e, "saving")
    /\ UNCHANGED <<exportJob, sources, exported>>

Unsaved(e) == exporter[e].snapshot \ (exporter[e].saved \cup exporter[e].missing)

\* writeObject makes the directories it needs, the staging's own too.
SaveObject(e, i) ==
    /\ exporter[e].at = "saving" /\ i \in Unsaved(e)
    /\ sources[i] # "reaped"
    /\ staging' = [staging EXCEPT !.exists = TRUE, !.files = @ \cup {i}]
    /\ exporter' = [exporter EXCEPT ![e].saved = @ \cup {i}]
    /\ UNCHANGED <<exportJob, sources, exported>>

MissObject(e, i) ==
    /\ exporter[e].at = "saving" /\ i \in Unsaved(e)
    /\ sources[i] = "reaped"
    /\ exporter' = [exporter EXCEPT ![e].missing = @ \cup {i}]
    /\ UNCHANGED <<exportJob, sources, staging, exported>>

\* snapshotStillCurrent, with allowDeleted: what still exists is unchanged.
\* Nothing looks at the claim between the last object and the rename.
CheckSnapshot(e) ==
    /\ exporter[e].at = "saving" /\ Unsaved(e) = {}
    /\ \A i \in exporter[e].snapshot : sources[i] # "changed"
    /\ ExporterTo(e, "writing")
    /\ UNCHANGED <<exportJob, sources, staging, exported>>

\* The report and the manifest are new files of an existing directory.
WriteManifest(e) ==
    /\ exporter[e].at = "writing"
    /\ staging.exists /\ ~staging.manifest
    /\ staging' = [staging EXCEPT !.manifest = TRUE, !.saved = exporter[e].saved,
                                  !.missing = exporter[e].missing]
    /\ ExporterTo(e, "renaming")
    /\ UNCHANGED <<exportJob, sources, exported>>

\* Planted bug: a rename that fails is taken for one done before.
PublishAnyway(e) ==
    /\ exporter[e].at = "renaming"
    /\ exported' = IF staging.exists /\ ~exported.exists THEN staging ELSE exported
    /\ staging' = NoDirectory
    /\ ExporterTo(e, "acknowledging")
    /\ UNCHANGED <<exportJob, sources>>

\* A rename over a directory that is not empty fails.  A manifest there is
\* of this job and snapshot, and the staging is removed instead.
PublishStage(e) ==
    /\ exporter[e].at = "renaming"
    /\ \/ staging.exists /\ ~exported.manifest /\ exported.files = {}
          /\ exported' = staging
       \/ exported.manifest /\ UNCHANGED exported
    /\ staging' = NoDirectory
    /\ ExporterTo(e, "acknowledging")
    /\ UNCHANGED <<exportJob, sources>>

CompleteExport(e) ==
    /\ exporter[e].at \in {"found", "acknowledging"}
    /\ OwnsExport(e)
    /\ exportJob' = [exportJob EXCEPT !.state = "READY", !.holder = NoExporter]
    /\ exporter' = [exporter EXCEPT ![e] = NoPass]
    /\ UNCHANGED <<sources, staging, exported>>

-----------------------------------------------------------------------------
(* Failures.                                                               *)

\* Errors that no attempt can mend: the snapshot does not hold any more.
SnapshotBroken(e) == \E i \in exporter[e].snapshot : sources[i] = "changed"

\* An error ends the pass: it removes the staging unless it published.
PassErrs(e) ==
    /\ exporter[e].at \notin {"idle", "failed", "refused"}
    /\ staging' = IF exporter[e].at \in {"saving", "writing", "renaming", "found"}
                  THEN NoDirectory ELSE staging
    /\ \/ ExporterTo(e, "failed")
       \/ exporter[e].at = "saving" /\ SnapshotBroken(e) /\ ExporterTo(e, "refused")
       \/ exporter[e].at = "claimed" /\ ExporterTo(e, "refused")
    /\ UNCHANGED <<exportJob, sources, exported>>

\* retryOrFail, failInvariant.
RecordFailure(e) ==
    /\ exporter[e].at \in {"failed", "refused"}
    /\ OwnsExport(e)
    /\ exportJob' = [exportJob EXCEPT
          !.holder = NoExporter,
          !.state = IF exporter[e].at = "refused" \/ exportJob.claims >= MaxClaims
                    THEN "FAILED" ELSE "QUEUED"]
    /\ exporter' = [exporter EXCEPT ![e] = NoPass]
    /\ UNCHANGED <<sources, staging, exported>>

\* A pass that dies, is shut down, or notices between two objects that its
\* claim is lost ends without a word.
PassEnds(e) ==
    /\ exporter[e].at # "idle"
    /\ exporter' = [exporter EXCEPT ![e] = NoPass]
    /\ UNCHANGED <<exportJob, sources, staging, exported>>

ExportLapses ==
    /\ exportJob.state = "RUNNING" /\ exportJob.holder # NoExporter
    /\ exportJob' = [exportJob EXCEPT !.holder = NoExporter]
    /\ UNCHANGED <<sources, staging, exported, exporter>>

\* Meanwhile objects are deleted, first their rows and then their bytes, or
\* replaced under the same row.
SourceMoves(i, from, to) ==
    /\ sources[i] = from /\ sources' = [sources EXCEPT ![i] = to]
    /\ UNCHANGED <<exportJob, staging, exported, exporter>>

-----------------------------------------------------------------------------
ExportNext ==
    \/ \E e \in Exporter :
          \/ ClaimExport(e) \/ LoadSnapshot(e) \/ CreateSnapshot(e)
          \/ PrepareStage(e) \/ CheckSnapshot(e) \/ WriteManifest(e)
          \/ PublishStage(e) \/ CompleteExport(e)
          \/ PassErrs(e) \/ RecordFailure(e) \/ PassEnds(e)
          \/ \E i \in Item : SaveObject(e, i) \/ MissObject(e, i)
    \/ ExhaustExport \/ ExportLapses
    \/ \E i \in Item :
          \/ SourceMoves(i, "ready", "deleted")
          \/ SourceMoves(i, "deleted", "reaped")
          \/ SourceMoves(i, "ready", "changed")

ExportSpec == ExportInit /\ [][ExportNext]_exportVars

-----------------------------------------------------------------------------
(* Properties.                                                             *)

\* Every variable has its type.
ExportTypeOK ==
    /\ exportJob \in [state : {"QUEUED", "RUNNING", "READY", "FAILED"},
                      holder : Exporter \cup {NoExporter}, claims : 0 .. MaxClaims,
                      dryRun : BOOLEAN, taken : BOOLEAN, snapshot : SUBSET Item]
    /\ sources \in [Item -> {"ready", "changed", "deleted", "reaped"}]
    /\ {staging, exported} \subseteq
          [exists : BOOLEAN, files : SUBSET Item, manifest : BOOLEAN,
           saved : SUBSET Item, missing : SUBSET Item]
    /\ exporter \in [Exporter ->
          [at : {"idle", "claimed", "preparing", "saving", "writing", "renaming",
                 "found", "acknowledging", "failed", "refused"},
           taken : BOOLEAN, snapshot : SUBSET Item, saved : SUBSET Item,
           missing : SUBSET Item]]

\* A job that is READY has its directory on the NAS, and no object in it that
\* the stored snapshot does not name, however many passes shared the staging
\* directory and removed it under each other.
ReadyIsExported ==
    exportJob.state = "READY" /\ ~exportJob.dryRun =>
        /\ exported.exists
        /\ exported.files \subseteq exportJob.snapshot

\* What the published report calls saved is there.  (Violated: a pass that
\* lost its claim removes the staging directory of its successor.)
ReportedFilesPresent == exported.exists => exported.saved \subseteq exported.files

\* The passes whose error removes the staging directory, or that write in it.
\* A claim that lapses while its pass is at one of these places is what makes
\* two of them possible.
StagePlaces == {"saving", "writing", "renaming", "found"}
OnePassStages ==
    \A e, f \in Exporter :
        exporter[e].at \in StagePlaces /\ exporter[f].at \in StagePlaces => e = f

\* The published directory has a manifest, the files it calls saved and no
\* others, and every object of the snapshot is either saved or reported missing.
ReportExact ==
    exported.exists =>
        /\ exported.manifest /\ exported.files = exported.saved
        /\ exported.saved \cup exported.missing = exportJob.snapshot
=============================================================================
