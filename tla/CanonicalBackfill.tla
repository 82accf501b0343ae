------------------------- MODULE CanonicalBackfill -------------------------
(***************************************************************************)
(* The offline backfill of canonical assets.  A command walks the rows of  *)
(* the legacy schema in order, makes the copies and renditions each still  *)
(* lacks, and commits them as its representations.  It may die anywhere    *)
(* and be started again from its progress file, days later: API, workers   *)
(* and the orphan reaper run in between and are drained while it works.    *)
(* Dropping the legacy columns (the contract) waits for a clean preflight. *)
(*                                                                         *)
(* Abstractions:                                                           *)
(*  - The rows of the three phases (assets, exhibitions, WebGL projects)   *)
(*    are one sequence.  A row stands for what gets the representations,   *)
(*    an asset or the pointer to it.                                       *)
(*  - CopiesOf are the objects a row's representations name.  Those in     *)
(*    Relocated are exact copies with a row in the ledger of relocations;  *)
(*    the others, generated renditions and isolated WebGL sources, have    *)
(*    none and are made first.  A representation that keeps the legacy     *)
(*    object where it is needs no step and is left out.                    *)
(*  - The bytes of a legacy object stay: no representation names them, so  *)
(*    nothing queues them.                                                 *)
(*  - Nothing runs beside the command, so a row does not change between    *)
(*    its plan and its commit, and a request to storage is over before     *)
(*    the drain or the command is.                                         *)
(*  - Of the preflight, the blockers that this state can raise; metrics,   *)
(*    metadata of objects, buckets, deployments and uploads are left out.  *)
(***************************************************************************)
EXTENDS ObjectDeletion

CONSTANTS LastRow,             \* the rows are 1 to LastRow, in the order of the walk
          LegacyOf(_),         \* the legacy object of a row
          CopiesOf(_),         \* the objects its representations name
          Relocated,           \* the copies that have a row in the ledger
          MaxMigrationFaults   \* bound on failed rows and deaths of the command

LegacyRow == 1 .. LastRow

ASSUME BackfillParameters ==
    /\ LastRow \in Nat \ {0} /\ MaxMigrationFaults \in Nat /\ "assets" \in Table
    /\ \A r \in LegacyRow : LegacyOf(r) \in Key /\ CopiesOf(r) \in SUBSET Key
    /\ \A r, s \in LegacyRow : r # s => CopiesOf(r) \cap CopiesOf(s) = {}
    /\ \A r, s \in LegacyRow : LegacyOf(r) \notin CopiesOf(s)
    /\ Relocated \in SUBSET UNION {CopiesOf(r) : r \in LegacyRow}

VARIABLES
    canonical,        \* the rows: their status and representations
    ledger,           \* canonical_object_relocations: the row of each copy
    progress,         \* the progress file: last row done, rows that failed
    backfill,         \* the run of the command
    online,           \* API and workers run; otherwise they are drained
    contracted,       \* the legacy columns are gone
    migrationFaults   \* failed rows and deaths so far

backfillVars == <<canonical, ledger, progress, backfill, online, contracted,
                  migrationFaults>>

NoProgress == [after |-> 0, failures |-> {}]
NoRun == [at |-> "off", row |-> 0, retry |-> {}, todo |-> {}, key |-> None,
          after |-> 0, failures |-> {}]

BackfillInit ==
    /\ canonical = [r \in LegacyRow |-> [status |-> "READY", reps |-> {}]]
    /\ ledger = [k \in Relocated |-> "NONE"]
    /\ progress = NoProgress
    /\ backfill = NoRun
    /\ online = TRUE
    /\ contracted = FALSE
    /\ migrationFaults = 0

-----------------------------------------------------------------------------
(* Operation.                                                              *)

\* drain: application units stop and the reaper with them.  What they still
\* had under way in storage is over, or never arrives.
Drain ==
    /\ online
    /\ \A r \in Reaper : reaper[r].at = "resting"
    /\ online' = FALSE
    /\ lateDelete' = {}
    /\ UNCHANGED <<canonical, ledger, progress, backfill, contracted,
                   migrationFaults, outbox, reaper, stored>>

Resume ==
    /\ ~online /\ backfill.at = "off"
    /\ online' = TRUE
    /\ UNCHANGED <<canonical, ledger, progress, backfill, contracted,
                   migrationFaults, deletionVars>>

\* claimAssetForDeletion, by a member of the project
ClaimRowForDeletion(r) ==
    /\ online /\ canonical[r].status = "READY"
    /\ canonical' = [canonical EXCEPT ![r].status = "DELETING"]
    /\ UNCHANGED <<ledger, progress, backfill, online, contracted,
                   migrationFaults, deletionVars>>

\* completeAssetDeletion
CompleteRowDeletion(r) ==
    /\ online /\ canonical[r].status = "DELETING"
    /\ canonical' = [canonical EXCEPT ![r].status = "DELETED"]
    /\ QueueDurableDeletions(canonical[r].reps)
    /\ UNCHANGED <<ledger, progress, backfill, online, contracted,
                   migrationFaults, reaper, stored, lateDelete>>

-----------------------------------------------------------------------------
(* The command.                                                            *)

\* canonicalBackfillComplete
IsComplete(r) == canonical[r].reps = CopiesOf(r)

\* main, with or without --reset-progress
StartBackfill ==
    /\ ~online /\ ~contracted /\ backfill.at = "off"
    /\ \E file \in {progress, NoProgress} :
          backfill' = [NoRun EXCEPT !.at = "rows", !.retry = file.failures,
                                    !.after = file.after, !.failures = file.failures]
    /\ UNCHANGED <<canonical, ledger, progress, online, contracted,
                   migrationFaults, deletionVars>>

\* The rows that failed before come first, then those after the last one.
IsNext(r) ==
    IF backfill.retry # {}
    THEN r \in backfill.retry /\ \A s \in backfill.retry : r <= s
    ELSE r = backfill.after + 1

\* A row that is complete, or not READY, has nothing to do.
PlanRow(r) ==
    /\ backfill.at = "rows" /\ IsNext(r)
    /\ IF canonical[r].status = "READY" /\ ~IsComplete(r)
       THEN backfill' = [backfill EXCEPT !.at = "making", !.row = r,
                                         !.todo = CopiesOf(r)]
       ELSE backfill' = [backfill EXCEPT !.at = "saving", !.row = r,
                                         !.failures = @ \ {r}]
    /\ UNCHANGED <<canonical, ledger, progress, online, contracted,
                   migrationFaults, deletionVars>>

\* Renditions are generated before anything is relocated.
MayMake(k) == k \in backfill.todo /\ (k \in Relocated => backfill.todo \subseteq Relocated)

\* prepareObjectRelocation, which leaves a row there is as it is, then the
\* HEAD of the destination.
FindCopy(k) ==
    /\ backfill.at = "making" /\ MayMake(k)
    /\ ledger' = [l \in Relocated |->
                    IF l = k /\ ledger[l] = "NONE" THEN "PREPARED" ELSE ledger[l]]
    /\ backfill' = [backfill EXCEPT !.at = IF k \in stored THEN "made" ELSE "creating",
                                    !.key = k]
    /\ UNCHANGED <<canonical, progress, online, contracted, migrationFaults,
                   deletionVars>>

\* The object is up for deletion before it exists.
PrepareMaterializationCleanup ==
    /\ backfill.at = "creating" /\ ~LiveClaim(backfill.key)
    /\ SetRow(backfill.key, Pending)
    /\ backfill' = [backfill EXCEPT !.at = "copying"]
    /\ UNCHANGED <<canonical, ledger, progress, online, contracted,
                   migrationFaults, reaper, stored, lateDelete>>

CopyObject ==
    /\ backfill.at = "copying"
    /\ stored' = stored \cup {backfill.key}
    /\ backfill' = [backfill EXCEPT !.at = "made"]
    /\ UNCHANGED <<canonical, ledger, progress, online, contracted,
                   migrationFaults, outbox, reaper, lateDelete>>

\* markObjectRelocationMaterialized: what is COMMITTED stays so.
MarkMaterialized ==
    /\ backfill.at = "made"
    /\ ledger' = [l \in Relocated |->
                    IF l = backfill.key /\ ledger[l] = "PREPARED" THEN "MATERIALIZED"
                    ELSE ledger[l]]
    /\ backfill' = [backfill EXCEPT !.todo = @ \ {backfill.key},
                        !.at = IF backfill.todo = {backfill.key} THEN "applying" ELSE "making"]
    /\ UNCHANGED <<canonical, progress, online, contracted, migrationFaults,
                   deletionVars>>

\* cancelMaterializationCleanup, for all representations of the row: what
\* is pending or lapsed is cancelled.
CancelCleanup(keys) ==
    outbox' = [k \in Key |->
        IF k \in keys /\ outbox[k].state \in {"PENDING", "DELETE_CLAIMED"}
        THEN [NoRow EXCEPT !.state = "CANCELLED"] ELSE outbox[k]]

\* commitRelocations
CommitRelocations(keys) ==
    ledger' = [l \in Relocated |-> IF l \in keys THEN "COMMITTED" ELSE ledger[l]]

\* applyAsset, applyExhibition and applyWebgl, each one transaction.
ApplyRow ==
    /\ backfill.at = "applying"
    /\ \A k \in CopiesOf(backfill.row) : ~LiveClaim(k)
    /\ canonical' = [canonical EXCEPT ![backfill.row].reps = CopiesOf(backfill.row)]
    /\ CancelCleanup(CopiesOf(backfill.row))
    /\ CommitRelocations(CopiesOf(backfill.row))
    /\ backfill' = [backfill EXCEPT !.at = "saving", !.failures = @ \ {backfill.row}]
    /\ UNCHANGED <<progress, online, contracted, migrationFaults, reaper, stored,
                   lateDelete>>

\* A copy given up on may have been made.
CopyCutShort ==
    IF backfill.at = "copying" THEN stored' \in {stored, stored \cup {backfill.key}}
    ELSE UNCHANGED stored

\* Planted bug: the walk goes on past a row that failed.
SkipFailedRow ==
    /\ backfill.at \in {"making", "creating", "copying", "made", "applying"}
    /\ migrationFaults < MaxMigrationFaults
    /\ migrationFaults' = migrationFaults + 1
    /\ CopyCutShort
    /\ backfill' = [backfill EXCEPT !.at = "saving"]
    /\ UNCHANGED <<canonical, ledger, progress, online, contracted, outbox,
                   reaper, lateDelete>>

\* Storage or the database refuses, at any point before the commit: the row
\* is remembered and the walk goes on.
RememberFailed ==
    /\ backfill.at \in {"making", "creating", "copying", "made", "applying"}
    /\ migrationFaults < MaxMigrationFaults
    /\ migrationFaults' = migrationFaults + 1
    /\ CopyCutShort
    /\ backfill' = [backfill EXCEPT !.at = "saving", !.failures = @ \cup {backfill.row}]
    /\ UNCHANGED <<canonical, ledger, progress, online, contracted, outbox,
                   reaper, lateDelete>>

\* A claim on the object to make, or on one to commit, is live: the row fails.
RefuseRow ==
    /\ \/ backfill.at = "creating" /\ LiveClaim(backfill.key)
       \/ backfill.at = "applying" /\ \E k \in CopiesOf(backfill.row) : LiveClaim(k)
    /\ backfill' = [backfill EXCEPT !.at = "saving", !.failures = @ \cup {backfill.row}]
    /\ UNCHANGED <<canonical, ledger, progress, online, contracted,
                   migrationFaults, deletionVars>>

\* save, by a rename: the file is the old one or the new one.  Only the
\* walk moves the place to go on from.
SaveProgress ==
    LET retrying == backfill.retry # {}
        after == IF retrying THEN backfill.after ELSE backfill.row
    IN  /\ backfill.at = "saving"
        /\ progress' = [after |-> after, failures |-> backfill.failures]
        /\ backfill' = [backfill EXCEPT !.at = "rows", !.after = after, !.row = 0,
                            !.retry = @ \ {backfill.row}, !.todo = {}, !.key = None]
        /\ UNCHANGED <<canonical, ledger, online, contracted, migrationFaults,
                       deletionVars>>

FinishBackfill ==
    /\ backfill.at = "rows" /\ backfill.retry = {} /\ backfill.after = LastRow
    /\ backfill' = NoRun
    /\ UNCHANGED <<canonical, ledger, progress, online, contracted,
                   migrationFaults, deletionVars>>

BackfillDies ==
    /\ backfill.at # "off"
    /\ migrationFaults < MaxMigrationFaults
    /\ migrationFaults' = migrationFaults + 1
    /\ CopyCutShort
    /\ backfill' = NoRun
    /\ UNCHANGED <<canonical, ledger, progress, online, contracted, outbox,
                   reaper, lateDelete>>

-----------------------------------------------------------------------------
(* The contract.                                                           *)

Represented == UNION {canonical[r].reps : r \in LegacyRow}

\* legacyOnlyActiveAssets, unresolvedRepresentations
UnresolvedRows == {r \in LegacyRow : canonical[r].status # "DELETED" /\ ~IsComplete(r)}

\* incompleteObjectRelocations
IncompleteRelocations ==
    {k \in Relocated : ledger[k] # "NONE" /\ (ledger[k] # "COMMITTED" \/ k \notin Represented)}

\* pendingCleanupOutbox
PendingCleanup == {k \in Key : outbox[k].state \in {"PENDING", "DELETE_CLAIMED"}}

\* A representation, also one of a deleted row, and the source of a
\* committed relocation.
RequiredObjects ==
    Represented \cup
    {LegacyOf(r) : r \in {s \in LegacyRow : \E k \in CopiesOf(s) \cap Relocated : ledger[k] = "COMMITTED"}}

\* missingObjects, unknownInventoryOwnership
InventoryAgrees == RequiredObjects \subseteq stored /\ stored \subseteq RequiredObjects

PreflightClean ==
    /\ UnresolvedRows = {} /\ IncompleteRelocations = {} /\ PendingCleanup = {}
    /\ InventoryAgrees

\* The legacy columns go, between two runs of the application.
Contract ==
    /\ ~online /\ backfill.at = "off" /\ ~contracted
    /\ PreflightClean
    /\ contracted' = TRUE
    /\ UNCHANGED <<canonical, ledger, progress, backfill, online,
                   migrationFaults, deletionVars>>

-----------------------------------------------------------------------------
\* The reaper sees the representations of rows that are not DELETED.
BackfillReferences(t) ==
    IF t = "assets"
    THEN UNION {canonical[r].reps : r \in {s \in LegacyRow : canonical[s].status # "DELETED"}}
    ELSE {}

BackfillNext ==
    \/ Drain \/ Resume \/ Contract
    \/ StartBackfill \/ FinishBackfill \/ BackfillDies
    \/ \E r \in LegacyRow : PlanRow(r) \/ ClaimRowForDeletion(r) \/ CompleteRowDeletion(r)
    \/ \E k \in Key : FindCopy(k)
    \/ PrepareMaterializationCleanup \/ CopyObject \/ MarkMaterialized
    \/ ApplyRow \/ RefuseRow \/ RememberFailed \/ SaveProgress
    \/ /\ online /\ DeletionStep(BackfillReferences)
       /\ UNCHANGED backfillVars
    \/ /\ DeletionFault /\ migrationFaults < MaxMigrationFaults
       /\ migrationFaults' = migrationFaults + 1
       /\ UNCHANGED <<canonical, ledger, progress, backfill, online, contracted>>

\* The legacy objects are there, nothing is up for deletion.
BackfillSpec ==
    /\ ReaperInit /\ BackfillInit /\ stored = {LegacyOf(r) : r \in LegacyRow}
    /\ [][BackfillNext]_<<deletionVars, backfillVars>>

-----------------------------------------------------------------------------
BackfillTypeOK ==
    /\ DeletionTypeOK
    /\ canonical \in [LegacyRow -> [status : {"READY", "DELETING", "DELETED"},
                              reps : SUBSET Key]]
    /\ ledger \in [Relocated -> {"NONE", "PREPARED", "MATERIALIZED", "COMMITTED"}]
    /\ progress \in [after : 0 .. LastRow, failures : SUBSET LegacyRow]
    /\ backfill \in [at : {"off", "rows", "making", "creating", "copying", "made",
                           "applying", "saving"},
                     row : 0 .. LastRow, retry : SUBSET LegacyRow, todo : SUBSET Key,
                     key : Key \cup {None}, after : 0 .. LastRow, failures : SUBSET LegacyRow]
    /\ online \in BOOLEAN /\ contracted \in BOOLEAN
    /\ migrationFaults \in 0 .. MaxMigrationFaults

\* However often the command dies, is started again or is started over,
\* with the application at work in between: a row's representations have
\* their bytes, a row the progress file says is done is done or is listed as
\* failed, a copy no row names is up for deletion, and the legacy columns
\* are gone only when no row still needs them (canonical-backfill.ts:658,
\* contract-preflight.ts:423).
BackfillKept ==
    /\ \A r \in LegacyRow : canonical[r].status # "DELETED" => canonical[r].reps \subseteq stored
    /\ \A r \in LegacyRow : canonical[r].status = "READY" /\ r <= progress.after =>
          IsComplete(r) \/ r \in progress.failures
    /\ \A r \in LegacyRow : \A k \in (CopiesOf(r) \cap stored) \ BackfillReferences("assets") :
          outbox[k].state \in {"PENDING", "DELETE_CLAIMED"}
    /\ contracted => UnresolvedRows = {}
=============================================================================
