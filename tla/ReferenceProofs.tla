--------------------------- MODULE ReferenceProofs ---------------------------
(***************************************************************************)
(* What three writers of references promise, for any number of reapers:    *)
(* the playback of a video, that every generated file is there while it    *)
(* may be played and has somebody to delete it; the backfill of canonical  *)
(* assets, that a restart loses no row and no copy; votes and draws, that  *)
(* they hold as shown.  They share the deletion queue and nothing else.    *)
(* And the index of references: a look-up finds what overlaps its target.  *)
(***************************************************************************)
EXTENDS CanonicalBackfill, VideoPlayback, Voting, ReferenceIndex, ObjectDeletionProofs,
        FiniteSetTheorems, WellFoundedInduction

-----------------------------------------------------------------------------
(***************************************************************************)
(* The backfill of canonical assets.  The reaper rests while the command   *)
(* runs, so what it found or made stays until it commits; once committed,  *)
(* a copy is watched until its row is deleted.  The progress file lags     *)
(* behind the walk and never ahead of the rows.                            *)
(***************************************************************************)
BackfillPlaces == {"off", "rows", "making", "creating", "copying", "made", "applying",
                   "saving"}
CanonicalRow == [status : {"READY", "DELETING", "DELETED"}, reps : SUBSET Key]
LedgerState  == {"NONE", "PREPARED", "MATERIALIZED", "COMMITTED"}
ProgressFile == [after : 0 .. LastRow, failures : SUBSET LegacyRow]
BackfillRun  == [at : BackfillPlaces, row : 0 .. LastRow, retry : SUBSET LegacyRow,
                 todo : SUBSET Key, key : Key \cup {None}, after : 0 .. LastRow,
                 failures : SUBSET LegacyRow]

AllCopies == UNION {CopiesOf(r) : r \in LegacyRow}
AssetKeys == BackfillReferences("assets")

\* A row has all its representations or none.
RowsWhole == \A r \in LegacyRow : canonical[r].reps \in {{}, CopiesOf(r)}

\* Nothing is on its way to storage while the application is drained, and the
\* command runs only then.
DrainedQuiet ==
    /\ ~online => lateDelete = {} /\ \A q \in Reaper : reaper[q].at = "resting"
    /\ backfill.at # "off" => ~online

\* What the command has to do for its row, and what it has done.
WorkFits ==
    /\ backfill.at \notin {"off", "rows"} =>
          /\ backfill.row \in LegacyRow
          /\ backfill.retry = {} => backfill.row = backfill.after + 1
    /\ backfill.at \in {"making", "creating", "copying", "made", "applying"} =>
          /\ canonical[backfill.row].status = "READY"
          /\ backfill.todo \subseteq CopiesOf(backfill.row)
          /\ CopiesOf(backfill.row) \ backfill.todo \subseteq stored
    /\ backfill.at \in {"creating", "copying", "made"} => backfill.key \in backfill.todo
    /\ backfill.at = "made" => backfill.key \in stored
    /\ backfill.at = "copying" => Waits(backfill.key)
    /\ backfill.at = "applying" => backfill.todo = {}

\* Every row up to after is done, or listed as failed.
WalkedTo(after, failures) ==
    \A r \in LegacyRow : canonical[r].status = "READY" /\ r <= after =>
        IsComplete(r) \/ r \in failures

WalksAgree ==
    /\ WalkedTo(progress.after, progress.failures)
    /\ backfill.at # "off" => WalkedTo(backfill.after, backfill.failures)
    /\ backfill.at = "saving" /\ canonical[backfill.row].status = "READY" =>
          IsComplete(backfill.row) \/ backfill.row \in backfill.failures

RepsKept ==
    \A r \in LegacyRow : canonical[r].status # "DELETED" =>
        canonical[r].reps \subseteq stored /\ Watched(canonical[r].reps, "assets")

ContractFits == contracted => UnresolvedRows = {}

BackfillInv ==
    /\ BackfillTypeOK /\ RowsWhole /\ DrainedQuiet /\ WorkFits /\ WalksAgree
    /\ RepsKept /\ ContractFits
    /\ Owned(AllCopies, AssetKeys) /\ HoldersAgree(AllCopies, AssetKeys)

LEMMA BackfillTypes ==
    BackfillTypeOK <=>
        /\ DeletionTypeOK
        /\ canonical \in [LegacyRow -> CanonicalRow] /\ ledger \in [Relocated -> LedgerState]
        /\ progress \in ProgressFile /\ backfill \in BackfillRun
        /\ online \in BOOLEAN /\ contracted \in BOOLEAN
        /\ migrationFaults \in 0 .. MaxMigrationFaults
BY DEF BackfillTypeOK, CanonicalRow, LedgerState, ProgressFile, BackfillRun, BackfillPlaces

LEMMA CopiesAreKeys == AllCopies \in SUBSET Key /\ \A r \in LegacyRow : CopiesOf(r) \subseteq AllCopies
BY BackfillParameters DEF AllCopies

LEMMA BackfillBlanks ==
    /\ 0 \in 0 .. LastRow /\ LegacyRow \subseteq 0 .. LastRow
    /\ NoRun \in BackfillRun /\ NoRun.at = "off"
    /\ NoProgress \in ProgressFile /\ NoProgress.after = 0
<1>1. 0 \in 0 .. LastRow /\ LegacyRow \subseteq 0 .. LastRow
  BY BackfillParameters DEF LegacyRow
<1>2. QED BY <1>1 DEF NoRun, NoProgress, BackfillRun, BackfillPlaces, ProgressFile

\* What the reaper sees of the rows.
LEMMA AssetKeysAre ==
    AssetKeys = UNION {canonical[r].reps : r \in {s \in LegacyRow : canonical[s].status # "DELETED"}}
BY DEF AssetKeys, BackfillReferences

LEMMA BackfillInitially ==
    ASSUME ReaperInit, BackfillInit, stored = {LegacyOf(r) : r \in LegacyRow}
    PROVE  BackfillInv
<1>1. stored \in SUBSET Key
  BY BackfillParameters
<1>2. DeletionTypeOK /\ \A q \in Reaper : reaper[q].at = "resting" /\ lateDelete = {}
  BY <1>1, InitialDeletions DEF ReaperInit, Resting
<1>3. /\ canonical \in [LegacyRow -> CanonicalRow] /\ ledger \in [Relocated -> LedgerState]
      /\ \A r \in LegacyRow : canonical[r].reps = {} /\ canonical[r].status = "READY"
  BY DEF BackfillInit, CanonicalRow, LedgerState
<1>4. /\ progress \in ProgressFile /\ progress.after = 0
      /\ backfill \in BackfillRun /\ backfill.at = "off"
      /\ online = TRUE /\ contracted = FALSE /\ migrationFaults = 0
  BY BackfillParameters DEF BackfillInit, NoProgress, NoRun, ProgressFile, BackfillRun,
     BackfillPlaces, LegacyRow
<1>5. AllCopies \cap stored = {}
  BY BackfillParameters DEF AllCopies
<1>6. lateDelete = {}
  BY DEF ReaperInit
<1>7. BackfillTypeOK
  <2>1. migrationFaults \in 0 .. MaxMigrationFaults
    BY <1>4, BackfillParameters
  <2>2. online \in BOOLEAN /\ contracted \in BOOLEAN
    BY <1>4
  <2>3. QED BY ONLY <1>2, <1>3, <1>4, <2>1, <2>2, BackfillTypes
<1>8. RowsWhole /\ DrainedQuiet /\ WorkFits /\ ContractFits
  BY <1>3, <1>4 DEF RowsWhole, DrainedQuiet, WorkFits, ContractFits
<1>9. WalksAgree
  BY <1>3, <1>4 DEF WalksAgree, WalkedTo, LegacyRow
<1>10. RepsKept
  BY <1>3, <1>6 DEF RepsKept, Watched
<1>11. Owned(AllCopies, AssetKeys) /\ HoldersAgree(AllCopies, AssetKeys)
  BY <1>5 DEF Owned, HoldersAgree
<1> QED BY <1>7, <1>8, <1>9, <1>10, <1>11 DEF BackfillInv

\* A step of the command that changes no row and takes no bytes away; what it
\* adds to storage waits for its deletion.
LEMMA CommandMoves ==
    ASSUME BackfillInv, UNCHANGED <<canonical, outbox, reaper, lateDelete, online, contracted>>,
           stored \subseteq stored', stored' \in SUBSET Key,
           stored' # stored => ~online /\ \A k \in stored' \ stored : Waits(k),
           ledger' \in [Relocated -> LedgerState], progress' \in ProgressFile,
           backfill' \in BackfillRun, migrationFaults' \in 0 .. MaxMigrationFaults,
           backfill'.at # "off" => ~online, WorkFits', WalksAgree'
    PROVE  BackfillInv'
<1>1. BackfillTypeOK
  BY DEF BackfillInv
<1>2. BackfillTypeOK'
  BY <1>1 DEF BackfillTypeOK, CanonicalRow, LedgerState, ProgressFile, BackfillRun,
     BackfillPlaces, DeletionTypeOK, LiveClaim
<1>3. RowsWhole' /\ DrainedQuiet' /\ ContractFits' /\ AssetKeys' = AssetKeys
  BY DEF BackfillInv, RowsWhole, DrainedQuiet, ContractFits, UnresolvedRows, IsComplete,
     AssetKeys, BackfillReferences
<1>4. RepsKept'
  BY DEF BackfillInv, RepsKept, Watched
<1>5. Owned(AllCopies, AssetKeys)'
  BY <1>3 DEF BackfillInv, Owned, Waits
<1>6. HoldersAgree(AllCopies, AssetKeys)'
  <2>1. CASE stored' = stored
    BY <1>3, <2>1 DEF BackfillInv, HoldersAgree, HoldsClaim
  <2>2. CASE stored' # stored
    BY <2>2 DEF BackfillInv, DrainedQuiet, HoldersAgree, HoldsClaim
  <2>3. QED BY <2>1, <2>2
<1> QED BY <1>2, <1>3, <1>4, <1>5, <1>6 DEF BackfillInv

\* The walk of the command.
LEMMA CommandWalks ==
    ASSUME BackfillInv,
           \/ StartBackfill \/ FinishBackfill \/ SaveProgress
           \/ \E r \in LegacyRow : PlanRow(r)
    PROVE  BackfillInv'
<1>1. /\ progress \in ProgressFile /\ backfill \in BackfillRun /\ stored \in SUBSET Key
      /\ ledger \in [Relocated -> LedgerState] /\ migrationFaults \in 0 .. MaxMigrationFaults
      /\ canonical \in [LegacyRow -> CanonicalRow]
  BY BackfillTypes DEF BackfillInv, DeletionTypeOK
<1>2. WorkFits /\ WalksAgree /\ DrainedQuiet
  BY DEF BackfillInv
<1>3. /\ UNCHANGED <<canonical, ledger, online, contracted, migrationFaults>>
      /\ UNCHANGED <<outbox, reaper, stored, lateDelete>>
  BY DEF StartBackfill, FinishBackfill, SaveProgress, PlanRow, deletionVars
<1>4. ASSUME progress' \in ProgressFile, backfill' \in BackfillRun,
             backfill'.at # "off" => ~online, WorkFits', WalksAgree'
      PROVE  BackfillInv'
  BY <1>1, <1>3, <1>4, CommandMoves
<1>5. \A r \in LegacyRow : IsComplete(r)' = IsComplete(r)
  BY <1>3 DEF IsComplete
<1>6. CASE StartBackfill
  <2>1. PICK file \in {progress, NoProgress} :
           backfill' = [NoRun EXCEPT !.at = "rows", !.retry = file.failures,
                                     !.after = file.after, !.failures = file.failures]
    BY <1>6 DEF StartBackfill
  <2>2. file \in ProgressFile /\ WalkedTo(file.after, file.failures)
    BY <1>1, <1>2, BackfillParameters DEF NoProgress, ProgressFile, WalksAgree, WalkedTo, LegacyRow
  <2>3. /\ backfill' \in BackfillRun /\ backfill'.at = "rows" /\ backfill'.retry = file.failures
        /\ backfill'.after = file.after /\ backfill'.failures = file.failures
    BY <2>1, <2>2, BackfillBlanks DEF NoRun, BackfillRun, BackfillPlaces, ProgressFile
  <2>4. progress' = progress /\ ~online
    BY <1>6 DEF StartBackfill
  <2>5. WorkFits'
    BY <2>3 DEF WorkFits
  <2>6. WalksAgree'
    BY <1>2, <1>3, <1>5, <2>2, <2>3, <2>4 DEF WalksAgree, WalkedTo
  <2>7. QED BY <1>1, <1>4, <2>3, <2>4, <2>5, <2>6
<1>7. CASE FinishBackfill
  <2>1. progress' = progress /\ backfill' = NoRun
    BY <1>7 DEF FinishBackfill
  <2>2. backfill' \in BackfillRun /\ backfill'.at = "off"
    BY <2>1, BackfillBlanks
  <2>3. WorkFits' /\ WalksAgree'
    BY <1>2, <1>3, <1>5, <2>1, <2>2 DEF WorkFits, WalksAgree, WalkedTo
  <2>4. QED BY <1>1, <1>4, <2>1, <2>2, <2>3
<1>8. CASE SaveProgress
  <2> DEFINE after == IF backfill.retry # {} THEN backfill.after ELSE backfill.row
  <2>1. /\ backfill.at = "saving" /\ progress' = [after |-> after, failures |-> backfill.failures]
        /\ backfill' = [backfill EXCEPT !.at = "rows", !.after = after, !.row = 0,
                            !.retry = backfill.retry \ {backfill.row}, !.todo = {}, !.key = None]
    BY <1>8 DEF SaveProgress
  <2>2. /\ after \in 0 .. LastRow /\ backfill.row \in LegacyRow
        /\ backfill.retry = {} => backfill.row = backfill.after + 1
    BY <1>1, <1>2, <2>1 DEF WorkFits, BackfillRun
  <2>3. WalkedTo(after, backfill.failures)
    BY <1>1, <1>2, <2>1, <2>2 DEF WalksAgree, WalkedTo, LegacyRow, BackfillRun
  <2> HIDE DEF after
  <2>4. progress' \in ProgressFile /\ progress'.after = after
        /\ progress'.failures = backfill.failures
    BY <1>1, <2>1, <2>2 DEF ProgressFile, BackfillRun
  <2>5. /\ backfill' \in BackfillRun /\ backfill'.at = "rows" /\ backfill'.after = after
        /\ backfill'.failures = backfill.failures
    BY <1>1, <2>1, <2>2, BackfillBlanks DEF BackfillRun, BackfillPlaces
  <2>6. WorkFits'
    BY <2>5 DEF WorkFits
  <2>7. WalksAgree'
    BY <1>3, <1>5, <2>3, <2>4, <2>5 DEF WalksAgree, WalkedTo
  <2>8. QED BY <1>2, <1>4, <2>1, <2>4, <2>5, <2>6, <2>7 DEF DrainedQuiet
<1>9. ASSUME NEW r \in LegacyRow, PlanRow(r) PROVE BackfillInv'
  <2>1. /\ backfill.at = "rows" /\ IsNext(r) /\ progress' = progress
    BY <1>9 DEF PlanRow
  <2>2. backfill.retry = {} => r = backfill.after + 1
    BY <2>1 DEF IsNext
  <2>3. r \in 0 .. LastRow /\ CopiesOf(r) \in SUBSET Key
    BY BackfillBlanks, BackfillParameters
  <2>4. \/ /\ canonical[r].status = "READY"
           /\ backfill' = [backfill EXCEPT !.at = "making", !.row = r, !.todo = CopiesOf(r)]
        \/ /\ canonical[r].status # "READY" \/ IsComplete(r)
           /\ backfill' = [backfill EXCEPT !.at = "saving", !.row = r,
                                           !.failures = backfill.failures \ {r}]
    BY <1>9 DEF PlanRow
  <2>5. /\ backfill' \in BackfillRun /\ backfill'.row = r /\ backfill'.retry = backfill.retry
        /\ backfill'.after = backfill.after
        /\ \/ /\ backfill'.at = "making" /\ backfill'.todo = CopiesOf(r)
              /\ canonical[r].status = "READY" /\ backfill'.failures = backfill.failures
           \/ /\ backfill'.at = "saving" /\ backfill'.failures = backfill.failures \ {r}
              /\ canonical[r].status # "READY" \/ IsComplete(r)
    BY <1>1, <2>3, <2>4 DEF BackfillRun, BackfillPlaces
  <2>6. WorkFits'
    BY <1>3, <2>2, <2>5 DEF WorkFits
  <2>7. WalksAgree'
    BY <1>2, <1>3, <1>5, <2>1, <2>5 DEF WalksAgree, WalkedTo
  <2>8. QED BY <1>1, <1>2, <1>4, <2>1, <2>5, <2>6, <2>7 DEF DrainedQuiet
<1> QED BY <1>6, <1>7, <1>8, <1>9

\* The making of a copy, and its failures.
LEMMA CommandMakes ==
    ASSUME BackfillInv,
           \/ \E k \in Key : FindCopy(k)
           \/ CopyObject \/ MarkMaterialized \/ RefuseRow \/ RememberFailed \/ BackfillDies
    PROVE  BackfillInv'
<1>1. /\ progress \in ProgressFile /\ backfill \in BackfillRun /\ stored \in SUBSET Key
      /\ ledger \in [Relocated -> LedgerState] /\ migrationFaults \in 0 .. MaxMigrationFaults
      /\ canonical \in [LegacyRow -> CanonicalRow]
  BY BackfillTypes DEF BackfillInv, DeletionTypeOK
<1>2. WorkFits /\ WalksAgree /\ DrainedQuiet
  BY DEF BackfillInv
<1>3. UNCHANGED <<canonical, online, contracted, progress, outbox, reaper, lateDelete>>
  BY DEF FindCopy, CopyObject, MarkMaterialized, RefuseRow, RememberFailed, BackfillDies,
     deletionVars
<1>4. backfill.at # "off" /\ ~online
  BY <1>2 DEF FindCopy, CopyObject, MarkMaterialized, RefuseRow, RememberFailed, BackfillDies,
     DrainedQuiet
<1>5. backfill.at # "saving" \/ BackfillDies
  BY DEF FindCopy, CopyObject, MarkMaterialized, RefuseRow, RememberFailed
<1>6. ledger' \in [Relocated -> LedgerState]
  BY <1>1 DEF FindCopy, CopyObject, MarkMaterialized, RefuseRow, RememberFailed, BackfillDies,
     LedgerState
<1>7. migrationFaults' \in 0 .. MaxMigrationFaults
  <2>1. \/ migrationFaults' = migrationFaults
        \/ migrationFaults < MaxMigrationFaults /\ migrationFaults' = migrationFaults + 1
    BY DEF FindCopy, CopyObject, MarkMaterialized, RefuseRow, RememberFailed, BackfillDies
  <2>2. QED BY <1>1, <2>1, BackfillParameters
<1>8. /\ stored \subseteq stored' /\ stored' \in SUBSET Key
      /\ \A k \in stored' \ stored : Waits(k)
  <2>1. \/ stored' = stored
        \/ backfill.at = "copying" /\ stored' = stored \cup {backfill.key}
    <3>1. CASE RememberFailed \/ BackfillDies
      BY <3>1 DEF RememberFailed, BackfillDies, CopyCutShort
    <3>2. CASE (\E k \in Key : FindCopy(k)) \/ CopyObject \/ MarkMaterialized \/ RefuseRow
      BY <3>2 DEF FindCopy, CopyObject, MarkMaterialized, RefuseRow, deletionVars
    <3>3. QED BY <3>1, <3>2
  <2>2. backfill.at = "copying" => backfill.key \in Key /\ Waits(backfill.key)
    BY <1>1, <1>2, BackfillParameters DEF WorkFits, BackfillRun
  <2>3. QED BY <1>1, <2>1, <2>2
<1>9. ASSUME backfill' \in BackfillRun, WorkFits', WalksAgree'
      PROVE  BackfillInv'
  BY <1>1, <1>3, <1>4, <1>6, <1>7, <1>8, <1>9, CommandMoves
<1>10. \A r \in LegacyRow : IsComplete(r)' = IsComplete(r)
  BY <1>3 DEF IsComplete
<1>11. ASSUME backfill' \in BackfillRun,
              \/ backfill'.at = "off"
              \/ /\ backfill'.row = backfill.row /\ backfill'.after = backfill.after
                 /\ backfill'.retry = backfill.retry
                 /\ backfill.failures \subseteq backfill'.failures
                 /\ backfill'.at = "saving" => backfill.row \in backfill'.failures
       PROVE  WalksAgree'
  BY <1>2, <1>3, <1>4, <1>10, <1>11 DEF WalksAgree, WalkedTo
<1>12. ASSUME NEW k \in Key, FindCopy(k) PROVE BackfillInv'
  <2>1. /\ backfill.at = "making" /\ k \in backfill.todo
        /\ backfill' = [backfill EXCEPT !.at = IF k \in stored THEN "made" ELSE "creating",
                                        !.key = k]
    BY <1>12 DEF FindCopy, MayMake
  <2>2. /\ backfill' \in BackfillRun /\ backfill'.key = k /\ backfill'.row = backfill.row
        /\ backfill'.after = backfill.after /\ backfill'.retry = backfill.retry
        /\ backfill'.todo = backfill.todo /\ backfill'.failures = backfill.failures
        /\ backfill'.at \in {"made", "creating"} /\ (backfill'.at = "made" => k \in stored)
    BY <1>1, <2>1 DEF BackfillRun, BackfillPlaces
  <2>3. WorkFits'
    BY <1>2, <1>3, <1>8, <2>1, <2>2 DEF WorkFits
  <2>4. QED BY <1>9, <1>11, <2>2, <2>3
<1>13. CASE CopyObject
  <2>1. /\ backfill.at = "copying" /\ stored' = stored \cup {backfill.key}
        /\ backfill' = [backfill EXCEPT !.at = "made"]
    BY <1>13 DEF CopyObject
  <2>2. /\ backfill' \in BackfillRun /\ backfill'.at = "made" /\ backfill'.key = backfill.key
        /\ backfill'.row = backfill.row /\ backfill'.after = backfill.after
        /\ backfill'.retry = backfill.retry /\ backfill'.todo = backfill.todo
        /\ backfill'.failures = backfill.failures
    BY <1>1, <2>1 DEF BackfillRun, BackfillPlaces
  <2>3. WorkFits'
    BY <1>2, <1>3, <2>1, <2>2 DEF WorkFits
  <2>4. QED BY <1>9, <1>11, <2>2, <2>3
<1>14. CASE MarkMaterialized
  <2>1. /\ backfill.at = "made"
        /\ backfill' = [backfill EXCEPT !.todo = backfill.todo \ {backfill.key},
                        !.at = IF backfill.todo = {backfill.key} THEN "applying" ELSE "making"]
        /\ stored' = stored
    BY <1>14 DEF MarkMaterialized, deletionVars
  <2>2. /\ backfill' \in BackfillRun /\ backfill'.todo = backfill.todo \ {backfill.key}
        /\ backfill'.row = backfill.row /\ backfill'.after = backfill.after
        /\ backfill'.retry = backfill.retry /\ backfill'.failures = backfill.failures
        /\ \/ backfill'.at = "applying" /\ backfill'.todo = {}
           \/ backfill'.at = "making"
    BY <1>1, <2>1 DEF BackfillRun, BackfillPlaces
  <2>3. WorkFits'
    BY <1>2, <1>3, <2>1, <2>2 DEF WorkFits
  <2>4. QED BY <1>9, <1>11, <2>2, <2>3
<1>15. CASE RefuseRow \/ RememberFailed
  <2>1. /\ backfill.at \in {"making", "creating", "copying", "made", "applying"}
        /\ backfill' = [backfill EXCEPT !.at = "saving",
                                        !.failures = backfill.failures \cup {backfill.row}]
    BY <1>15 DEF RefuseRow, RememberFailed
  <2>2. backfill.row \in LegacyRow
    BY <1>2, <2>1 DEF WorkFits
  <2>3. /\ backfill' \in BackfillRun /\ backfill'.at = "saving"
        /\ backfill'.row = backfill.row /\ backfill'.after = backfill.after
        /\ backfill'.retry = backfill.retry
        /\ backfill'.failures = backfill.failures \cup {backfill.row}
    BY <1>1, <2>1, <2>2 DEF BackfillRun, BackfillPlaces
  <2>4. WorkFits'
    BY <1>2, <2>1, <2>3 DEF WorkFits
  <2>5. QED BY <1>9, <1>11, <2>3, <2>4
<1>16. CASE BackfillDies
  <2>1. backfill' = NoRun
    BY <1>16 DEF BackfillDies
  <2>2. backfill' \in BackfillRun /\ backfill'.at = "off"
    BY <2>1, BackfillBlanks
  <2>3. WorkFits'
    BY <2>2 DEF WorkFits
  <2>4. QED BY <1>9, <1>11, <2>2, <2>3
<1> QED BY <1>12, <1>13, <1>14, <1>15, <1>16

\* Before the copy exists its deletion is queued; no reaper is at work.
LEMMA CleanupPrepared ==
    ASSUME BackfillInv, PrepareMaterializationCleanup
    PROVE  BackfillInv'
<1>1. /\ backfill \in BackfillRun /\ WorkFits /\ WalksAgree /\ DrainedQuiet
      /\ DeletionTypeOK /\ BackfillTypeOK
  BY BackfillTypes DEF BackfillInv
<1>2. /\ backfill.at = "creating" /\ SetRow(backfill.key, Pending)
      /\ backfill' = [backfill EXCEPT !.at = "copying"]
      /\ UNCHANGED <<canonical, ledger, progress, online, contracted, migrationFaults, reaper,
                     stored, lateDelete>>
  BY DEF PrepareMaterializationCleanup
<1>3. /\ backfill' \in BackfillRun /\ backfill'.at = "copying"
      /\ backfill'.key = backfill.key /\ backfill'.row = backfill.row
      /\ backfill'.after = backfill.after /\ backfill'.retry = backfill.retry
      /\ backfill'.todo = backfill.todo /\ backfill'.failures = backfill.failures
  BY <1>1, <1>2 DEF BackfillRun, BackfillPlaces
<1>4. backfill.key \in Key /\ ~online /\ \A q \in Reaper : reaper[q].at = "resting"
  BY <1>1, <1>2 DEF WorkFits, BackfillRun, DrainedQuiet
<1>5. outbox' = [outbox EXCEPT ![backfill.key] = Pending]
  BY <1>2 DEF SetRow
<1>6. outbox' \in [Key -> [state : RowState, claim : Reaper \cup {None}, requeue : BOOLEAN]]
  BY <1>1, <1>4, <1>5 DEF DeletionTypeOK, Pending, RowState
<1>7. DeletionTypeOK'
  BY <1>1, <1>2, <1>4, <1>5, <1>6 DEF DeletionTypeOK, LiveClaim, Pending
<1>8. BackfillTypeOK'
  BY <1>1, <1>2, <1>3, <1>7 DEF BackfillTypeOK, BackfillRun, BackfillPlaces
<1>9. \A r \in LegacyRow : IsComplete(r)' = IsComplete(r)
  BY <1>2 DEF IsComplete
<1>10. RowsWhole' /\ DrainedQuiet' /\ ContractFits' /\ AssetKeys' = AssetKeys
  BY <1>1, <1>2, <1>4, <1>9 DEF BackfillInv, RowsWhole, DrainedQuiet, ContractFits,
     UnresolvedRows, AssetKeys, BackfillReferences
<1>11. WorkFits'
  BY <1>1, <1>2, <1>3, <1>4, <1>5, <1>6 DEF WorkFits, Waits, Pending, DeletionTypeOK
<1>12. WalksAgree'
  BY <1>1, <1>2, <1>3, <1>9 DEF WalksAgree, WalkedTo
<1>13. RepsKept'
  BY <1>2 DEF BackfillInv, RepsKept, Watched
<1>14. Owned(AllCopies, AssetKeys)'
  BY <1>1, <1>2, <1>4, <1>5, <1>10, CopiesAreKeys DEF BackfillInv, Owned, Waits, Pending,
     DeletionTypeOK
<1>15. HoldersAgree(AllCopies, AssetKeys)'
  BY <1>2, <1>4 DEF HoldersAgree, HoldsClaim
<1> QED BY <1>8, <1>10, <1>11, <1>12, <1>13, <1>14, <1>15 DEF BackfillInv

\* The commit of a row: what it names is in storage, no reaper is on its way,
\* and nothing waits for the deletion of a copy any more.
LEMMA RowApplied ==
    ASSUME BackfillInv, ApplyRow
    PROVE  BackfillInv'
<1> DEFINE row == backfill.row
<1>1. /\ backfill \in BackfillRun /\ WorkFits /\ WalksAgree /\ DrainedQuiet
      /\ DeletionTypeOK /\ BackfillTypeOK /\ canonical \in [LegacyRow -> CanonicalRow]
      /\ ledger \in [Relocated -> LedgerState]
  BY BackfillTypes DEF BackfillInv
<1>2. /\ backfill.at = "applying" /\ \A k \in CopiesOf(row) : ~LiveClaim(k)
      /\ canonical' = [canonical EXCEPT ![row].reps = CopiesOf(row)]
      /\ CancelCleanup(CopiesOf(row)) /\ CommitRelocations(CopiesOf(row))
      /\ backfill' = [backfill EXCEPT !.at = "saving", !.failures = backfill.failures \ {row}]
      /\ UNCHANGED <<progress, online, contracted, migrationFaults, reaper, stored, lateDelete>>
  BY DEF ApplyRow
<1>3. /\ backfill' \in BackfillRun /\ backfill'.at = "saving"
      /\ backfill'.row = row /\ backfill'.after = backfill.after
      /\ backfill'.retry = backfill.retry /\ backfill'.failures = backfill.failures \ {row}
  BY <1>1, <1>2 DEF BackfillRun, BackfillPlaces
<1>4. /\ ~online /\ lateDelete = {} /\ \A q \in Reaper : reaper[q].at = "resting"
      /\ row \in LegacyRow /\ CopiesOf(row) \subseteq stored
      /\ canonical[row].status = "READY"
  BY <1>1, <1>2 DEF WorkFits, DrainedQuiet
<1> HIDE DEF row
<1>5. /\ outbox' \in [Key -> [state : RowState, claim : Reaper \cup {None}, requeue : BOOLEAN]]
      /\ \A k \in Key : outbox'[k].claim # None => outbox'[k].state = "DELETE_CLAIMED"
      /\ \A k \in Key : k \notin CopiesOf(row) => outbox'[k] = outbox[k]
  <2>1. [NoRow EXCEPT !.state = "CANCELLED"] \in [state : RowState, claim : {None}, requeue : BOOLEAN]
    BY DEF NoRow, RowState
  <2>2. PICK cancelled \in [state : RowState, claim : {None}, requeue : BOOLEAN] :
           cancelled = [NoRow EXCEPT !.state = "CANCELLED"]
    BY <2>1
  <2>3. outbox' = [k \in Key |->
           IF k \in CopiesOf(row) /\ outbox[k].state \in {"PENDING", "DELETE_CLAIMED"}
           THEN cancelled ELSE outbox[k]]
    BY <1>2, <2>2 DEF CancelCleanup
  <2>4. QED BY <1>1, <2>3 DEF DeletionTypeOK, LiveClaim
<1>6. DeletionTypeOK'
  BY <1>1, <1>2, <1>5 DEF DeletionTypeOK, LiveClaim
<1>7. ledger' \in [Relocated -> LedgerState]
  BY <1>1, <1>2 DEF CommitRelocations, LedgerState
<1>8. /\ canonical' \in [LegacyRow -> CanonicalRow]
      /\ canonical'[row].reps = CopiesOf(row) /\ canonical'[row].status = "READY"
      /\ \A r \in LegacyRow : /\ r # row => canonical'[r] = canonical[r]
                              /\ canonical'[r].status = canonical[r].status
                              /\ IsComplete(r) \/ r = row => IsComplete(r)'
  BY <1>1, <1>2, <1>4, BackfillParameters DEF CanonicalRow, IsComplete
<1>9. BackfillTypeOK'
  BY <1>1, <1>2, <1>3, <1>6, <1>7, <1>8 DEF BackfillTypeOK, BackfillRun, BackfillPlaces,
     CanonicalRow, LedgerState
<1>10. RowsWhole' /\ DrainedQuiet' /\ ContractFits'
  BY <1>1, <1>2, <1>4, <1>8 DEF BackfillInv, RowsWhole, DrainedQuiet, ContractFits,
     UnresolvedRows
<1>11. WorkFits'
  BY <1>1, <1>2, <1>3, <1>4 DEF WorkFits
<1>12. WalksAgree'
  BY <1>1, <1>2, <1>3, <1>8 DEF WalksAgree, WalkedTo
<1>13. RepsKept'
  <2>1. ASSUME NEW r \in LegacyRow, canonical'[r].status # "DELETED"
        PROVE  canonical'[r].reps \subseteq stored'
    BY <1>2, <1>4, <1>8, <2>1 DEF BackfillInv, RepsKept
  <2>2. QED BY <1>2, <1>4, <2>1 DEF RepsKept, Watched
<1>14. /\ AssetKeys \subseteq AssetKeys' /\ CopiesOf(row) \subseteq AssetKeys'
  BY <1>4, <1>8 DEF AssetKeys, BackfillReferences, BackfillInv, RowsWhole
<1>15. Owned(AllCopies, AssetKeys)'
  BY <1>2, <1>5, <1>14, CopiesAreKeys DEF BackfillInv, Owned, Waits
<1>16. HoldersAgree(AllCopies, AssetKeys)'
  BY <1>2, <1>4 DEF HoldersAgree, HoldsClaim
<1> QED BY <1>9, <1>10, <1>11, <1>12, <1>13, <1>15, <1>16 DEF BackfillInv

\* A member deletes a row; what it named is queued with it.
LEMMA RowDeletion ==
    ASSUME BackfillInv, NEW r \in LegacyRow, ClaimRowForDeletion(r) \/ CompleteRowDeletion(r)
    PROVE  BackfillInv'
<1>1. /\ WorkFits /\ WalksAgree /\ DrainedQuiet /\ RepsKept /\ RowsWhole
      /\ DeletionTypeOK /\ BackfillTypeOK /\ canonical \in [LegacyRow -> CanonicalRow]
      /\ Owned(AllCopies, AssetKeys) /\ HoldersAgree(AllCopies, AssetKeys)
  BY BackfillTypes DEF BackfillInv
<1>2. online /\ UNCHANGED <<ledger, progress, backfill, online, contracted, migrationFaults,
                            reaper, stored, lateDelete>>
  BY DEF ClaimRowForDeletion, CompleteRowDeletion, deletionVars
<1>3. /\ canonical' \in [LegacyRow -> CanonicalRow]
      /\ \A s \in LegacyRow : /\ canonical'[s].reps = canonical[s].reps
                              /\ s # r => canonical'[s] = canonical[s]
      /\ canonical'[r].status \in {"DELETING", "DELETED"} /\ canonical[r].status # "DELETED"
      /\ canonical'[r].status = "DELETED" => CompleteRowDeletion(r)
  BY <1>1 DEF ClaimRowForDeletion, CompleteRowDeletion, CanonicalRow
<1>4. \A s \in LegacyRow : IsComplete(s)' = IsComplete(s)
  BY <1>3 DEF IsComplete
<1>5. PICK dropped \in SUBSET Key :
         /\ canonical'[r].status = "DELETED" => dropped = canonical[r].reps
         /\ QueueDurableDeletions(dropped)
  <2>1. CASE ClaimRowForDeletion(r)
    <3>1. UNCHANGED outbox /\ canonical'[r].status = "DELETING"
      BY <1>1, <2>1 DEF ClaimRowForDeletion, deletionVars, CanonicalRow
    <3>2. QueueDurableDeletions({})
      BY <1>1, <3>1 DEF QueueDurableDeletions, DeletionTypeOK
    <3>3. QED BY <3>1, <3>2
  <2>2. CASE CompleteRowDeletion(r)
    BY <1>1, <2>2 DEF CompleteRowDeletion, CanonicalRow
  <2>3. QED BY <2>1, <2>2
<1>6. DeletionTypeOK'
  BY ONLY <1>1, <1>2, <1>5, Queueing
<1>7. BackfillTypeOK'
  BY <1>1, <1>2, <1>3, <1>6 DEF BackfillTypeOK, CanonicalRow
<1>8. RowsWhole' /\ DrainedQuiet' /\ ContractFits'
  BY <1>1, <1>2, <1>3, <1>4 DEF BackfillInv, RowsWhole, DrainedQuiet, ContractFits,
     UnresolvedRows
<1>9. WorkFits'
  BY <1>1, <1>2 DEF WorkFits, DrainedQuiet
<1>10. WalksAgree'
  BY <1>1, <1>2, <1>3, <1>4 DEF WalksAgree, WalkedTo, DrainedQuiet
<1>11. RepsKept'
  BY <1>1, <1>2, <1>3 DEF RepsKept, Watched
<1>12. PICK named : named = AssetKeys
  OBVIOUS
<1>13. PICK named2 : named2 = AssetKeys'
  OBVIOUS
<1>14. named \ dropped \subseteq named2
  BY <1>3, <1>5, <1>12, <1>13 DEF AssetKeys, BackfillReferences
<1>15. Owned(AllCopies, named2)' /\ HoldersAgree(AllCopies, named2)'
  <2>1. /\ DeletionTypeOK /\ AllCopies \in SUBSET Key
        /\ Owned(AllCopies, named) /\ HoldersAgree(AllCopies, named)
        /\ (AllCopies \cap named) \ dropped \subseteq named2 /\ UNCHANGED <<reaper, stored>>
    BY <1>1, <1>2, <1>12, <1>14, CopiesAreKeys
  <2>2. QED BY ONLY <2>1, <1>5, OwnedQueueing
<1>16. Owned(AllCopies, AssetKeys)' /\ HoldersAgree(AllCopies, AssetKeys)'
  BY <1>13, <1>15 DEF Owned, HoldersAgree
<1> QED BY <1>7, <1>8, <1>9, <1>10, <1>11, <1>16 DEF BackfillInv

\* The application is drained and resumed, and the legacy columns go.
LEMMA OperatorActs ==
    ASSUME BackfillInv, Drain \/ Resume \/ Contract
    PROVE  BackfillInv'
<1>1. /\ WorkFits /\ WalksAgree /\ DrainedQuiet /\ RepsKept /\ RowsWhole /\ ContractFits
      /\ DeletionTypeOK /\ BackfillTypeOK
      /\ Owned(AllCopies, AssetKeys) /\ HoldersAgree(AllCopies, AssetKeys)
  BY BackfillTypes DEF BackfillInv
<1>2. /\ UNCHANGED <<canonical, ledger, progress, backfill, migrationFaults, outbox, reaper,
                     stored>>
      /\ lateDelete' \subseteq lateDelete /\ online' \in BOOLEAN /\ contracted' \in BOOLEAN
      /\ ~online' => lateDelete' = {} /\ \A q \in Reaper : reaper'[q].at = "resting"
      /\ backfill'.at # "off" => ~online'
      /\ contracted' => contracted \/ UnresolvedRows = {}
  <2>1. CASE Drain
    BY <1>1, <2>1 DEF Drain, DrainedQuiet, BackfillTypeOK
  <2>2. CASE Resume
    BY <1>1, <2>2 DEF Resume, deletionVars, BackfillTypeOK
  <2>3. CASE Contract
    BY <1>1, <2>3 DEF Contract, PreflightClean, deletionVars, DrainedQuiet, BackfillTypeOK
  <2>4. QED BY <2>1, <2>2, <2>3
<1>3. DeletionTypeOK'
  BY <1>1, <1>2 DEF DeletionTypeOK, LiveClaim
<1>4. BackfillTypeOK'
  BY <1>1, <1>2, <1>3 DEF BackfillTypeOK
<1>5. /\ RowsWhole' /\ DrainedQuiet' /\ ContractFits' /\ AssetKeys' = AssetKeys
  BY <1>1, <1>2 DEF RowsWhole, DrainedQuiet, ContractFits, UnresolvedRows, IsComplete,
     AssetKeys, BackfillReferences
<1>6. WorkFits' /\ WalksAgree'
  BY <1>1, <1>2 DEF WorkFits, WalksAgree, WalkedTo, IsComplete, Waits
<1>7. RepsKept'
  BY <1>1, <1>2 DEF RepsKept, Watched
<1>8. Owned(AllCopies, AssetKeys)' /\ HoldersAgree(AllCopies, AssetKeys)'
  BY <1>1, <1>2, <1>5 DEF Owned, HoldersAgree, HoldsClaim, Waits
<1> QED BY <1>4, <1>5, <1>6, <1>7, <1>8 DEF BackfillInv

\* The reaper, which may fail at any time, but works while online only.
LEMMA ReaperOfBackfill ==
    ASSUME BackfillInv, UNCHANGED <<canonical, ledger, progress, backfill, online, contracted>>,
           migrationFaults' \in 0 .. MaxMigrationFaults,
           \/ online /\ DeletionStep(BackfillReferences)
           \/ DeletionFault
    PROVE  BackfillInv'
<1>1. /\ WorkFits /\ WalksAgree /\ DrainedQuiet /\ RepsKept /\ RowsWhole /\ ContractFits
      /\ DeletionTypeOK /\ BackfillTypeOK /\ canonical \in [LegacyRow -> CanonicalRow]
      /\ Owned(AllCopies, AssetKeys) /\ HoldersAgree(AllCopies, AssetKeys)
  BY BackfillTypes DEF BackfillInv
<1>2. PICK named : named = AssetKeys
  OBVIOUS
<1>3. Owned(AllCopies, named) /\ HoldersAgree(AllCopies, named)
  BY <1>1, <1>2
<1>4. \/ ReaperMoves
      \/ \E q \in Reaper, t \in Table : CollectReferences(q, t, BackfillReferences(t))
  BY DEF DeletionStep, ReaperMoves
<1>5. DeletionTypeOK'
  BY <1>1, <1>4, DeletionTypeStep, CollectTypeStep
<1>6. BackfillTypeOK'
  BY <1>1, <1>5 DEF BackfillTypeOK
<1>7. Owned(AllCopies, named)' /\ HoldersAgree(AllCopies, named)'
  <2>1. CASE ReaperMoves
    BY ONLY <1>1, <1>3, <2>1, CopiesAreKeys, OwnedStep
  <2>2. ASSUME NEW q \in Reaper, NEW t \in Table, CollectReferences(q, t, BackfillReferences(t))
        PROVE  Owned(AllCopies, named)' /\ HoldersAgree(AllCopies, named)'
    <3>1. BackfillReferences(t) \subseteq named
      BY <1>2 DEF AssetKeys, BackfillReferences
    <3>2. PICK referred : referred = BackfillReferences(t)
      OBVIOUS
    <3>3. CollectReferences(q, t, referred) /\ referred \subseteq named
      BY <2>2, <3>1, <3>2
    <3>4. QED BY ONLY <1>1, <1>3, <3>3, CopiesAreKeys, OwnedCollect
  <2>3. QED BY <1>4, <2>1, <2>2
<1>8. ASSUME NEW r \in LegacyRow, canonical[r].status # "DELETED"
      PROVE  Watched(canonical[r].reps, "assets")' /\ canonical[r].reps \cap stored \subseteq stored'
  <2>1. PICK keys \in SUBSET Key : keys = canonical[r].reps
    BY <1>1, <1>8 DEF CanonicalRow
  <2>2. Watched(keys, "assets") /\ "assets" \in Table /\ keys \subseteq BackfillReferences("assets")
    BY <1>1, <1>8, <2>1, BackfillParameters DEF RepsKept, BackfillReferences
  <2>3. Watched(keys, "assets")' /\ stored \cap keys \subseteq stored'
    <3>1. CASE ReaperMoves
      BY ONLY <1>1, <2>2, <3>1, WatchedStep
    <3>2. ASSUME NEW q \in Reaper, NEW t \in Table, CollectReferences(q, t, BackfillReferences(t))
          PROVE  Watched(keys, "assets")' /\ stored \cap keys \subseteq stored'
      <4>1. PICK referred : referred = BackfillReferences(t)
        OBVIOUS
      <4>2. CollectReferences(q, t, referred) /\ (t = "assets" => keys \subseteq referred)
        BY <2>2, <3>2, <4>1
      <4>3. QED BY ONLY <1>1, <2>2, <4>2, WatchedCollect
    <3>3. QED BY <1>4, <3>1, <3>2
  <2>4. QED BY <1>8, <2>1, <2>3 DEF Watched
<1>9. RepsKept'
  BY <1>1, <1>8 DEF RepsKept, Watched
<1>10. RowsWhole' /\ ContractFits' /\ AssetKeys' = AssetKeys
  BY <1>1 DEF RowsWhole, ContractFits, UnresolvedRows, IsComplete, AssetKeys, BackfillReferences
<1>11. ~online => /\ UNCHANGED <<stored, lateDelete, reaper>>
                  /\ \A k \in Key : outbox'[k].state = outbox[k].state
  <2>1. ASSUME ~online PROVE \E k \in Key : ClaimLapses(k)
    BY <1>1, <2>1 DEF DrainedQuiet, DeletionFault, ReaperFails, ReaperStops
  <2>2. ASSUME NEW k \in Key, ClaimLapses(k)
        PROVE  /\ UNCHANGED <<stored, lateDelete, reaper>>
               /\ \A j \in Key : outbox'[j].state = outbox[j].state
    BY <1>1, <2>2 DEF ClaimLapses, DeletionTypeOK
  <2>3. QED BY <2>1, <2>2
<1>12. DrainedQuiet'
  BY <1>1, <1>11 DEF DrainedQuiet
<1>13. WorkFits'
  <2>1. CASE backfill.at \in {"off", "rows"}
    BY <2>1 DEF WorkFits
  <2>2. CASE backfill.at \notin {"off", "rows"}
    <3>1. ~online
      BY <1>1, <2>2 DEF DrainedQuiet
    <3>2. backfill.at \in {"creating", "copying", "made"} => backfill.key \in Key
      BY <1>1, BackfillParameters DEF WorkFits
    <3>3. QED BY <1>1, <1>11, <3>1, <3>2 DEF WorkFits, Waits
  <2>3. QED BY <2>1, <2>2
<1>14. WalksAgree'
  BY <1>1 DEF WalksAgree, WalkedTo, IsComplete
<1>15. Owned(AllCopies, AssetKeys)' /\ HoldersAgree(AllCopies, AssetKeys)'
  BY <1>2, <1>7, <1>10 DEF Owned, HoldersAgree
<1> QED BY <1>6, <1>9, <1>10, <1>12, <1>13, <1>14, <1>15 DEF BackfillInv

LEMMA BackfillStep ==
    ASSUME BackfillInv, [BackfillNext]_<<deletionVars, backfillVars>>
    PROVE  BackfillInv'
<1>1. CASE UNCHANGED <<deletionVars, backfillVars>>
  <2>1. /\ UNCHANGED <<canonical, outbox, reaper, lateDelete, online, contracted>>
        /\ UNCHANGED <<stored, ledger, progress, backfill, migrationFaults>>
    BY <1>1 DEF deletionVars, backfillVars
  <2>2. /\ ledger \in [Relocated -> LedgerState] /\ progress \in ProgressFile
        /\ backfill \in BackfillRun /\ migrationFaults \in 0 .. MaxMigrationFaults
        /\ stored \in SUBSET Key /\ (backfill.at # "off" => ~online)
        /\ WorkFits /\ WalksAgree
    BY BackfillTypes DEF BackfillInv, DeletionTypeOK, DrainedQuiet
  <2>3. WorkFits' /\ WalksAgree'
    BY <2>1, <2>2 DEF WorkFits, WalksAgree, WalkedTo, IsComplete, Waits
  <2>4. QED BY <2>1, <2>2, <2>3, CommandMoves
<1>2. CASE online /\ DeletionStep(BackfillReferences) /\ UNCHANGED backfillVars
  <2>1. migrationFaults \in 0 .. MaxMigrationFaults
    BY BackfillTypes DEF BackfillInv
  <2>2. QED BY <1>2, <2>1, ReaperOfBackfill DEF backfillVars
<1>3. CASE /\ DeletionFault /\ migrationFaults < MaxMigrationFaults
           /\ migrationFaults' = migrationFaults + 1
           /\ UNCHANGED <<canonical, ledger, progress, backfill, online, contracted>>
  <2>1. migrationFaults' \in 0 .. MaxMigrationFaults
    BY <1>3, BackfillTypes, BackfillParameters DEF BackfillInv
  <2>2. QED BY <1>3, <2>1, ReaperOfBackfill
<1>4. QED BY <1>1, <1>2, <1>3, CommandWalks, CommandMakes, CleanupPrepared, RowApplied,
             RowDeletion, OperatorActs DEF BackfillNext

\* BackfillInv is an invariant.
LEMMA BackfillAlways == BackfillSpec => []BackfillInv
<1>1. ReaperInit /\ BackfillInit /\ stored = {LegacyOf(r) : r \in LegacyRow} => BackfillInv
  BY BackfillInitially
<1>2. BackfillInv /\ [BackfillNext]_<<deletionVars, backfillVars>> => BackfillInv'
  BY BackfillStep
<1>3. QED BY <1>1, <1>2, PTL DEF BackfillSpec

\* The rows, the ledger, the progress file and the command have their types.
THEOREM BackfillTypesHold == BackfillSpec => []BackfillTypeOK
<1>1. BackfillInv => BackfillTypeOK
  BY DEF BackfillInv
<1>2. QED BY <1>1, BackfillAlways, PTL

\* However often the backfill dies and is started again or over, a row's
\* representations have their bytes, the progress file is never ahead of the
\* rows, a copy no row names is up for deletion, and the contract loses
\* nothing.
THEOREM BackfillAlwaysKept == BackfillSpec => []BackfillKept
<1>1. BackfillInv => BackfillKept
  <2>1. SUFFICES ASSUME BackfillInv PROVE BackfillKept
    OBVIOUS
  <2>2. \A r \in LegacyRow : canonical[r].status # "DELETED" => canonical[r].reps \subseteq stored
    BY <2>1 DEF BackfillInv, RepsKept
  <2>3. \A r \in LegacyRow : canonical[r].status = "READY" /\ r <= progress.after =>
           IsComplete(r) \/ r \in progress.failures
    BY <2>1 DEF BackfillInv, WalksAgree, WalkedTo
  <2>4. \A r \in LegacyRow : \A k \in (CopiesOf(r) \cap stored) \ BackfillReferences("assets") :
           outbox[k].state \in {"PENDING", "DELETE_CLAIMED"}
    BY <2>1, CopiesAreKeys DEF BackfillInv, Owned, Waits, AssetKeys
  <2>5. contracted => UnresolvedRows = {}
    BY <2>1 DEF BackfillInv, ContractFits
  <2>6. QED BY <2>2, <2>3, <2>4, <2>5 DEF BackfillKept
<1>2. QED BY <1>1, BackfillAlways, PTL

-----------------------------------------------------------------------------
(***************************************************************************)
(* The playback of a video.  A generated file is watched from its row to   *)
(* the sweep of the last row that names it; First, which the upload made,  *)
(* is not touched before it passes from the asset to such a row.  When the *)
(* last row goes its deletion is queued, and the queue forgets it only     *)
(* when a row names it or its bytes are gone.                              *)
(***************************************************************************)
VideoState == {"READY", "DELETING", "DELETED", "GONE"}
PlaybackState == [state : {"READY", "FAILED"}, key : Key]
JobRow == [state : {"NONE", "PENDING", "RUNNING", "READY", "FAILED"}, active : BOOLEAN,
           token : Attempt \cup {None}, live : BOOLEAN, attempts : Nat]
PassState == [at : {"waiting", "encoding", "uploading", "uploaded", "failing", "over"},
              job : Job \cup {None}]

\* The files a pass or the upload made.
Generated == Attempt \cup {First}

\* A row of a rendition, or of a playback it replaced, names these bytes; or
\* the asset does.
Rendered(k) == k \in VideoReferences("renditions")
OfAsset(k)  == k \in VideoReferences("assets")
NamedFiles  == VideoReferences("assets") \cup VideoReferences("renditions")

\* A pass knows its job from its claim on, and writes its row once.
PassesFit ==
    \A a \in Attempt :
        /\ attempt[a].at \in {"waiting", "encoding"} =>
              rendition[a] = NoRendition /\ a \notin strayPut
        /\ attempt[a].at # "waiting" => attempt[a].job \in Job
        /\ attempt[a].at = "uploading" \/ a \in strayPut => rendition[a].key = a
        /\ attempt[a].at = "uploaded" => rendition[a].state # "NONE"

\* A row names the output of its pass or the original, and starts to expire
\* only after its job is done.
RenditionsFit ==
    \A a \in Attempt :
        /\ rendition[a].state # "NONE" => rendition[a].key \in {a, Original}
        /\ rendition[a].state = "NONE" => rendition[a] = NoRendition
        /\ rendition[a].expiry # "NONE" => jobs[attempt[a].job].state = "READY"

\* A pass that replaced a playback is over, and First is not played again.
LegaciesFit ==
    \A b \in Attempt :
        /\ legacy[b].state # "NONE" =>
              /\ legacy[b].key \in Generated
              /\ legacy[b].key \in Attempt => rendition[legacy[b].key].state # "NONE"
              /\ playback.key # First /\ attempt[b].at = "over"
        /\ legacy[b].state = "NONE" => legacy[b] = NoRendition

\* The row of the generated playback of a READY video does not expire: it
\* belongs to the active job.
PlaybackFits ==
    /\ playback.key \in Generated \cup {Original}
    /\ playback.state = "FAILED" => playback.key = First
    /\ \A j \in Job : jobs[j].active => jobs[j].state = "READY"
    /\ \A a \in Attempt : playback.key = a =>
          /\ rendition[a].state # "NONE"
          /\ video = "READY" =>
                /\ rendition[a].state = "READY" /\ rendition[a].key = a
                /\ rendition[a].expiry = "NONE" /\ jobs[attempt[a].job].active

\* What the rows are about is in storage.
RowsStored ==
    /\ video = "READY" => Original \in stored
    /\ video = "READY" /\ playback.key = First /\ playback.state = "READY" => First \in stored
    /\ playback.state = "FAILED" => First \notin stored
    /\ \A a \in Attempt :
          /\ /\ rendition[a].key = a
             /\ \/ rendition[a].state = "READY"
                \/ rendition[a].state = "PENDING" /\ attempt[a].at = "uploaded"
             => a \in stored
          /\ Listed(legacy[a]) => legacy[a].key \in stored

\* No deletion is on its way for what is still named.
NamedSpared ==
    /\ video \in {"READY", "DELETING"} => Untouched({Original})
    /\ video = "READY" /\ playback.key = First => Untouched({First})
    /\ \A a \in Attempt : rendition[a].state = "NONE" => Untouched({a})
    /\ \A k \in Generated : Rendered(k) => Watched({k}, "renditions")

\* Somebody answers for every generated file, unless it arrived after its row
\* had been swept.
FilesOwned ==
    /\ Owned(Generated \ stray, NamedFiles)
    /\ HoldersAgree(Generated \ stray, NamedFiles)

FilmFits == PassesFit /\ RenditionsFit /\ LegaciesFit /\ PlaybackFits

VideoInv ==
    /\ VideoTypeOK /\ FilmFits /\ RowsStored /\ NamedSpared /\ FilesOwned

LEMMA VideoTypes ==
    VideoTypeOK <=>
        /\ DeletionTypeOK
        /\ video \in VideoState /\ playback \in PlaybackState /\ jobs \in [Job -> JobRow]
        /\ rendition \in [Attempt -> Row] /\ legacy \in [Attempt -> Row]
        /\ attempt \in [Attempt -> PassState]
        /\ strayPut \in SUBSET Attempt /\ stray \in SUBSET Attempt
        /\ videoFaults \in 0 .. MaxVideoFaults
BY DEF VideoTypeOK, VideoState, PlaybackState, JobRow, PassState

LEMMA FileNames ==
    /\ Generated \in SUBSET Key /\ Original \in Key /\ Original \notin Generated
    /\ First \notin Attempt /\ Attempt \subseteq Generated /\ None \notin Generated
    /\ "assets" \in Table /\ "renditions" \in Table
BY VideoKeys, DeletionNames DEF Generated

LEMMA VideoBlanks ==
    /\ NoRendition \in Row /\ NoRendition.state = "NONE" /\ NoRendition.key = None
    /\ NoRendition.expiry = "NONE"
    /\ Waiting \in PassState /\ Waiting.at = "waiting" /\ Waiting.job = None
    /\ NoJob \in JobRow /\ NoJob.state = "NONE" /\ ~NoJob.active
BY DEF NoRendition, Row, Waiting, PassState, NoJob, JobRow

\* What the reaper sees of the rows.
LEMMA RenderedBy ==
    ASSUME NEW k
    PROVE  Rendered(k) <=> \E a \in Attempt : \/ Listed(rendition[a]) /\ rendition[a].key = k
                                              \/ Listed(legacy[a]) /\ legacy[a].key = k
BY DEF Rendered, VideoReferences

LEMMA AssetNames ==
    ASSUME NEW k
    PROVE  OfAsset(k) <=> video \in {"READY", "DELETING"} /\ k \in {Original, playback.key}
BY DEF OfAsset, VideoReferences

LEMMA VideoInitially ==
    ASSUME VideoInit PROVE VideoInv
<1>1. /\ ReaperInit /\ stored = FilmStored /\ video = "READY"
      /\ playback \in PlaybackState /\ playback.key \in {First, Original}
      /\ playback.state = "FAILED" => playback.key = First
      /\ strayPut = {} /\ stray = {} /\ videoFaults = 0
  BY FileNames DEF VideoInit, FilmInit, PlaybackState, Generated
<1>2. /\ jobs = [j \in Job |-> NoJob] /\ rendition = [a \in Attempt |-> NoRendition]
      /\ legacy = [a \in Attempt |-> NoRendition] /\ attempt = [a \in Attempt |-> Waiting]
  BY DEF VideoInit, FilmInit
<1>3. /\ stored \in SUBSET Key /\ Original \in stored
      /\ playback.state = "READY" => stored = {Original, playback.key}
      /\ playback.state = "FAILED" => stored = {Original}
      /\ Attempt \cap stored = {}
  <2>1. /\ playback.state = "READY" => stored = {Original, playback.key}
        /\ playback.state = "FAILED" => stored = {Original}
    BY <1>1 DEF FilmStored
  <2>2. stored \subseteq {Original, First} /\ Original \in stored
    BY <1>1, <2>1 DEF PlaybackState
  <2>3. QED BY <2>1, <2>2, FileNames DEF Generated
<1>4. DeletionTypeOK /\ Untouched(Key)
  BY <1>1, <1>3, InitialDeletions
<1>5. VideoTypeOK
  <2>1. videoFaults \in 0 .. MaxVideoFaults
    BY <1>1, VideoKeys
  <2>2. /\ jobs \in [Job -> JobRow] /\ rendition \in [Attempt -> Row]
        /\ legacy \in [Attempt -> Row] /\ attempt \in [Attempt -> PassState]
        /\ strayPut \in SUBSET Attempt /\ stray \in SUBSET Attempt
    BY <1>1, <1>2, VideoBlanks
  <2>3. video \in VideoState
    BY <1>1 DEF VideoState
  <2>4. QED BY ONLY <1>1, <1>4, <2>1, <2>2, <2>3, VideoTypes
<1>6. FilmFits
  BY <1>1, <1>2, VideoBlanks, FileNames DEF FilmFits, PassesFit, RenditionsFit, LegaciesFit,
     PlaybackFits, Generated
<1>7. RowsStored
  BY <1>1, <1>2, <1>3, VideoBlanks, FileNames DEF RowsStored, Listed, Generated
<1>8. \A k : ~Rendered(k)
  BY <1>2, VideoBlanks, RenderedBy DEF Listed
<1>9. NamedSpared
  BY <1>4, <1>8, FileNames DEF NamedSpared, Untouched, Generated
<1>10. FilesOwned
  <2>1. \A r \in Reaper : ~HoldsClaim(r)
    BY <1>1 DEF ReaperInit, HoldsClaim, Resting
  <2>2. ASSUME NEW k \in Generated \cap stored PROVE OfAsset(k)
    <3>1. k = playback.key
      BY <1>1, <1>3, <2>2, FileNames DEF PlaybackState
    <3>2. QED BY <1>1, <3>1, AssetNames
  <2>3. QED BY <2>1, <2>2 DEF FilesOwned, Owned, HoldersAgree, OfAsset, NamedFiles
<1> QED BY <1>5, <1>6, <1>7, <1>9, <1>10 DEF VideoInv

\* A step of the database that queues nothing: what it leaves unnamed has no
\* bytes, and what it names was not touched or was named before.
LEMMA RowsChange ==
    ASSUME VideoInv, UNCHANGED <<deletionVars, stray>>,
           video' \in VideoState, playback' \in PlaybackState, jobs' \in [Job -> JobRow],
           rendition' \in [Attempt -> Row], legacy' \in [Attempt -> Row],
           attempt' \in [Attempt -> PassState], strayPut' \in SUBSET Attempt,
           videoFaults' \in 0 .. MaxVideoFaults,
           FilmFits', RowsStored',
           video' \in {"READY", "DELETING"} => video \in {"READY", "DELETING"},
           video' = "READY" /\ playback'.key = First => video = "READY" /\ playback.key = First,
           \A a \in Attempt : rendition'[a].state = "NONE" => rendition[a].state = "NONE",
           \A k \in Generated : Rendered(k)' => Rendered(k) \/ Untouched({k}),
           \A k \in Generated \cap stored :
               Rendered(k) \/ OfAsset(k) => Rendered(k)' \/ OfAsset(k)'
    PROVE  VideoInv'
<1>1. UNCHANGED <<outbox, reaper, stored, lateDelete>>
  BY DEF deletionVars
<1>2. VideoTypeOK /\ NamedSpared /\ FilesOwned
  BY DEF VideoInv
<1>3. DeletionTypeOK' /\ stray \in SUBSET Attempt
  BY <1>1, <1>2 DEF VideoTypeOK, DeletionTypeOK, LiveClaim
<1>4. VideoTypeOK'
  BY <1>3 DEF VideoTypeOK, VideoState, PlaybackState, JobRow, PassState
<1>5. \A k : Untouched({k}) => Untouched({k})' /\ Watched({k}, "renditions")'
  BY <1>1 DEF Untouched, Watched
<1>6. \A k : Watched({k}, "renditions") => Watched({k}, "renditions")'
  BY <1>1 DEF Watched
<1>7. NamedSpared'
  BY <1>2, <1>5, <1>6 DEF NamedSpared
<1>8. \A k \in Generated \cap stored : k \in NamedFiles => k \in NamedFiles'
  BY DEF NamedFiles, Rendered, OfAsset
<1>9. FilesOwned'
  BY <1>1, <1>2, <1>8 DEF FilesOwned, Owned, HoldersAgree, HoldsClaim, Waits
<1> QED BY <1>4, <1>7, <1>9 DEF VideoInv

\* A step of the worker or of a job that writes no row: done jobs stay done,
\* and a pass keeps its job.
LEMMA WorkMoves ==
    ASSUME VideoInv,
           UNCHANGED <<deletionVars, video, playback, rendition, legacy, stray>>,
           jobs' \in [Job -> JobRow], attempt' \in [Attempt -> PassState],
           strayPut' \in SUBSET Attempt, videoFaults' \in 0 .. MaxVideoFaults,
           \A j \in Job :
              /\ jobs[j].state = "READY" =>
                    jobs'[j].state = "READY" /\ jobs'[j].active = jobs[j].active
              /\ jobs'[j].active => jobs'[j].state = "READY",
           \A a \in Attempt :
              /\ attempt[a].at # "waiting" => attempt'[a].job = attempt[a].job
              /\ attempt[a].at = "over" => attempt'[a].at = "over"
              /\ attempt'[a].at = "uploaded" => attempt[a].at = "uploaded",
           PassesFit'
    PROVE  VideoInv'
<1>1. /\ VideoTypeOK /\ PassesFit /\ RenditionsFit /\ LegaciesFit /\ PlaybackFits /\ RowsStored
  BY DEF VideoInv, FilmFits
<1>2. /\ video \in VideoState /\ playback \in PlaybackState
      /\ rendition \in [Attempt -> Row] /\ legacy \in [Attempt -> Row]
  BY <1>1, VideoTypes
<1>3. UNCHANGED <<video, playback, rendition, legacy, stored>>
  BY DEF deletionVars
<1>4. \A a \in Attempt : rendition[a].state # "NONE" =>
         attempt[a].job \in Job /\ attempt'[a].job = attempt[a].job
  BY <1>1, VideoBlanks DEF PassesFit
<1>5. RenditionsFit'
  <2>1. ASSUME NEW a \in Attempt, rendition[a].expiry # "NONE"
        PROVE  jobs'[attempt'[a].job].state = "READY"
    <3>1. rendition[a].state # "NONE" /\ jobs[attempt[a].job].state = "READY"
      BY <1>1, <2>1, VideoBlanks DEF RenditionsFit
    <3>2. QED BY <1>4, <3>1
  <2>2. QED BY <1>1, <1>3, <2>1 DEF RenditionsFit
<1>6. LegaciesFit'
  BY <1>1, <1>3 DEF LegaciesFit
<1>7. PlaybackFits'
  BY <1>1, <1>3, <1>4 DEF PlaybackFits
<1>8. FilmFits'
  BY <1>5, <1>6, <1>7 DEF FilmFits
<1>9. RowsStored'
  BY <1>1, <1>3 DEF RowsStored, Listed
<1>10. \A k : (Rendered(k)' <=> Rendered(k)) /\ (OfAsset(k)' <=> OfAsset(k))
  BY <1>3 DEF Rendered, OfAsset, VideoReferences, Listed
<1>11. UNCHANGED <<deletionVars, stray>>
  OBVIOUS
<1>12. /\ video' \in VideoState /\ playback' \in PlaybackState
       /\ rendition' \in [Attempt -> Row] /\ legacy' \in [Attempt -> Row]
  BY <1>2, <1>3
<1> QED BY <1>3, <1>8, <1>9, <1>10, <1>11, <1>12, RowsChange

\* A job is enqueued, claimed or lost.
LEMMA JobsMove ==
    ASSUME VideoInv, videoFaults' \in 0 .. MaxVideoFaults, NEW j \in Job,
           \/ EnqueuePlayback(j) \/ JobLapses(j)
           \/ \E a \in Attempt : ClaimJob(a, j)
    PROVE  VideoInv'
<1>1. /\ jobs \in [Job -> JobRow] /\ attempt \in [Attempt -> PassState]
      /\ strayPut \in SUBSET Attempt
      /\ PassesFit /\ PlaybackFits
  BY VideoTypes DEF VideoInv, FilmFits
<1>2. UNCHANGED <<deletionVars, video, playback, rendition, legacy, strayPut, stray>>
  BY DEF EnqueuePlayback, JobLapses, ClaimJob
<1>3. ASSUME UNCHANGED attempt, jobs' \in [Job -> JobRow],
             \A i \in Job : /\ jobs'[i].active = jobs[i].active
                            /\ jobs[i].state = "READY" => jobs'[i].state = "READY"
      PROVE  VideoInv'
  <2>1. PassesFit'
    BY <1>1, <1>2, <1>3 DEF PassesFit
  <2>2. \A i \in Job : jobs'[i].active => jobs'[i].state = "READY"
    BY <1>1, <1>3 DEF PlaybackFits
  <2>3. QED BY <1>1, <1>2, <1>3, <2>1, <2>2, WorkMoves
<1>4. CASE EnqueuePlayback(j)
  <2>1. /\ UNCHANGED attempt /\ jobs[j] = NoJob
        /\ jobs' = [jobs EXCEPT ![j].state = "PENDING"]
    BY <1>4 DEF EnqueuePlayback
  <2>2. jobs' \in [Job -> JobRow]
    BY <1>1, <2>1 DEF JobRow
  <2>3. \A i \in Job : /\ jobs'[i].active = jobs[i].active
                       /\ jobs[i].state = "READY" => jobs'[i].state = "READY"
    BY <1>1, <2>1, VideoBlanks DEF JobRow
  <2>4. QED BY <1>3, <2>1, <2>2, <2>3
<1>5. CASE JobLapses(j)
  <2>1. UNCHANGED attempt /\ jobs' = [jobs EXCEPT ![j].live = FALSE]
    BY <1>5 DEF JobLapses
  <2>2. jobs' \in [Job -> JobRow]
    BY <1>1, <2>1 DEF JobRow
  <2>3. \A i \in Job : jobs'[i].active = jobs[i].active /\ jobs'[i].state = jobs[i].state
    BY <1>1, <2>1 DEF JobRow
  <2>4. QED BY <1>3, <2>1, <2>2, <2>3
<1>6. ASSUME NEW a \in Attempt, ClaimJob(a, j) PROVE VideoInv'
  <2>1. attempt[a].at = "waiting" /\ jobs[j].state \in {"PENDING", "RUNNING"}
    BY <1>6 DEF ClaimJob
  <2>2. PICK pass \in PassState :
           /\ pass.at \in {"encoding", "failing"} /\ pass.job = j
           /\ attempt' = [attempt EXCEPT ![a] = pass]
    <3>1. /\ [job |-> j, at |-> "encoding"] \in PassState
          /\ [job |-> j, at |-> "failing"] \in PassState
      BY DEF PassState
    <3>2. \/ attempt' = [attempt EXCEPT ![a] = [job |-> j, at |-> "encoding"]]
          \/ attempt' = [attempt EXCEPT ![a] = [job |-> j, at |-> "failing"]]
      BY <1>6 DEF ClaimJob
    <3>3. QED BY <3>1, <3>2
  <2>3. jobs[j].active \in BOOLEAN /\ jobs[j].attempts + 1 \in Nat
    BY <1>1 DEF JobRow
  <2>4. PICK row \in JobRow : /\ row.active = jobs[j].active /\ row.state = "RUNNING"
                             /\ jobs' = [jobs EXCEPT ![j] = row]
    BY <1>6, <2>3 DEF ClaimJob, JobRow
  <2>5. /\ jobs' \in [Job -> JobRow]
        /\ \A i \in Job : /\ jobs'[i].active = jobs[i].active
                          /\ jobs[i].state = "READY" => jobs'[i].state = "READY"
    BY <1>1, <2>1, <2>4
  <2>6. \A i \in Job : jobs'[i].active => jobs'[i].state = "READY"
    BY <1>1, <2>5 DEF PlaybackFits
  <2>7. /\ attempt' \in [Attempt -> PassState]
        /\ attempt'[a] = pass /\ \A b \in Attempt : b # a => attempt'[b] = attempt[b]
    BY <1>1, <2>2
  <2>8. PassesFit'
    <3>1. rendition[a] = NoRendition /\ a \notin strayPut
      BY <1>1, <2>1 DEF PassesFit
    <3>2. QED BY <1>1, <1>2, <2>2, <2>7, <3>1 DEF PassesFit
  <2>9. \A b \in Attempt :
           /\ attempt[b].at # "waiting" => attempt'[b].job = attempt[b].job
           /\ attempt[b].at = "over" => attempt'[b].at = "over"
           /\ attempt'[b].at = "uploaded" => attempt[b].at = "uploaded"
    BY <2>1, <2>2, <2>7
  <2>10. QED BY <1>1, <1>2, <2>5, <2>6, <2>7, <2>8, <2>9, WorkMoves
<1> QED BY <1>4, <1>5, <1>6

\* A pass ends without its rendition; the job fails with it or is left.
LEMMA PassEnds ==
    ASSUME VideoInv, videoFaults' \in 0 .. MaxVideoFaults, NEW a \in Attempt,
           AttemptFails(a) \/ AttemptStops(a)
    PROVE  VideoInv'
<1>1. /\ jobs \in [Job -> JobRow] /\ attempt \in [Attempt -> PassState]
      /\ strayPut \in SUBSET Attempt
      /\ PassesFit /\ PlaybackFits
  BY VideoTypes DEF VideoInv, FilmFits
<1>2. /\ UNCHANGED <<deletionVars, video, playback, rendition, legacy, stray>>
      /\ attempt[a].at \notin {"waiting", "over"}
      /\ attempt' = [attempt EXCEPT ![a].at = "over"]
      /\ \/ strayPut' = strayPut
         \/ attempt[a].at = "uploading" /\ strayPut' = strayPut \cup {a}
  BY DEF AttemptFails, AttemptStops, AtWork, AttemptTo
<1>3. /\ attempt' \in [Attempt -> PassState] /\ strayPut' \in SUBSET Attempt
      /\ attempt'[a].at = "over" /\ attempt'[a].job = attempt[a].job
      /\ \A b \in Attempt : b # a => attempt'[b] = attempt[b]
  BY <1>1, <1>2 DEF PassState
<1>4. attempt[a].job \in Job
  BY <1>1, <1>2 DEF PassesFit
<1>5. /\ jobs' \in [Job -> JobRow]
      /\ \A i \in Job : /\ jobs'[i].active = jobs[i].active
                        /\ jobs[i].state = "READY" => jobs'[i].state = "READY"
  <2>1. CASE UNCHANGED jobs
    BY <1>1, <2>1
  <2>2. CASE /\ jobs[attempt[a].job].state = "RUNNING"
             /\ jobs' = [jobs EXCEPT ![attempt[a].job].state = "FAILED",
                                     ![attempt[a].job].token = None,
                                     ![attempt[a].job].live = FALSE]
    BY <1>1, <1>4, <2>2 DEF JobRow
  <2>3. QED BY <2>1, <2>2 DEF AttemptFails, AttemptStops, OwnsJob
<1>6. PassesFit'
  BY <1>1, <1>2, <1>3 DEF PassesFit
<1>7. \A i \in Job : jobs'[i].active => jobs'[i].state = "READY"
  BY <1>1, <1>5 DEF PlaybackFits
<1>8. \A b \in Attempt :
         /\ attempt[b].at # "waiting" => attempt'[b].job = attempt[b].job
         /\ attempt[b].at = "over" => attempt'[b].at = "over"
         /\ attempt'[b].at = "uploaded" => attempt[b].at = "uploaded"
  BY <1>2, <1>3
<1> QED BY <1>2, <1>3, <1>5, <1>6, <1>7, <1>8, WorkMoves

\* The video is being deleted: its rows are as they were.
LEMMA VideoClaimed ==
    ASSUME VideoInv, ClaimVideoForDeletion, videoFaults' \in 0 .. MaxVideoFaults
    PROVE  VideoInv'
<1>1. /\ PassesFit /\ RenditionsFit /\ LegaciesFit /\ PlaybackFits /\ RowsStored
      /\ playback \in PlaybackState /\ jobs \in [Job -> JobRow]
      /\ rendition \in [Attempt -> Row] /\ legacy \in [Attempt -> Row]
      /\ attempt \in [Attempt -> PassState] /\ strayPut \in SUBSET Attempt
  BY VideoTypes DEF VideoInv, FilmFits
<1>2. /\ UNCHANGED <<deletionVars, playback, jobs, rendition, legacy, attempt, strayPut, stray>>
      /\ video = "READY" /\ video' = "DELETING" /\ stored' = stored
  BY DEF ClaimVideoForDeletion, deletionVars
<1>3. FilmFits'
  BY <1>1, <1>2 DEF FilmFits, PassesFit, RenditionsFit, LegaciesFit, PlaybackFits
<1>4. RowsStored'
  BY <1>1, <1>2 DEF RowsStored, Listed
<1>5. \A k : (Rendered(k)' <=> Rendered(k)) /\ (OfAsset(k)' <=> OfAsset(k))
  BY <1>2 DEF Rendered, OfAsset, VideoReferences, Listed
<1>6. video' \in VideoState /\ UNCHANGED <<deletionVars, stray>>
  BY <1>2 DEF VideoState
<1> QED BY <1>1, <1>2, <1>3, <1>4, <1>5, <1>6, RowsChange

\* A row is written before its bytes: nobody has asked for their deletion.
LEMMA RenditionPrepared ==
    ASSUME VideoInv, NEW a \in Attempt, PrepareRendition(a),
           videoFaults' \in 0 .. MaxVideoFaults
    PROVE  VideoInv'
<1>1. /\ PassesFit /\ RenditionsFit /\ LegaciesFit /\ PlaybackFits /\ RowsStored /\ NamedSpared
      /\ video \in VideoState /\ playback \in PlaybackState /\ jobs \in [Job -> JobRow]
      /\ rendition \in [Attempt -> Row] /\ legacy \in [Attempt -> Row]
      /\ attempt \in [Attempt -> PassState] /\ strayPut \in SUBSET Attempt
  BY VideoTypes DEF VideoInv, FilmFits
<1>2. /\ UNCHANGED <<deletionVars, video, playback, jobs, legacy, strayPut, stray>>
      /\ attempt[a].at = "encoding" /\ stored' = stored
  BY DEF PrepareRendition, deletionVars
<1>3. PICK k \in {a, Original} :
         /\ rendition' = [rendition EXCEPT ![a] =
                              [state |-> "PENDING", key |-> k, expiry |-> "NONE"]]
         /\ attempt' = [attempt EXCEPT ![a].at = IF k = a THEN "uploading" ELSE "uploaded"]
  BY DEF PrepareRendition, AttemptTo
<1>4. /\ rendition[a] = NoRendition /\ rendition[a].state = "NONE"
      /\ a \notin strayPut /\ playback.key # a
  BY <1>1, <1>2, VideoBlanks DEF PassesFit, PlaybackFits
<1>5. /\ rendition' \in [Attempt -> Row]
      /\ rendition'[a].state = "PENDING" /\ rendition'[a].key = k
      /\ rendition'[a].expiry = "NONE"
      /\ \A b \in Attempt : b # a => rendition'[b] = rendition[b]
  <2>1. [state |-> "PENDING", key |-> k, expiry |-> "NONE"] \in Row
    BY FileNames DEF Row, Generated
  <2>2. QED BY <1>1, <1>3, <2>1
<1>6. /\ attempt' \in [Attempt -> PassState]
      /\ attempt'[a].job = attempt[a].job
      /\ attempt'[a].at = IF k = a THEN "uploading" ELSE "uploaded"
      /\ \A b \in Attempt : b # a => attempt'[b] = attempt[b]
  BY <1>1, <1>3 DEF PassState
<1>7. a # Original
  BY FileNames
<1>8. PassesFit'
  BY <1>1, <1>2, <1>4, <1>5, <1>6 DEF PassesFit
<1>9. RenditionsFit'
  BY <1>1, <1>2, <1>5, <1>6 DEF RenditionsFit
<1>10. LegaciesFit'
  BY <1>1, <1>2, <1>5, <1>6 DEF LegaciesFit
<1>11. PlaybackFits'
  BY <1>1, <1>2, <1>4, <1>5, <1>6 DEF PlaybackFits
<1>12. FilmFits'
  BY <1>8, <1>9, <1>10, <1>11 DEF FilmFits
<1>13. RowsStored'
  BY <1>1, <1>2, <1>5, <1>6, <1>7 DEF RowsStored, Listed
<1>14. \A f \in Generated : Rendered(f)' => Rendered(f) \/ f = a
  <2>1. SUFFICES ASSUME NEW f \in Generated, Rendered(f)' PROVE Rendered(f) \/ f = a
    OBVIOUS
  <2>2. \E b \in Attempt : \/ Listed(rendition[b])' /\ rendition'[b].key = f
                           \/ Listed(legacy[b])' /\ legacy'[b].key = f
    BY <2>1 DEF Rendered, VideoReferences
  <2>3. f # Original
    BY <2>1, FileNames
  <2>4. QED BY <1>2, <1>5, <2>2, <2>3, RenderedBy DEF Listed
<1>15. Untouched({a})
  BY <1>1, <1>4 DEF NamedSpared
<1>16. \A f : (Rendered(f) => Rendered(f)') /\ (OfAsset(f) => OfAsset(f)')
  <2>1. \A f : OfAsset(f) => OfAsset(f)'
    BY <1>2 DEF OfAsset, VideoReferences
  <2>2. ASSUME NEW f, Rendered(f) PROVE Rendered(f)'
    <3>1. PICK b \in Attempt : \/ Listed(rendition[b]) /\ rendition[b].key = f
                               \/ Listed(legacy[b]) /\ legacy[b].key = f
      BY <2>2, RenderedBy
    <3>2. \/ Listed(rendition[b])' /\ rendition'[b].key = f
          \/ Listed(legacy[b])' /\ legacy'[b].key = f
      BY <1>2, <1>4, <1>5, <3>1 DEF Listed
    <3>3. QED BY <3>2 DEF Rendered, VideoReferences
  <2>3. QED BY <2>1, <2>2
<1>17. \A b \in Attempt : rendition'[b].state = "NONE" => rendition[b].state = "NONE"
  BY <1>4, <1>5
<1>18. UNCHANGED <<deletionVars, stray>>
  BY <1>2
<1> QED BY <1>1, <1>2, <1>5, <1>6, <1>12, <1>13, <1>14, <1>15, <1>16, <1>17, <1>18, RowsChange

\* The day of a row is over: the playback of a READY video has no such row.
LEMMA DayIsOver ==
    ASSUME VideoInv, NEW a \in Attempt, RenditionExpires(a),
           videoFaults' \in 0 .. MaxVideoFaults
    PROVE  VideoInv'
<1>1. /\ PassesFit /\ RenditionsFit /\ LegaciesFit /\ PlaybackFits /\ RowsStored
      /\ video \in VideoState /\ playback \in PlaybackState /\ jobs \in [Job -> JobRow]
      /\ rendition \in [Attempt -> Row] /\ legacy \in [Attempt -> Row]
      /\ attempt \in [Attempt -> PassState] /\ strayPut \in SUBSET Attempt
  BY VideoTypes DEF VideoInv, FilmFits
<1>2. /\ UNCHANGED <<deletionVars, video, playback, jobs, attempt, strayPut, stray>>
      /\ stored' = stored
  BY DEF RenditionExpires, deletionVars
<1>3. \/ /\ rendition[a].expiry = "SET" /\ UNCHANGED legacy
         /\ rendition' = [rendition EXCEPT ![a].expiry = "PAST"]
      \/ /\ legacy[a].expiry = "SET" /\ UNCHANGED rendition
         /\ legacy' = [legacy EXCEPT ![a].expiry = "PAST"]
  BY DEF RenditionExpires
<1>4. /\ rendition' \in [Attempt -> Row] /\ legacy' \in [Attempt -> Row]
      /\ \A b \in Attempt :
            /\ rendition'[b].state = rendition[b].state /\ rendition'[b].key = rendition[b].key
            /\ legacy'[b].state = legacy[b].state /\ legacy'[b].key = legacy[b].key
            /\ rendition'[b].expiry = rendition[b].expiry \/ rendition[b].expiry = "SET"
            /\ rendition'[b] = rendition[b] \/ rendition[b].expiry = "SET"
            /\ legacy'[b] = legacy[b] \/ legacy[b].expiry = "SET"
  BY SMTT(60), <1>1, <1>3 DEF Row
<1>5. /\ PassesFit' /\ RenditionsFit' /\ LegaciesFit'
  <2>1. \A b \in Attempt : /\ rendition[b] = NoRendition => rendition'[b] = NoRendition
                           /\ legacy[b] = NoRendition => legacy'[b] = NoRendition
    BY <1>4, VideoBlanks
  <2>2. PassesFit'
    BY <1>1, <1>2, <1>4, <2>1 DEF PassesFit
  <2>3. RenditionsFit'
    BY <1>1, <1>2, <1>4, <2>1 DEF RenditionsFit
  <2>4. LegaciesFit'
    BY <1>1, <1>2, <1>4, <2>1 DEF LegaciesFit
  <2>5. QED BY <2>2, <2>3, <2>4
<1>6. PlaybackFits'
  BY <1>1, <1>2, <1>4 DEF PlaybackFits
<1>7. FilmFits'
  BY <1>5, <1>6 DEF FilmFits
<1>8. RowsStored'
  BY <1>1, <1>2, <1>4 DEF RowsStored, Listed
<1>9. \A k : (Rendered(k)' <=> Rendered(k)) /\ (OfAsset(k)' <=> OfAsset(k))
  BY <1>2, <1>4 DEF Rendered, OfAsset, VideoReferences, Listed
<1>10. UNCHANGED <<deletionVars, stray>>
  BY <1>2
<1>11. \A b \in Attempt : rendition'[b].state = "NONE" => rendition[b].state = "NONE"
  BY <1>4
<1> QED BY <1>1, <1>2, <1>4, <1>7, <1>8, <1>9, <1>10, <1>11, RowsChange

\* The rows of the active set start to expire.
Expiring(rows) ==
    [b \in Attempt |->
        IF /\ attempt[b].job # None /\ jobs[attempt[b].job].active
           /\ rows[b].state # "NONE" /\ rows[b].expiry = "NONE"
        THEN [rows[b] EXCEPT !.expiry = "SET"] ELSE rows[b]]

LEMMA ExpiringRows ==
    ASSUME NEW rows \in [Attempt -> Row], NEW late, late = Expiring(rows)
    PROVE  /\ late \in [Attempt -> Row]
           /\ \A b \in Attempt :
                 /\ late[b].state = rows[b].state /\ late[b].key = rows[b].key
                 /\ \/ late[b] = rows[b]
                    \/ /\ rows[b].state # "NONE"
                       /\ attempt[b].job # None /\ jobs[attempt[b].job].active
BY DEF Expiring, Row

\* The activation: what a pass wrote is played, and what was played has a row.
LEMMA PlaybackCompleted ==
    ASSUME VideoInv, NEW a \in Attempt, CompletePlayback(a),
           videoFaults' \in 0 .. MaxVideoFaults
    PROVE  VideoInv'
<1> DEFINE j == attempt[a].job
<1>1. /\ PassesFit /\ RenditionsFit /\ LegaciesFit /\ PlaybackFits /\ RowsStored /\ NamedSpared
      /\ video \in VideoState /\ playback \in PlaybackState /\ jobs \in [Job -> JobRow]
      /\ rendition \in [Attempt -> Row] /\ legacy \in [Attempt -> Row]
      /\ attempt \in [Attempt -> PassState] /\ strayPut \in SUBSET Attempt
  BY VideoTypes DEF VideoInv, FilmFits
<1>2. /\ UNCHANGED <<deletionVars, video, strayPut, stray>> /\ stored' = stored
      /\ attempt[a].at = "uploaded" /\ jobs[j].state = "RUNNING"
      /\ video = "READY" /\ rendition[a].state = "PENDING"
      /\ attempt' = [attempt EXCEPT ![a].at = "over"]
  BY DEF CompletePlayback, OwnsJob, AttemptTo, deletionVars
<1>3. PICK late : late = Expiring(rendition)
  OBVIOUS
<1>4. PICK lateOld : lateOld = Expiring(legacy)
  OBVIOUS
<1>5. /\ rendition' = [late EXCEPT ![a].state = "READY"]
      /\ legacy' = IF playback.state = "READY" /\ playback.key # Original
                   THEN [lateOld EXCEPT ![a] =
                            [state |-> "READY", key |-> playback.key, expiry |-> "SET"]]
                   ELSE lateOld
      /\ playback' = [state |-> "READY", key |-> rendition[a].key]
      /\ jobs' = [i \in Job |->
             IF i = j THEN [jobs[j] EXCEPT !.state = "READY", !.active = TRUE,
                                           !.token = None, !.live = FALSE]
             ELSE [jobs[i] EXCEPT !.active = FALSE]]
  BY <1>3, <1>4 DEF CompletePlayback, Activated, Expiring
<1>6. j \in Job /\ ~jobs[j].active
  BY <1>1, <1>2 DEF PassesFit, PlaybackFits
<1> HIDE DEF j
<1>7. \A b \in Attempt : b # a /\ late[b] # rendition[b] =>
         attempt[b].job # None /\ jobs[attempt[b].job].active /\ rendition[b].state # "NONE"
  BY <1>1, <1>3, ExpiringRows
<1>8. /\ late \in [Attempt -> Row] /\ lateOld \in [Attempt -> Row]
      /\ \A b \in Attempt : /\ late[b].state = rendition[b].state
                            /\ late[b].key = rendition[b].key
                            /\ lateOld[b].state = legacy[b].state
                            /\ lateOld[b].key = legacy[b].key
                            /\ lateOld[b] = legacy[b] \/ legacy[b].state # "NONE"
  BY <1>1, <1>3, <1>4, ExpiringRows
<1>9. late[a] = rendition[a]
  BY <1>1, <1>3, <1>6, ExpiringRows DEF j
<1>10. /\ rendition' \in [Attempt -> Row]
       /\ rendition'[a].state = "READY" /\ rendition'[a].key = rendition[a].key
       /\ rendition'[a].expiry = rendition[a].expiry
       /\ \A b \in Attempt : b # a => rendition'[b] = late[b]
  BY <1>5, <1>8, <1>9 DEF Row
<1>11. rendition[a].key \in {a, Original} /\ rendition[a].expiry = "NONE"
  BY <1>1, <1>2 DEF RenditionsFit, j
<1>12. legacy[a].state = "NONE" /\ legacy[a] = NoRendition
  BY <1>1, <1>2 DEF LegaciesFit
<1>13. playback.key \in Generated \cup {Original} /\ playback.key \in Key
  BY <1>1, FileNames DEF PlaybackFits, PlaybackState
<1>14. /\ legacy' \in [Attempt -> Row]
       /\ \A b \in Attempt : b # a => legacy'[b] = lateOld[b]
       /\ \/ /\ playback.state = "READY" /\ playback.key # Original
             /\ legacy'[a].state = "READY" /\ legacy'[a].key = playback.key
          \/ /\ ~(playback.state = "READY" /\ playback.key # Original)
             /\ legacy'[a] = NoRendition
  <2>1. [state |-> "READY", key |-> playback.key, expiry |-> "SET"] \in Row
    BY <1>13 DEF Row
  <2>2. lateOld[a] = NoRendition
    BY <1>8, <1>12
  <2>3. CASE playback.state = "READY" /\ playback.key # Original
    BY <1>5, <1>8, <2>1, <2>3
  <2>4. CASE ~(playback.state = "READY" /\ playback.key # Original)
    <3>1. legacy' = lateOld
      BY <1>5, <2>4
    <3>2. QED BY <1>8, <2>2, <2>4, <3>1
  <2>5. QED BY <2>3, <2>4
<1>15. /\ jobs' \in [Job -> JobRow] /\ jobs'[j].active
       /\ \A i \in Job : /\ jobs'[i].active => i = j
                         /\ i # j => jobs'[i].state = jobs[i].state
       /\ jobs'[j].state = "READY"
  <2>1. \A i \in Job : i # j => jobs'[i] = [jobs[i] EXCEPT !.active = FALSE]
    BY <1>5
  <2>2. /\ jobs'[j] \in JobRow /\ jobs'[j].active /\ jobs'[j].state = "READY"
    BY <1>1, <1>5, <1>6 DEF JobRow
  <2>3. \A i \in Job : i # j => /\ jobs'[i] \in JobRow /\ ~jobs'[i].active
                                /\ jobs'[i].state = jobs[i].state
    <3>1. \A row \in JobRow : /\ [row EXCEPT !.active = FALSE] \in JobRow
                              /\ ~[row EXCEPT !.active = FALSE].active
                              /\ [row EXCEPT !.active = FALSE].state = row.state
      BY DEF JobRow
    <3>2. QED BY <1>1, <2>1, <3>1
  <2>4. jobs' = [i \in Job |-> jobs'[i]]
    BY <1>5
  <2>5. QED BY <2>2, <2>3, <2>4
<1>16. /\ attempt' \in [Attempt -> PassState]
       /\ attempt'[a].job = j /\ attempt'[a].at = "over"
       /\ \A b \in Attempt : b # a => attempt'[b] = attempt[b]
  BY <1>1, <1>2 DEF PassState, j
<1>17. playback' \in PlaybackState /\ playback'.state = "READY" /\ playback'.key = rendition[a].key
  BY <1>5, <1>11, FileNames DEF PlaybackState, Generated
<1>18. PassesFit'
  <2>1. ASSUME NEW b \in Attempt, b # a, attempt[b].at \in {"waiting", "encoding"}
        PROVE  rendition'[b] = NoRendition /\ b \notin strayPut
    <3>1. rendition[b] = NoRendition /\ b \notin strayPut
      BY <1>1, <2>1 DEF PassesFit
    <3>2. late[b] = rendition[b]
      BY <1>7, <2>1, <3>1, VideoBlanks
    <3>3. QED BY <1>10, <2>1, <3>1, <3>2
  <2>2. QED BY <1>1, <1>2, <1>6, <1>8, <1>10, <1>16, <2>1 DEF PassesFit
<1>19. RenditionsFit'
  <2>1. ASSUME NEW b \in Attempt, b # a
        PROVE  /\ rendition'[b].state # "NONE" => rendition'[b].key \in {b, Original}
               /\ rendition'[b].state = "NONE" => rendition'[b] = NoRendition
               /\ rendition'[b].expiry # "NONE" => jobs'[attempt'[b].job].state = "READY"
    <3>1. CASE late[b] = rendition[b]
      <4>1. /\ rendition[b].expiry # "NONE" =>
                  rendition[b].state # "NONE" /\ jobs[attempt[b].job].state = "READY"
        BY <1>1, VideoBlanks DEF RenditionsFit
      <4>2. rendition[b].state # "NONE" => attempt[b].job \in Job
        BY <1>1, VideoBlanks DEF PassesFit
      <4>3. QED BY <1>1, <1>10, <1>15, <1>16, <2>1, <3>1, <4>1, <4>2 DEF RenditionsFit
    <3>2. CASE late[b] # rendition[b]
      <4>1. /\ jobs[attempt[b].job].active /\ rendition[b].state # "NONE"
            /\ attempt[b].job \in Job
        BY <1>1, <1>7, <2>1, <3>2 DEF PassState
      <4>2. jobs[attempt[b].job].state = "READY"
        BY <1>1, <4>1 DEF PlaybackFits
      <4>3. QED BY <1>1, <1>8, <1>10, <1>15, <1>16, <2>1, <4>1, <4>2 DEF RenditionsFit
    <3>3. QED BY <3>1, <3>2
  <2>2. QED BY <1>10, <1>11, <2>1 DEF RenditionsFit
<1>20. LegaciesFit'
  <2>1. \A b \in Attempt : rendition[b].state # "NONE" => rendition'[b].state # "NONE"
    BY <1>8, <1>10
  <2>2. playback'.key # First
    BY <1>11, <1>17, FileNames DEF Generated
  <2>3. ASSUME NEW b \in Attempt, b # a
        PROVE  /\ legacy'[b].state # "NONE" =>
                     /\ legacy'[b].key \in Generated
                     /\ legacy'[b].key \in Attempt => rendition'[legacy'[b].key].state # "NONE"
                     /\ attempt'[b].at = "over"
               /\ legacy'[b].state = "NONE" => legacy'[b] = NoRendition
    <3>1. legacy'[b] = lateOld[b]
      BY <1>14, <2>3
    <3>2. QED BY <1>1, <1>8, <1>16, <2>1, <2>3, <3>1 DEF LegaciesFit
  <2>4. /\ legacy'[a].state # "NONE" =>
              /\ legacy'[a].key \in Generated
              /\ legacy'[a].key \in Attempt => rendition'[legacy'[a].key].state # "NONE"
        /\ legacy'[a].state = "NONE" => legacy'[a] = NoRendition
    <3>1. playback.key \in Attempt => rendition[playback.key].state # "NONE"
      BY <1>1 DEF PlaybackFits
    <3>2. QED BY <1>13, <1>14, <2>1, <3>1, VideoBlanks
  <2>5. QED BY <1>16, <2>2, <2>3, <2>4 DEF LegaciesFit
<1>21. PlaybackFits'
  <2>1. ASSUME NEW b \in Attempt, playback'.key = b PROVE b = a
    BY <1>11, <1>17, <2>1, FileNames
  <2>2. /\ playback'.key \in Generated \cup {Original} /\ playback'.state # "FAILED"
    BY <1>11, <1>17, FileNames
  <2>3. \A i \in Job : jobs'[i].active => jobs'[i].state = "READY"
    BY <1>15
  <2>4. QED BY <1>10, <1>11, <1>15, <1>16, <1>17, <2>1, <2>2, <2>3 DEF PlaybackFits
<1>22. FilmFits'
  BY <1>18, <1>19, <1>20, <1>21 DEF FilmFits
<1>23. playback.state = "READY" /\ playback.key # Original =>
          /\ playback.key \in stored
          /\ Rendered(playback.key) \/ Untouched({playback.key})
  <2>1. SUFFICES ASSUME playback.state = "READY", playback.key # Original
                 PROVE  /\ playback.key \in stored
                        /\ Rendered(playback.key) \/ Untouched({playback.key})
    OBVIOUS
  <2>2. CASE playback.key = First
    BY <1>1, <1>2, <2>1, <2>2 DEF RowsStored, NamedSpared
  <2>3. CASE playback.key \in Attempt
    <3>1. PICK c \in Attempt : c = playback.key
      BY <2>3
    <3>2. rendition[c].state = "READY" /\ rendition[c].key = c
      BY <1>1, <1>2, <3>1 DEF PlaybackFits
    <3>3. c \in stored
      BY <1>1, <3>2 DEF RowsStored
    <3>4. Rendered(c)
      BY <3>2, RenderedBy DEF Listed
    <3>5. QED BY <3>1, <3>3, <3>4
  <2>4. QED BY <1>13, <2>1, <2>2, <2>3 DEF Generated
<1>24. RowsStored'
  <2>1. /\ playback'.key # First /\ playback'.state = "READY"
    BY <1>11, <1>17, FileNames DEF Generated
  <2>2. rendition'[a].key = a => a \in stored
    BY <1>1, <1>2, <1>10 DEF RowsStored
  <2>3. ASSUME NEW b \in Attempt, b # a, rendition'[b].key = b,
               \/ rendition'[b].state = "READY"
               \/ rendition'[b].state = "PENDING" /\ attempt'[b].at = "uploaded"
        PROVE  b \in stored
    BY <1>1, <1>8, <1>10, <1>16, <2>3 DEF RowsStored
  <2>4. ASSUME NEW b \in Attempt, b # a, Listed(legacy[b])'
        PROVE  legacy'[b].key \in stored
    BY <1>1, <1>8, <1>14, <2>4 DEF RowsStored, Listed
  <2>5. Listed(legacy[a])' => legacy'[a].key \in stored
    BY <1>14, <1>23, VideoBlanks DEF Listed
  <2>6. QED BY <1>1, <1>2, <2>1, <2>2, <2>3, <2>4, <2>5 DEF RowsStored
<1>25. \A b \in Attempt : /\ rendition'[b].key = rendition[b].key
                          /\ Listed(rendition[b])' <=> Listed(rendition[b])
                          /\ b # a => /\ legacy'[b].key = legacy[b].key
                                      /\ Listed(legacy[b])' <=> Listed(legacy[b])
  BY <1>2, <1>8, <1>10, <1>14 DEF Listed
<1>26. /\ Listed(legacy[a])' <=> playback.state = "READY" /\ playback.key # Original
       /\ Listed(legacy[a])' => legacy'[a].key = playback.key
       /\ ~Listed(legacy[a])
  BY <1>12, <1>14, VideoBlanks DEF Listed
<1>27. ASSUME NEW k PROVE Rendered(k)' <=> \/ Rendered(k)
                                           \/ /\ playback.state = "READY"
                                              /\ playback.key # Original /\ k = playback.key
  <2>1. Rendered(k)' <=> \E b \in Attempt : \/ Listed(rendition[b])' /\ rendition'[b].key = k
                                            \/ Listed(legacy[b])' /\ legacy'[b].key = k
    BY DEF Rendered, VideoReferences
  <2>2. Rendered(k) <=> \E b \in Attempt : \/ Listed(rendition[b]) /\ rendition[b].key = k
                                           \/ Listed(legacy[b]) /\ legacy[b].key = k
    BY RenderedBy
  <2>3. QED BY <1>25, <1>26, <2>1, <2>2
<1>28. \A k \in Generated : Rendered(k)' => Rendered(k) \/ Untouched({k})
  BY <1>23, <1>27
<1>29. ASSUME NEW k \in Generated \cap stored, OfAsset(k) PROVE Rendered(k)'
  <2>1. k = playback.key /\ k # Original
    BY <1>29, AssetNames, FileNames
  <2>2. playback.state = "READY"
    BY <1>1, <1>29, <2>1 DEF PlaybackFits, RowsStored, PlaybackState
  <2>3. QED BY <1>27, <2>1, <2>2
<1>30. \A b \in Attempt : rendition'[b].state = "NONE" => rendition[b].state = "NONE"
  BY <1>2, <1>8, <1>10
<1>31. /\ video' = "READY" /\ video' = video /\ strayPut' \in SUBSET Attempt
       /\ UNCHANGED <<deletionVars, stray>> /\ playback'.key # First
       /\ video' \in VideoState
  BY <1>1, <1>2, <1>11, <1>17, FileNames DEF Generated
<1> QED BY <1>10, <1>14, <1>15, <1>16, <1>17, <1>22, <1>24, <1>27, <1>28, <1>29, <1>30, <1>31,
           RowsChange

\* The bytes of a rendition arrive: its row answers for them, or had been
\* swept before.
LEMMA OutputArrives ==
    ASSUME VideoInv, NEW a \in Attempt, rendition[a].key = a,
           UNCHANGED <<outbox, reaper, lateDelete, video, playback, jobs, rendition, legacy>>,
           stored' = stored \cup {a},
           stray' = IF Listed(rendition[a]) THEN stray ELSE stray \cup {a},
           attempt' \in [Attempt -> PassState], strayPut' \in SUBSET Attempt,
           videoFaults' \in 0 .. MaxVideoFaults,
           \A b \in Attempt :
              /\ attempt'[b].job = attempt[b].job
              /\ attempt[b].at = "over" => attempt'[b].at = "over"
              /\ b # a /\ attempt'[b].at = "uploaded" => attempt[b].at = "uploaded",
           PassesFit'
    PROVE  VideoInv'
<1>1. /\ VideoTypeOK /\ RenditionsFit /\ LegaciesFit /\ PlaybackFits /\ RowsStored
      /\ NamedSpared /\ FilesOwned
      /\ DeletionTypeOK /\ stray \in SUBSET Attempt /\ stored \in SUBSET Key
  BY VideoTypes DEF VideoInv, FilmFits, DeletionTypeOK
<1>2. stored' \in SUBSET Key /\ stray' \in SUBSET Attempt
  BY <1>1, FileNames
<1>3. DeletionTypeOK'
  BY <1>1, <1>2 DEF DeletionTypeOK, LiveClaim
<1>4. VideoTypeOK'
  BY <1>1, <1>2, <1>3 DEF VideoTypeOK, PassState
<1>5. FilmFits'
  <2>1. RenditionsFit' /\ LegaciesFit' /\ PlaybackFits'
    BY <1>1 DEF RenditionsFit, LegaciesFit, PlaybackFits
  <2>2. QED BY <2>1 DEF FilmFits
<1>6. RowsStored'
  <2>1. a # First
    BY FileNames
  <2>2. QED BY <1>1, <2>1 DEF RowsStored, Listed
<1>7. \A k : (Rendered(k)' <=> Rendered(k)) /\ (OfAsset(k)' <=> OfAsset(k))
  BY DEF Rendered, OfAsset, VideoReferences, Listed
<1>8. NamedSpared'
  BY <1>1, <1>7 DEF NamedSpared, Untouched, Watched
<1>9. NamedFiles' = NamedFiles
  BY DEF NamedFiles, VideoReferences, Listed
<1>10. Listed(rendition[a]) => a \in NamedFiles /\ Watched({a}, "renditions")
  BY <1>1, RenderedBy, FileNames DEF NamedFiles, Rendered, NamedSpared
<1>11. \A k \in (Generated \ stray') \cap stored' :
          \/ k \in (Generated \ stray) \cap stored
          \/ k = a /\ Listed(rendition[a])
  BY <1>1
<1>12. Owned(Generated \ stray, NamedFiles)'
  BY <1>1, <1>9, <1>10, <1>11 DEF FilesOwned, Owned, Waits
<1>13. HoldersAgree(Generated \ stray, NamedFiles)'
  <2>1. SUFFICES ASSUME NEW r \in Reaper, HoldsClaim(r),
                        reaper[r].key \in (Generated \ stray') \cap stored'
                 PROVE  /\ reaper[r].at # "deleted"
                        /\ reaper[r].seen => outbox[reaper[r].key].requeue
                                                \/ reaper[r].key \in NamedFiles
    BY <1>9 DEF HoldersAgree, HoldsClaim
  <2>2. CASE reaper[r].key \in (Generated \ stray) \cap stored
    BY <1>1, <2>1, <2>2 DEF FilesOwned, HoldersAgree
  <2>3. CASE reaper[r].key = a /\ Listed(rendition[a])
    BY <1>10, <2>1, <2>3 DEF Watched
  <2>4. QED BY <1>11, <2>1, <2>2, <2>3
<1> QED BY <1>4, <1>5, <1>6, <1>8, <1>12, <1>13 DEF VideoInv, FilesOwned

LEMMA OutputsArrive ==
    ASSUME VideoInv, NEW a \in Attempt, UploadRendition(a) \/ StrayPut(a),
           videoFaults' \in 0 .. MaxVideoFaults
    PROVE  VideoInv'
<1>1. /\ PassesFit /\ attempt \in [Attempt -> PassState] /\ strayPut \in SUBSET Attempt
  BY VideoTypes DEF VideoInv, FilmFits
<1>2. /\ UNCHANGED <<outbox, reaper, lateDelete, video, playback, jobs, rendition, legacy>>
      /\ stored' = stored \cup {a}
      /\ stray' = IF Listed(rendition[a]) THEN stray ELSE stray \cup {a}
      /\ attempt[a].at = "uploading" \/ a \in strayPut
  BY DEF UploadRendition, StrayPut
<1>3. rendition[a].key = a /\ rendition[a] # NoRendition
  BY <1>1, <1>2, VideoBlanks, FileNames DEF PassesFit, Generated
<1>4. rendition[a].state # "NONE"
  BY <1>3 DEF VideoInv, FilmFits, RenditionsFit
<1>5. CASE UploadRendition(a)
  <2>1. /\ attempt[a].at = "uploading" /\ strayPut' = strayPut
        /\ attempt' = [attempt EXCEPT ![a].at = "uploaded"]
    BY <1>5 DEF UploadRendition, AttemptTo
  <2>2. /\ attempt' \in [Attempt -> PassState]
        /\ attempt'[a].at = "uploaded" /\ attempt'[a].job = attempt[a].job
        /\ \A b \in Attempt : b # a => attempt'[b] = attempt[b]
    BY <1>1, <2>1 DEF PassState
  <2>3. PassesFit'
    BY <1>1, <1>2, <1>3, <1>4, <2>1, <2>2 DEF PassesFit
  <2>4. QED BY <1>1, <1>2, <1>3, <2>1, <2>2, <2>3, OutputArrives
<1>6. CASE StrayPut(a)
  <2>1. /\ a \in strayPut /\ strayPut' = strayPut \ {a} /\ attempt' = attempt
    BY <1>6 DEF StrayPut
  <2>2. PassesFit'
    BY <1>1, <1>2, <2>1 DEF PassesFit
  <2>3. QED BY <1>1, <1>2, <1>3, <2>1, <2>2, OutputArrives
<1> QED BY <1>2, <1>5, <1>6

\* A step of the database that queues what it leaves unnamed.
LEMMA NamesDropped ==
    ASSUME VideoInv, NEW dropped \in SUBSET Key, QueueDurableDeletions(dropped),
           UNCHANGED <<reaper, stored, lateDelete, playback, jobs, attempt, strayPut, stray>>,
           video' \in VideoState, videoFaults' \in 0 .. MaxVideoFaults,
           rendition' \in [Attempt -> Row], legacy' \in [Attempt -> Row],
           FilmFits', RowsStored',
           video' \in {"READY", "DELETING"} =>
              video \in {"READY", "DELETING"} /\ Original \notin dropped,
           video' = "READY" /\ playback.key = First => video = "READY" /\ First \notin dropped,
           \A a \in Attempt : rendition'[a].state = "NONE" =>
              rendition[a].state = "NONE" /\ a \notin dropped,
           \A k \in Generated : Rendered(k)' => Rendered(k),
           \A k \in Generated : k \in NamedFiles => k \in NamedFiles' \/ k \in dropped
    PROVE  VideoInv'
<1>1. /\ VideoTypeOK /\ NamedSpared /\ FilesOwned /\ DeletionTypeOK
      /\ playback \in PlaybackState /\ jobs \in [Job -> JobRow]
      /\ attempt \in [Attempt -> PassState]
      /\ strayPut \in SUBSET Attempt /\ stray \in SUBSET Attempt
  BY VideoTypes DEF VideoInv
<1>2. UNCHANGED <<reaper, stored, lateDelete>>
  OBVIOUS
<1>3. /\ DeletionTypeOK' /\ \A k \in Key : k \notin dropped => outbox'[k] = outbox[k]
  BY ONLY <1>1, <1>2, dropped \in SUBSET Key, QueueDurableDeletions(dropped), Queueing
<1>4. VideoTypeOK'
  BY <1>1, <1>3 DEF VideoTypeOK, VideoState, PlaybackState, JobRow, PassState
<1>5. \A k \in Key : k \notin dropped /\ Untouched({k}) => Untouched({k})'
  BY <1>2, <1>3 DEF Untouched
<1>6. \A k : Watched({k}, "renditions") => Watched({k}, "renditions")'
  BY <1>2 DEF Watched
<1>7. NamedSpared'
  BY <1>1, <1>5, <1>6, FileNames DEF NamedSpared, Generated
<1>8. PICK named : named = NamedFiles
  OBVIOUS
<1>9. PICK named2 : named2 = NamedFiles'
  OBVIOUS
<1>10. PICK keys \in SUBSET Key : keys = Generated \ stray
  BY FileNames
<1>11. Owned(keys, named2)' /\ HoldersAgree(keys, named2)'
  <2>1. /\ Owned(keys, named) /\ HoldersAgree(keys, named)
        /\ (keys \cap named) \ dropped \subseteq named2
    BY <1>1, <1>8, <1>9, <1>10 DEF FilesOwned
  <2>2. UNCHANGED <<reaper, stored>>
    BY <1>2
  <2>3. QED BY ONLY <1>1, <2>1, <2>2, dropped \in SUBSET Key, QueueDurableDeletions(dropped),
               OwnedQueueing
<1>12. keys = (Generated \ stray)'
  BY <1>10
<1>13. FilesOwned'
  BY <1>9, <1>11, <1>12 DEF FilesOwned, Owned, HoldersAgree
<1> QED BY <1>4, <1>7, <1>13 DEF VideoInv

\* The deletion of the video, or of its project: the asset names nothing more.
LEMMA VideoDeleted ==
    ASSUME VideoInv, CompleteVideoDeletion \/ DeleteProject,
           videoFaults' \in 0 .. MaxVideoFaults
    PROVE  VideoInv'
<1>1. /\ PassesFit /\ RenditionsFit /\ LegaciesFit /\ PlaybackFits /\ RowsStored
      /\ playback \in PlaybackState
      /\ rendition \in [Attempt -> Row] /\ legacy \in [Attempt -> Row]
  BY VideoTypes DEF VideoInv, FilmFits
<1>2. /\ UNCHANGED <<reaper, stored, lateDelete, playback, jobs, rendition, legacy, attempt,
                     strayPut, stray>>
      /\ QueueDurableDeletions({Original, playback.key})
      /\ video' \in {"DELETED", "GONE"}
  BY DEF CompleteVideoDeletion, DeleteProject
<1>3. PICK dropped \in SUBSET Key : dropped = {Original, playback.key}
  BY <1>1, FileNames DEF PlaybackState
<1>4. QueueDurableDeletions(dropped)
  BY <1>2, <1>3
<1>5. FilmFits'
  BY <1>1, <1>2 DEF FilmFits, PassesFit, RenditionsFit, LegaciesFit, PlaybackFits
<1>6. RowsStored'
  BY <1>1, <1>2 DEF RowsStored, Listed
<1>7. \A a \in Attempt : rendition'[a].state = "NONE" =>
         rendition[a].state = "NONE" /\ a \notin dropped
  BY <1>1, <1>2, <1>3, FileNames DEF PlaybackFits
<1>8. \A k : Rendered(k)' <=> Rendered(k)
  BY <1>2 DEF Rendered, VideoReferences, Listed
<1>9. ASSUME NEW k \in NamedFiles PROVE k \in NamedFiles' \/ k \in dropped
  <2>1. CASE OfAsset(k)
    BY <1>3, <2>1, AssetNames
  <2>2. CASE Rendered(k)
    BY <1>8, <2>2 DEF NamedFiles, Rendered
  <2>3. QED BY <1>9, <2>1, <2>2 DEF NamedFiles, Rendered, OfAsset
<1>10. video' \in VideoState /\ video' \notin {"READY", "DELETING"}
  BY <1>2 DEF VideoState
<1> QED BY <1>1, <1>2, <1>4, <1>5, <1>6, <1>7, <1>8, <1>9, <1>10, NamesDropped

\* The sweep: a row it takes was not played, and its file is queued.
LEMMA CleanedUp ==
    ASSUME VideoInv, CleanUp, videoFaults' \in 0 .. MaxVideoFaults
    PROVE  VideoInv'
<1>1. /\ PassesFit /\ RenditionsFit /\ LegaciesFit /\ PlaybackFits /\ RowsStored
      /\ video \in VideoState
      /\ rendition \in [Attempt -> Row] /\ legacy \in [Attempt -> Row]
  BY VideoTypes DEF VideoInv, FilmFits
<1>2. PICK done \in SUBSET Attempt :
         done = {a \in Attempt : Retired(rendition[a]) \/ Abandoned(a)}
  OBVIOUS
<1>3. PICK doneOld \in SUBSET Attempt : doneOld = {a \in Attempt : Retired(legacy[a])}
  OBVIOUS
<1>4. PICK dropped : dropped = {k \in {rendition[a].key : a \in done}
                                     \cup {legacy[a].key : a \in doneOld} : ~Preserved(k)}
  OBVIOUS
<1>5. /\ UNCHANGED <<reaper, stored, lateDelete, video, playback, jobs, attempt, strayPut, stray>>
      /\ QueueDurableDeletions(dropped)
      /\ rendition' = Swept(rendition, done) /\ legacy' = Swept(legacy, doneOld)
  BY <1>2, <1>3, <1>4 DEF CleanUp
<1>6. \A a \in done : rendition[a].state # "NONE" /\ rendition[a].key \in {a, Original}
  BY <1>1, <1>2 DEF Retired, Abandoned, Listed, RenditionsFit
<1>7. \A b \in doneOld :
         /\ legacy[b].state # "NONE" /\ legacy[b].key \in Generated
         /\ legacy[b].key \in Attempt => rendition[legacy[b].key].state # "NONE"
         /\ playback.key # First
  BY <1>1, <1>3 DEF Retired, Listed, LegaciesFit
<1>8. dropped \in SUBSET Key
  BY <1>4, <1>6, <1>7, FileNames DEF Generated
<1>9. /\ rendition' \in [Attempt -> Row]
      /\ \A a \in Attempt :
            /\ a \in done => rendition'[a].state = "DELETED"
            /\ a \notin done => rendition'[a] = rendition[a]
            /\ rendition'[a].key = rendition[a].key
            /\ rendition'[a].expiry = rendition[a].expiry
  BY SMTT(60), <1>1, <1>5 DEF Swept, Row
<1>10. /\ legacy' \in [Attempt -> Row]
       /\ \A a \in Attempt :
             /\ a \in doneOld => legacy'[a].state = "DELETED"
             /\ a \notin doneOld => legacy'[a] = legacy[a]
             /\ legacy'[a].key = legacy[a].key
  BY <1>1, <1>5 DEF Swept, Row
<1>11. \A a \in Attempt : (rendition'[a].state = "NONE") <=> (rendition[a].state = "NONE")
  BY <1>6, <1>9
<1>12. PassesFit'
  <2>1. \A a \in Attempt : rendition[a] = NoRendition => rendition'[a] = NoRendition
    BY <1>6, <1>9, VideoBlanks
  <2>2. QED BY <1>1, <1>5, <1>9, <1>11, <2>1 DEF PassesFit
<1>13. RenditionsFit'
  BY <1>1, <1>5, <1>9, <1>11 DEF RenditionsFit
<1>14. LegaciesFit'
  BY <1>1, <1>5, <1>7, <1>10, <1>11 DEF LegaciesFit
<1>15. \A a \in Attempt : video = "READY" /\ playback.key = a => a \notin done
  BY <1>1, <1>2 DEF PlaybackFits, Retired, Abandoned
<1>16. PlaybackFits'
  BY <1>1, <1>5, <1>9, <1>11, <1>15 DEF PlaybackFits
<1>17. FilmFits'
  BY <1>12, <1>13, <1>14, <1>16 DEF FilmFits
<1>18. RowsStored'
  BY <1>1, <1>5, <1>9, <1>10 DEF RowsStored, Listed
<1>19. /\ video # "GONE" => Original \notin dropped
       /\ playback.key = First => First \notin dropped
  BY <1>4, <1>6, <1>7, FileNames DEF Preserved, Generated
<1>20. \A a \in Attempt : rendition[a].state = "NONE" => a \notin dropped
  BY <1>4, <1>6, <1>7, FileNames
<1>21. ASSUME NEW k \in Generated
       PROVE  /\ Rendered(k)' => Rendered(k)
              /\ Rendered(k) => Rendered(k)' \/ k \in dropped
  <2>1. Rendered(k)' <=> \E b \in Attempt : \/ Listed(rendition[b])' /\ rendition'[b].key = k
                                            \/ Listed(legacy[b])' /\ legacy'[b].key = k
    BY DEF Rendered, VideoReferences
  <2>2. \A b \in Attempt : Listed(rendition[b])' <=> Listed(rendition[b]) /\ b \notin done
    BY <1>9 DEF Listed
  <2>3. \A b \in Attempt : Listed(legacy[b])' <=> Listed(legacy[b]) /\ b \notin doneOld
    BY <1>10 DEF Listed
  <2>4. \A b \in Attempt : /\ b \in done /\ rendition[b].key = k => k \in dropped
                           /\ b \in doneOld /\ legacy[b].key = k => k \in dropped
    BY <1>4, FileNames DEF Preserved
  <2>5. Rendered(k) <=> \E b \in Attempt : \/ Listed(rendition[b]) /\ rendition[b].key = k
                                           \/ Listed(legacy[b]) /\ legacy[b].key = k
    BY RenderedBy
  <2>6. Rendered(k)' => Rendered(k)
    BY <1>9, <1>10, <2>1, <2>2, <2>3, <2>5
  <2>7. Rendered(k) => Rendered(k)' \/ k \in dropped
    BY <1>9, <1>10, <2>1, <2>2, <2>3, <2>4, <2>5
  <2>8. QED BY <2>6, <2>7
<1>22. \A k : OfAsset(k)' <=> OfAsset(k)
  BY <1>5 DEF OfAsset, VideoReferences
<1>23. \A k \in Generated : k \in NamedFiles => k \in NamedFiles' \/ k \in dropped
  BY <1>21, <1>22 DEF NamedFiles, Rendered, OfAsset
<1>24. video' \in VideoState /\ video' = video /\ playback' = playback
  BY <1>1, <1>5
<1> QED BY <1>5, <1>8, <1>9, <1>10, <1>11, <1>17, <1>18, <1>19, <1>20, <1>21, <1>23, <1>24,
           NamesDropped

\* The reaper deletes none of the bytes a row is about, and forgets no key that
\* nobody else answers for.
LEMMA ReaperOfVideo ==
    ASSUME VideoInv, DeletionStep(VideoReferences), UNCHANGED filmVars,
           videoFaults' \in 0 .. MaxVideoFaults
    PROVE  VideoInv'
<1>1. /\ FilmFits /\ RowsStored /\ NamedSpared /\ FilesOwned /\ DeletionTypeOK /\ VideoTypeOK
      /\ stray \in SUBSET Attempt
  BY VideoTypes DEF VideoInv
<1>2. UNCHANGED <<video, playback, jobs, rendition, legacy, attempt, strayPut, stray>>
  BY DEF filmVars
<1>3. \/ ReaperMoves
      \/ \E q \in Reaper, t \in Table : CollectReferences(q, t, VideoReferences(t))
  BY DEF DeletionStep, ReaperMoves
<1>4. DeletionTypeOK'
  BY <1>1, <1>3, DeletionTypeStep, CollectTypeStep
<1>5. VideoTypeOK'
  BY <1>1, <1>2, <1>4 DEF VideoTypeOK
<1>6. FilmFits'
  BY <1>1, <1>2 DEF FilmFits, PassesFit, RenditionsFit, LegaciesFit, PlaybackFits
<1>7. stored' \subseteq stored
  BY DEF DeletionStep, ClaimPendingOrphan, CollectReferences, CancelReferenced,
     RenewActiveClaim, DeleteObject, MarkClaimResolved, MarkClaimFailed, LateDelete
<1>8. ASSUME NEW k \in Key, Untouched({k})
      PROVE  Untouched({k})' /\ (k \in stored => k \in stored')
  <2>1. PICK keys \in SUBSET Key : keys = {k}
    OBVIOUS
  <2>2. Untouched(keys)
    BY <1>8, <2>1
  <2>3. Untouched(keys)' /\ stored \cap keys \subseteq stored'
    <3>1. CASE ReaperMoves
      BY ONLY <1>1, <2>2, <3>1, UntouchedStep
    <3>2. ASSUME NEW q \in Reaper, NEW t \in Table, CollectReferences(q, t, VideoReferences(t))
          PROVE  Untouched(keys)' /\ stored \cap keys \subseteq stored'
      <4>1. PICK referred : referred = VideoReferences(t)
        OBVIOUS
      <4>2. CollectReferences(q, t, referred)
        BY <3>2, <4>1
      <4>3. QED BY ONLY <1>1, <2>2, <4>2, UntouchedCollect
    <3>3. QED BY <1>3, <3>1, <3>2
  <2>4. QED BY <2>1, <2>3 DEF Untouched
<1>9. ASSUME NEW k \in Key, Rendered(k), Watched({k}, "renditions")
      PROVE  Watched({k}, "renditions")' /\ (k \in stored => k \in stored')
  <2>1. PICK keys \in SUBSET Key : keys = {k}
    OBVIOUS
  <2>2. /\ Watched(keys, "renditions") /\ "renditions" \in Table
        /\ keys \subseteq VideoReferences("renditions")
    BY <1>9, <2>1, FileNames DEF Rendered
  <2>3. Watched(keys, "renditions")' /\ stored \cap keys \subseteq stored'
    <3>1. CASE ReaperMoves
      BY ONLY <1>1, <2>2, <3>1, WatchedStep
    <3>2. ASSUME NEW q \in Reaper, NEW t \in Table, CollectReferences(q, t, VideoReferences(t))
          PROVE  Watched(keys, "renditions")' /\ stored \cap keys \subseteq stored'
      <4>1. PICK referred : referred = VideoReferences(t)
        OBVIOUS
      <4>2. CollectReferences(q, t, referred) /\ (t = "renditions" => keys \subseteq referred)
        BY <2>2, <3>2, <4>1
      <4>3. QED BY ONLY <1>1, <2>2, <4>2, WatchedCollect
    <3>3. QED BY <1>3, <3>1, <3>2
  <2>4. QED BY <2>1, <2>3 DEF Watched
<1>10. /\ \A k : Rendered(k)' <=> Rendered(k)
       /\ NamedFiles' = NamedFiles
  BY <1>2 DEF Rendered, NamedFiles, VideoReferences, Listed
<1>11. \A k \in Generated : Rendered(k) =>
          Watched({k}, "renditions")' /\ (k \in stored => k \in stored')
  BY <1>1, <1>9, FileNames DEF NamedSpared
<1>12. NamedSpared'
  BY <1>1, <1>2, <1>8, <1>10, <1>11, FileNames DEF NamedSpared, Generated
<1>13. RowsStored'
  <2>1. video = "READY" => Original \in stored'
    BY <1>1, <1>8, FileNames DEF RowsStored, NamedSpared
  <2>2. video = "READY" /\ playback.key = First /\ playback.state = "READY" => First \in stored'
    BY <1>1, <1>8, FileNames DEF RowsStored, NamedSpared, Generated
  <2>3. playback.state = "FAILED" => First \notin stored'
    BY <1>1, <1>7 DEF RowsStored
  <2>4. ASSUME NEW a \in Attempt, rendition[a].key = a,
               \/ rendition[a].state = "READY"
               \/ rendition[a].state = "PENDING" /\ attempt[a].at = "uploaded"
        PROVE  a \in stored'
    <3>1. a \in stored /\ Rendered(a)
      BY <1>1, <2>4, RenderedBy DEF RowsStored, Listed
    <3>2. QED BY <1>11, <3>1, FileNames
  <2>5. ASSUME NEW a \in Attempt, Listed(legacy[a])
        PROVE  legacy[a].key \in stored'
    <3>1. /\ legacy[a].key \in stored /\ Rendered(legacy[a].key)
          /\ legacy[a].key \in Generated
      BY <1>1, <2>5, RenderedBy DEF RowsStored, FilmFits, LegaciesFit, Listed
    <3>2. QED BY <1>11, <3>1
  <2>6. QED BY <1>2, <2>1, <2>2, <2>3, <2>4, <2>5 DEF RowsStored, Listed
<1>14. PICK named : named = NamedFiles
  OBVIOUS
<1>15. PICK keys \in SUBSET Key : keys = Generated \ stray
  BY FileNames
<1>16. Owned(keys, named) /\ HoldersAgree(keys, named)
  BY <1>1, <1>14, <1>15 DEF FilesOwned
<1>17. Owned(keys, named)' /\ HoldersAgree(keys, named)'
  <2>1. CASE ReaperMoves
    BY ONLY <1>1, <1>16, <2>1, OwnedStep
  <2>2. ASSUME NEW q \in Reaper, NEW t \in Table, CollectReferences(q, t, VideoReferences(t))
        PROVE  Owned(keys, named)' /\ HoldersAgree(keys, named)'
    <3>1. VideoReferences(t) \subseteq named
      BY <1>14 DEF NamedFiles, VideoReferences
    <3>2. PICK referred : referred = VideoReferences(t)
      OBVIOUS
    <3>3. CollectReferences(q, t, referred) /\ referred \subseteq named
      BY <2>2, <3>1, <3>2
    <3>4. QED BY ONLY <1>1, <1>16, <3>3, OwnedCollect
  <2>3. QED BY <1>3, <2>1, <2>2
<1>18. keys = (Generated \ stray)' /\ named = NamedFiles'
  BY <1>2, <1>10, <1>14, <1>15
<1>19. FilesOwned'
  BY <1>17, <1>18 DEF FilesOwned, Owned, HoldersAgree
<1> QED BY <1>5, <1>6, <1>12, <1>13, <1>19 DEF VideoInv

LEMMA VideoStepKeeps ==
    ASSUME VideoInv, [VideoNext]_videoVars
    PROVE  VideoInv'
<1>1. videoFaults \in 0 .. MaxVideoFaults
  BY VideoTypes DEF VideoInv
<1>2. CASE UNCHANGED videoVars
  <2>1. UNCHANGED <<deletionVars, video, playback, jobs, rendition, legacy, attempt,
                    strayPut, stray, videoFaults>>
    BY <1>2 DEF videoVars, filmVars
  <2>2. /\ jobs \in [Job -> JobRow] /\ attempt \in [Attempt -> PassState]
        /\ strayPut \in SUBSET Attempt /\ PassesFit /\ PlaybackFits
    BY VideoTypes DEF VideoInv, FilmFits
  <2>3. PassesFit' /\ \A i \in Job : jobs'[i].active => jobs'[i].state = "READY"
    BY <2>1, <2>2 DEF PassesFit, PlaybackFits
  <2>4. QED BY <1>1, <2>1, <2>2, <2>3, WorkMoves
<1>3. CASE VideoStep /\ UNCHANGED videoFaults
  <2>1. videoFaults' \in 0 .. MaxVideoFaults
    BY <1>1, <1>3
  <2>2. QED BY <1>3, <2>1, JobsMove, PassEnds, VideoClaimed, RenditionPrepared, DayIsOver,
               PlaybackCompleted, OutputsArrive, VideoDeleted, CleanedUp, ReaperOfVideo
            DEF VideoStep
<1>4. CASE VideoFault /\ videoFaults < MaxVideoFaults /\ videoFaults' = videoFaults + 1
  <2>1. videoFaults' \in 0 .. MaxVideoFaults
    BY <1>1, <1>4, VideoKeys
  <2>2. QED BY <1>4, <2>1, JobsMove, PassEnds DEF VideoFault
<1> QED BY <1>2, <1>3, <1>4 DEF VideoNext

\* VideoInv is an invariant.
LEMMA VideoAlways == VideoSpec => []VideoInv
<1>1. VideoInit => VideoInv
  BY VideoInitially
<1>2. VideoInv /\ [VideoNext]_videoVars => VideoInv'
  BY VideoStepKeeps
<1>3. QED BY <1>1, <1>2, PTL DEF VideoSpec

\* The asset, its playback, the jobs, the rows and the passes have their types.
THEOREM VideoTypesHold == VideoSpec => []VideoTypeOK
<1>1. VideoInv => VideoTypeOK
  BY DEF VideoInv
<1>2. QED BY <1>1, VideoAlways, PTL

\* Whatever the sweeps, the superseded passes, the reapers and the deletions do,
\* what a viewer may be given has its bytes, and every generated file has a row
\* or a queued deletion that answers for it until it is gone, unless its row
\* had been swept before its bytes landed.
THEOREM GeneratedAlwaysKept == VideoSpec => []GeneratedKept
<1>1. VideoInv => GeneratedKept
  <2>1. SUFFICES ASSUME VideoInv PROVE GeneratedKept
    OBVIOUS
  <2>2. /\ RowsStored /\ PlaybackFits /\ RenditionsFit /\ FilesOwned
        /\ playback \in PlaybackState
    BY <2>1, VideoTypes DEF VideoInv, FilmFits
  <2>3. video = "READY" /\ playback.state = "READY" => playback.key \in stored
    BY <2>2 DEF RowsStored, PlaybackFits, Generated
  <2>4. ASSUME NEW a \in Attempt, video = "READY", rendition[a].state = "READY"
        PROVE  rendition[a].key \in stored
    BY <2>2, <2>4 DEF RowsStored, RenditionsFit
  <2>5. \A a \in Attempt : legacy[a].state = "READY" => legacy[a].key \in stored
    BY <2>2 DEF RowsStored, Listed
  <2>6. Playable
    BY <2>2, <2>3, <2>4, <2>5 DEF Playable, RowsStored
  <2>7. \A k \in (Attempt \cup {First}) \cap stored : k \in stray \/ Answering(k)
    BY <2>2 DEF FilesOwned, Owned, Waits, Answering, Queued, NamedFiles, Generated
  <2>8. QED BY <2>6, <2>7 DEF GeneratedKept
<1>2. QED BY <1>1, VideoAlways, PTL

-----------------------------------------------------------------------------
(***************************************************************************)
(* Votes and draws.  A page or a form that shows the current version shows *)
(* the current candidates or stock; ballots keep the link of their vote;   *)
(* and the poster passes to the votes while nobody has queued it, so that  *)
(* the reaper has seen it in their table ever since.                       *)
(***************************************************************************)
VoteRow == [phase : {"preparing", "open", "paused", "closed", "over"}, linked : BOOLEAN,
            version : Nat, text : Nat]
Shown   == [of : Vote \cup {NoVote}, version : Nat, text : Nat]
Filled  == [version : Nat, stock : [Item -> Nat]]

VotingShape ==
    /\ vote \in [Vote -> VoteRow] /\ page \in [Voter -> Shown]
    /\ ballot \in [Vote -> [Voter -> Nat]] /\ saw \in [Vote -> [Voter -> Nat]]
    /\ event \in [version : Nat \ {0}, paused : BOOLEAN]
    /\ stock \in [Item -> Nat] /\ supplied \in [Item -> Nat]
    /\ drawn \in [Voter -> Item \cup {NoItem}] /\ form \in Filled

\* A page of an older version is refused.
PagesFit ==
    \A p \in Voter, v \in Vote : page[p].of = v =>
        /\ page[p].version <= vote[v].version
        /\ page[p].version = vote[v].version => page[p].text = vote[v].text

FormFits ==
    /\ form.version <= event.version
    /\ form.version = event.version => form.stock = stock

Winners(i) == {p \in Voter : drawn[p] = i}

\* The poster is there; the table of the votes refers to it, or it is not queued.
PosterFits ==
    /\ pinned \/ work \in {"ready", "deleting"} => PosterKey \in stored
    /\ pinned => Watched({PosterKey}, PosterTable)
    /\ ~pinned /\ work # "deleted" => Untouched({PosterKey})

VotingInv ==
    /\ DeletionTypeOK /\ VotingShape /\ work \in {"processing", "ready", "deleting", "deleted"}
    /\ PagesFit /\ BallotsAsShown /\ DrawsEarned /\ FormFits /\ PrizesAccounted
    /\ PosterFits

\* What votes and draws are about, without the poster.
VotingRows ==
    VotingShape /\ PagesFit /\ BallotsAsShown /\ DrawsEarned /\ FormFits /\ PrizesAccounted

LEMMA WinnersCounted ==
    ASSUME drawn \in [Voter -> Item \cup {NoItem}], NEW i \in Item
    PROVE  IsFiniteSet(Winners(i)) /\ Cardinality(Winners(i)) \in Nat
BY VotingNames, FS_Subset, FS_CardinalityType DEF Winners

LEMMA VotingInitially ==
    ASSUME ReaperInit, VotingInit, stored \in SUBSET (Key \ {PosterKey})
    PROVE  VotingInv
<1>1. DeletionTypeOK /\ Untouched(Key)
  BY InitialDeletions
<1>2. /\ vote \in [Vote -> VoteRow] /\ page \in [Voter -> Shown]
      /\ \A p \in Voter : page[p].of = NoVote
  BY DEF VotingInit, NoPage, VoteRow, Shown
<1>3. /\ ballot \in [Vote -> [Voter -> Nat]] /\ saw = ballot
      /\ event = [version |-> 1, paused |-> FALSE]
      /\ drawn \in [Voter -> Item \cup {NoItem}] /\ \A p \in Voter : drawn[p] = NoItem
      /\ work = "processing" /\ pinned = FALSE
  BY DEF VotingInit
<1>4. /\ form = [version |-> 0, stock |-> [i \in Item |-> 0]]
      /\ stock = [i \in Item |-> 0] /\ supplied = [i \in Item |-> 0]
  BY DEF VotingInit, NoForm
<1>5. VotingShape
  BY <1>2, <1>3, <1>4 DEF VotingShape, Filled
<1>6. PagesFit /\ BallotsAsShown /\ DrawsEarned /\ FormFits
  BY <1>2, <1>3, <1>4, VotingNames DEF PagesFit, BallotsAsShown, DrawsEarned, FormFits
<1>7. PrizesAccounted
  <2>1. ASSUME NEW i \in Item PROVE supplied[i] = stock[i] + Cardinality({p \in Voter : drawn[p] = i})
    <3>1. {p \in Voter : drawn[p] = i} = {}
      BY <1>3, VotingNames
    <3>2. QED BY <1>4, <3>1, FS_EmptySet
  <2>2. QED BY <2>1 DEF PrizesAccounted
<1>8. PosterFits
  BY <1>1, <1>3, VotingNames DEF PosterFits, Untouched
<1> QED BY <1>1, <1>3, <1>5, <1>6, <1>7, <1>8 DEF VotingInv

\* A step of voters or operators leaves storage alone; the poster may pass to
\* the votes while its asset is ready.
LEMMA RowsMove ==
    ASSUME VotingInv, VotingRows', UNCHANGED <<deletionVars, work>>,
           pinned => pinned', pinned' => pinned \/ work = "ready"
    PROVE  VotingInv'
<1>1. UNCHANGED <<outbox, reaper, stored, lateDelete, work>>
  BY DEF deletionVars
<1>2. DeletionTypeOK' /\ work' \in {"processing", "ready", "deleting", "deleted"}
  BY <1>1 DEF VotingInv, DeletionTypeOK, LiveClaim
<1>3. PosterFits
  BY DEF VotingInv
<1>4. pinned' \/ work \in {"ready", "deleting"} => PosterKey \in stored
  BY <1>3 DEF PosterFits
<1>5. pinned' => Watched({PosterKey}, PosterTable)
  <2>1. CASE pinned
    BY <1>3, <2>1 DEF PosterFits
  <2>2. CASE ~pinned /\ work = "ready"
    <3>1. Untouched({PosterKey})
      BY <1>3, <2>2 DEF PosterFits
    <3>2. QED BY <3>1, UntouchedIsWatched
  <2>3. QED BY <2>1, <2>2
<1>6. ~pinned' /\ work # "deleted" => Untouched({PosterKey})
  BY <1>3 DEF PosterFits
<1>7. PosterFits'
  BY <1>1, <1>4, <1>5, <1>6 DEF PosterFits, Watched, Untouched
<1> QED BY <1>2, <1>7 DEF VotingInv, VotingRows

\* Votes and their edits: stock and draws stay.
LEMMA VotesKeep ==
    ASSUME VotingRows, UNCHANGED <<event, stock, drawn, form, supplied>>,
           vote' \in [Vote -> VoteRow], page' \in [Voter -> Shown],
           ballot' \in [Vote -> [Voter -> Nat]], saw' \in [Vote -> [Voter -> Nat]],
           PagesFit', BallotsAsShown',
           \A v \in Vote, p \in Voter : vote[v].linked /\ ballot[v][p] # 0 =>
               vote'[v].linked /\ ballot'[v][p] # 0
    PROVE  VotingRows'
<1>1. VotingShape' /\ FormFits'
  BY DEF VotingRows, VotingShape, FormFits
<1>2. DrawsEarned' /\ PrizesAccounted'
  BY DEF VotingRows, DrawsEarned, PrizesAccounted
<1> QED BY <1>1, <1>2 DEF VotingRows

LEMMA VotersVote ==
    ASSUME VotingRows,
           (\E p \in Voter, v \in Vote : View(p, v)) \/ (\E p \in Voter : Submit(p))
    PROVE  VotingRows'
<1>1. /\ VotingShape /\ PagesFit /\ BallotsAsShown
      /\ UNCHANGED <<vote, event, stock, drawn, form, supplied>>
  BY DEF VotingRows, View, Submit
<1>2. ASSUME NEW p \in Voter, NEW v \in Vote, View(p, v) PROVE VotingRows'
  <2>1. [of |-> v, version |-> vote[v].version, text |-> vote[v].text] \in Shown
    BY <1>1 DEF VotingShape, VoteRow, Shown
  <2>2. PICK now \in Shown : /\ now.of = v /\ now.version = vote[v].version
                             /\ now.text = vote[v].text
                             /\ page' = [page EXCEPT ![p] = now]
    BY <1>2, <2>1 DEF View
  <2>3. page' \in [Voter -> Shown] /\ UNCHANGED <<ballot, saw>>
    BY <1>1, <1>2, <2>2 DEF VotingShape, View
  <2>4. PagesFit'
    <3>1. ASSUME NEW q \in Voter, NEW u \in Vote, page'[q].of = u
          PROVE  /\ page'[q].version <= vote[u].version
                 /\ page'[q].version = vote[u].version => page'[q].text = vote[u].text
      <4>1. CASE q = p
        <5>1. page'[q] = now /\ u = v /\ vote[v].version \in Nat
          BY <1>1, <2>2, <3>1, <4>1 DEF VotingShape, VoteRow
        <5>2. QED BY <2>2, <5>1
      <4>2. CASE q # p
        BY <1>1, <2>2, <3>1, <4>2 DEF PagesFit, VotingShape
      <4>3. QED BY <4>1, <4>2
    <3>2. QED BY <1>1, <3>1 DEF PagesFit
  <2>5. BallotsAsShown'
    BY <1>1, <2>3 DEF BallotsAsShown
  <2>6. QED BY <1>1, <2>3, <2>4, <2>5, VotesKeep DEF VotingShape
<1>3. ASSUME NEW p \in Voter, Submit(p) PROVE VotingRows'
  <2>1. PICK v \in Vote : v = page[p].of
    BY <1>1, <1>3 DEF Submit, VotingShape, Shown
  <2>2. /\ vote[v].version = page[p].version /\ vote[v].text # 0
        /\ ballot' = [ballot EXCEPT ![v][p] = vote[v].text]
        /\ saw' = [saw EXCEPT ![v][p] = page[p].text]
        /\ page' = [page EXCEPT ![p] = NoPage]
    BY <1>3, <2>1 DEF Submit
  <2>3. page[p].text = vote[v].text /\ vote[v].text \in Nat
    BY <1>1, <2>1, <2>2 DEF PagesFit, VotingShape, VoteRow
  <2>4. page' \in [Voter -> Shown] /\ page'[p].of = NoVote
        /\ \A q \in Voter : q # p => page'[q] = page[q]
    BY <1>1, <2>2 DEF VotingShape, Shown, NoPage
  <2>5. /\ ballot' \in [Vote -> [Voter -> Nat]] /\ saw' \in [Vote -> [Voter -> Nat]]
        /\ \A u \in Vote, q \in Voter :
              IF u = v /\ q = p THEN ballot'[u][q] = vote[v].text /\ saw'[u][q] = vote[v].text
              ELSE ballot'[u][q] = ballot[u][q] /\ saw'[u][q] = saw[u][q]
    BY <1>1, <2>2, <2>3 DEF VotingShape
  <2>6. PagesFit'
    BY <1>1, <2>4, VotingNames DEF PagesFit
  <2>7. BallotsAsShown'
    BY <1>1, <2>5 DEF BallotsAsShown
  <2>8. \A u \in Vote, q \in Voter : vote[u].linked /\ ballot[u][q] # 0 =>
           vote'[u].linked /\ ballot'[u][q] # 0
    BY <1>1, <2>2, <2>5
  <2>9. QED BY <1>1, <2>4, <2>5, <2>6, <2>7, <2>8, VotesKeep DEF VotingShape
<1> QED BY <1>2, <1>3

LEMMA OperatorsEdit ==
    ASSUME VotingRows,
           \E v \in Vote : UpdateVote(v) \/ SaveCandidate(v) \/ ScheduleMoves(v)
    PROVE  VotingRows'
<1>1. /\ VotingShape /\ PagesFit /\ BallotsAsShown
      /\ UNCHANGED <<page, ballot, saw, event, stock, drawn, form, supplied>>
  BY DEF VotingRows, UpdateVote, SaveCandidate, ScheduleMoves
<1>2. PICK v \in Vote : UpdateVote(v) \/ SaveCandidate(v) \/ ScheduleMoves(v)
  OBVIOUS
<1>3. /\ vote' \in [Vote -> VoteRow] /\ \A u \in Vote : u # v => vote'[u] = vote[u]
      /\ vote'[v].linked = vote[v].linked \/ ~\E p \in Voter : ballot[v][p] # 0
      /\ \/ vote'[v].version = vote[v].version + 1
         \/ vote'[v].version = vote[v].version /\ vote'[v].text = vote[v].text
  <2>1. vote \in [Vote -> VoteRow]
    BY <1>1 DEF VotingShape
  <2>2. CASE UpdateVote(v)
    <3>1. PICK phase \in {"preparing", "open", "paused", "closed", "over"},
               linked \in BOOLEAN :
             /\ (\E p \in Voter : ballot[v][p] # 0) => linked = vote[v].linked
             /\ vote' = [vote EXCEPT ![v].phase = phase, ![v].linked = linked,
                                     ![v].version = vote[v].version + 1]
      BY <2>2 DEF UpdateVote
    <3>2. vote' \in [Vote -> VoteRow]
      BY <2>1, <3>1 DEF VoteRow
    <3>3. vote'[v].linked = linked /\ vote'[v].version = vote[v].version + 1
      BY <2>1, <3>1 DEF VoteRow
    <3>4. \A u \in Vote : u # v => vote'[u] = vote[u]
      BY <2>1, <3>1 DEF VoteRow
    <3>5. QED BY <3>1, <3>2, <3>3, <3>4
  <2>3. CASE SaveCandidate(v)
    <3>1. vote' = [vote EXCEPT ![v].text = vote[v].text + 1, ![v].version = vote[v].version + 1]
      BY <2>3 DEF SaveCandidate
    <3>2. vote' \in [Vote -> VoteRow]
      BY <2>1, <3>1 DEF VoteRow
    <3>3. vote'[v].linked = vote[v].linked
      BY <2>1, <3>1 DEF VoteRow
    <3>4. vote'[v].version = vote[v].version + 1
      BY <2>1, <3>1 DEF VoteRow
    <3>5. \A u \in Vote : u # v => vote'[u] = vote[u]
      BY <2>1, <3>1 DEF VoteRow
    <3>6. QED BY <3>2, <3>3, <3>4, <3>5
  <2>4. CASE ScheduleMoves(v)
    <3>1. PICK phase \in {"open", "closed", "over"} :
             vote' = [vote EXCEPT ![v].phase = phase]
      BY <2>4 DEF ScheduleMoves
    <3>2. QED BY <2>1, <3>1 DEF VoteRow
  <2>5. QED BY <1>2, <2>2, <2>3, <2>4
<1>4. PagesFit'
  <2>1. ASSUME NEW q \in Voter, NEW u \in Vote, page[q].of = u
        PROVE  /\ page[q].version <= vote'[u].version
               /\ page[q].version = vote'[u].version => page[q].text = vote'[u].text
    <3>1. /\ page[q].version <= vote[u].version /\ page[q].version \in Nat
          /\ page[q].version = vote[u].version => page[q].text = vote[u].text
          /\ vote[u].version \in Nat
      BY <1>1, <2>1 DEF PagesFit, VotingShape, VoteRow, Shown
    <3>2. QED BY <1>3, <3>1
  <2>2. QED BY <1>1, <2>1 DEF PagesFit
<1>5. BallotsAsShown'
  BY <1>1 DEF BallotsAsShown
<1>6. \A u \in Vote, p \in Voter : vote[u].linked /\ ballot[u][p] # 0 =>
         vote'[u].linked /\ ballot'[u][p] # 0
  BY <1>1, <1>3 DEF VotingShape
<1> QED BY <1>1, <1>3, <1>4, <1>5, <1>6, VotesKeep DEF VotingShape

\* A draw is a new version of the event, and a form of the old one is refused.
LEMMA VotersDraw ==
    ASSUME VotingRows, NEW p \in Voter, NEW i \in Item, Draw(p, i)
    PROVE  VotingRows'
<1>1. /\ VotingShape /\ FormFits /\ PrizesAccounted /\ DrawsEarned
      /\ UNCHANGED <<vote, page, ballot, saw, form, supplied>>
  BY DEF VotingRows, Draw, TakePrize
<1>2. /\ drawn[p] = NoItem /\ Eligible(p) /\ stock[i] > 0
      /\ stock' = [stock EXCEPT ![i] = stock[i] - 1]
      /\ drawn' = [drawn EXCEPT ![p] = i]
      /\ event' = [event EXCEPT !.version = event.version + 1]
  BY DEF Draw, TakePrize
<1>3. /\ stock' \in [Item -> Nat] /\ drawn' \in [Voter -> Item \cup {NoItem}]
      /\ event' \in [version : Nat \ {0}, paused : BOOLEAN]
      /\ event'.version = event.version + 1
  BY <1>1, <1>2 DEF VotingShape
<1>4. VotingShape' /\ PagesFit' /\ BallotsAsShown'
  BY <1>1, <1>3 DEF VotingRows, VotingShape, PagesFit, BallotsAsShown
<1>5. FormFits'
  BY <1>1, <1>3 DEF FormFits, VotingShape, Filled
<1>6. DrawsEarned'
  BY <1>1, <1>2 DEF DrawsEarned, Eligible, VotingShape
<1>7. ASSUME NEW j \in Item
      PROVE  supplied'[j] = stock'[j] + Cardinality({q \in Voter : drawn'[q] = j})
  <2>1. supplied[j] = stock[j] + Cardinality(Winners(j))
    BY <1>1 DEF PrizesAccounted, Winners
  <2>2. IsFiniteSet(Winners(j)) /\ Cardinality(Winners(j)) \in Nat
    BY <1>1, WinnersCounted DEF VotingShape
  <2>3. CASE j = i
    <3>1. {q \in Voter : drawn'[q] = j} = Winners(j) \cup {p} /\ p \notin Winners(j)
      BY <1>1, <1>2, <2>3, VotingNames DEF VotingShape, Winners
    <3>2. Cardinality(Winners(j) \cup {p}) = Cardinality(Winners(j)) + 1
      BY <2>2, <3>1, FS_AddElement
    <3>3. stock'[j] = stock[j] - 1 /\ stock[j] \in Nat
      BY <1>1, <1>2, <2>3 DEF VotingShape
    <3>4. PICK n \in Nat : n = Cardinality(Winners(j))
      BY <2>2
    <3>5. Cardinality({q \in Voter : drawn'[q] = j}) = n + 1 /\ supplied'[j] = stock[j] + n
      BY <1>1, <2>1, <3>1, <3>2, <3>4
    <3>6. QED BY <3>3, <3>4, <3>5
  <2>4. CASE j # i
    <3>1. {q \in Voter : drawn'[q] = j} = Winners(j)
      BY <1>1, <1>2, <2>4, VotingNames DEF VotingShape, Winners
    <3>2. stock'[j] = stock[j]
      BY <1>1, <1>2, <2>4 DEF VotingShape
    <3>3. QED BY <1>1, <2>1, <3>1, <3>2
  <2>5. QED BY <2>3, <2>4
<1> QED BY <1>4, <1>5, <1>6, <1>7 DEF VotingRows, PrizesAccounted

LEMMA OperatorSaves ==
    ASSUME VotingRows, OpenForm \/ SaveEvent
    PROVE  VotingRows'
<1>1. /\ VotingShape /\ FormFits /\ PrizesAccounted /\ DrawsEarned
      /\ UNCHANGED <<vote, page, ballot, saw, drawn>>
  BY DEF VotingRows, OpenForm, SaveEvent
<1>2. PagesFit' /\ BallotsAsShown' /\ DrawsEarned'
  BY <1>1 DEF VotingRows, PagesFit, BallotsAsShown, DrawsEarned
<1>3. CASE OpenForm
  <2>1. /\ form' = [version |-> event.version, stock |-> stock]
        /\ UNCHANGED <<event, stock, supplied>>
    BY <1>3 DEF OpenForm
  <2>2. form' \in Filled /\ form'.version = event.version /\ form'.stock = stock
    BY <1>1, <2>1 DEF VotingShape, Filled
  <2>3. VotingShape' /\ FormFits' /\ PrizesAccounted'
    BY <1>1, <2>1, <2>2 DEF VotingShape, FormFits, PrizesAccounted
  <2>4. QED BY <1>2, <2>3 DEF VotingRows
<1>4. CASE SaveEvent
  <2>1. PICK left \in [Item -> 0 .. MaxStock], paused \in BOOLEAN :
           /\ event' = [version |-> event.version + 1, paused |-> paused]
           /\ stock' = left
           /\ supplied' = [i \in Item |-> supplied[i] + left[i] - form.stock[i]]
    BY <1>4 DEF SaveEvent
  <2>2. /\ form' = NoForm /\ form.stock = stock
        /\ left \in [Item -> Nat]
    BY <1>1, <1>4, <2>1, VotingNames DEF SaveEvent, FormFits
  <2>3. ASSUME NEW i \in Item
        PROVE  /\ supplied'[i] = left[i] + Cardinality({p \in Voter : drawn[p] = i})
               /\ supplied'[i] \in Nat
    <3>1. supplied[i] = stock[i] + Cardinality(Winners(i)) /\ stock[i] \in Nat
      BY <1>1 DEF PrizesAccounted, Winners, VotingShape
    <3>2. Cardinality(Winners(i)) \in Nat
      BY <1>1, WinnersCounted DEF VotingShape
    <3>3. supplied'[i] = supplied[i] + left[i] - stock[i] /\ left[i] \in Nat
      BY <2>1, <2>2
    <3>4. supplied'[i] = left[i] + Cardinality(Winners(i))
      BY <3>1, <3>2, <3>3
    <3>5. QED BY <3>2, <3>3, <3>4 DEF Winners
  <2>4. /\ event' \in [version : Nat \ {0}, paused : BOOLEAN]
        /\ event'.version = event.version + 1 /\ event.version \in Nat
    BY <1>1, <2>1 DEF VotingShape
  <2>5. supplied' \in [Item -> Nat]
    BY <2>1, <2>3
  <2>6. form' \in Filled /\ form'.version = 0
    BY <2>2 DEF NoForm, Filled
  <2>7. VotingShape' /\ FormFits'
    BY <1>1, <2>1, <2>2, <2>4, <2>5, <2>6 DEF VotingShape, FormFits
  <2>8. PrizesAccounted'
    BY <1>1, <2>1, <2>3 DEF PrizesAccounted
  <2>9. QED BY <1>2, <2>7, <2>8 DEF VotingRows
<1> QED BY <1>3, <1>4

\* The poster: it is stored when its asset is ready, and queued when its asset
\* is deleted.
LEMMA PosterMoves ==
    ASSUME VotingInv, PosterReady \/ DeleteWork
    PROVE  VotingInv'
<1>1. VotingRows'
  <2>1. UNCHANGED <<vote, page, ballot, event, stock, drawn, form, saw, supplied>>
    BY DEF PosterReady, DeleteWork
  <2>2. QED BY <2>1 DEF VotingInv, VotingRows, VotingShape, PagesFit, BallotsAsShown,
               DrawsEarned, FormFits, PrizesAccounted
<1>2. DeletionTypeOK /\ PosterFits /\ UNCHANGED <<pinned, reaper, lateDelete>>
  BY DEF VotingInv, PosterReady, DeleteWork
<1>3. CASE PosterReady
  <2>1. /\ work = "processing" /\ work' = "ready" /\ stored' = stored \cup {PosterKey}
        /\ UNCHANGED outbox
    BY <1>3 DEF PosterReady
  <2>2. DeletionTypeOK'
    BY <1>2, <2>1, VotingNames DEF DeletionTypeOK, LiveClaim
  <2>3. PosterFits'
    BY <1>2, <2>1 DEF PosterFits, Watched, Untouched
  <2>4. QED BY <1>1, <2>1, <2>2, <2>3 DEF VotingInv, VotingRows
<1>4. CASE DeleteWork /\ work = "ready"
  <2>1. work' = "deleting" /\ UNCHANGED <<outbox, stored>>
    BY <1>4 DEF DeleteWork
  <2>2. DeletionTypeOK' /\ PosterFits'
    BY <1>2, <1>4, <2>1 DEF DeletionTypeOK, LiveClaim, PosterFits, Watched, Untouched
  <2>3. QED BY <1>1, <2>1, <2>2 DEF VotingInv, VotingRows
<1>5. CASE DeleteWork /\ work = "deleting"
  <2>1. work' = "deleted" /\ QueueDurableDeletions({PosterKey}) /\ UNCHANGED stored
    BY <1>5 DEF DeleteWork
  <2>2. DeletionTypeOK'
    BY <1>2, <2>1, VotingNames, Queueing
  <2>3. PosterFits'
    BY <1>2, <2>1 DEF PosterFits, Watched
  <2>4. QED BY <1>1, <2>1, <2>2, <2>3 DEF VotingInv, VotingRows
<1> QED BY <1>3, <1>4, <1>5 DEF DeleteWork

LEMMA ReaperOfPosters ==
    ASSUME VotingInv, UNCHANGED votingRows, DeletionStep(ReferredByVotes) \/ DeletionFault
    PROVE  VotingInv'
<1>1. VotingRows' /\ UNCHANGED <<work, pinned>>
  BY DEF votingRows, VotingInv, VotingRows, VotingShape, PagesFit, BallotsAsShown,
     DrawsEarned, FormFits, PrizesAccounted
<1>2. DeletionTypeOK /\ PosterFits /\ {PosterKey} \in SUBSET Key /\ PosterTable \in Table
  BY VotingNames DEF VotingInv
<1>3. \/ ReaperMoves
      \/ \E r \in Reaper, t \in Table : CollectReferences(r, t, ReferredByVotes(t))
  BY DEF DeletionStep, ReaperMoves
<1>4. DeletionTypeOK'
  BY <1>2, <1>3, DeletionTypeStep, CollectTypeStep
<1>5. ASSUME pinned
      PROVE  Watched({PosterKey}, PosterTable)' /\ PosterKey \in stored'
  <2>1. Watched({PosterKey}, PosterTable) /\ PosterKey \in stored
    BY <1>2, <1>5 DEF PosterFits
  <2>2. CASE ReaperMoves
    BY ONLY <1>2, <2>1, <2>2, WatchedStep
  <2>3. ASSUME NEW r \in Reaper, NEW t \in Table, CollectReferences(r, t, ReferredByVotes(t))
        PROVE  Watched({PosterKey}, PosterTable)' /\ {PosterKey} \cap stored \subseteq stored'
    <3>1. PICK referred : referred = ReferredByVotes(t)
      OBVIOUS
    <3>2. CollectReferences(r, t, referred) /\ (t = PosterTable => {PosterKey} \subseteq referred)
      BY <1>5, <2>3, <3>1 DEF ReferredByVotes
    <3>3. QED BY ONLY <1>2, <2>1, <3>2, WatchedCollect
  <2>4. QED BY <1>3, <2>1, <2>2, <2>3
<1>6. ASSUME ~pinned, work # "deleted"
      PROVE  Untouched({PosterKey})' /\ {PosterKey} \cap stored \subseteq stored'
  <2>1. Untouched({PosterKey})
    BY <1>2, <1>6 DEF PosterFits
  <2>2. CASE ReaperMoves
    BY ONLY <1>2, <2>1, <2>2, UntouchedStep
  <2>3. ASSUME NEW r \in Reaper, NEW t \in Table, CollectReferences(r, t, ReferredByVotes(t))
        PROVE  Untouched({PosterKey})' /\ {PosterKey} \cap stored \subseteq stored'
    <3>1. PICK referred : CollectReferences(r, t, referred)
      BY <2>3
    <3>2. QED BY ONLY <1>2, <2>1, <3>1, UntouchedCollect
  <2>4. QED BY <1>3, <2>2, <2>3
<1>7. PosterFits'
  BY <1>1, <1>2, <1>5, <1>6 DEF PosterFits
<1> QED BY <1>1, <1>4, <1>7 DEF VotingInv, VotingRows

LEMMA VotingInvStep ==
    ASSUME VotingInv, [VotingNext]_<<deletionVars, votingVars>>
    PROVE  VotingInv'
<1>1. VotingRows
  BY DEF VotingInv, VotingRows
<1>2. CASE VotingStep /\ UNCHANGED <<deletionVars, lost>>
  <2>1. UNCHANGED work /\ (pinned => pinned') /\ (pinned' => pinned \/ work = "ready")
    <3>1. ASSUME NEW v \in Vote, SaveCandidate(v)
          PROVE  UNCHANGED work /\ (pinned => pinned') /\ (pinned' => pinned \/ work = "ready")
      BY <3>1 DEF SaveCandidate
    <3>2. CASE ~\E v \in Vote : SaveCandidate(v)
      <4>1. ASSUME NEW p \in Voter, NEW v \in Vote, View(p, v) PROVE UNCHANGED <<work, pinned>>
        BY <4>1 DEF View
      <4>2. ASSUME NEW p \in Voter, Submit(p) PROVE UNCHANGED <<work, pinned>>
        BY <4>2 DEF Submit
      <4>3. ASSUME NEW p \in Voter, NEW i \in Item, Draw(p, i) PROVE UNCHANGED <<work, pinned>>
        BY <4>3 DEF Draw, TakePrize
      <4>4. ASSUME NEW v \in Vote, UpdateVote(v) \/ ScheduleMoves(v)
            PROVE  UNCHANGED <<work, pinned>>
        BY <4>4 DEF UpdateVote, ScheduleMoves
      <4>5. ASSUME OpenForm \/ SaveEvent PROVE UNCHANGED <<work, pinned>>
        BY <4>5 DEF OpenForm, SaveEvent
      <4>6. UNCHANGED <<work, pinned>>
        BY <1>2, <3>2, <4>1, <4>2, <4>3, <4>4, <4>5 DEF VotingStep
      <4>7. QED BY <4>6
    <3>3. QED BY <3>1, <3>2
  <2>2. VotingRows'
    BY <1>1, <1>2, VotersVote, OperatorsEdit, VotersDraw, OperatorSaves DEF VotingStep
  <2>3. QED BY <1>2, <2>1, <2>2, RowsMove
<1>3. CASE (PosterReady \/ DeleteWork) /\ UNCHANGED lost
  BY <1>3, PosterMoves
<1>4. CASE DeletionStep(ReferredByVotes) /\ UNCHANGED votingVars
  BY <1>4, ReaperOfPosters DEF votingVars
<1>5. CASE lost < MaxLost /\ lost' = lost + 1 /\ DeletionFault /\ UNCHANGED votingRows
  BY <1>5, ReaperOfPosters
<1>6. CASE UNCHANGED <<deletionVars, votingVars>>
  <2>1. UNCHANGED <<deletionVars, work, pinned>> /\ VotingRows'
    BY <1>1, <1>6 DEF votingVars, votingRows, VotingRows, VotingShape, PagesFit, BallotsAsShown,
       DrawsEarned, FormFits, PrizesAccounted
  <2>2. QED BY <2>1, RowsMove
<1> QED BY <1>2, <1>3, <1>4, <1>5, <1>6 DEF VotingNext

\* Whoever votes, edits, draws or deletes the work of a candidate meanwhile: a
\* ballot holds what its voter saw, who drew had voted, every prize put in
\* stock is there or was drawn, and the posters of the votes stay.
THEOREM VotesAlwaysHonoured == VotingSpec => []VotesHonoured
<1>1. ReaperInit /\ VotingInit /\ stored \in SUBSET (Key \ {PosterKey}) => VotingInv
  BY VotingInitially
<1>2. VotingInv /\ [VotingNext]_<<deletionVars, votingVars>> => VotingInv'
  BY VotingInvStep
<1>3. VotingInv => VotesHonoured
  BY DEF VotingInv, VotesHonoured, PostersKept, PosterFits
<1>4. QED BY <1>1, <1>2, <1>3, PTL DEF VotingSpec

\* The bounds: an edit is a new version, only some bring a new text, and a
\* ballot holds a text there has been.
VotingBounds ==
    /\ \A v \in Vote : /\ vote[v].version <= MaxVoteEdits /\ vote[v].text <= vote[v].version
                       /\ \A p \in Voter : ballot[v][p] <= vote[v].text
    /\ event.version <= MaxSaves /\ \A i \in Item : stock[i] <= MaxStock
    /\ pinned \in BOOLEAN /\ lost \in 0 .. MaxLost

LEMMA BoundsKept ==
    ASSUME VotingInv, VotingBounds, [VotingNext]_<<deletionVars, votingVars>>
    PROVE  VotingBounds'
<1>1. /\ vote \in [Vote -> VoteRow] /\ ballot \in [Vote -> [Voter -> Nat]]
      /\ stock \in [Item -> Nat] /\ event \in [version : Nat \ {0}, paused : BOOLEAN]
      /\ page \in [Voter -> Shown]
      /\ {MaxVoteEdits, MaxSaves, MaxStock, MaxLost} \subseteq Nat
  BY VotingNames DEF VotingInv, VotingShape
<1>2. \A v \in Vote : vote[v].version \in Nat /\ vote[v].text \in Nat
  BY <1>1 DEF VoteRow
<1>3. ASSUME NEW p \in Voter, NEW v \in Vote, View(p, v), UNCHANGED lost
      PROVE  VotingBounds'
  BY <1>3 DEF View, VotingBounds
<1>4. ASSUME NEW p \in Voter, Submit(p), UNCHANGED lost
      PROVE  VotingBounds'
  <2> DEFINE v == page[p].of
  <2>1. v \in Vote
    BY <1>1, <1>4, VotingNames DEF Submit, Shown
  <2>2. \A w \in Vote, q \in Voter :
            ballot'[w][q] = IF w = v /\ q = p THEN vote[v].text ELSE ballot[w][q]
    BY <1>1, <1>4, <2>1 DEF Submit
  <2>3. UNCHANGED <<vote, event, stock, pinned, lost>>
    BY <1>4 DEF Submit
  <2>4. \A w \in Vote, q \in Voter : ballot'[w][q] <= vote[w].text
    <3> HIDE DEF v
    <3> QED  BY <1>2, <2>1, <2>2 DEF VotingBounds
  <2> QED  BY <2>3, <2>4 DEF VotingBounds
<1>5. ASSUME NEW p \in Voter, NEW i \in Item, Draw(p, i), UNCHANGED lost
      PROVE  VotingBounds'
  <2>1. UNCHANGED <<vote, ballot, pinned, lost>>
    BY <1>5 DEF Draw, TakePrize
  <2>2. \A j \in Item : stock'[j] = IF j = i THEN stock[i] - 1 ELSE stock[j]
    BY <1>1, <1>5 DEF Draw, TakePrize
  <2>3. \A j \in Item : stock'[j] <= MaxStock
    BY <1>1, <2>2 DEF VotingBounds
  <2>4. event'.version <= MaxSaves
    BY <1>1, <1>5 DEF Draw
  <2> QED  BY <2>1, <2>3, <2>4 DEF VotingBounds
<1>6. ASSUME NEW v \in Vote, UpdateVote(v) \/ SaveCandidate(v) \/ ScheduleMoves(v), UNCHANGED lost
      PROVE  VotingBounds'
  <2>1. UNCHANGED <<ballot, event, stock, lost>> /\ pinned' \in BOOLEAN
    BY <1>6 DEF UpdateVote, SaveCandidate, ScheduleMoves, VotingBounds
  <2>2. \A w \in Vote : /\ vote'[w].version \in Nat /\ vote'[w].text \in Nat
                        /\ vote'[w].version <= MaxVoteEdits /\ vote'[w].text <= vote'[w].version
                        /\ vote[w].text <= vote'[w].text
    <3>1. CASE UpdateVote(v)
      <4>1. /\ vote[v].version < MaxVoteEdits
            /\ \A w \in Vote : /\ vote'[w].text = vote[w].text
                               /\ vote'[w].version = IF w = v THEN vote[w].version + 1
                                                     ELSE vote[w].version
        BY <1>1, <3>1 DEF UpdateVote, VoteRow
      <4> QED  BY <1>1, <1>2, <4>1 DEF VotingBounds
    <3>2. CASE SaveCandidate(v)
      <4>1. /\ vote[v].version < MaxVoteEdits
            /\ \A w \in Vote : /\ vote'[w].text = IF w = v THEN vote[w].text + 1 ELSE vote[w].text
                               /\ vote'[w].version = IF w = v THEN vote[w].version + 1
                                                     ELSE vote[w].version
        BY <1>1, <3>2 DEF SaveCandidate, VoteRow
      <4> QED  BY <1>1, <1>2, <4>1 DEF VotingBounds
    <3>3. CASE ScheduleMoves(v)
      <4>1. \A w \in Vote : vote'[w].text = vote[w].text /\ vote'[w].version = vote[w].version
        BY <1>1, <3>3 DEF ScheduleMoves, VoteRow
      <4> QED  BY <1>1, <1>2, <4>1 DEF VotingBounds
    <3> QED  BY <1>6, <3>1, <3>2, <3>3
  <2>3. \A w \in Vote, p \in Voter : ballot[w][p] \in Nat /\ ballot[w][p] <= vote[w].text
    BY <1>1 DEF VotingBounds
  <2>4. \A w \in Vote, p \in Voter : ballot'[w][p] <= vote'[w].text
    BY <1>2, <2>1, <2>2, <2>3
  <2> QED  BY <2>1, <2>2, <2>4 DEF VotingBounds
<1>7. ASSUME OpenForm, UNCHANGED lost
      PROVE  VotingBounds'
  BY <1>7 DEF OpenForm, VotingBounds
<1>8. ASSUME SaveEvent, UNCHANGED lost
      PROVE  VotingBounds'
  <2>1. UNCHANGED <<vote, ballot, pinned, lost>>
    BY <1>8 DEF SaveEvent
  <2>2. event'.version <= MaxSaves /\ \A j \in Item : stock'[j] <= MaxStock
    BY <1>1, <1>8 DEF SaveEvent
  <2> QED  BY <2>1, <2>2 DEF VotingBounds
<1>9. CASE VotingStep /\ UNCHANGED <<deletionVars, lost>>
  BY <1>3, <1>4, <1>5, <1>6, <1>7, <1>8, <1>9 DEF VotingStep
<1>10. CASE UNCHANGED <<vote, ballot, event, stock, pinned, lost>>
  BY <1>10 DEF VotingBounds
<1>11. CASE lost < MaxLost /\ lost' = lost + 1 /\ DeletionFault /\ UNCHANGED votingRows
  BY <1>1, <1>11 DEF VotingBounds, votingRows
<1> QED
  BY <1>9, <1>10, <1>11 DEF VotingNext, votingVars, votingRows, PosterReady, DeleteWork

\* A ballot holds one of the texts there have been, and no step leaves the
\* values of the rows (voting/service.ts:306, :433).
THEOREM VotingTypesHold == VotingSpec => []VotingTypeOK
<1>1. ReaperInit /\ VotingInit /\ stored \in SUBSET (Key \ {PosterKey}) => VotingInv /\ VotingBounds
  <2>1. ASSUME VotingInit  PROVE VotingBounds
    <3>1. MaxVoteEdits \in Nat /\ MaxSaves \in Nat \ {0} /\ MaxStock \in Nat /\ MaxLost \in Nat
      BY VotingNames
    <3>2. \A v \in Vote : vote[v].version = 0 /\ vote[v].text = 0 /\ \A p \in Voter : ballot[v][p] = 0
      BY <2>1 DEF VotingInit
    <3>3. event.version = 1 /\ pinned = FALSE /\ lost = 0 /\ \A i \in Item : stock[i] = 0
      BY <2>1 DEF VotingInit, NoForm
    <3>4. \A v \in Vote : /\ vote[v].version <= MaxVoteEdits /\ vote[v].text <= vote[v].version
                          /\ \A p \in Voter : ballot[v][p] <= vote[v].text
      BY <3>1, <3>2
    <3>5. /\ event.version <= MaxSaves /\ \A i \in Item : stock[i] <= MaxStock
          /\ lost \in 0 .. MaxLost
      BY <3>1, <3>3
    <3>6. pinned \in BOOLEAN
      BY <3>3
    <3> QED  BY <3>4, <3>5, <3>6 DEF VotingBounds
  <2> QED  BY <2>1, VotingInitially
<1>2. VotingInv /\ VotingBounds /\ [VotingNext]_<<deletionVars, votingVars>>
          => VotingInv' /\ VotingBounds'
  BY VotingInvStep, BoundsKept
<1>3. ASSUME VotingInv, VotingBounds  PROVE VotingTypeOK
  <2>1. /\ vote \in [Vote -> VoteRow] /\ ballot \in [Vote -> [Voter -> Nat]]
        /\ stock \in [Item -> Nat] /\ event \in [version : Nat \ {0}, paused : BOOLEAN]
        /\ page \in [Voter -> Shown] /\ drawn \in [Voter -> Item \cup {NoItem}]
        /\ {MaxVoteEdits, MaxSaves, MaxStock, MaxLost} \subseteq Nat
    BY <1>3, VotingNames DEF VotingInv, VotingShape
  <2>2. \A v \in Vote : vote[v] \in [phase : {"preparing", "open", "paused", "closed", "over"},
                                     linked : BOOLEAN, version : 0 .. MaxVoteEdits,
                                     text : 0 .. MaxVoteEdits]
    <3> TAKE v \in Vote
    <3>1. vote[v] \in VoteRow /\ vote[v].version <= MaxVoteEdits /\ vote[v].text <= vote[v].version
      BY <1>3, <2>1 DEF VotingBounds
    <3>2. vote[v].version \in 0 .. MaxVoteEdits /\ vote[v].text \in 0 .. MaxVoteEdits
      BY <2>1, <3>1 DEF VoteRow
    <3> QED  BY <3>1, <3>2 DEF VoteRow
  <2>3. \A v \in Vote, p \in Voter : ballot[v][p] \in 0 .. MaxVoteEdits
    <3> TAKE v \in Vote, p \in Voter
    <3>1. /\ ballot[v][p] \in Nat /\ ballot[v][p] <= vote[v].text
          /\ vote[v].text \in 0 .. MaxVoteEdits
      BY <1>3, <2>1, <2>2 DEF VotingBounds
    <3> QED  BY <2>1, <3>1
  <2>4. event \in [version : 1 .. MaxSaves, paused : BOOLEAN]
    <3>1. event.version <= MaxSaves
      BY <1>3 DEF VotingBounds
    <3> QED  BY <2>1, <3>1
  <2>5. stock \in [Item -> 0 .. MaxStock]
    <3>1. \A i \in Item : stock[i] \in 0 .. MaxStock
      BY <1>3, <2>1 DEF VotingBounds
    <3> QED  BY <2>1, <3>1
  <2>6. vote \in [Vote -> [phase : {"preparing", "open", "paused", "closed", "over"},
                           linked : BOOLEAN, version : 0 .. MaxVoteEdits,
                           text : 0 .. MaxVoteEdits]]
    BY <2>1, <2>2
  <2>7. ballot \in [Vote -> [Voter -> 0 .. MaxVoteEdits]]
    BY <2>1, <2>3
  <2>8. \A p \in Voter : page[p].of \in Vote \cup {NoVote}
    BY <2>1 DEF Shown
  <2> QED  BY <1>3, <2>1, <2>4, <2>5, <2>6, <2>7, <2>8 DEF VotingTypeOK, VotingInv, VotingBounds
<1>4. QED BY <1>1, <1>2, <1>3, PTL DEF VotingSpec

-----------------------------------------------------------------------------
(***************************************************************************)
(* The index of references.  A node counts what ends there and below, and  *)
(* a look-up adds up the nodes on the way to its target.  The sum is a fold*)
(* over lengths; the counts of the references above, taken for every set of*)
(* lengths, are one function that it defines, and the only one.            *)
(***************************************************************************)
\* The references that end at a node, and those that end at or below it.
ExactAt(n)  == {r \in references : r.kind = "EXACT" /\ r.key = n}
PrefixAt(n) == {r \in references : r.kind = "PREFIX" /\ r.key = n}
Below(n)    == {r \in references : n \in PathOf(r.key)}

CountsOf(n) == [exact   |-> Cardinality(ExactAt(n)),
                prefix  |-> Cardinality(PrefixAt(n)),
                subtree |-> Cardinality(Below(n))]

\* A node counts what ends there and below, and there is one for each start
\* of a key.
IndexInv ==
    /\ references \in SUBSET Reference
    /\ IsFiniteSet(references) /\ Cardinality(references) <= MaxRefs
    /\ DOMAIN trie = UNION {PathOf(r.key) : r \in references}
    /\ \A n \in DOMAIN trie : trie[n] = CountsOf(n)

\* Keys are sequences, and the starts of a key are keys.
LEMMA TextIsSeq ==
    ASSUME NEW k \in Text
    PROVE  k \in Seq(Character) /\ Len(k) \in 0 .. MaxLength
BY IndexBounds DEF Text, IndexBounds

LEMMA Starts ==
    ASSUME NEW k \in Text, NEW n \in 0 .. Len(k)
    PROVE  /\ SubSeq(k, 1, n) \in Text
           /\ Len(SubSeq(k, 1, n)) = n
           /\ \A m \in 0 .. n : SubSeq(SubSeq(k, 1, n), 1, m) = SubSeq(k, 1, m)
           /\ SubSeq(k, 1, Len(k)) = k
<1>1. k \in Seq(Character) /\ Len(k) \in 0 .. MaxLength /\ MaxLength \in Nat
  BY TextIsSeq, IndexBounds DEF IndexBounds
<1>2. SubSeq(k, 1, n) = [i \in 1 .. n |-> k[i]]
  BY <1>1
<1>3. SubSeq(k, 1, n) \in [1 .. n -> Character]
  <2>1. \A i \in 1 .. n : i \in 1 .. Len(k) /\ k[i] \in Character
    BY <1>1
  <2> QED  BY <1>2, <2>1
<1>4. SubSeq(k, 1, n) \in Text
  BY <1>1, <1>3 DEF Text
<1>5. Len(SubSeq(k, 1, n)) = n /\ SubSeq(k, 1, n) \in Seq(Character)
  BY <1>1, <1>3
<1>6. ASSUME NEW m \in 0 .. n
      PROVE  SubSeq(SubSeq(k, 1, n), 1, m) = SubSeq(k, 1, m)
  <2>1. SubSeq(k, 1, m) = [i \in 1 .. m |-> k[i]]
    BY <1>1
  <2>2. SubSeq(SubSeq(k, 1, n), 1, m) = [i \in 1 .. m |-> SubSeq(k, 1, n)[i]]
    BY <1>5
  <2>3. \A i \in 1 .. m : SubSeq(k, 1, n)[i] = k[i]
    BY <1>1, <1>2
  <2> QED  BY <2>1, <2>2, <2>3
<1>7. SubSeq(k, 1, Len(k)) = k
  BY <1>1
<1> QED  BY <1>4, <1>5, <1>6, <1>7

\* The nodes of a key are where its starts end.
LEMMA PathStarts ==
    ASSUME NEW k \in Text, NEW start \in Text
    PROVE  /\ start \in PathOf(k) <=> StartsWith(k, start)
           /\ PathOf(k) \subseteq Text /\ k \in PathOf(k)
           /\ \A n \in 0 .. Len(start) :
                  start \in PathOf(k) => SubSeq(start, 1, n) \in PathOf(k)
<1>1. Len(k) \in Nat /\ Len(start) \in Nat
  BY TextIsSeq, IndexBounds DEF IndexBounds
<1>2. \A n \in 0 .. Len(k) : SubSeq(k, 1, n) \in Text /\ Len(SubSeq(k, 1, n)) = n
  BY Starts
<1>3. SubSeq(k, 1, Len(k)) = k
  BY <1>1, Starts
<1>4. start \in PathOf(k) <=> StartsWith(k, start)
  BY <1>1, <1>2 DEF PathOf, StartsWith
<1>5. PathOf(k) \subseteq Text /\ k \in PathOf(k)
  <2>1. Len(k) \in 0 .. Len(k)
    BY <1>1
  <2> QED  BY <1>2, <1>3, <2>1 DEF PathOf
<1>6. ASSUME start \in PathOf(k), NEW n \in 0 .. Len(start)
      PROVE  SubSeq(start, 1, n) \in PathOf(k)
  <2>1. Len(start) \in 0 .. Len(k) /\ SubSeq(k, 1, Len(start)) = start
    BY <1>1, <1>4, <1>6 DEF StartsWith
  <2>2. SubSeq(start, 1, n) = SubSeq(k, 1, n)
    BY <2>1, Starts
  <2> QED  BY <1>1, <2>1, <2>2 DEF PathOf
<1> QED  BY <1>4, <1>5, <1>6

\* Where there is no node, nothing ends.
LEMMA NodeCounts ==
    ASSUME IndexInv, NEW n \in Text
    PROVE  /\ NodeAt(n) = CountsOf(n)
           /\ n \notin DOMAIN trie => ExactAt(n) = {} /\ PrefixAt(n) = {} /\ Below(n) = {}
           /\ IsFiniteSet(ExactAt(n)) /\ IsFiniteSet(PrefixAt(n)) /\ IsFiniteSet(Below(n))
<1>1. \A r \in references : r.key \in Text /\ r.key \in PathOf(r.key)
  BY PathStarts DEF IndexInv, Reference
<1>2. n \notin DOMAIN trie => ExactAt(n) = {} /\ PrefixAt(n) = {} /\ Below(n) = {}
  BY <1>1 DEF IndexInv, ExactAt, PrefixAt, Below
<1>3. IsFiniteSet(ExactAt(n)) /\ IsFiniteSet(PrefixAt(n)) /\ IsFiniteSet(Below(n))
  BY FS_Subset DEF IndexInv, ExactAt, PrefixAt, Below
<1>4. NodeAt(n) = CountsOf(n)
  BY <1>2, FS_EmptySet DEF NodeAt, NoNode, CountsOf, IndexInv
<1> QED  BY <1>2, <1>3, <1>4

\* References, or what is left of them, are counted once.
LEMMA CountTwo ==
    ASSUME NEW A, NEW B, IsFiniteSet(A), IsFiniteSet(B), A \cap B = {}
    PROVE  /\ IsFiniteSet(A \cup B)
           /\ Cardinality(A \cup B) = Cardinality(A) + Cardinality(B)
           /\ Cardinality(A) \in Nat /\ Cardinality(B) \in Nat
<1>1. /\ IsFiniteSet(A \cup B)
      /\ Cardinality(A \cup B) = Cardinality(A) + Cardinality(B) - Cardinality(A \cap B)
  BY FS_Union, Zenon
<1>2. Cardinality(A \cap B) = 0
  BY FS_EmptySet
<1>3. Cardinality(A) \in Nat /\ Cardinality(B) \in Nat
  BY FS_CardinalityType, Zenon
<1> QED  BY <1>1, <1>2, <1>3

LEMMA CountOne ==
    ASSUME NEW S, NEW x, IsFiniteSet(S), x \notin S
    PROVE  /\ IsFiniteSet(S \cup {x})
           /\ Cardinality(S \cup {x}) = Cardinality(S) + 1
           /\ Cardinality(S) \in Nat
<1>1. IsFiniteSet(S \cup {x}) /\ Cardinality(S \cup {x}) = Cardinality(S) + 1
  BY FS_AddElement, Zenon
<1>2. Cardinality(S) \in Nat
  BY FS_CardinalityType, Zenon
<1> QED  BY <1>1, <1>2

\* One turn of the loop counts the new reference at the nodes of its key.
LEMMA CountsKept ==
    ASSUME IndexInv, Cardinality(references) < MaxRefs,
           NEW ref \in Reference \ references, IndexReference(ref)
    PROVE  IndexInv'
<1>1. ref.key \in Text /\ ref.kind \in {"EXACT", "PREFIX"}
  BY DEF Reference
<1>2. PathOf(ref.key) \subseteq Text /\ ref.key \in PathOf(ref.key)
  BY <1>1, PathStarts
<1>3. references' = references \cup {ref}
  BY DEF IndexReference
<1>4. /\ references' \in SUBSET Reference
      /\ IsFiniteSet(references') /\ Cardinality(references') <= MaxRefs
  <2>1. references' \in SUBSET Reference
    BY <1>3 DEF IndexInv
  <2>2. /\ IsFiniteSet(references') /\ Cardinality(references') = Cardinality(references) + 1
        /\ Cardinality(references) \in Nat
    BY <1>3, CountOne DEF IndexInv
  <2> QED  BY <2>1, <2>2, IndexBounds DEF IndexBounds
<1>5. DOMAIN trie' = UNION {PathOf(r.key) : r \in references'}
  BY <1>3 DEF IndexInv, IndexReference
<1>6. \A r \in references : PathOf(r.key) \subseteq Text
  BY PathStarts DEF IndexInv, Reference
<1>7. ASSUME NEW n \in DOMAIN trie'
      PROVE  trie'[n] = CountsOf(n)'
  <2>1. n \in Text /\ n \in DOMAIN trie \cup PathOf(ref.key)
    BY <1>2, <1>6, <1>7 DEF IndexInv, IndexReference
  <2>2. /\ NodeAt(n) = CountsOf(n)
        /\ IsFiniteSet(ExactAt(n)) /\ IsFiniteSet(PrefixAt(n)) /\ IsFiniteSet(Below(n))
    BY <2>1, NodeCounts
  <2>3. /\ NodeAt(n).exact = Cardinality(ExactAt(n))
        /\ NodeAt(n).prefix = Cardinality(PrefixAt(n))
        /\ NodeAt(n).subtree = Cardinality(Below(n))
    BY <2>2 DEF CountsOf
  <2>4. /\ Cardinality(ExactAt(n)) \in Nat /\ Cardinality(PrefixAt(n)) \in Nat
        /\ Cardinality(Below(n)) \in Nat
    BY <2>2, FS_CardinalityType
  <2>5. Cardinality(ExactAt(n)') = Cardinality(ExactAt(n))
            + (IF n = ref.key /\ ref.kind = "EXACT" THEN 1 ELSE 0)
    <3>1. ExactAt(n)' = IF n = ref.key /\ ref.kind = "EXACT"
                        THEN ExactAt(n) \cup {ref} ELSE ExactAt(n)
      BY <1>3 DEF ExactAt
    <3>2. ref \notin ExactAt(n)
      BY DEF ExactAt
    <3>3. Cardinality(ExactAt(n) \cup {ref}) = Cardinality(ExactAt(n)) + 1
      BY <2>2, <3>2, CountOne
    <3> QED  BY <2>4, <3>1, <3>3
  <2>6. Cardinality(PrefixAt(n)') = Cardinality(PrefixAt(n))
            + (IF n = ref.key /\ ref.kind = "PREFIX" THEN 1 ELSE 0)
    <3>1. PrefixAt(n)' = IF n = ref.key /\ ref.kind = "PREFIX"
                         THEN PrefixAt(n) \cup {ref} ELSE PrefixAt(n)
      BY <1>3 DEF PrefixAt
    <3>2. ref \notin PrefixAt(n)
      BY DEF PrefixAt
    <3>3. Cardinality(PrefixAt(n) \cup {ref}) = Cardinality(PrefixAt(n)) + 1
      BY <2>2, <3>2, CountOne
    <3> QED  BY <2>4, <3>1, <3>3
  <2>7. Cardinality(Below(n)') = Cardinality(Below(n))
            + (IF n \in PathOf(ref.key) THEN 1 ELSE 0)
    <3>1. Below(n)' = IF n \in PathOf(ref.key) THEN Below(n) \cup {ref} ELSE Below(n)
      BY <1>3 DEF Below
    <3>2. ref \notin Below(n)
      BY DEF Below
    <3>3. Cardinality(Below(n) \cup {ref}) = Cardinality(Below(n)) + 1
      BY <2>2, <3>2, CountOne
    <3> QED  BY <2>4, <3>1, <3>3
  <2>8. CountsOf(n)' = [exact   |-> Cardinality(ExactAt(n)'),
                        prefix  |-> Cardinality(PrefixAt(n)'),
                        subtree |-> Cardinality(Below(n)')]
    BY DEF CountsOf
  <2> QED  BY <2>1, <2>3, <2>5, <2>6, <2>7, <2>8 DEF IndexReference
<1> QED  BY <1>4, <1>5, <1>7 DEF IndexInv

\* Counting is all the loop does.
LEMMA IndexInvHolds ==
    IndexInit /\ [][IndexNext]_indexVars => []IndexInv
<1>1. IndexInit => IndexInv
  BY FS_EmptySet, IndexBounds DEF IndexInit, IndexInv, IndexBounds
<1>2. IndexInv /\ [IndexNext]_indexVars => IndexInv'
  <2>1. ASSUME IndexInv, IndexNext  PROVE IndexInv'
    BY <2>1, CountsKept DEF IndexNext
  <2>2. ASSUME IndexInv, UNCHANGED indexVars  PROVE IndexInv'
    BY <2>2 DEF IndexInv, indexVars, CountsOf, ExactAt, PrefixAt, Below
  <2> QED  BY <2>1, <2>2
<1> QED  BY <1>1, <1>2, PTL

\* PREFIX references at the starts of a key that have a length of a set.
Above(t, s) == {r \in references : r.kind = "PREFIX" /\ \E n \in s : r.key = SubSeq(t.key, 1, n)}

\* The nodes above a target whose PREFIX references are added up.
Lengths(t) == {n \in 0 .. Walked(t.key) : t.kind = "EXACT" \/ n < Len(t.key)}

\* The walk of a key goes as far as there are nodes.
LEMMA WalkEnds ==
    ASSUME IndexInv, references # {}, NEW k \in Text
    PROVE  /\ Walked(k) \in 0 .. Len(k)
           /\ \A n \in 0 .. Len(k) : SubSeq(k, 1, n) \in DOMAIN trie => n <= Walked(k)
           /\ Walked(k) = Len(k) <=> k \in DOMAIN trie
<1> DEFINE S == {n \in 0 .. Len(k) : SubSeq(k, 1, n) \in DOMAIN trie}
           T == {Len(k) - n : n \in S}
<1>1. Len(k) \in Nat
  BY TextIsSeq, IndexBounds DEF IndexBounds
<1>2. 0 \in S
  <2>1. PICK r \in references : r.key \in Text
    BY DEF IndexInv, Reference
  <2>2. Len(r.key) \in Nat /\ SubSeq(r.key, 1, 0) \in PathOf(r.key)
    BY <2>1, TextIsSeq, IndexBounds DEF IndexBounds, PathOf
  <2>3. SubSeq(r.key, 1, 0) = <<>> /\ SubSeq(k, 1, 0) = <<>>
    BY <1>1, <2>1, <2>2, TextIsSeq
  <2>4. PathOf(r.key) \subseteq DOMAIN trie
    BY DEF IndexInv
  <2>5. 0 \in 0 .. Len(k) /\ SubSeq(k, 1, 0) \in DOMAIN trie
    <3>1. SubSeq(r.key, 1, 0) = SubSeq(k, 1, 0)
      BY <2>3, Zenon
    <3>2. 0 \in 0 .. Len(k)
      BY <1>1
    <3> QED  BY <2>2, <2>4, <3>1, <3>2, Zenon
  <2> QED  BY <2>5
<1>3. \E m \in S : \A n \in S : m >= n
  <2>1. T \subseteq Nat /\ T # {}
    BY <1>1, <1>2
  <2>2. PICK x \in T : \A y \in T : ~ (<<y, x>> \in OpToRel(<, Nat))
    BY <2>1, NatLessThanWellFounded, WFMin, Zenon
  <2>3. \A y \in T : ~ (y < x)
    BY <2>1, <2>2 DEF OpToRel
  <2>4. PICK m \in S : x = Len(k) - m
    BY <2>2
  <2>5. ASSUME NEW n \in S  PROVE m >= n
    <3>1. Len(k) - n \in T
      OBVIOUS
    <3>2. ~ (Len(k) - n < Len(k) - m)
      BY <2>3, <2>4, <3>1
    <3>3. m \in Nat /\ n \in Nat
      BY <1>1
    <3> HIDE DEF S, T
    <3> QED  BY <1>1, <3>2, <3>3
  <2> QED  BY <2>5
<1>4. Walked(k) \in S /\ \A n \in S : Walked(k) >= n
  BY <1>3 DEF Walked, Max
<1>5. SubSeq(k, 1, Len(k)) = k
  BY <1>1, Starts
<1>6. Walked(k) \in 0 .. Len(k) /\ SubSeq(k, 1, Walked(k)) \in DOMAIN trie
  BY <1>4
<1>7. ASSUME NEW n \in 0 .. Len(k), SubSeq(k, 1, n) \in DOMAIN trie  PROVE n <= Walked(k)
  <2>1. n \in S
    BY <1>7
  <2>2. Walked(k) >= n
    BY <1>4, <2>1
  <2> HIDE DEF S
  <2> QED  BY <1>6, <2>2
<1>8. Walked(k) = Len(k) => k \in DOMAIN trie
  BY <1>5, <1>6
<1>9. k \in DOMAIN trie => Walked(k) = Len(k)
  <2>1. k \in DOMAIN trie => Len(k) <= Walked(k)
    <3>1. Len(k) \in 0 .. Len(k)
      BY <1>1
    <3> QED  BY <1>5, <1>7, <3>1, Zenon
  <2> HIDE DEF S
  <2> QED  BY <1>1, <1>6, <2>1
<1> QED  BY <1>6, <1>7, <1>8, <1>9

\* The sum of a look-up, unfolded.
LEMMA SumUnfolds ==
    ASSUME NEW t
    PROVE  LET F[s \in SUBSET Lengths(t)] ==
                 IF s = {} THEN 0
                 ELSE NodeAt(SubSeq(t.key, 1, CHOOSE x \in s : TRUE)).prefix
                      + F[s \ {CHOOSE x \in s : TRUE}]
           IN  AncestorPrefixCount(t) = F[Lengths(t)]
BY DEF AncestorPrefixCount, MapThenSumSet, MapThenFoldSet, Lengths

\* What the sum adds for one length.
LEMMA OneLength ==
    ASSUME IndexInv, NEW t \in Target, NEW s \in SUBSET (0 .. Len(t.key)), NEW n \in s
    PROVE  /\ Cardinality(Above(t, s)) = NodeAt(SubSeq(t.key, 1, n)).prefix
                                        + Cardinality(Above(t, s \ {n}))
           /\ Cardinality(Above(t, s)) \in Nat
<1> DEFINE Here == PrefixAt(SubSeq(t.key, 1, n))
           Others == Above(t, s \ {n})
<1>1. t.key \in Text
  BY DEF Target
<1>2. \A m \in s : Len(SubSeq(t.key, 1, m)) = m
  BY <1>1, Starts
<1>3. Here \cap Others = {}
  BY <1>2 DEF PrefixAt, Above
<1>4. Above(t, s) = Here \cup Others
  BY DEF PrefixAt, Above
<1>5. IsFiniteSet(Here) /\ IsFiniteSet(Others)
  BY FS_Subset DEF IndexInv, PrefixAt, Above
<1>6. NodeAt(SubSeq(t.key, 1, n)).prefix = Cardinality(Here)
  <2>1. SubSeq(t.key, 1, n) \in Text
    BY <1>1, Starts
  <2> QED  BY <2>1, NodeCounts DEF CountsOf
<1>7. /\ Cardinality(Here \cup Others) = Cardinality(Here) + Cardinality(Others)
      /\ Cardinality(Here) \in Nat /\ Cardinality(Others) \in Nat
  BY <1>3, <1>5, CountTwo
<1> QED  BY <1>4, <1>6, <1>7

\* The sum counts the references above.  The function that counts them for
\* each set of lengths is one that the fold defines, and it is the only one:
\* a smallest set for which another differs would differ without its chosen
\* length.
LEMMA SumCounts ==
    ASSUME IndexInv, references # {}, NEW t \in Target
    PROVE  AncestorPrefixCount(t) = Cardinality(Above(t, Lengths(t)))
<1> DEFINE L == Lengths(t)
           c(s) == CHOOSE x \in s : TRUE
           Def(f) == [s \in SUBSET L |-> IF s = {} THEN 0
                         ELSE NodeAt(SubSeq(t.key, 1, CHOOSE x \in s : TRUE)).prefix
                              + f[s \ {CHOOSE x \in s : TRUE}]]
           G == [s \in SUBSET L |-> Cardinality(Above(t, s))]
           F == CHOOSE f : f = Def(f)
<1>1. L \in SUBSET (0 .. Len(t.key)) /\ IsFiniteSet(L)
  <2>1. t.key \in Text /\ Len(t.key) \in Nat
    BY TextIsSeq, IndexBounds DEF Target, IndexBounds
  <2>2. L \in SUBSET (0 .. Len(t.key))
    BY <2>1, WalkEnds DEF Lengths
  <2>3. IsFiniteSet(0 .. Len(t.key))
    BY <2>1, FS_Interval
  <2> QED  BY <2>2, <2>3, FS_Subset
<1>2. \A s \in SUBSET L : s # {} =>
          /\ c(s) \in s /\ s \ {c(s)} \in SUBSET L
          /\ Cardinality(Above(t, s)) = NodeAt(SubSeq(t.key, 1, c(s))).prefix
                                        + Cardinality(Above(t, s \ {c(s)}))
  <2> SUFFICES ASSUME NEW s \in SUBSET L, s # {}
               PROVE  /\ c(s) \in s
                      /\ Cardinality(Above(t, s)) = NodeAt(SubSeq(t.key, 1, c(s))).prefix
                                                    + Cardinality(Above(t, s \ {c(s)}))
    OBVIOUS
  <2>1. c(s) \in s
    OBVIOUS
  <2>2. s \in SUBSET (0 .. Len(t.key))
    BY <1>1
  <2> HIDE DEF c
  <2> QED  BY <2>1, <2>2, OneLength
<1>3. Cardinality(Above(t, {})) = 0
  BY FS_EmptySet DEF Above
<1>4. G = Def(G)
  BY <1>2, <1>3
<1>5. F = Def(F)
  <2> HIDE DEF Def, G
  <2> QED  BY <1>4
<1>6. AncestorPrefixCount(t) = F[L]
  BY SumUnfolds
<1>7. ASSUME F[L] # G[L]  PROVE FALSE
  <2> DEFINE Bad == {s \in SUBSET L : F[s] # G[s]}
  <2>1. FiniteSubsetsOf(L) = SUBSET L
    BY <1>1, FS_FiniteSubsetsOfFinite
  <2>2. IsWellFoundedOn(StrictSubsetOrdering(L), SUBSET L)
    BY <2>1, FS_StrictSubsetOrderingWellFounded
  <2>3. Bad \subseteq SUBSET L /\ Bad # {}
    BY <1>7
  <2>4. PICK s \in Bad : \A y \in Bad : ~ (<<y, s>> \in StrictSubsetOrdering(L))
    <3> HIDE DEF Bad
    <3> QED  BY <2>2, <2>3, WFMin, Zenon
  <2>5. s # {}
    <3>1. F[{}] = Def(F)[{}] /\ G[{}] = 0
      BY <1>3, <1>5
    <3>2. Def(F)[{}] = 0
      OBVIOUS
    <3> QED  BY <2>4, <3>1, <3>2
  <2>6. c(s) \in s /\ s \ {c(s)} \in SUBSET L
    BY <1>2, <2>4, <2>5
  <2>7. F[s \ {c(s)}] = G[s \ {c(s)}]
    <3>1. <<s \ {c(s)}, s>> \in StrictSubsetOrdering(L)
      BY <2>4, <2>6 DEF StrictSubsetOrdering
    <3> QED  BY <2>4, <2>6, <3>1
  <2>8. F[s] = NodeAt(SubSeq(t.key, 1, c(s))).prefix + F[s \ {c(s)}]
    <3>1. F[s] = Def(F)[s]
      BY <1>5
    <3>2. Def(F)[s] = NodeAt(SubSeq(t.key, 1, c(s))).prefix + F[s \ {c(s)}]
      <4> HIDE DEF F
      <4> QED  BY <2>4, <2>5
    <3> QED  BY <3>1, <3>2
  <2>9. G[s] = NodeAt(SubSeq(t.key, 1, c(s))).prefix + G[s \ {c(s)}]
    BY <1>2, <2>4, <2>5, <2>6
  <2> QED  BY <2>4, <2>7, <2>8, <2>9
<1>8. G[L] = Cardinality(Above(t, L))
  OBVIOUS
<1> QED  BY <1>6, <1>7, <1>8

\* The references that overlap a target are those above it, and those that
\* end at it (EXACT) or at and below it (PREFIX).
LEMMA OverlapSplit ==
    ASSUME IndexInv, references # {}, NEW t \in Target
    PROVE  /\ {r \in references : TargetsOverlap(r, t)} =
                 Above(t, Lengths(t))
                 \cup IF t.kind = "EXACT" THEN ExactAt(t.key) ELSE Below(t.key)
           /\ Above(t, Lengths(t)) \cap (IF t.kind = "EXACT" THEN ExactAt(t.key)
                                         ELSE Below(t.key)) = {}
<1> DEFINE k == t.key
<1>1. /\ k \in Text /\ Len(k) \in Nat /\ t.kind \in {"EXACT", "PREFIX"}
      /\ \A n \in 0 .. Len(k) : Len(SubSeq(k, 1, n)) = n
  BY Starts, TextIsSeq, IndexBounds DEF Target, IndexBounds
<1>2. \A r \in references :
          /\ r.key \in Text /\ Len(r.key) \in Nat /\ r.kind \in {"EXACT", "PREFIX"}
          /\ r.key \in DOMAIN trie
  <2> TAKE r \in references
  <2>1. r.key \in Text /\ r.kind \in {"EXACT", "PREFIX"}
    BY DEF IndexInv, Reference
  <2>2. r.key \in PathOf(r.key) /\ Len(r.key) \in Nat
    BY <2>1, PathStarts, TextIsSeq, IndexBounds DEF IndexBounds
  <2>3. PathOf(r.key) \subseteq DOMAIN trie
    BY DEF IndexInv
  <2> QED  BY <2>1, <2>2, <2>3
<1>3. \A r \in references : StartsWith(k, r.key)
          <=> \E n \in 0 .. Walked(k) : r.key = SubSeq(k, 1, n)
  <2> SUFFICES ASSUME NEW r \in references
               PROVE  StartsWith(k, r.key) <=> \E n \in 0 .. Walked(k) : r.key = SubSeq(k, 1, n)
    OBVIOUS
  <2>1. StartsWith(k, r.key) <=> r.key \in PathOf(k)
    BY <1>1, <1>2, PathStarts
  <2>2. r.key \in PathOf(k) <=> \E n \in 0 .. Len(k) : r.key = SubSeq(k, 1, n)
    BY DEF PathOf
  <2>3. ASSUME NEW n \in 0 .. Len(k), r.key = SubSeq(k, 1, n)
        PROVE  n \in 0 .. Walked(k)
    <3>1. n <= Walked(k) /\ Walked(k) \in 0 .. Len(k)
      BY <1>1, <1>2, <2>3, WalkEnds
    <3> QED  BY <1>1, <3>1
  <2>4. 0 .. Walked(k) \subseteq 0 .. Len(k)
    BY <1>1, WalkEnds
  <2> HIDE DEF k
  <2> QED  BY <2>1, <2>2, <2>3, <2>4
<1>4. \A r \in references : StartsWith(r.key, k) <=> r \in Below(k)
  BY <1>1, <1>2, PathStarts DEF Below
<1>5. CASE t.kind = "EXACT"
  <2>1. Lengths(t) = 0 .. Walked(k)
    BY <1>5 DEF Lengths
  <2>2. \A r \in references : r \in Above(t, Lengths(t))
            <=> r.kind = "PREFIX" /\ StartsWith(k, r.key)
    BY <1>3, <2>1 DEF Above
  <2>3. \A r \in references : TargetsOverlap(r, t)
            <=> r \in Above(t, Lengths(t)) \/ r \in ExactAt(k)
    <3> TAKE r \in references
    <3>1. CASE r.kind = "EXACT"
      BY <1>5, <2>2, <3>1 DEF TargetsOverlap, ExactAt
    <3>2. CASE r.kind = "PREFIX"
      BY <1>5, <2>2, <3>2 DEF TargetsOverlap, ExactAt
    <3> QED  BY <1>2, <3>1, <3>2
  <2>4. Above(t, Lengths(t)) \cap ExactAt(k) = {}
    BY DEF Above, ExactAt
  <2>5. Above(t, Lengths(t)) \subseteq references /\ ExactAt(k) \subseteq references
    BY DEF Above, ExactAt
  <2> HIDE DEF k
  <2> QED  BY <1>5, <2>3, <2>4, <2>5 DEF k
<1>6. CASE t.kind = "PREFIX"
  <2>1. Lengths(t) = {n \in 0 .. Walked(k) : n < Len(k)}
    BY <1>6 DEF Lengths
  <2>2. \A r \in references : r \in Above(t, Lengths(t))
            <=> r.kind = "PREFIX" /\ StartsWith(k, r.key) /\ Len(r.key) # Len(k)
    <3> SUFFICES ASSUME NEW r \in references
                 PROVE  r \in Above(t, Lengths(t))
                          <=> r.kind = "PREFIX" /\ StartsWith(k, r.key) /\ Len(r.key) # Len(k)
      OBVIOUS
    <3>1. \A n \in 0 .. Walked(k) : r.key = SubSeq(k, 1, n) => (n < Len(k) <=> Len(r.key) # Len(k))
      BY <1>1, WalkEnds
    <3>2. r \in Above(t, Lengths(t)) <=> r.kind = "PREFIX" /\ \E n \in 0 .. Walked(k) :
                                            n < Len(k) /\ r.key = SubSeq(k, 1, n)
      BY <2>1 DEF Above
    <3> HIDE DEF k
    <3> QED  BY <1>3, <3>1, <3>2
  <2>3. \A r \in references : StartsWith(k, r.key) /\ Len(r.key) = Len(k) => r \in Below(k)
    <3> TAKE r \in references
    <3> HAVE StartsWith(k, r.key) /\ Len(r.key) = Len(k)
    <3>1. r.key = k
      BY <1>1, Starts DEF StartsWith
    <3> QED  BY <1>1, <3>1, PathStarts DEF Below
  <2>4. \A r \in references : r \in Below(k) /\ StartsWith(k, r.key) => Len(r.key) = Len(k)
    BY <1>1, <1>2, <1>4 DEF StartsWith
  <2>5. \A r \in references : TargetsOverlap(r, t)
            <=> r \in Above(t, Lengths(t)) \/ r \in Below(k)
    <3> TAKE r \in references
    <3>1. CASE r.kind = "EXACT"
      BY <1>4, <1>6, <2>2, <3>1 DEF TargetsOverlap
    <3>2. CASE r.kind = "PREFIX"
      BY <1>4, <1>6, <2>2, <2>3, <3>2 DEF TargetsOverlap
    <3> QED  BY <1>2, <3>1, <3>2
  <2>6. Above(t, Lengths(t)) \cap Below(k) = {}
    BY <2>2, <2>4 DEF Above
  <2>7. Above(t, Lengths(t)) \subseteq references /\ Below(k) \subseteq references
    BY DEF Above, Below
  <2> HIDE DEF k
  <2> QED  BY <1>6, <2>5, <2>6, <2>7 DEF k
<1> QED  BY <1>1, <1>5, <1>6

\* The count of a look-up is the number of references that overlap.
LEMMA CountAgrees ==
    ASSUME IndexInv, references # {}, NEW t \in Target
    PROVE  OverlapCount(t) = Cardinality({r \in references : TargetsOverlap(r, t)})
<1> DEFINE k == t.key
           Ends == IF t.kind = "EXACT" THEN ExactAt(k) ELSE Below(k)
           Up == Above(t, Lengths(t))
<1>1. k \in Text
  BY DEF Target
<1>2. trie # <<>>
  <2>1. PICK r \in references : r.key \in Text
    BY DEF IndexInv, Reference
  <2>2. r.key \in DOMAIN trie
    <3>1. r.key \in PathOf(r.key)
      BY <2>1, PathStarts
    <3> QED  BY <3>1 DEF IndexInv
  <2>3. DOMAIN <<>> = {}
    OBVIOUS
  <2> QED  BY <2>2, <2>3
<1>3. AncestorPrefixCount(t) = Cardinality(Up)
  BY SumCounts
<1>4. {r \in references : TargetsOverlap(r, t)} = Up \cup Ends /\ Up \cap Ends = {}
  BY OverlapSplit
<1>5. IsFiniteSet(Up) /\ IsFiniteSet(Ends)
  <2>1. IsFiniteSet(Up)
    BY FS_Subset DEF IndexInv, Above
  <2> QED  BY <1>1, <2>1, NodeCounts
<1>6. /\ Cardinality(Up \cup Ends) = Cardinality(Up) + Cardinality(Ends)
      /\ Cardinality(Up) \in Nat /\ Cardinality(Ends) \in Nat
  <2> HIDE DEF Up, Ends
  <2> QED  BY <1>4, <1>5, CountTwo
<1>7. CASE k \in DOMAIN trie
  <2>1. ~ (Walked(k) < Len(k))
    BY <1>1, <1>7, WalkEnds, TextIsSeq
  <2>2. Cardinality(Ends) = IF t.kind = "EXACT" THEN NodeAt(k).exact ELSE NodeAt(k).subtree
    BY <1>1, NodeCounts DEF CountsOf
  <2> HIDE DEF Up, Ends
  <2> QED  BY <1>2, <1>3, <1>4, <1>6, <2>1, <2>2 DEF OverlapCount
<1>8. CASE k \notin DOMAIN trie
  <2>1. Walked(k) < Len(k)
    <3>1. Walked(k) \in 0 .. Len(k) /\ Walked(k) # Len(k) /\ Len(k) \in Nat
      BY <1>1, <1>8, WalkEnds, TextIsSeq, IndexBounds DEF IndexBounds
    <3> QED  BY <3>1
  <2>2. Cardinality(Ends) = 0
    BY <1>1, <1>8, NodeCounts, FS_EmptySet
  <2> HIDE DEF Up, Ends
  <2> QED  BY <1>2, <1>3, <1>4, <1>6, <2>1, <2>2 DEF OverlapCount
<1> QED  BY <1>7, <1>8

\* So a look-up that ignores a source is true of the references of others.
LEMMA OthersCounted ==
    ASSUME IndexInv, references # {}, NEW t \in Target, NEW s \in RefSource
    PROVE  ReferencesTarget(t, {s})
             <=> \E r \in references : r.source # s /\ TargetsOverlap(r, t)
<1> DEFINE All == {r \in references : TargetsOverlap(r, t)}
           Own == {r \in references : r.source \in {s} /\ TargetsOverlap(r, t)}
<1>1. OverlapCount(t) = Cardinality(All)
  BY CountAgrees
<1>2. IsFiniteSet(All) /\ Own \in SUBSET All
  BY FS_Subset DEF IndexInv
<1>3. /\ Cardinality(Own) <= Cardinality(All)
      /\ Cardinality(All) = Cardinality(Own) => All = Own
      /\ Cardinality(All) \in Nat /\ Cardinality(Own) \in Nat
  <2> HIDE DEF All, Own
  <2>1. Cardinality(Own) <= Cardinality(All) /\ (Cardinality(All) = Cardinality(Own) => All = Own)
    BY <1>2, FS_Subset, Zenon
  <2>2. IsFiniteSet(Own)
    BY <1>2, FS_Subset, Zenon
  <2> QED  BY <1>2, <2>1, <2>2, FS_CardinalityType
<1>4. ReferencesTarget(t, {s}) <=> Cardinality(All) > Cardinality(Own)
  BY <1>1 DEF ReferencesTarget
<1>5. All # Own <=> \E r \in references : r.source # s /\ TargetsOverlap(r, t)
  OBVIOUS
<1> HIDE DEF All, Own
<1>6. Cardinality(All) > Cardinality(Own) <=> All # Own
  BY <1>3
<1> QED  BY <1>4, <1>5, <1>6

\* Whatever is indexed, in any order and for keys of any length, a look-up
\* finds just the references that overlap its target
\* (reference-resolver.ts:85, :113).
THEOREM LookupsAgree ==
    IndexInit /\ [][IndexNext]_indexVars => []IndexAgrees
<1>1. IndexInv => IndexAgrees
  BY CountAgrees, OthersCounted DEF IndexAgrees
<1> QED  BY <1>1, IndexInvHolds, PTL

\* The nodes are starts of keys, and no count passes the number of references
\* (reference-resolver.ts:61).
THEOREM IndexTypesHold ==
    IndexInit /\ [][IndexNext]_indexVars => []IndexTypeOK
<1>1. ASSUME IndexInv  PROVE IndexTypeOK
  <2>1. DOMAIN trie \in SUBSET Text
    BY <1>1, PathStarts DEF IndexInv, Reference
  <2>2. ASSUME NEW n \in DOMAIN trie
        PROVE  trie[n] \in [exact : 0 .. MaxRefs, prefix : 0 .. MaxRefs, subtree : 0 .. MaxRefs]
    <3>1. \A S \in SUBSET references : Cardinality(S) \in 0 .. MaxRefs
      <4> TAKE S \in SUBSET references
      <4>1. IsFiniteSet(S) /\ Cardinality(S) <= Cardinality(references)
        BY <1>1, FS_Subset DEF IndexInv
      <4>2. Cardinality(S) \in Nat /\ Cardinality(references) \in Nat
        BY <1>1, <4>1, FS_CardinalityType DEF IndexInv
      <4> QED  BY <1>1, <4>1, <4>2, IndexBounds DEF IndexInv, IndexBounds
    <3>2. /\ Cardinality(ExactAt(n)) \in 0 .. MaxRefs
          /\ Cardinality(PrefixAt(n)) \in 0 .. MaxRefs
          /\ Cardinality(Below(n)) \in 0 .. MaxRefs
      BY <3>1 DEF ExactAt, PrefixAt, Below
    <3>3. trie[n] = CountsOf(n)
      BY <1>1, <2>2 DEF IndexInv
    <3> QED  BY <3>2, <3>3 DEF CountsOf
  <2>3. references \in SUBSET Reference
    BY <1>1 DEF IndexInv
  <2> QED  BY <2>1, <2>2, <2>3 DEF IndexTypeOK
<1> QED  BY <1>1, IndexInvHolds, PTL
=============================================================================
