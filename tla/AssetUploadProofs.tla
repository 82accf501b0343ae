------------------------- MODULE AssetUploadProofs -------------------------
(***************************************************************************)
(* What AssetUpload keeps for any number of sessions and processes: its    *)
(* types, its safety invariants, the stability of final states, and that   *)
(* it implements GamePublication.                                          *)
(*                                                                         *)
(* The safety invariants are not inductive one by one.  That the object of *)
(* a sealed session is whole, say, needs that a worker about to seal it    *)
(* saw it whole and still does, that deletions never name it, and that no  *)
(* late request can replace it; IInv says all of that at once.             *)
(***************************************************************************)
EXTENDS AssetUploadLive, TLAPS

-----------------------------------------------------------------------------
(* Types.                                                                  *)

\* Queueing an abort leaves the task table well typed: the one update two
\* levels of conditions deep, so it is done once here.
LEMMA QueueAbortType ==
    ASSUME TypeOK, NEW s \in Session, QueueAbort(s)
    PROVE  /\ task' \in [Session -> {"none", "pending", "claimed", "resolved"}]
           /\ aborter' \in [Session -> Aborter \cup {NoOne}]
<1>1. CASE task[s] = "claimed" /\ aborter[s] # NoOne
  BY <1>1 DEF QueueAbort, TypeOK, tasks
<1>2. CASE ~(task[s] = "claimed" /\ aborter[s] # NoOne)
  BY <1>2 DEF QueueAbort, TypeOK
<1>3. QED BY <1>1, <1>2

\* So does ending a session, with or without queueing the abort of its upload.
LEMMA CloseType ==
    ASSUME TypeOK, NEW s \in Session, NEW final \in Dead, NEW known \in BOOLEAN,
           Close(s, final, known)
    PROVE  /\ state' \in [Session -> {"NONE"} \cup Active \cup Terminal]
           /\ uploadId' \in [Session -> BOOLEAN]
           /\ completer' \in [Session -> Completer \cup Recoverer \cup {NoOne}]
           /\ task' \in [Session -> {"none", "pending", "claimed", "resolved"}]
           /\ aborter' \in [Session -> Aborter \cup {NoOne}]
           /\ UNCHANGED <<expired, attempts, target, asset, deletions, creator,
                          store, procs>>
<1>1. CASE known
  <2>1. QueueAbort(s)
    BY <1>1 DEF Close
  <2>2. QED BY <2>1, QueueAbortType DEF Close, TypeOK, Terminal
<1>2. CASE ~known
  BY <1>2 DEF Close, TypeOK, Terminal, tasks
<1>3. QED BY <1>1, <1>2

LEMMA TypeInitially == Init => TypeOK
<1>1. ASSUME Init PROVE attempts \in [Session -> 0 .. MaxAttempts]
  BY <1>1, AttemptsAssumption DEF Init
<1>2. QED BY <1>1, NamesDistinct, PublishedAssumption
     DEF Init, TypeOK, Worker, Active, Open, Terminal, Dead, CompletionPlaces,
         RecoveryPlaces, ValidationPlaces, AbortPlaces

\* Every step of the handlers, the recovery pass, the workers and the storage
\* keeps every column in its range and every process at a place of its role.
LEMMA TypeStep ==
    ASSUME TypeOK, [Next]_vars
    PROVE  TypeOK'
<1>. USE RolesDisjoint, NamesDistinct DEF TypeOK, Worker, Open, Active, Dead,
         Terminal, CompletionPlaces, RecoveryPlaces, ValidationPlaces,
         AbortPlaces, row, tasks, store, procs, Goto, Take, Stop
<1>1. CASE ExpireStaleAllocations
  BY <1>1 DEF ExpireStaleAllocations
<1>2. ASSUME NEW s \in Session, UserStep(s)
      PROVE  TypeOK'
  <2>1. CASE CreateAllocating(s)
    BY <2>1 DEF CreateAllocating, Current
  <2>2. CASE CancelRead(s)
    BY <2>2 DEF CancelRead
  <2>3. CASE Cancel(s)
    <3>1. CASE state[s] \notin {"ALLOCATING", "UPLOADING"}
      BY <2>3, <3>1 DEF Cancel
    <3>2. CASE state[s] \in {"ALLOCATING", "UPLOADING"}
      <4>1. Close(s, "CANCELLED", canceller[s] = "holding")
        BY <2>3, <3>2 DEF Cancel
      <4>2. canceller' = [canceller EXCEPT ![s] = "idle"] /\ UNCHANGED validator
        BY <2>3, <3>2 DEF Cancel
      <4>3. "CANCELLED" \in Dead /\ (canceller[s] = "holding") \in BOOLEAN
        OBVIOUS
      <4>4. /\ state' \in [Session -> {"NONE"} \cup Active \cup Terminal]
            /\ uploadId' \in [Session -> BOOLEAN]
            /\ completer' \in [Session -> Completer \cup Recoverer \cup {NoOne}]
            /\ task' \in [Session -> {"none", "pending", "claimed", "resolved"}]
            /\ aborter' \in [Session -> Aborter \cup {NoOne}]
            /\ UNCHANGED <<expired, attempts, target, asset, deletions, creator,
                           store, procs>>
        BY <4>1, <4>3, CloseType
      <4>5. QED BY <4>2, <4>4
    <3>3. QED BY <3>1, <3>2
  <2>4. CASE PutParts(s)
    BY <2>4 DEF PutParts
  <2>5. CASE ClaimAssetForDeletion(s)
    BY <2>5 DEF ClaimAssetForDeletion
  <2>6. CASE CompleteAssetDeletion(s)
    BY <2>6 DEF CompleteAssetDeletion
  <2>7. ASSUME NEW w \in Completer, ListSubmittedParts(w, s)
       PROVE  TypeOK'
    BY <2>7 DEF ListSubmittedParts, Idle
  <2>8. QED BY <1>2, <2>1, <2>2, <2>3, <2>4, <2>5, <2>6, <2>7 DEF UserStep
<1>3. ASSUME NEW s \in Session, SystemStep(s)
      PROVE  TypeOK'
  <2>1. CASE CreateMultipart(s)
    BY <2>1 DEF CreateMultipart
  <2>2. CASE SetAllocated(s)
    <3>1. CASE state[s] = "ALLOCATING" /\ ~uploadId[s]
      <4>1. /\ state' = [state EXCEPT ![s] = "UPLOADING"]
            /\ uploadId' = [uploadId EXCEPT ![s] = TRUE]
            /\ creator' = [creator EXCEPT ![s] = "done"]
            /\ UNCHANGED <<expired, completer, validator, attempts, target,
                           asset, tasks, deletions, canceller, store, procs>>
        BY <2>2, <3>1 DEF SetAllocated
      <4>2. QED BY <4>1
    <3>2. CASE ~(state[s] = "ALLOCATING" /\ ~uploadId[s])
      <4>1. QueueAbort(s)
        BY <2>2, <3>2 DEF SetAllocated
      <4>2. /\ creator' = [creator EXCEPT ![s] = "superseded"]
            /\ UNCHANGED <<state, uploadId, expired, completer, validator,
                           attempts, target, asset, deletions, canceller, store,
                           procs>>
        BY <2>2, <3>2 DEF SetAllocated
      <4>3. QED BY <4>1, <4>2, QueueAbortType
    <3>3. QED BY <3>1, <3>2
  <2>3. CASE PassExpiresAt(s)
    BY <2>3 DEF PassExpiresAt
  <2>4. CASE ExpireTimedOutSession(s)
    <3>1. Close(s, "EXPIRED", uploadId[s])
      BY <2>4 DEF ExpireTimedOutSession
    <3>2. /\ validator' = [validator EXCEPT ![s] = NoOne]
          /\ UNCHANGED canceller
      BY <2>4 DEF ExpireTimedOutSession
    <3>3. QED BY <3>1, <3>2, CloseType
  <2>5. CASE StoreCompletes(s)
    BY <2>5 DEF StoreCompletes
  <2>6. CASE StoreRefuses(s)
    BY <2>6 DEF StoreRefuses
  <2>7. CASE ReapObject(s)
    BY <2>7 DEF ReapObject
  <2>8. CASE QueueUnknownMultipartAbort(s)
    BY <2>8 DEF QueueUnknownMultipartAbort, QueueAbort
  <2>9. CASE CompletionLapses(s)
    BY <2>9 DEF CompletionLapses
  <2>10. CASE ValidationLapses(s)
    BY <2>10 DEF ValidationLapses
  <2>11. CASE TaskLapses(s)
    BY <2>11 DEF TaskLapses
  <2>12. QED BY <1>3, <2>1, <2>2, <2>3, <2>4, <2>5, <2>6, <2>7, <2>8, <2>9,
       <2>10, <2>11 DEF SystemStep
<1>4. ASSUME NEW s \in Session, SessionFailure(s)
      PROVE  TypeOK'
  <2>1. CASE CreatorCrash(s)
    BY <2>1 DEF CreatorCrash
  <2>2. CASE FailAllocation(s)
    BY <2>2 DEF FailAllocation
  <2>3. CASE StoreLoses(s)
    BY <2>3 DEF StoreLoses
  <2>4. QED BY <1>4, <2>1, <2>2, <2>3 DEF SessionFailure
<1>5. ASSUME NEW w \in Worker, NEW s \in Session, Claim(w, s)
      PROVE  TypeOK'
  <2>1. CASE ClaimExpiredCompletion(w, s)
    BY <2>1 DEF ClaimExpiredCompletion, Idle
  <2>2. CASE ClaimVerifying(w, s)
    <3>1. attempts' \in [Session -> 0 .. MaxAttempts]
      BY <2>2, AttemptsAssumption DEF ClaimVerifying
    <3>2. QED BY <2>2, <3>1 DEF ClaimVerifying, Idle
  <2>3. CASE ClaimTask(w, s)
    BY <2>3 DEF ClaimTask, Idle
  <2>4. QED BY <1>5, <2>1, <2>2, <2>3 DEF Claim
<1>6. ASSUME NEW w \in Worker, Progress(w)
      PROVE  TypeOK'
  <2>1. CASE ClaimCompletion(w)
    BY <2>1, SMTT(30) DEF ClaimCompletion
  <2>2. CASE SendComplete(w)
    BY <2>2 DEF SendComplete, OwnsCompletion
  <2>3. CASE CompleteAnswered(w)
    BY <2>3 DEF CompleteAnswered
  <2>4. CASE HeadCompleted(w)
    BY <2>4 DEF HeadCompleted, OwnsCompletion
  <2>5. CASE HeadUnclear(w)
    BY <2>5 DEF HeadUnclear
  <2>6. CASE MarkVerifying(w)
    BY <2>6 DEF MarkVerifying, OwnsCompletion
  <2>7. CASE RevertUploading(w)
    BY <2>7 DEF RevertUploading, OwnsCompletion
  <2>8. CASE Yield(w)
    BY <2>8 DEF Yield, Holds, OwnsCompletion
  <2>9. CASE RecoverHead(w)
    BY <2>9 DEF RecoverHead, OwnsCompletion, Reconcile
  <2>10. CASE RecoverList(w)
    BY <2>10 DEF RecoverList
  <2>11. CASE RecoverAnswered(w)
    BY <2>11 DEF RecoverAnswered
  <2>12. CASE RecoverHeadAfter(w)
    BY <2>12 DEF RecoverHeadAfter, Reconcile
  <2>13. CASE ReleaseRecoveredCompletion(w)
    <3>1. on[w] \in Session
      BY <2>13 DEF ReleaseRecoveredCompletion
    <3>2. CASE expired[on[w]]
      <4>1. QueueAbort(on[w])
        BY <2>13, <3>2 DEF ReleaseRecoveredCompletion
      <4>2. /\ task' \in [Session -> {"none", "pending", "claimed", "resolved"}]
            /\ aborter' \in [Session -> Aborter \cup {NoOne}]
        BY <3>1, <4>1, QueueAbortType
      <4>3. /\ completer' = [completer EXCEPT ![on[w]] = NoOne]
            /\ state' = [state EXCEPT ![on[w]] = "EXPIRED"]
            /\ uploadId' = [uploadId EXCEPT ![on[w]] = FALSE]
            /\ Stop(w)
            /\ UNCHANGED <<expired, validator, attempts, target, asset,
                           deletions, creator, canceller, store>>
        BY <2>13, <3>2 DEF ReleaseRecoveredCompletion
      <4>4. QED BY <3>1, <4>2, <4>3
    <3>3. CASE ~expired[on[w]]
      BY <2>13, <3>3, SMTT(60) DEF ReleaseRecoveredCompletion, QueueAbort
    <3>4. QED BY <3>2, <3>3
  <2>14. CASE RejectRecoveredCompletion(w)
    BY <2>14 DEF RejectRecoveredCompletion, OwnsCompletion
  <2>15. CASE Validate(w)
    BY <2>15 DEF Validate
  <2>16. CASE CommitGameReady(w)
    BY <2>16, SMTT(30) DEF CommitGameReady, Current, OwnsValidation,
       RetryOrGiveUp, TargetCurrent
  <2>17. CASE CommitRefused(w)
    BY <2>17 DEF CommitRefused
  <2>18. CASE MarkRejected(w)
    BY <2>18 DEF MarkRejected, OwnsValidation
  <2>19. CASE AbortMultipart(w)
    BY <2>19 DEF AbortMultipart, OwnsTask
  <2>20. CASE ResolveTask(w)
    BY <2>20 DEF ResolveTask, OwnsTask
  <2>21. CASE FailTask(w)
    BY <2>21 DEF FailTask, OwnsTask
  <2>22. QED BY <1>6, <2>1, <2>2, <2>3, <2>4, <2>5, <2>6, <2>7, <2>8, <2>9,
       <2>10, <2>11, <2>12, <2>13, <2>14, <2>15, <2>16, <2>17, <2>18, <2>19,
       <2>20, <2>21 DEF Progress
<1>7. ASSUME NEW w \in Worker, WorkerFailure(w)
      PROVE  TypeOK'
  <2>1. CASE Crash(w)
    BY <2>1 DEF Crash
  <2>2. CASE CompleteFails(w)
    BY <2>2 DEF CompleteFails
  <2>3. CASE MarkFails(w)
    BY <2>3 DEF MarkFails
  <2>4. CASE RecoverFails(w)
    BY <2>4 DEF RecoverFails
  <2>5. CASE ValidateFails(w)
    BY <2>5 DEF ValidateFails, RetryOrGiveUp
  <2>6. CASE CommitFails(w)
    BY <2>6 DEF CommitFails, RetryOrGiveUp
  <2>7. CASE AbortFails(w)
    BY <2>7 DEF AbortFails, OwnsTask
  <2>8. QED BY <1>7, <2>1, <2>2, <2>3, <2>4, <2>5, <2>6, <2>7 DEF
       WorkerFailure
<1>8. CASE UNCHANGED vars
  BY <1>8 DEF vars
<1>9. QED BY <1>1, <1>2, <1>3, <1>4, <1>5, <1>6, <1>7, <1>8 DEF Next

\* TypeOK holds in every reachable state, for any sessions and processes.
THEOREM TypeCorrect == Spec => []TypeOK
<1>1. TypeOK /\ [Next]_vars => TypeOK'
  BY TypeStep
<1>2. QED BY TypeInitially, <1>1, PTL DEF Spec

-----------------------------------------------------------------------------
(* The inductive invariant.                                                *)

IInv ==
    /\ TypeOK
    /\ Consistent
    /\ NeededBytesKept
    /\ OnlyDeadObjectsQueued
    /\ AbortsOnlyDeadUploads
    /\ OpenUploadsTracked

LEMMA InvInitially == Init => IInv
<1>1. SUFFICES ASSUME Init PROVE IInv
  OBVIOUS
<1>2. TypeOK
  BY <1>1, TypeInitially
<1>3. \A s \in Session : ColumnsAgree(s) /\ CreationAgrees(s) /\ StorageAgrees(s)
  BY <1>1 DEF Init, ColumnsAgree, CreationAgrees, StorageAgrees
<1>4. \A w \in Worker : ViewHolds(w)
  BY <1>1 DEF Init, ViewHolds, RecoveryPlaces, AbortPlaces
<1>5. NeededBytesKept /\ OnlyDeadObjectsQueued /\ AbortsOnlyDeadUploads
  BY <1>1 DEF Init, NeededBytesKept, OnlyDeadObjectsQueued, AbortsOnlyDeadUploads
<1>6. OpenUploadsTracked
  BY <1>1 DEF Init, OpenUploadsTracked
<1>7. QED BY <1>2, <1>3, <1>4, <1>5, <1>6 DEF IInv, Consistent

\* One step of anybody keeps IInv.
LEMMA InvStep ==
    ASSUME IInv, [Next]_vars
    PROVE  IInv'
<1>. TypeOK'
  BY TypeStep DEF IInv
<1>. USE RolesDisjoint, NamesDistinct DEF TypeOK, Worker, Open, Active, Dead,
         Terminal, CompletionPlaces, RecoveryPlaces, ValidationPlaces,
         AbortPlaces, row, tasks, store, procs, Goto, Take, Stop, Consistent,
         ColumnsAgree, CreationAgrees, StorageAgrees, ViewHolds,
         OwnsCompletion, IInv, NeededBytesKept, OnlyDeadObjectsQueued,
         AbortsOnlyDeadUploads, OpenUploadsTracked
<1>1. CASE ExpireStaleAllocations
  BY <1>1 DEF ExpireStaleAllocations
<1>2. ASSUME NEW s \in Session, UserStep(s)
      PROVE  IInv'
  <2>1. CASE CreateAllocating(s)
    BY <2>1 DEF CreateAllocating, Current
  <2>2. CASE CancelRead(s)
    BY <2>2 DEF CancelRead
  <2>3. CASE Cancel(s)
    BY <2>3, SMTT(60) DEF Cancel, Close, QueueAbort
  <2>4. CASE PutParts(s)
    BY <2>4 DEF PutParts
  <2>5. CASE ClaimAssetForDeletion(s)
    BY <2>5 DEF ClaimAssetForDeletion
  <2>6. CASE CompleteAssetDeletion(s)
    BY <2>6 DEF CompleteAssetDeletion
  <2>7. ASSUME NEW w \in Completer, ListSubmittedParts(w, s)
       PROVE  IInv'
    BY <2>7 DEF ListSubmittedParts, Idle
  <2>8. QED BY <1>2, <2>1, <2>2, <2>3, <2>4, <2>5, <2>6, <2>7 DEF UserStep
<1>3. ASSUME NEW s \in Session, SystemStep(s)
      PROVE  IInv'
  <2>1. CASE CreateMultipart(s)
    BY <2>1 DEF CreateMultipart
  <2>2. CASE SetAllocated(s)
    BY <2>2 DEF SetAllocated, QueueAbort
  <2>3. CASE PassExpiresAt(s)
    BY <2>3 DEF PassExpiresAt
  <2>4. CASE ExpireTimedOutSession(s)
    BY <2>4 DEF ExpireTimedOutSession, Close, QueueAbort
  <2>5. CASE StoreCompletes(s)
    BY <2>5 DEF StoreCompletes
  <2>6. CASE StoreRefuses(s)
    BY <2>6 DEF StoreRefuses
  <2>7. CASE ReapObject(s)
    BY <2>7 DEF ReapObject
  <2>8. CASE QueueUnknownMultipartAbort(s)
    BY <2>8 DEF QueueUnknownMultipartAbort, QueueAbort
  <2>9. CASE CompletionLapses(s)
    BY <2>9 DEF CompletionLapses
  <2>10. CASE ValidationLapses(s)
    BY <2>10 DEF ValidationLapses
  <2>11. CASE TaskLapses(s)
    BY <2>11 DEF TaskLapses
  <2>12. QED BY <1>3, <2>1, <2>2, <2>3, <2>4, <2>5, <2>6, <2>7, <2>8, <2>9,
       <2>10, <2>11 DEF SystemStep
<1>4. ASSUME NEW s \in Session, SessionFailure(s)
      PROVE  IInv'
  <2>1. CASE CreatorCrash(s)
    BY <2>1 DEF CreatorCrash
  <2>2. CASE FailAllocation(s)
    BY <2>2 DEF FailAllocation
  <2>3. CASE StoreLoses(s)
    BY <2>3 DEF StoreLoses
  <2>4. QED BY <1>4, <2>1, <2>2, <2>3 DEF SessionFailure
<1>5. ASSUME NEW w \in Worker, NEW s \in Session, Claim(w, s)
      PROVE  IInv'
  <2>1. CASE ClaimExpiredCompletion(w, s)
    BY <2>1 DEF ClaimExpiredCompletion, Idle
  <2>2. CASE ClaimVerifying(w, s)
    BY <2>2 DEF ClaimVerifying, Idle
  <2>3. CASE ClaimTask(w, s)
    BY <2>3 DEF ClaimTask, Idle
  <2>4. QED BY <1>5, <2>1, <2>2, <2>3 DEF Claim
<1>6. ASSUME NEW w \in Worker, Progress(w)
      PROVE  IInv'
  <2>1. CASE ClaimCompletion(w)
    BY <2>1 DEF ClaimCompletion
  <2>2. CASE SendComplete(w)
    BY <2>2 DEF SendComplete
  <2>3. CASE CompleteAnswered(w)
    BY <2>3 DEF CompleteAnswered
  <2>4. CASE HeadCompleted(w)
    BY <2>4 DEF HeadCompleted
  <2>5. CASE HeadUnclear(w)
    BY <2>5 DEF HeadUnclear
  <2>6. CASE MarkVerifying(w)
    BY <2>6, SMTT(60) DEF MarkVerifying
  <2>7. CASE RevertUploading(w)
    BY <2>7 DEF RevertUploading
  <2>8. CASE Yield(w)
    BY <2>8 DEF Yield, Holds
  <2>9. CASE RecoverHead(w)
    BY <2>9 DEF RecoverHead, Reconcile
  <2>10. CASE RecoverList(w)
    BY <2>10 DEF RecoverList
  <2>11. CASE RecoverAnswered(w)
    BY <2>11 DEF RecoverAnswered
  <2>12. CASE RecoverHeadAfter(w)
    BY <2>12 DEF RecoverHeadAfter, Reconcile
  <2>13. CASE ReleaseRecoveredCompletion(w)
    BY <2>13, SMTT(120) DEF ReleaseRecoveredCompletion, QueueAbort
  <2>14. CASE RejectRecoveredCompletion(w)
    BY <2>14 DEF RejectRecoveredCompletion
  <2>15. CASE Validate(w)
    BY <2>15 DEF Validate
  <2>16. CASE CommitGameReady(w)
    BY <2>16 DEF CommitGameReady, Current, OwnsValidation, RetryOrGiveUp,
       TargetCurrent
  <2>17. CASE CommitRefused(w)
    BY <2>17 DEF CommitRefused
  <2>18. CASE MarkRejected(w)
    BY <2>18 DEF MarkRejected, OwnsValidation
  <2>19. CASE AbortMultipart(w)
    BY <2>19 DEF AbortMultipart, OwnsTask
  <2>20. CASE ResolveTask(w)
    BY <2>20 DEF ResolveTask, OwnsTask
  <2>21. CASE FailTask(w)
    BY <2>21 DEF FailTask, OwnsTask
  <2>22. QED BY <1>6, <2>1, <2>2, <2>3, <2>4, <2>5, <2>6, <2>7, <2>8, <2>9,
       <2>10, <2>11, <2>12, <2>13, <2>14, <2>15, <2>16, <2>17, <2>18, <2>19,
       <2>20, <2>21 DEF Progress
<1>7. ASSUME NEW w \in Worker, WorkerFailure(w)
      PROVE  IInv'
  <2>1. CASE Crash(w)
    BY <2>1 DEF Crash
  <2>2. CASE CompleteFails(w)
    BY <2>2 DEF CompleteFails
  <2>3. CASE MarkFails(w)
    BY <2>3 DEF MarkFails
  <2>4. CASE RecoverFails(w)
    BY <2>4 DEF RecoverFails
  <2>5. CASE ValidateFails(w)
    BY <2>5 DEF ValidateFails, RetryOrGiveUp
  <2>6. CASE CommitFails(w)
    BY <2>6 DEF CommitFails, RetryOrGiveUp
  <2>7. CASE AbortFails(w)
    BY <2>7 DEF AbortFails, OwnsTask
  <2>8. QED BY <1>7, <2>1, <2>2, <2>3, <2>4, <2>5, <2>6, <2>7 DEF
       WorkerFailure
<1>8. CASE UNCHANGED vars
  BY <1>8 DEF vars
<1>9. QED BY <1>1, <1>2, <1>3, <1>4, <1>5, <1>6, <1>7, <1>8 DEF Next

LEMMA InvAlways == Spec => []IInv
<1>1. IInv /\ [Next]_vars => IInv'
  BY InvStep
<1>2. QED BY InvInitially, <1>1, PTL DEF Spec

\* The invariants the runs check, for every value of the constants.

\* The whole picture: no interleaving pulls a session's row, its creation,
\* its storage and its workers apart.
THEOREM ConsistentAlways == Spec => []Consistent
<1>1. IInv => Consistent
  BY DEF IInv
<1>2. QED BY InvAlways, <1>1, PTL

\* The archive under validation or published is whole and in storage.
THEOREM BytesKept == Spec => []NeededBytesKept
<1>1. IInv => NeededBytesKept
  BY DEF IInv
<1>2. QED BY InvAlways, <1>1, PTL

\* The deletion worker is never handed an object that is still needed.
THEOREM QueuedAreDead == Spec => []OnlyDeadObjectsQueued
<1>1. IInv => OnlyDeadObjectsQueued
  BY DEF IInv
<1>2. QED BY InvAlways, <1>1, PTL

\* The abort worker is never handed an upload that is still in use.
THEOREM AbortedAreDead == Spec => []AbortsOnlyDeadUploads
<1>1. IInv => AbortsOnlyDeadUploads
  BY DEF IInv
<1>2. QED BY InvAlways, <1>1, PTL

\* Which uploads of ended sessions may lack an abort task.
THEOREM UploadsTracked == Spec => []OpenUploadsTracked
<1>1. IInv => OpenUploadsTracked
  BY DEF IInv
<1>2. QED BY InvAlways, <1>1, PTL

-----------------------------------------------------------------------------
(* Final states.                                                           *)

\* A step that changes a session's state starts in an active one: every
\* update is guarded by the state, or by a claim that only that state has.
LEMMA StateStep ==
    ASSUME IInv, Next, NEW t \in Session, state[t] \in Terminal
    PROVE  state'[t] = state[t]
<1>. USE DEF IInv, TypeOK, Worker, Active, Open, Terminal, Dead, row, tasks, store
<1>1. CASE ExpireStaleAllocations
  BY <1>1 DEF ExpireStaleAllocations
<1>2. ASSUME NEW s \in Session, UserStep(s)
      PROVE  state'[t] = state[t]
  BY <1>2 DEF UserStep, CreateAllocating, CancelRead, Cancel, Close, PutParts,
     ClaimAssetForDeletion, CompleteAssetDeletion, ListSubmittedParts
<1>3. ASSUME NEW s \in Session, SystemStep(s)
      PROVE  state'[t] = state[t]
  BY <1>3 DEF SystemStep, CreateMultipart, SetAllocated, PassExpiresAt,
     ExpireTimedOutSession, Close, StoreCompletes, StoreRefuses, ReapObject,
     QueueUnknownMultipartAbort, CompletionLapses, ValidationLapses, TaskLapses
<1>4. ASSUME NEW s \in Session, SessionFailure(s)
      PROVE  state'[t] = state[t]
  BY <1>4 DEF SessionFailure, CreatorCrash, FailAllocation, StoreLoses
<1>5. ASSUME NEW w \in Worker, NEW s \in Session, Claim(w, s)
      PROVE  state'[t] = state[t]
  BY <1>5 DEF Claim, ClaimExpiredCompletion, ClaimVerifying, ClaimTask
<1>6. ASSUME NEW w \in Worker, Progress(w)
      PROVE  state'[t] = state[t]
  <2>1. CASE \/ SendComplete(w) \/ CompleteAnswered(w) \/ HeadCompleted(w)
             \/ HeadUnclear(w) \/ Yield(w) \/ RecoverHead(w) \/ RecoverList(w)
             \/ RecoverAnswered(w) \/ RecoverHeadAfter(w) \/ Validate(w)
             \/ CommitRefused(w) \/ AbortMultipart(w) \/ ResolveTask(w)
             \/ FailTask(w)
    BY <2>1 DEF SendComplete, CompleteAnswered, HeadCompleted, HeadUnclear, Yield,
       RecoverHead, RecoverList, RecoverAnswered, RecoverHeadAfter, Validate,
       CommitRefused, AbortMultipart, ResolveTask, FailTask
  <2>2. CASE ClaimCompletion(w)
    BY <2>2 DEF ClaimCompletion
  <2>3. CASE MarkVerifying(w) \/ RevertUploading(w) \/ RejectRecoveredCompletion(w)
    BY <2>3 DEF MarkVerifying, RevertUploading, RejectRecoveredCompletion,
       OwnsCompletion
  <2>4. CASE ReleaseRecoveredCompletion(w)
    BY <2>4 DEF ReleaseRecoveredCompletion, OwnsCompletion
  <2>5. CASE CommitGameReady(w) \/ MarkRejected(w)
    BY <2>5 DEF CommitGameReady, MarkRejected, OwnsValidation
  <2>6. QED BY <1>6, <2>1, <2>2, <2>3, <2>4, <2>5 DEF Progress
<1>7. ASSUME NEW w \in Worker, WorkerFailure(w)
      PROVE  state'[t] = state[t]
  BY <1>7 DEF WorkerFailure, Crash, CompleteFails, MarkFails, RecoverFails,
     ValidateFails, CommitFails, AbortFails
<1>8. QED BY <1>1, <1>2, <1>3, <1>4, <1>5, <1>6, <1>7 DEF Next

\* A session that is READY, REJECTED, CANCELLED or EXPIRED stays so.
THEOREM FinalStatesStay == Spec => FinalStatesKept
<1>1. IInv /\ [Next]_vars
         => [\A s \in Session : state[s] \in Terminal => state'[s] = state[s]]_vars
  BY StateStep
<1>2. QED BY InvAlways, <1>1, PTL DEF Spec, FinalStatesKept

-----------------------------------------------------------------------------
(* What is seen from outside.  A step of AssetUpload shows only through the *)
(* states, the targets, the assets and the objects.                        *)

LEMMA PhaseOf ==
    ASSUME TypeOK, NEW s \in Session
    PROVE  /\ Phase[s] = "unused" <=> state[s] = "NONE"
           /\ Phase[s] = "open" <=> state[s] \in Open
           /\ Phase[s] = "sealed" <=> state[s] = "VERIFYING"
           /\ Phase[s] = "published" <=> state[s] = "READY"
           /\ Phase[s] = "failed" <=> state[s] \in Dead
  BY DEF TypeOK, Phase, Active, Open, Terminal, Dead

\* With one game at most, Game is that one.
LEMMA GameOf ==
    ASSUME OneGame, NoSession \notin Session
    PROVE  /\ Current = {} => Game = NoSession
           /\ \A s \in Current : Game = s /\ Current = {s}
           /\ \A s \in Session : Game = s <=> s \in Current
<1>1. ASSUME NEW s \in Current PROVE Game = s /\ Current = {s}
  <2>1. Current = {s}
    BY <1>1 DEF OneGame
  <2>2. QED BY <2>1 DEF Game
<1>2. Current = {} => Game = NoSession
  BY DEF Game
<1>3. ASSUME NEW s \in Session, Game = s PROVE s \in Current
  <2>1. Current # {}
    BY <1>2, <1>3
  <2>2. QED BY <2>1, <1>1, <1>3
<1>4. QED BY <1>1, <1>2, <1>3

\* The game that is deleted or replaced is the only one, and the session that
\* is published was created when that one, or none, was current.
LEMMA OneGameStep ==
    ASSUME IInv, OneGame, [Next]_vars
    PROVE  OneGame'
<1>. USE DEF IInv, TypeOK, OneGame, Current, Worker, row, tasks, store
<1>1. CASE ExpireStaleAllocations
  BY <1>1 DEF ExpireStaleAllocations
<1>2. ASSUME NEW s \in Session, UserStep(s)
      PROVE  OneGame'
  <2>1. CASE ClaimAssetForDeletion(s) \/ CompleteAssetDeletion(s)
    BY <2>1 DEF ClaimAssetForDeletion, CompleteAssetDeletion
  <2>2. CASE UNCHANGED asset
    BY <2>2
  <2>3. QED BY <1>2, <2>1, <2>2 DEF UserStep, CreateAllocating, CancelRead,
     Cancel, Close, PutParts, ListSubmittedParts
<1>3. ASSUME NEW s \in Session, SystemStep(s)
      PROVE  OneGame'
  BY <1>3 DEF SystemStep, CreateMultipart, SetAllocated, PassExpiresAt,
     ExpireTimedOutSession, Close, StoreCompletes, StoreRefuses, ReapObject,
     QueueUnknownMultipartAbort, CompletionLapses, ValidationLapses, TaskLapses
<1>4. ASSUME NEW s \in Session, SessionFailure(s)
      PROVE  OneGame'
  BY <1>4 DEF SessionFailure, CreatorCrash, FailAllocation, StoreLoses
<1>5. ASSUME NEW w \in Worker, NEW s \in Session, Claim(w, s)
      PROVE  OneGame'
  BY <1>5 DEF Claim, ClaimExpiredCompletion, ClaimVerifying, ClaimTask
<1>6. ASSUME NEW w \in Worker, Progress(w)
      PROVE  OneGame'
  <2>1. CASE CommitGameReady(w)
    BY <2>1 DEF CommitGameReady
  <2>2. CASE UNCHANGED asset
    BY <2>2
  <2>3. QED BY <1>6, <2>1, <2>2 DEF Progress, ClaimCompletion, SendComplete,
     CompleteAnswered, HeadCompleted, HeadUnclear, MarkVerifying, RevertUploading,
     Yield, RecoverHead, RecoverList, RecoverAnswered, RecoverHeadAfter,
     ReleaseRecoveredCompletion, RejectRecoveredCompletion, Validate,
     CommitRefused, MarkRejected, AbortMultipart, ResolveTask, FailTask
<1>7. ASSUME NEW w \in Worker, WorkerFailure(w)
      PROVE  OneGame'
  BY <1>7 DEF WorkerFailure, Crash, CompleteFails, MarkFails, RecoverFails,
     ValidateFails, CommitFails, AbortFails
<1>8. CASE UNCHANGED vars
  BY <1>8 DEF vars
<1>9. QED BY <1>1, <1>2, <1>3, <1>4, <1>5, <1>6, <1>7, <1>8 DEF Next

\* The project never has two published games.
THEOREM OneGameAlways == Spec => []OneGame
<1>1. Init => OneGame
  BY PublishedAssumption DEF Init, OneGame, Current
<1>2. IInv /\ OneGame /\ [Next]_vars => OneGame'
  BY OneGameStep
<1>3. QED BY InvAlways, <1>1, <1>2, PTL DEF Spec

-----------------------------------------------------------------------------
(* The refinement.                                                         *)

\* A step that moves sessions between open states at most, and leaves the
\* targets, the objects and the current game, is not seen.
LEMMA Unseen ==
    ASSUME TypeOK, TypeOK', UNCHANGED <<target, object>>, Current' = Current,
           \A s \in Session :
              state'[s] = state[s] \/ (state[s] \in Open /\ state'[s] \in Open)
    PROVE  UNCHANGED Promise!vars
<1>1. Phase' = Phase
  BY DEF Phase, TypeOK, Active, Open, Terminal, Dead
<1>2. Game' = Game
  BY DEF Game
<1>3. QED BY <1>1, <1>2 DEF Promise!vars

\* A step that ends active sessions unsuccessfully is a Fail.
LEMMA Failing ==
    ASSUME TypeOK, TypeOK', NEW ended \in SUBSET Session,
           \A s \in ended : state[s] \in Active /\ state'[s] \in Dead,
           \A s \in Session \ ended : state'[s] = state[s],
           UNCHANGED <<target, asset, object>>
    PROVE  Promise!Next
<1>1. \A s \in ended : Phase[s] \in {"open", "sealed"}
  BY DEF Phase, TypeOK, Active, Open, Terminal, Dead
<1>2. Phase' = [s \in Session |-> IF s \in ended THEN "failed" ELSE Phase[s]]
  BY DEF Phase, TypeOK, Active, Open, Terminal, Dead
<1>3. Game' = Game
  BY DEF Game, Current
<1>4. Promise!Fail(ended)
  BY <1>1, <1>2, <1>3 DEF Promise!Fail
<1>5. QED BY <1>4 DEF Promise!Next

\* What one session does to its row is seen of that session only.
LEMMA PhaseFrame ==
    ASSUME TypeOK, NEW s \in Session, NEW to, state' = [state EXCEPT ![s] = to]
    PROVE  Phase' = [Phase EXCEPT ![s] = Phase'[s]]
<1>1. ASSUME NEW t \in Session \ {s}
      PROVE  Phase'[t] = Phase[t]
  <2>1. state'[t] = state[t] /\ state[t] \in {"NONE"} \cup Active \cup Terminal
    BY DEF TypeOK
  <2>2. QED BY <2>1 DEF Phase, Active, Open, Terminal, Dead
<1>2. Phase = [t \in Session |-> Phase[t]] /\ Phase' = [t \in Session |-> Phase'[t]]
  BY DEF Phase
<1>3. QED BY <1>1, <1>2

\* A session is inserted when none is active, against the current game.
LEMMA BeginStep ==
    ASSUME IInv, OneGame, TypeOK', NEW s \in Session, CreateAllocating(s)
    PROVE  Promise!Next
<1>. USE DEF IInv
<1>1. Phase[s] = "unused" /\ \A t \in Session : Phase[t] \notin {"open", "sealed"}
  BY PhaseOf DEF CreateAllocating, Active
<1>2. Phase' = [Phase EXCEPT ![s] = "open"]
  <2>1. state' = [state EXCEPT ![s] = "ALLOCATING"] /\ state'[s] = "ALLOCATING"
    BY DEF CreateAllocating, TypeOK
  <2>2. Phase'[s] = "open"
    BY <2>1 DEF Phase, Active, Open, Dead
  <2>3. QED BY <2>1, <2>2, PhaseFrame
<1>3. Game' = Game /\ UNCHANGED object
  BY DEF CreateAllocating, Game, Current, store
<1>4. target' = [target EXCEPT ![s] = Game]
  <2>1. CASE Current = {}
    <3>1. target[s] = NoSession /\ UNCHANGED target
      BY <2>1 DEF CreateAllocating, Consistent, ColumnsAgree
    <3>2. QED BY <2>1, <3>1 DEF Game, TypeOK
  <2>2. CASE Current # {}
    <3>1. PICK t \in Current : target' = [target EXCEPT ![s] = t]
      BY <2>2 DEF CreateAllocating
    <3>2. QED BY <3>1, GameOf, NamesDistinct
  <2>3. QED BY <2>1, <2>2
<1>5. Promise!Begin(s)
  BY <1>1, <1>2, <1>3, <1>4 DEF Promise!Begin
<1>6. QED BY <1>5 DEF Promise!Next

\* A completion takes effect: the bytes arrive, or short ones nobody keeps.
LEMMA KeepStep ==
    ASSUME IInv, TypeOK', NEW s \in Session, StoreCompletes(s)
    PROVE  Promise!Next \/ UNCHANGED Promise!vars
<1>. USE DEF IInv
<1>1. UNCHANGED <<Phase, target, Game>>
  BY DEF StoreCompletes, Phase, Game, Current, row
<1>2. Phase[s] # "unused"
  BY PhaseOf DEF StoreCompletes, Consistent, CreationAgrees
<1>3. PICK o \in {"good", "short"} : object' = [object EXCEPT ![s] = o]
  BY DEF StoreCompletes
<1>4. object[s] = "none"
  BY DEF StoreCompletes, Consistent, StorageAgrees
<1>5. CASE o = "good"
  <2>1. {t \in Session : object[t] = "good"}' = {t \in Session : object[t] = "good"} \cup {s}
    BY <1>3, <1>5 DEF TypeOK
  <2>2. Promise!Keep(s)
    BY <1>1, <1>2, <2>1 DEF Promise!Keep
  <2>3. QED BY <2>2 DEF Promise!Next
<1>6. CASE o = "short"
  <2>1. {t \in Session : object[t] = "good"}' = {t \in Session : object[t] = "good"}
    BY <1>3, <1>4, <1>6 DEF TypeOK
  <2>2. QED BY <1>1, <2>1 DEF Promise!vars
<1>7. QED BY <1>3, <1>5, <1>6

\* The deletion worker removes bytes that are neither sealed nor the game's.
LEMMA DropStep ==
    ASSUME IInv, OneGame, TypeOK', NEW s \in Session, ReapObject(s)
    PROVE  Promise!Next
<1>. USE DEF IInv
<1>1. UNCHANGED <<Phase, target, Game>>
  BY DEF ReapObject, Phase, Game, Current, row
<1>2. Phase[s] # "sealed"
  BY PhaseOf DEF ReapObject, OnlyDeadObjectsQueued, Dead, Consistent, ColumnsAgree
<1>3. Game # s
  <2>1. s \notin Current
    BY DEF ReapObject, OnlyDeadObjectsQueued, Dead, Consistent, ColumnsAgree, Current
  <2>2. QED BY <2>1, GameOf, NamesDistinct
<1>4. {t \in Session : object[t] = "good"}' = {t \in Session : object[t] = "good"} \ {s}
  BY DEF ReapObject, TypeOK
<1>5. Promise!Drop(s)
  BY <1>1, <1>2, <1>3, <1>4 DEF Promise!Drop
<1>6. QED BY <1>5 DEF Promise!Next

\* A session is sealed by a worker whose view of the object still holds.
LEMMA SealStep ==
    ASSUME IInv, TypeOK', NEW w \in Worker, MarkVerifying(w)
    PROVE  Promise!Next
<1>. USE DEF IInv
<1>1. on[w] \in Session
  BY DEF MarkVerifying, TypeOK
<1>2. state[on[w]] = "COMPLETING" /\ object[on[w]] = "good"
  BY DEF MarkVerifying, OwnsCompletion, Consistent, ViewHolds
<1>3. Phase[on[w]] = "open"
  BY <1>1, <1>2, PhaseOf DEF Open
<1>4. Phase' = [Phase EXCEPT ![on[w]] = "sealed"]
  <2>1. state' = [state EXCEPT ![on[w]] = "VERIFYING"] /\ state'[on[w]] = "VERIFYING"
    BY <1>1 DEF MarkVerifying, TypeOK
  <2>2. Phase'[on[w]] = "sealed"
    BY <1>1, <2>1 DEF Phase, Active, Open, Dead
  <2>3. QED BY <1>1, <2>1, <2>2, PhaseFrame
<1>5. UNCHANGED <<target, Game, object>>
  BY DEF MarkVerifying, Game, Current, store
<1>6. Promise!Seal(on[w])
  BY <1>1, <1>2, <1>3, <1>4, <1>5 DEF Promise!Seal
<1>7. QED BY <1>1, <1>6 DEF Promise!Next

\* The commit replaces exactly the game its session was created against.
LEMMA PublishStep ==
    ASSUME IInv, OneGame, OneGame', TypeOK', NEW w \in Worker, CommitGameReady(w)
    PROVE  Promise!Next
<1>. USE DEF IInv
<1>1. on[w] \in Session
  BY DEF CommitGameReady, TypeOK
<1>2. Phase[on[w]] = "sealed"
  BY <1>1, PhaseOf DEF CommitGameReady, OwnsValidation
<1>3. Game = target[on[w]]
  <2>1. CASE target[on[w]] = NoSession
    BY <2>1 DEF CommitGameReady, TargetCurrent, Game
  <2>2. CASE target[on[w]] # NoSession
    <3>1. Current = {target[on[w]]}
      BY <2>2 DEF CommitGameReady, TargetCurrent
    <3>2. QED BY <3>1, GameOf, NamesDistinct
  <2>3. QED BY <2>1, <2>2
<1>4. Phase' = [Phase EXCEPT ![on[w]] = "published"]
  <2>1. state' = [state EXCEPT ![on[w]] = "READY"] /\ state'[on[w]] = "READY"
    BY <1>1 DEF CommitGameReady, TypeOK
  <2>2. Phase'[on[w]] = "published"
    BY <1>1, <2>1 DEF Phase, Active, Open, Dead
  <2>3. QED BY <1>1, <2>1, <2>2, PhaseFrame
<1>5. Game' = on[w]
  <2>1. Current' = {on[w]}
    BY <1>1 DEF CommitGameReady, Current, TypeOK
  <2>2. QED BY <2>1 DEF Game
<1>6. UNCHANGED <<target, object>>
  BY DEF CommitGameReady, store
<1>7. Promise!Publish(on[w])
  BY <1>2, <1>3, <1>4, <1>5, <1>6 DEF Promise!Publish
<1>8. QED BY <1>1, <1>7 DEF Promise!Next

\* Claiming the published asset for deletion takes it out of sight.
LEMMA WithdrawStep ==
    ASSUME IInv, OneGame, NEW s \in Session, ClaimAssetForDeletion(s)
    PROVE  Promise!Next
<1>. USE DEF IInv
<1>1. UNCHANGED <<Phase, target, object>>
  BY DEF ClaimAssetForDeletion, Phase, row, store
<1>2. Current' = {}
  BY DEF ClaimAssetForDeletion, Current, OneGame, TypeOK
<1>3. Game' = NoSession
  BY <1>2 DEF Game
<1>4. Promise!Withdraw
  BY <1>1, <1>3 DEF Promise!Withdraw
<1>5. QED BY <1>4 DEF Promise!Next

\* Every step of AssetUpload is a step of GamePublication or is not seen.
LEMMA RefinementStep ==
    ASSUME IInv, IInv', OneGame, OneGame', [Next]_vars
    PROVE  [Promise!Next]_Promise!vars
<1>. TypeOK /\ TypeOK'
  BY DEF IInv
<1>. DEFINE Outward == <<state, target, asset, object>>
            Shown == Promise!Next \/ UNCHANGED Promise!vars
<1>1. ASSUME UNCHANGED Outward PROVE Shown
  <2>1. Current' = Current
    BY <1>1 DEF Current
  <2>2. QED BY <1>1, <2>1, Unseen
<1>2. ASSUME NEW s \in Session, NEW final \in Dead, state[s] \in Active,
             state' = [state EXCEPT ![s] = final],
             UNCHANGED <<target, asset, object>>
      PROVE  Shown
  <2>1. state'[s] = final /\ \A t \in Session \ {s} : state'[t] = state[t]
    BY <1>2 DEF TypeOK
  <2>2. {s} \in SUBSET Session /\ \A t \in {s} : state[t] \in Active /\ state'[t] \in Dead
    BY <1>2, <2>1
  <2>3. Promise!Next
    BY <1>2, <2>1, <2>2, Failing
  <2>4. QED BY <2>3
<1>3. ASSUME NEW s \in Session, NEW to \in Open, state[s] \in Open,
             state' = [state EXCEPT ![s] = to],
             UNCHANGED <<target, asset, object>>
      PROVE  Shown
  <2>1. Current' = Current
    BY <1>3 DEF Current
  <2>2. \A t \in Session :
           state'[t] = state[t] \/ (state[t] \in Open /\ state'[t] \in Open)
    BY <1>3 DEF TypeOK
  <2>3. QED BY <1>3, <2>1, <2>2, Unseen
<1>4. CASE ExpireStaleAllocations
  <2>1. PICK stale \in SUBSET Session :
           /\ stale = {s \in Session : state[s] = "ALLOCATING" /\ expired[s]}
           /\ state' = [s \in Session |-> IF s \in stale THEN "EXPIRED"
                                          ELSE state[s]]
    BY <1>4 DEF ExpireStaleAllocations
  <2>2. \A s \in stale : state[s] \in Active /\ state'[s] \in Dead
    BY <2>1 DEF Active, Open, Dead
  <2>3. \A s \in Session \ stale : state'[s] = state[s]
    BY <2>1
  <2>4. UNCHANGED <<target, asset, object>>
    BY <1>4 DEF ExpireStaleAllocations, store
  <2>5. QED BY <2>2, <2>3, <2>4, Failing
<1>5. ASSUME NEW s \in Session, UserStep(s) PROVE Shown
  <2>1. CASE CreateAllocating(s)
    BY <2>1, BeginStep
  <2>2. CASE CancelRead(s) \/ PutParts(s) \/ (\E w \in Completer : ListSubmittedParts(w, s))
    BY <2>2, <1>1 DEF CancelRead, PutParts, ListSubmittedParts, row, store
  <2>3. CASE Cancel(s)
    <3>1. CASE state[s] \in {"ALLOCATING", "UPLOADING"}
      BY <2>3, <3>1, <1>2 DEF Cancel, Close, Active, Open, Dead, store
    <3>2. CASE state[s] \notin {"ALLOCATING", "UPLOADING"}
      BY <2>3, <3>2, <1>1 DEF Cancel, row, store
    <3>3. QED BY <3>1, <3>2
  <2>4. CASE ClaimAssetForDeletion(s)
    BY <2>4, WithdrawStep
  <2>5. CASE CompleteAssetDeletion(s)
    <3>1. Current' = Current
      BY <2>5 DEF CompleteAssetDeletion, Current, TypeOK
    <3>2. QED BY <2>5, <3>1, Unseen DEF CompleteAssetDeletion, row, store
  <2>6. QED BY <1>5, <2>1, <2>2, <2>3, <2>4, <2>5 DEF UserStep
<1>6. ASSUME NEW s \in Session, SystemStep(s) PROVE Shown
  <2>1. CASE \/ CreateMultipart(s) \/ PassExpiresAt(s) \/ StoreRefuses(s)
             \/ QueueUnknownMultipartAbort(s) \/ CompletionLapses(s)
             \/ ValidationLapses(s) \/ TaskLapses(s)
    BY <2>1, <1>1 DEF CreateMultipart, PassExpiresAt, StoreRefuses,
       QueueUnknownMultipartAbort, CompletionLapses, ValidationLapses, TaskLapses,
       row, store
  <2>2. CASE SetAllocated(s)
    <3>1. CASE state[s] = "ALLOCATING" /\ ~uploadId[s]
      BY <2>2, <3>1, <1>3 DEF SetAllocated, Open, store
    <3>2. CASE ~(state[s] = "ALLOCATING" /\ ~uploadId[s])
      BY <2>2, <3>2, <1>1 DEF SetAllocated, store
    <3>3. QED BY <3>1, <3>2
  <2>3. CASE ExpireTimedOutSession(s)
    BY <2>3, <1>2 DEF ExpireTimedOutSession, Close, Active, Open, Dead, store
  <2>4. CASE StoreCompletes(s)
    BY <2>4, KeepStep
  <2>5. CASE ReapObject(s)
    BY <2>5, DropStep
  <2>6. QED BY <1>6, <2>1, <2>2, <2>3, <2>4, <2>5 DEF SystemStep
<1>7. ASSUME NEW s \in Session, SessionFailure(s) PROVE Shown
  <2>1. CASE CreatorCrash(s) \/ StoreLoses(s)
    BY <2>1, <1>1 DEF CreatorCrash, StoreLoses, row, store
  <2>2. CASE FailAllocation(s) /\ state[s] = "ALLOCATING" /\ ~uploadId[s]
    BY <2>2, <1>2 DEF FailAllocation, Active, Open, Dead, store
  <2>3. CASE FailAllocation(s) /\ ~(state[s] = "ALLOCATING" /\ ~uploadId[s])
    BY <2>3, <1>1 DEF FailAllocation, store
  <2>4. QED BY <1>7, <2>1, <2>2, <2>3 DEF SessionFailure
<1>8. ASSUME NEW w \in Worker, NEW s \in Session, Claim(w, s) PROVE Shown
  BY <1>8, <1>1 DEF Claim, ClaimExpiredCompletion, ClaimVerifying, ClaimTask,
     row, store
<1>9. ASSUME NEW w \in Worker, Progress(w) PROVE Shown
  <2>1. CASE \/ SendComplete(w) \/ CompleteAnswered(w) \/ HeadCompleted(w)
             \/ HeadUnclear(w) \/ Yield(w) \/ RecoverHead(w) \/ RecoverList(w)
             \/ RecoverAnswered(w) \/ RecoverHeadAfter(w) \/ Validate(w)
             \/ CommitRefused(w) \/ AbortMultipart(w) \/ ResolveTask(w)
             \/ FailTask(w)
    BY <2>1, <1>1 DEF SendComplete, CompleteAnswered, HeadCompleted, HeadUnclear,
       Yield, RecoverHead, RecoverList, RecoverAnswered, RecoverHeadAfter,
       Validate, CommitRefused, AbortMultipart, ResolveTask, FailTask, row, store
  <2>2. CASE ClaimCompletion(w)
    <3>1. on[w] \in Session
      BY <2>2 DEF ClaimCompletion, TypeOK
    <3>2. CASE state[on[w]] = "UPLOADING" /\ uploadId[on[w]]
      BY <2>2, <3>1, <3>2, <1>3 DEF ClaimCompletion, Open, store
    <3>3. CASE ~(state[on[w]] = "UPLOADING" /\ uploadId[on[w]])
      BY <2>2, <3>3, <1>1 DEF ClaimCompletion, store
    <3>4. QED BY <3>2, <3>3
  <2>3. CASE MarkVerifying(w)
    BY <2>3, SealStep
  <2>4. CASE RevertUploading(w)
    <3>1. on[w] \in Session
      BY <2>4 DEF RevertUploading, TypeOK
    <3>2. QED BY <2>4, <3>1, <1>3 DEF RevertUploading, OwnsCompletion, Open, store
  <2>5. CASE ReleaseRecoveredCompletion(w)
    <3>1. on[w] \in Session
      BY <2>5 DEF ReleaseRecoveredCompletion, TypeOK
    <3>2. CASE ~expired[on[w]]
      BY <2>5, <3>1, <3>2, <1>3
         DEF ReleaseRecoveredCompletion, OwnsCompletion, Open, store
    <3>3. CASE expired[on[w]]
      BY <2>5, <3>1, <3>3, <1>2
         DEF ReleaseRecoveredCompletion, OwnsCompletion, Active, Open, Dead, store
    <3>4. QED BY <3>2, <3>3
  <2>6. CASE RejectRecoveredCompletion(w)
    <3>1. on[w] \in Session
      BY <2>6 DEF RejectRecoveredCompletion, TypeOK
    <3>2. QED BY <2>6, <3>1, <1>2
         DEF RejectRecoveredCompletion, OwnsCompletion, Active, Open, Dead, store
  <2>7. CASE CommitGameReady(w)
    BY <2>7, PublishStep
  <2>8. CASE MarkRejected(w)
    <3>1. on[w] \in Session
      BY <2>8 DEF MarkRejected, TypeOK
    <3>2. QED BY <2>8, <3>1, <1>2
         DEF MarkRejected, OwnsValidation, Active, Open, Dead, store
  <2>9. QED BY <1>9, <2>1, <2>2, <2>3, <2>4, <2>5, <2>6, <2>7, <2>8 DEF Progress
<1>10. ASSUME NEW w \in Worker, WorkerFailure(w) PROVE Shown
  BY <1>10, <1>1 DEF WorkerFailure, Crash, CompleteFails, MarkFails, RecoverFails,
     ValidateFails, CommitFails, AbortFails, row, store
<1>11. CASE UNCHANGED vars
  BY <1>11, <1>1 DEF vars, row, store
<1>12. QED BY <1>4, <1>5, <1>6, <1>7, <1>8, <1>9, <1>10, <1>11 DEF Next

LEMMA RefinementInitially == Init => Promise!Init
<1>1. SUFFICES ASSUME Init PROVE Promise!Init
  OBVIOUS
<1>2. Phase = [s \in Session |-> IF s \in Published THEN "published" ELSE "unused"]
  BY <1>1 DEF Init, Phase, Open
<1>3. target = [s \in Session |-> NoSession]
  BY <1>1 DEF Init
<1>4. {s \in Session : object[s] = "good"} = Published
  BY <1>1, PublishedAssumption DEF Init
<1>5. Current = Published
  BY <1>1, PublishedAssumption DEF Init, Current
<1>6. IF Published = {} THEN Game = NoSession ELSE Game \in Published
  BY <1>5 DEF Game
<1>7. QED BY <1>2, <1>3, <1>4, <1>6 DEF Promise!Init

\* The uploads implement GamePublication: whatever the handlers, the recovery
\* pass, the workers and storage do, in any order and with any failures, what
\* is seen of it is a behaviour of the promise.
THEOREM Refinement == Spec => PromiseKept
<1>1. IInv /\ IInv' /\ OneGame /\ OneGame' /\ [Next]_vars
         => [Promise!Next]_Promise!vars
  BY RefinementStep
<1>2. QED BY InvAlways, OneGameAlways, RefinementInitially, <1>1, PTL
          DEF Spec, PromiseKept, Promise!Spec
-----------------------------------------------------------------------------
(* How far the departures of AbortQueuedAtomically and                     *)
(* RecoveryRejectsOnlyLostUploads go.                                      *)

\* A step ends a session that has an upload id in one of four ways.
LEMMA AbortStep ==
    ASSUME IInv, Next, NEW t \in Session, uploadId[t], state[t] \notin Dead,
           state'[t] \in {"CANCELLED", "EXPIRED"}
    PROVE  \/ task'[t] = "pending"
           \/ /\ canceller[t] = "empty" /\ canceller'[t] = "idle"
              /\ state[t] = "UPLOADING" /\ state'[t] = "CANCELLED"
<1>. DEFINE Explained == \/ task'[t] = "pending"
                         \/ /\ canceller[t] = "empty" /\ canceller'[t] = "idle"
                            /\ state[t] = "UPLOADING" /\ state'[t] = "CANCELLED"
<1>1. /\ state[t] \in {"UPLOADING", "COMPLETING"}
      /\ task[t] = "none"
  BY DEF IInv, Consistent, ColumnsAgree, AbortsOnlyDeadUploads
<1>2. ASSUME QueueAbort(t) PROVE task'[t] = "pending"
  BY <1>1, <1>2 DEF QueueAbort, IInv, TypeOK
<1>3. state'[t] # state[t]
  BY <1>1
<1>. USE DEF TypeOK, Worker, Active, Open, Terminal, Dead, row, tasks, store
<1>4. CASE ExpireStaleAllocations
  BY <1>1, <1>3, <1>4 DEF ExpireStaleAllocations
<1>5. ASSUME NEW s \in Session, UserStep(s) PROVE Explained
  <2>1. CASE CreateAllocating(s)
    BY <1>1, <2>1 DEF CreateAllocating, IInv
  <2>2. CASE Cancel(s)
    <3>1. state[s] \in {"ALLOCATING", "UPLOADING"} /\ s = t
      BY <1>3, <2>2 DEF Cancel, Close, IInv
    <3>2. CASE canceller[t] = "holding"
      BY <1>2, <2>2, <3>1, <3>2 DEF Cancel, Close
    <3>3. CASE canceller[t] = "empty"
      BY <1>1, <2>2, <3>1, <3>3 DEF Cancel, Close, IInv
    <3>4. canceller[t] \in {"empty", "holding"}
      BY <2>2, <3>1 DEF Cancel, IInv
    <3>5. QED BY <3>2, <3>3, <3>4
  <2>3. CASE UNCHANGED state
    BY <1>3, <2>3
  <2>4. QED BY <1>5, <2>1, <2>2, <2>3 DEF UserStep, CancelRead, PutParts,
     ClaimAssetForDeletion, CompleteAssetDeletion, ListSubmittedParts
<1>6. ASSUME NEW s \in Session, SystemStep(s) PROVE Explained
  <2>1. CASE SetAllocated(s)
    BY <1>1, <1>3, <2>1 DEF SetAllocated, IInv
  <2>2. CASE ExpireTimedOutSession(s)
    <3>1. s = t
      BY <1>3, <2>2 DEF ExpireTimedOutSession, Close, IInv
    <3>2. QED BY <1>2, <2>2, <3>1 DEF ExpireTimedOutSession, Close
  <2>3. CASE UNCHANGED state
    BY <1>3, <2>3
  <2>4. QED BY <1>6, <2>1, <2>2, <2>3 DEF SystemStep, CreateMultipart,
     PassExpiresAt, StoreCompletes, StoreRefuses, ReapObject,
     QueueUnknownMultipartAbort, CompletionLapses, ValidationLapses, TaskLapses
<1>7. ASSUME NEW s \in Session, SessionFailure(s) PROVE Explained
  BY <1>1, <1>3, <1>7 DEF SessionFailure, CreatorCrash, FailAllocation,
     StoreLoses, IInv
<1>8. ASSUME NEW w \in Worker, NEW s \in Session, Claim(w, s) PROVE Explained
  BY <1>3, <1>8 DEF Claim, ClaimExpiredCompletion, ClaimVerifying, ClaimTask
<1>9. ASSUME NEW w \in Worker, Progress(w) PROVE Explained
  <2>1. CASE ReleaseRecoveredCompletion(w)
    <3>1. expired[on[w]] /\ on[w] = t
      BY <1>1, <1>3, <2>1 DEF ReleaseRecoveredCompletion, IInv
    <3>2. QED BY <1>2, <2>1, <3>1 DEF ReleaseRecoveredCompletion
  <2>2. CASE ClaimCompletion(w)
    BY <1>3, <2>2 DEF ClaimCompletion, IInv
  <2>3. CASE MarkVerifying(w) \/ RevertUploading(w) \/ RejectRecoveredCompletion(w)
             \/ CommitGameReady(w) \/ MarkRejected(w)
    BY <1>3, <2>3 DEF MarkVerifying, RevertUploading, RejectRecoveredCompletion,
       CommitGameReady, MarkRejected, IInv
  <2>4. CASE UNCHANGED state
    BY <1>3, <2>4
  <2>5. QED BY <1>9, <2>1, <2>2, <2>3, <2>4 DEF Progress, SendComplete,
     CompleteAnswered, HeadCompleted, HeadUnclear, Yield, RecoverHead,
     RecoverList, RecoverAnswered, RecoverHeadAfter, Validate, CommitRefused,
     AbortMultipart, ResolveTask, FailTask
<1>10. ASSUME NEW w \in Worker, WorkerFailure(w) PROVE Explained
  BY <1>3, <1>10 DEF WorkerFailure, Crash, CompleteFails, MarkFails,
     RecoverFails, ValidateFails, CommitFails, AbortFails
<1>11. QED BY <1>4, <1>5, <1>6, <1>7, <1>8, <1>9, <1>10 DEF Next

\* Only a cancellation that read the session before its upload id was stored
\* drops that id without a due abort task.
THEOREM AbortsLost == Spec => AbortLostOnlyByCancel
<1>1. IInv /\ Next => \A s \in Session :
         uploadId[s] /\ state[s] \notin Dead /\ state'[s] \in {"CANCELLED", "EXPIRED"}
           => \/ task'[s] = "pending"
              \/ /\ canceller[s] = "empty" /\ canceller'[s] = "idle"
                 /\ state[s] = "UPLOADING" /\ state'[s] = "CANCELLED"
  BY AbortStep
<1>2. QED BY InvAlways, <1>1, PTL DEF Spec, AbortLostOnlyByCancel

\* Every step that could make a pass's decision to reject fall on a whole
\* object: the decision itself, and the arrival of bytes.
LEMMA RejectStep ==
    ASSUME IInv, Next, NEW w \in Recoverer, at'[w] = "reject",
           object'[on'[w]] = "good"
    PROVE  /\ on'[w] = on[w] /\ object[on[w]] = "good"
           /\ multipart[on[w]] = "done"
           /\ at[w] \in {"list", "reject"}
<1>. DEFINE Explained == /\ on'[w] = on[w] /\ object[on[w]] = "good"
                         /\ multipart[on[w]] = "done"
                         /\ at[w] \in {"list", "reject"}
<1>1. w \in Worker /\ TypeOK
  BY DEF Worker, IInv
<1>2. on[w] = NoSession <=> at[w] = "idle"
  BY <1>1 DEF TypeOK
<1>3. on[w] \in Session \cup {NoSession} /\ \A v \in Worker : on[v] \in Session \cup {NoSession}
  BY <1>1 DEF TypeOK
<1>4. \A s \in Session : object[s] = "good" => multipart[s] = "done"
  BY DEF IInv, Consistent, StorageAgrees
<1>5. at[w] = "reject" => multipart[on[w]] \in {"done", "aborted"}
  BY <1>1 DEF IInv, Consistent, ViewHolds
<1>6. \* A process that stays where it was, while no object turns whole.
      ASSUME at'[w] = at[w], on'[w] = on[w],
             \A s \in Session : object'[s] = "good" => object[s] = "good"
      PROVE  Explained
  BY <1>2, <1>3, <1>4, <1>6
<1>7. \* What another process does leaves this one alone.
      ASSUME NEW v \in Worker, v # w, UNCHANGED object,
             \E l : \/ Goto(v, l)
                    \/ \E s : Take(v, s, l)
      PROVE  Explained
  <2>1. at'[w] = at[w] /\ on'[w] = on[w]
    BY <1>1, <1>7 DEF Goto, Take, TypeOK
  <2>2. QED BY <1>6, <1>7, <2>1
<1>8. ASSUME UNCHANGED <<procs, object>> PROVE Explained
  BY <1>6, <1>8 DEF procs
<1>9. CASE ExpireStaleAllocations
  BY <1>8, <1>9 DEF ExpireStaleAllocations, store
<1>10. ASSUME NEW s \in Session, UserStep(s) PROVE Explained
  <2>1. CASE \E v \in Completer : ListSubmittedParts(v, s)
    <3>1. PICK v \in Completer : ListSubmittedParts(v, s)
      BY <2>1
    <3>2. v \in Worker /\ v # w
      BY RolesDisjoint DEF Worker
    <3>3. QED BY <1>7, <3>1, <3>2 DEF ListSubmittedParts, store
  <2>2. CASE UNCHANGED <<procs, object>>
    BY <1>8, <2>2
  <2>3. QED BY <1>10, <2>1, <2>2 DEF UserStep, CreateAllocating, CancelRead,
     Cancel, Close, PutParts, ClaimAssetForDeletion, CompleteAssetDeletion, store
<1>11. ASSUME NEW s \in Session, SystemStep(s) PROVE Explained
  <2>1. CASE StoreCompletes(s)
    <3>1. at'[w] = at[w] /\ on'[w] = on[w]
      BY <2>1 DEF StoreCompletes, procs
    <3>2. on[w] \in Session /\ on[w] # s
      BY <1>2, <1>3, <1>5, <2>1, <3>1 DEF StoreCompletes
    <3>3. object'[on[w]] = object[on[w]]
      BY <1>1, <2>1, <3>2 DEF StoreCompletes, TypeOK
    <3>4. QED BY <1>4, <3>1, <3>2, <3>3
  <2>2. CASE ReapObject(s)
    <3>1. \A t \in Session : object'[t] = "good" => object[t] = "good"
      BY <1>1, <2>2 DEF ReapObject, TypeOK
    <3>2. QED BY <1>6, <2>2, <3>1 DEF ReapObject, procs
  <2>3. CASE UNCHANGED <<procs, object>>
    BY <1>8, <2>3
  <2>4. QED BY <1>11, <2>1, <2>2, <2>3 DEF SystemStep, CreateMultipart,
     SetAllocated, PassExpiresAt, ExpireTimedOutSession, Close, StoreRefuses,
     QueueUnknownMultipartAbort, CompletionLapses, ValidationLapses, TaskLapses,
     store
<1>12. ASSUME NEW s \in Session, SessionFailure(s) PROVE Explained
  BY <1>8, <1>12 DEF SessionFailure, CreatorCrash, FailAllocation, StoreLoses,
     store
<1>13. ASSUME NEW v \in Worker, NEW s \in Session, Claim(v, s) PROVE Explained
  <2>1. /\ UNCHANGED object
        /\ \E l \in {"head", "validate", "abort"} : Take(v, s, l)
    BY <1>13 DEF Claim, ClaimExpiredCompletion, ClaimVerifying, ClaimTask, store
  <2>2. v # w
    BY <1>1, <2>1 DEF Take, TypeOK
  <2>3. QED BY <1>7, <2>1, <2>2
<1>14. ASSUME NEW v \in Worker, Progress(v) \/ WorkerFailure(v) PROVE Explained
  <2>1. UNCHANGED object
    BY <1>14 DEF Progress, WorkerFailure, ClaimCompletion, SendComplete,
       CompleteAnswered, HeadCompleted, HeadUnclear, MarkVerifying,
       RevertUploading, Yield, RecoverHead, RecoverList, RecoverAnswered,
       RecoverHeadAfter, ReleaseRecoveredCompletion, RejectRecoveredCompletion,
       Validate, CommitGameReady, CommitRefused, MarkRejected, AbortMultipart,
       ResolveTask, FailTask, Crash, CompleteFails, MarkFails, RecoverFails,
       ValidateFails, CommitFails, AbortFails, store
  <2>2. CASE v # w
    <3>1. \E l : Goto(v, l) \/ \E s : Take(v, s, l)
      BY <1>14 DEF Progress, WorkerFailure, ClaimCompletion, SendComplete,
         CompleteAnswered, HeadCompleted, HeadUnclear, MarkVerifying,
         RevertUploading, Yield, RecoverHead, RecoverList, RecoverAnswered,
         RecoverHeadAfter, Reconcile, ReleaseRecoveredCompletion,
         RejectRecoveredCompletion, Validate, CommitGameReady, RetryOrGiveUp,
         CommitRefused, MarkRejected, AbortMultipart, ResolveTask, FailTask,
         Crash, CompleteFails, MarkFails, RecoverFails, ValidateFails,
         CommitFails, AbortFails, Stop
    <3>2. QED BY <1>7, <2>1, <2>2, <3>1
  <2>3. CASE v = w
    <3>1. \/ RecoverHead(w) \/ RecoverList(w) \/ RecoverHeadAfter(w)
      BY <1>1, <1>14, <2>3 DEF Progress, WorkerFailure, ClaimCompletion,
         SendComplete, CompleteAnswered, HeadCompleted, HeadUnclear,
         MarkVerifying, RevertUploading, Yield, RecoverAnswered,
         ReleaseRecoveredCompletion, RejectRecoveredCompletion, Validate,
         CommitGameReady, RetryOrGiveUp, CommitRefused, MarkRejected,
         AbortMultipart, ResolveTask, FailTask, Crash, CompleteFails, MarkFails,
         RecoverFails, ValidateFails, CommitFails, AbortFails, Stop, Goto, Take,
         TypeOK
    <3>2. CASE RecoverHead(w) \/ RecoverHeadAfter(w)
      BY <1>1, <2>1, <3>2 DEF RecoverHead, RecoverHeadAfter, Reconcile, Goto,
         Take, Stop, TypeOK
    <3>3. CASE RecoverList(w)
      <4>1. at[w] = "list" /\ on'[w] = on[w]
        BY <3>3 DEF RecoverList, Goto
      <4>2. on[w] \in Session
        BY <1>2, <1>3, <4>1
      <4>3. QED BY <1>4, <2>1, <4>1, <4>2
    <3>4. QED BY <3>1, <3>2, <3>3
  <2>4. QED BY <2>2, <2>3
<1>15. QED BY <1>9, <1>10, <1>11, <1>12, <1>13, <1>14 DEF Next

\* And the rejection of a completion is the step of the pass that holds it.
LEMMA RejectedByPass ==
    ASSUME IInv, Next, NEW t \in Session, state[t] = "COMPLETING",
           state'[t] = "REJECTED"
    PROVE  \E w \in Recoverer : completer[t] = w /\ at[w] = "reject" /\ on[w] = t
<1>. DEFINE Explained ==
        \E w \in Recoverer : completer[t] = w /\ at[w] = "reject" /\ on[w] = t
<1>1. TypeOK /\ state'[t] # state[t]
  BY DEF IInv
<1>2. CASE ExpireStaleAllocations
  BY <1>2 DEF ExpireStaleAllocations
<1>3. ASSUME NEW s \in Session, UserStep(s) \/ SystemStep(s) \/ SessionFailure(s)
      PROVE  Explained
  BY <1>1, <1>3 DEF UserStep, SystemStep, SessionFailure, CreateAllocating,
     CancelRead, Cancel, Close, PutParts, ClaimAssetForDeletion,
     CompleteAssetDeletion, ListSubmittedParts, CreateMultipart, SetAllocated,
     PassExpiresAt, ExpireTimedOutSession, StoreCompletes, StoreRefuses,
     ReapObject, QueueUnknownMultipartAbort, CompletionLapses, ValidationLapses,
     TaskLapses, CreatorCrash, FailAllocation, StoreLoses, TypeOK, row
<1>4. ASSUME NEW w \in Worker, NEW s \in Session, Claim(w, s) PROVE Explained
  BY <1>1, <1>4 DEF Claim, ClaimExpiredCompletion, ClaimVerifying, ClaimTask, row
<1>5. ASSUME NEW w \in Worker, Progress(w) \/ WorkerFailure(w) PROVE Explained
  <2>1. CASE RejectRecoveredCompletion(w)
    <3>1. on[w] = t /\ at[w] = "reject" /\ completer[t] = w
      BY <1>1, <2>1 DEF RejectRecoveredCompletion, OwnsCompletion, TypeOK
    <3>2. w \in Recoverer
      BY <1>1, <3>1 DEF TypeOK, RecoveryPlaces
    <3>3. QED BY <3>1, <3>2
  <2>2. CASE \/ ClaimCompletion(w) \/ MarkVerifying(w) \/ RevertUploading(w)
             \/ ReleaseRecoveredCompletion(w) \/ CommitGameReady(w)
             \/ MarkRejected(w)
    BY <1>1, <2>2 DEF ClaimCompletion, MarkVerifying, RevertUploading,
       ReleaseRecoveredCompletion, CommitGameReady, MarkRejected,
       OwnsValidation, TypeOK
  <2>3. CASE UNCHANGED state
    BY <1>1, <2>3
  <2>4. QED BY <1>5, <2>1, <2>2, <2>3 DEF Progress, WorkerFailure, SendComplete,
     CompleteAnswered, HeadCompleted, HeadUnclear, Yield, RecoverHead,
     RecoverList, RecoverAnswered, RecoverHeadAfter, Validate, CommitRefused,
     AbortMultipart, ResolveTask, FailTask, Crash, CompleteFails, MarkFails,
     RecoverFails, ValidateFails, CommitFails, AbortFails, row
<1>6. QED BY <1>2, <1>3, <1>4, <1>5 DEF Next

\* A whole object is rejected only by the pass that holds the lease, and only
\* on the way from a ListParts that came after the completion took effect.
THEOREM RejectionsExplained == Spec => WholeObjectRejectedOnlyAfterList
<1>. DEFINE Explained ==
       /\ \A s \in Session :
             state[s] = "COMPLETING" /\ state'[s] = "REJECTED" /\ object[s] = "good"
                 => \E w \in Recoverer : /\ completer[s] = w
                                        /\ at[w] = "reject" /\ on[w] = s
       /\ \A w \in Recoverer :
             at'[w] = "reject" /\ object'[on'[w]] = "good"
                 => /\ on'[w] = on[w] /\ object[on[w]] = "good"
                    /\ multipart[on[w]] = "done"
                    /\ at[w] \in {"list", "reject"}
<1>1. IInv /\ [Next]_vars => [Explained]_vars
  BY RejectStep, RejectedByPass
<1>2. QED BY InvAlways, <1>1, PTL DEF Spec, WholeObjectRejectedOnlyAfterList

-----------------------------------------------------------------------------
(* The specification with a bound on what fails.                           *)

\* What AssetUploadLive divides anew, into what happens anyway and what counts
\* as a failure, is what AssetUpload does: nothing added, nothing left out.
LEMMA LiveDivision == Next <=> Undisturbed \/ Failure
<1>1. \A s \in Session : Stall(s) \/ Lapse(s)
         <=> CompletionLapses(s) \/ ValidationLapses(s) \/ TaskLapses(s)
  BY DEF Stall, Lapse
<1>2. \A s \in Session : SystemStep(s) <=> Maintenance(s) \/ Stall(s) \/ Lapse(s)
  BY <1>1 DEF SystemStep, Maintenance
<1>3. QED BY <1>2, Zenon DEF Next, Undisturbed, Failure

\* So every behaviour of the specification whose liveness the runs check is one
\* of the specification whose invariants are proved, and keeps them.
THEOREM LiveImplements == FairSpec => Spec /\ []IInv /\ PromiseKept
<1>1. LiveInit => Init
  BY DEF LiveInit
<1>2. [LiveNext]_liveVars => [Next]_vars
  BY LiveDivision DEF LiveNext, liveVars
<1>3. FairSpec => Spec
  BY <1>1, <1>2, PTL DEF FairSpec, Spec
<1>4. QED BY <1>3, InvAlways, Refinement, PTL
=============================================================================
