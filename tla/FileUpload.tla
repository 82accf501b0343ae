----------------------------- MODULE FileUpload -----------------------------
(***************************************************************************)
(* The browser's side of a direct upload: one file of a project, from its  *)
(* row in the upload queue (fileUploadQueue.ts) through the task that      *)
(* owns its unresolved requests (directUploadTask.ts) to the requests it   *)
(* sends (api/game-upload.ts), against what the API does with them.        *)
(*                                                                         *)
(* The task must never lose an upload it may have created: a creation      *)
(* whose answer is lost is replayed or cancelled under the identity stored *)
(* before it was sent, across views and reloads of the page.  And it must  *)
(* not say "cancelled" while anything of the file may still come to life.  *)
(*                                                                         *)
(* Abstractions:                                                           *)
(*  - One action is one turn of the browser's event loop: what runs        *)
(*    between two answers of the network, a click or the end of a view.    *)
(*  - An upload stands for its clientUploadId and the one session the API  *)
(*    makes for it; generations are always 1.                              *)
(*  - An epoch, or the token of a run, is known to its holder only, to be  *)
(*    compared with the current one: the set fresh has the requests whose  *)
(*    epoch is current, and active names the holder of the current run.    *)
(*  - A session that expired is one that was rejected.                     *)
(*  - An answer shows the session as it is when the answer arrives.        *)
(*  - The parts are one transfer.  Files are what they were: a selection   *)
(*    that does not match fails like any other failure.  Submission        *)
(*    bindings, records of older versions and identity conflicts are left  *)
(*    out, and so are two tabs with a copy of one session storage.         *)
(***************************************************************************)
EXTENDS Naturals

CONSTANTS Upload,       \* identities the task may draw for its creations
          NoFile        \* in place of an upload

ASSUME FileUploadNames == NoFile \notin Upload

VARIABLES
    remote,     \* the session of each upload in the database, or "none"
    creating,   \* creation requests under way for uploads without a session
    ordered,    \* DELETE and complete requests under way
    held,       \* the DirectUploadTask; creation, saved, marked are stored
    shown,      \* the row of the queue; its outcome is stored
    run,        \* where the queue's pass over the file is
    transfer,   \* the upload under way, from the hash of the file on
    lookup,     \* the recovery of a creation whose answer was lost
    closing     \* the cancellation of a known session

fileVars == <<remote, creating, ordered, held, shown, run, transfer, lookup, closing>>
network  == <<remote, creating, ordered>>

Underway == {"ALLOCATING", "UPLOADING", "COMPLETING", "VERIFYING"}
Over     == {"REJECTED", "CANCELLED"}

NoTransfer == [at |-> "idle", upload |-> NoFile, doubtful |-> FALSE]
NoAnswer == [at |-> "idle", upload |-> NoFile]

NewRow(phase, file) ==
    [phase |-> phase, outcome |-> "none", stopped |-> FALSE, queued |-> FALSE,
     attached |-> TRUE, watched |-> FALSE, file |-> file]

FileInit ==
    /\ remote = [u \in Upload |-> "none"]
    /\ creating = [u \in Upload |-> 0]
    /\ ordered = [cancel |-> {}, complete |-> {}]
    /\ held = [creation |-> NoFile, cancelAsked |-> FALSE, saved |-> NoFile,
               marked |-> FALSE, control |-> "open", pending |-> FALSE,
               uncertain |-> FALSE, blocked |-> FALSE, settled |-> FALSE,
               closed |-> {}, kept |-> "none", active |-> "none", fresh |-> {}]
    /\ shown = NewRow("waiting", TRUE)
    /\ run = "idle"
    /\ transfer = NoTransfer /\ lookup = NoAnswer /\ closing = NoAnswer

-----------------------------------------------------------------------------
(* What the task does to itself.  Each handler composes some of these.     *)

Cancelling(t) == t.control # "open"

ClearCreation(t) == [t EXCEPT !.creation = NoFile, !.cancelAsked = FALSE]

\* The session is known, and stored before anything is done with it.
Remember(t, u) ==
    IF u \in t.closed THEN t
    ELSE [t EXCEPT !.saved = u, !.settled = FALSE, !.uncertain = FALSE,
                   !.blocked = FALSE, !.marked = @ \/ Cancelling(t)]

\* Nothing more is owed for the session: forget it and fence its callbacks.
CloseSaved(t, u) ==
    IF t.saved # u THEN t
    ELSE [ClearCreation(t) EXCEPT
            !.saved = NoFile, !.marked = FALSE, !.closed = @ \cup {u},
            !.uncertain = FALSE, !.blocked = FALSE, !.fresh = {}]

\* The upload is past cancelling.
SettleCancelIntent(t) ==
    [t EXCEPT !.marked = FALSE, !.cancelAsked = FALSE, !.control = "open", !.fresh = {}]

\* Planted bug: only a session that is known holds a cancellation up.
FinishIgnoringCreation(t, deleting) ==
    IF Cancelling(t) /\ ~deleting /\ ~t.pending /\ t.saved = NoFile
    THEN [t EXCEPT !.settled = TRUE, !.control = "open", !.kept = "cancelled", !.fresh = {}]
    ELSE t

\* The cancellation is over once nothing is known or under way any more.
FinishCancellation(t, deleting) ==
    IF /\ Cancelling(t) /\ ~deleting /\ ~t.pending /\ ~t.uncertain /\ ~t.blocked
       /\ t.creation = NoFile /\ t.saved = NoFile
    THEN [t EXCEPT !.settled = TRUE, !.control = "open", !.kept = "cancelled", !.fresh = {}]
    ELSE t

\* At most one run at a time, and none before what is unresolved is resolved.
CanBegin(t, deleting) ==
    /\ t.control = "open" /\ t.active = "none" /\ ~t.pending /\ ~deleting
    /\ t.uncertain \/ t.blocked => t.saved # NoFile \/ t.creation # NoFile

BeginRun(t, who) == [t EXCEPT !.active = who, !.settled = FALSE, !.fresh = {}]

Pause(t) == [t EXCEPT !.active = "none"]

AcceptReady(t) == [CloseSaved(t, t.saved) EXCEPT !.control = "open", !.active = "none"]

-----------------------------------------------------------------------------
(* The row follows the task while its queue has it attached.               *)

\* The subscription shows what the task is doing about a cancellation.
Watching(t, s) ==
    IF ~s.watched \/ t.control = "open" THEN s
    ELSE [s EXCEPT !.phase = IF t.control = "completion" THEN "completing" ELSE t.control]

\* An outcome waits in the task for a view: it is shown as cancelled, or as
\* an upload that was not cancelled in time and is followed to its end.
Delivered(t, s, deleting) ==
    LET told == [t EXCEPT !.kept = "none"] IN
    CASE ~s.watched \/ t.kept = "none" -> [task |-> t, row |-> s]
      [] s.watched /\ t.kept = "cancelled" ->
            [task |-> told, row |-> [s EXCEPT !.phase = "cancelled", !.outcome = "cancelled"]]
      [] s.watched /\ t.kept = "finished" /\ CanBegin(told, deleting) ->
            [task |-> BeginRun(told, "follower"),
             row |-> [s EXCEPT !.phase = "completing", !.stopped = FALSE]]
      [] s.watched /\ t.kept = "finished" /\ ~CanBegin(told, deleting) ->
            [task |-> told, row |-> [s EXCEPT !.phase = "failed"]]

\* The task is t, and the row says so.
Becomes(t, s, deleting) ==
    LET d == Delivered(t, Watching(t, s), deleting) IN held' = d.task /\ shown' = d.row

\* The pass over the file fails, unless it is no longer the row's.
Failed(t, s) ==
    IF s.stopped \/ ~s.attached THEN s
    ELSE [s EXCEPT !.phase = IF t.control = "cancel-unconfirmed" THEN t.control ELSE "failed"]

Enqueue(s) == [s EXCEPT !.queued = TRUE, !.phase = "waiting"]

-----------------------------------------------------------------------------
(* The API and the network.                                                *)

\* A creation is applied once for each identity; its replays see the session.
CreateArrives(u) ==
    /\ creating[u] > 0
    /\ remote' = [remote EXCEPT ![u] = "ALLOCATING"]
    /\ creating' = [creating EXCEPT ![u] = 0]
    /\ UNCHANGED <<ordered, held, shown, run, transfer, lookup, closing>>

\* A creation is refused, or gets lost, and nobody hears of it.
CreateLost(u) ==
    /\ creating[u] > 0
    /\ creating' = [creating EXCEPT ![u] = @ - 1]
    /\ UNCHANGED <<remote, ordered, held, shown, run, transfer, lookup, closing>>

OrderArrives(kind, u, from, to) ==
    /\ u \in ordered[kind]
    /\ ordered' = [ordered EXCEPT ![kind] = @ \ {u}]
    /\ remote' = IF remote[u] \in from THEN [remote EXCEPT ![u] = to] ELSE remote
    /\ UNCHANGED <<creating, held, shown, run, transfer, lookup, closing>>

DeleteArrives(u)   == OrderArrives("cancel", u, {"ALLOCATING", "UPLOADING"}, "CANCELLED")
CompleteArrives(u) == OrderArrives("complete", u, {"UPLOADING"}, "COMPLETING")

\* What the session goes through without the browser; see AssetUpload.
SessionMoves(u) ==
    /\ remote' \in {[remote EXCEPT ![u] = state] :
          state \in CASE remote[u] = "ALLOCATING" -> {"UPLOADING", "REJECTED"}
                      [] remote[u] = "UPLOADING"  -> {"REJECTED"}
                      [] remote[u] = "COMPLETING" -> {"UPLOADING", "VERIFYING", "REJECTED"}
                      [] remote[u] = "VERIFYING"  -> {"READY", "REJECTED"}
                      [] OTHER -> {}}
    /\ UNCHANGED <<creating, ordered, held, shown, run, transfer, lookup, closing>>

-----------------------------------------------------------------------------
(* The queue's pass over the file.                                         *)

Deleting == closing.at # "idle"
IsFresh(request) == request \in held.fresh

RunEnds(t, s) == held' = Pause(t) /\ shown' = Failed(t, s) /\ run' = "idle"

\* A creation, or another try at the one whose answer was lost.
NewTransfer(t, s) ==
    IF s.file
    THEN /\ transfer' = [at |-> "hashing", upload |-> NoFile,
                         doubtful |-> t.uncertain \/ t.blocked]
         /\ held' = [t EXCEPT !.pending = TRUE, !.fresh = {"transfer"}]
         /\ shown' = [s EXCEPT !.phase = "busy"] /\ run' = "sending"
    ELSE RunEnds(t, s) /\ UNCHANGED transfer

\* What is saved is looked at first; what may have been created comes first.
RunOn(t, s) ==
    IF ~CanBegin(t, Deleting)
    THEN held' = t /\ shown' = Failed(t, s) /\ run' = "idle" /\ UNCHANGED transfer
    ELSE IF t.saved # NoFile
    THEN held' = BeginRun(t, "run") /\ shown' = s /\ run' = "checking" /\ UNCHANGED transfer
    ELSE NewTransfer(BeginRun(t, "run"), s)

StartLookup(t) ==
    /\ held' = IF lookup.at = "idle" THEN [t EXCEPT !.fresh = @ \cup {"lookup"}] ELSE t
    /\ lookup' = IF lookup.at = "idle" THEN [at |-> "asking", upload |-> t.creation] ELSE lookup

RunStarts ==
    /\ shown.queued /\ shown.attached /\ run = "idle"
    /\ LET row == [shown EXCEPT !.queued = FALSE]
           d   == Delivered(held, [row EXCEPT !.phase = "busy", !.watched = TRUE], Deleting)
       IN IF shown.stopped \/ shown.phase = "ready"
          THEN shown' = row /\ UNCHANGED <<held, run, transfer, lookup>>
          ELSE IF d.task.creation # NoFile /\ d.task.saved = NoFile
          THEN StartLookup(d.task) /\ shown' = d.row /\ run' = "looking" /\ UNCHANGED transfer
          ELSE IF d.task.pending
          THEN held' = d.task /\ shown' = Failed(d.task, d.row) /\ UNCHANGED <<run, transfer, lookup>>
          ELSE RunOn(d.task, d.row) /\ UNCHANGED lookup
    /\ UNCHANGED <<network, closing>>

Accept ==
    /\ held' = AcceptReady(held) /\ run' = "idle"
    /\ shown' = [shown EXCEPT !.phase = "ready", !.outcome = "ready"]

\* The saved session: resume it, wait for it, or start over once it is over.
CheckSaved ==
    /\ run = "checking"
    /\ LET state == remote[held.saved] IN
       \/ state = "READY" /\ Accept /\ UNCHANGED transfer
       \/ /\ state \in {"COMPLETING", "VERIFYING"}
          /\ run' = "waiting" /\ shown' = [shown EXCEPT !.phase = "completing"]
          /\ UNCHANGED <<held, transfer>>
       \/ state \in Over /\ NewTransfer(CloseSaved(held, held.saved), shown)
       \/ /\ state = "UPLOADING" /\ shown.file
          /\ transfer' = [at |-> "sending", upload |-> held.saved, doubtful |-> FALSE]
          /\ held' = Remember(held, held.saved) /\ run' = "sending" /\ UNCHANGED shown
       \/ /\ state = "ALLOCATING" \/ (state = "UPLOADING" /\ ~shown.file)
          /\ RunEnds(held, shown) /\ UNCHANGED transfer
    /\ UNCHANGED <<network, lookup, closing>>

WaitForReady ==
    /\ run = "waiting"
    /\ \/ remote[held.saved] = "READY" /\ Accept
       \/ remote[held.saved] \in Over /\ RunEnds(held, shown)
    /\ UNCHANGED <<network, transfer, lookup, closing>>

RunFails ==
    /\ run \in {"checking", "waiting"}
    /\ RunEnds(held, shown)
    /\ UNCHANGED <<network, transfer, lookup, closing>>

\* observeReady: an upload that was past cancelling.
FollowReady ==
    /\ held.active = "follower"
    /\ \/ remote[held.saved] = "READY" /\ Accept
       \/ /\ held' = Pause(held) /\ shown' = [shown EXCEPT !.phase = "failed"]
          /\ UNCHANGED run
    /\ UNCHANGED <<network, transfer, lookup, closing>>

-----------------------------------------------------------------------------
(* The transfer.  A creation outlives the pause of its run: its answer is  *)
(* still wanted.                                                           *)

\* The identity is stored before the request is sent.
CreateUpload ==
    /\ transfer.at = "hashing" /\ run = "sending"
    /\ \E u \in Upload :
          /\ IF held.creation # NoFile THEN u = held.creation
             ELSE remote[u] = "none" /\ creating[u] = 0 /\ u \notin held.closed
          /\ creating[u] < 2
          /\ creating' = IF remote[u] = "none" THEN [creating EXCEPT ![u] = @ + 1] ELSE creating
          /\ transfer' = [transfer EXCEPT !.at = "creating", !.upload = u]
          /\ held' = [held EXCEPT !.creation = u]
    /\ UNCHANGED <<remote, ordered, shown, run, lookup, closing>>

Owed(t) == [t EXCEPT !.uncertain = TRUE,
                     !.control = IF Cancelling(t) THEN "cancel-unconfirmed" ELSE @]

TransferEnds(t) ==
    LET over == FinishCancellation([t EXCEPT !.pending = FALSE], Deleting) IN
    /\ Becomes(IF run = "sending" THEN Pause(over) ELSE over,
               IF run = "sending" THEN Failed(t, shown) ELSE shown, Deleting)
    /\ transfer' = NoTransfer /\ run' = "idle"

\* No answer, no file to read, or a session that is still being allocated.
TransferFails ==
    /\ transfer.at \in {"hashing", "creating"} /\ IsFresh("transfer")
    /\ TransferEnds(IF held.creation = NoFile THEN held ELSE Owed(held))
    /\ UNCHANGED <<network, lookup, closing>>

\* Planted bug: any refusal is taken for a proof that there is no session.
CreateRefusedForGood ==
    /\ transfer.at = "creating" /\ IsFresh("transfer")
    /\ creating[transfer.upload] > 0
    /\ creating' = [creating EXCEPT ![transfer.upload] = @ - 1]
    /\ TransferEnds([ClearCreation(held) EXCEPT !.uncertain = FALSE, !.blocked = FALSE])
    /\ UNCHANGED <<remote, ordered, lookup, closing>>

\* A refusal before the creation proves that there is no session only if no
\* earlier request of this identity is unaccounted for.
CreateRefused ==
    /\ transfer.at = "creating" /\ IsFresh("transfer")
    /\ creating[transfer.upload] > 0
    /\ creating' = [creating EXCEPT ![transfer.upload] = @ - 1]
    /\ TransferEnds(IF transfer.doubtful \/ held.saved # NoFile THEN Owed(held)
                    ELSE [ClearCreation(held) EXCEPT !.uncertain = FALSE, !.blocked = FALSE])
    /\ UNCHANGED <<remote, ordered, lookup, closing>>

\* cancelSaved: one DELETE at a time, recorded before it is sent.
StartClosing(t, u) ==
    IF Deleting \/ ~Cancelling(t)
    THEN Becomes(t, shown, Deleting) /\ UNCHANGED <<closing, ordered>>
    ELSE /\ Becomes([t EXCEPT !.marked = TRUE, !.control = "cancelling",
                              !.fresh = @ \cup {"closing"}], shown, TRUE)
         /\ closing' = [at |-> "deleting", upload |-> u]
         /\ ordered' = [ordered EXCEPT !.cancel = @ \cup {u}]

\* onSession.  An answer that comes after the run was paused is handed to the
\* queue again, or to the cancellation that waits for it.
CreateAnswered ==
    /\ transfer.at = "creating" /\ IsFresh("transfer")
    /\ remote[transfer.upload] \notin {"none", "ALLOCATING"}
    /\ LET u     == transfer.upload
           known == Remember([held EXCEPT !.pending = FALSE], u)
       IN IF run = "sending"
          THEN /\ \/ /\ remote[u] = "UPLOADING"
                     /\ held' = known /\ transfer' = [transfer EXCEPT !.at = "sending"]
                     /\ UNCHANGED <<shown, run>>
                  \/ /\ remote[u] \in {"COMPLETING", "VERIFYING", "READY"}
                     /\ held' = known /\ transfer' = NoTransfer
                     /\ shown' = [shown EXCEPT !.phase = "completing"] /\ run' = "waiting"
                  \/ remote[u] \in Over /\ RunEnds(known, shown) /\ transfer' = NoTransfer
               /\ UNCHANGED <<ordered, closing>>
          ELSE /\ transfer' = NoTransfer /\ UNCHANGED run
               /\ IF Cancelling(held) THEN StartClosing(known, u)
                  ELSE /\ held' = known
                       /\ shown' = IF shown.watched /\ ~shown.stopped /\ shown.phase # "ready"
                                   THEN [shown EXCEPT !.queued = TRUE] ELSE shown
                       /\ UNCHANGED <<ordered, closing>>
    /\ UNCHANGED <<remote, creating, lookup>>

\* All parts are stored; the row can no longer be cancelled.
CompleteParts ==
    /\ transfer.at = "sending" /\ run = "sending"
    /\ transfer' = [transfer EXCEPT !.at = "completing"]
    /\ ordered' = [ordered EXCEPT !.complete = @ \cup {transfer.upload}]
    /\ shown' = [shown EXCEPT !.phase = "completing"]
    /\ UNCHANGED <<remote, creating, held, run, lookup, closing>>

PartsCompleted ==
    /\ transfer.at = "completing" /\ run = "sending"
    /\ remote[transfer.upload] \in {"VERIFYING", "READY"}
    /\ transfer' = NoTransfer /\ run' = "waiting"
    /\ UNCHANGED <<network, held, shown, lookup, closing>>

SendFails ==
    /\ transfer.at \in {"sending", "completing"} /\ run = "sending"
    /\ transfer' = NoTransfer /\ RunEnds(held, shown)
    /\ UNCHANGED <<network, lookup, closing>>

-----------------------------------------------------------------------------
(* Recovery of a creation whose answer was lost.                           *)

LookupCurrent == IsFresh("lookup") /\ held.creation = lookup.upload

\* The run that waits for the lookup goes on with what it found.
Found(t) ==
    /\ lookup' = NoAnswer
    /\ IF run = "looking" THEN RunOn(t, shown)
       ELSE held' = t /\ UNCHANGED <<shown, run, transfer>>

\* The observed session is adopted in place of the answer still under way.
Adopt ==
    LET t == Remember([Pause(held) EXCEPT !.pending = FALSE, !.fresh = {}], lookup.upload) IN
    IF Cancelling(t)
    THEN StartClosing(t, lookup.upload) /\ lookup' = NoAnswer /\ UNCHANGED <<run, transfer>>
    ELSE Found(t) /\ UNCHANGED <<ordered, closing>>

\* GET of the creation, then of the session.  A cancellation that finds none
\* creates one to cancel, unless the first request may still do so.
LookupAnswered ==
    /\ lookup.at = "asking" /\ LookupCurrent
    /\ \/ held.saved # NoFile /\ Found(held) /\ UNCHANGED <<network, closing>>
       \/ /\ held.saved = NoFile
          /\ remote[lookup.upload] \notin {"none"} \cup (IF Cancelling(held) THEN {} ELSE {"ALLOCATING"})
          /\ Adopt /\ UNCHANGED <<remote, creating>>
       \/ /\ held.saved = NoFile /\ remote[lookup.upload] = "none"
          /\ IF Cancelling(held) /\ ~held.pending
             THEN /\ creating[lookup.upload] < 2
                  /\ creating' = [creating EXCEPT ![lookup.upload] = @ + 1]
                  /\ lookup' = [lookup EXCEPT !.at = "creating"]
                  /\ UNCHANGED <<held, shown, run, transfer>>
             ELSE Found(held) /\ UNCHANGED creating
          /\ UNCHANGED <<remote, ordered, closing>>

ReplayAnswered ==
    /\ lookup.at = "creating" /\ LookupCurrent
    /\ IF held.saved # NoFile
       THEN Found(held) /\ UNCHANGED <<ordered, closing>>
       ELSE remote[lookup.upload] # "none" /\ Adopt
    /\ UNCHANGED <<remote, creating>>

\* No answer, a refusal, or a session that is still being allocated.
LookupFails ==
    /\ lookup.at # "idle" /\ LookupCurrent
    /\ LET t == [held EXCEPT !.blocked = TRUE,
                   !.control = IF Cancelling(held) THEN "cancel-unconfirmed" ELSE @]
       IN Becomes(t, IF run = "looking" THEN Failed(t, shown) ELSE shown, Deleting)
    /\ lookup' = NoAnswer /\ run' = IF run = "looking" THEN "idle" ELSE run
    /\ UNCHANGED <<network, transfer, closing>>

LookupStale ==
    /\ lookup.at # "idle" /\ ~LookupCurrent
    /\ lookup' = NoAnswer
    /\ IF run = "looking" THEN shown' = Failed(held, shown) /\ run' = "idle"
       ELSE UNCHANGED <<shown, run>>
    /\ UNCHANGED <<network, held, transfer, closing>>

-----------------------------------------------------------------------------
(* Cancellation.                                                           *)

ClosingCurrent == IsFresh("closing") /\ held.saved = closing.upload

\* The finally of cancelSaved.
ClosingEnds(t) ==
    /\ closing' = NoAnswer
    /\ Becomes(FinishCancellation(t, FALSE), shown, FALSE)

CloseConfirmed ==
    /\ closing.at = "deleting"
    /\ remote[closing.upload] = "CANCELLED" /\ closing.upload \notin ordered.cancel
    /\ ClosingEnds(IF ClosingCurrent THEN CloseSaved(held, closing.upload) ELSE held)
    /\ UNCHANGED <<network, run, transfer, lookup>>

CloseFails ==
    /\ closing.at = "deleting"
    /\ closing' = [closing EXCEPT !.at = "observing"]
    /\ UNCHANGED <<network, held, shown, run, transfer, lookup>>

\* A session that is being completed may still come back to be cancelled.
CloseObserved ==
    /\ closing.at = "observing"
    /\ LET state == remote[closing.upload]
           told(phase) == IF shown.watched THEN [shown EXCEPT !.phase = phase] ELSE shown
       IN \/ ~ClosingCurrent /\ ClosingEnds(held)
          \/ /\ ClosingCurrent /\ state = "COMPLETING"
             /\ Becomes([held EXCEPT !.control = "completion"], shown, TRUE) /\ UNCHANGED closing
          \/ /\ ClosingCurrent /\ state = "CANCELLED"
             /\ ClosingEnds(CloseSaved(held, closing.upload))
          \/ /\ ClosingCurrent /\ state \in {"READY", "VERIFYING"}
             /\ ClosingEnds([SettleCancelIntent(held) EXCEPT !.kept = "finished"])
          \/ /\ ClosingCurrent /\ state = "REJECTED"
             /\ held' = SettleCancelIntent(held) /\ shown' = told("failed") /\ closing' = NoAnswer
          \/ /\ ClosingCurrent /\ state \in {"ALLOCATING", "UPLOADING"}
             /\ ClosingEnds([held EXCEPT !.control = "cancel-unconfirmed"])
    /\ UNCHANGED <<network, run, transfer, lookup>>

CloseUnobserved ==
    /\ closing.at = "observing"
    /\ ClosingEnds(IF ClosingCurrent THEN [held EXCEPT !.control = "cancel-unconfirmed"] ELSE held)
    /\ UNCHANGED <<network, run, transfer, lookup>>

\* A click on cancel.  The wish is stored before anything is looked up; a
\* creation under way is left to answer.
CancelFile ==
    /\ shown.attached /\ shown.phase \in {"waiting", "busy", "failed", "cancel-unconfirmed"}
    /\ LET row == [shown EXCEPT !.stopped = TRUE, !.queued = FALSE, !.watched = TRUE,
                                !.phase = "cancelling"]
           d   == Delivered(held, row, Deleting)
           t   == [Pause(d.task) EXCEPT !.control = "cancelling",
                                        !.cancelAsked = d.task.creation # NoFile]
       IN IF Deleting \/ d.task.settled
          THEN /\ held' = d.task /\ shown' = d.row
               /\ UNCHANGED <<run, transfer, lookup, closing, ordered>>
          ELSE /\ run' = "idle"
               /\ transfer' = IF transfer.at \in {"sending", "completing"} THEN NoTransfer ELSE transfer
               /\ \/ /\ t.saved # NoFile
                     /\ held' = [t EXCEPT !.marked = TRUE, !.fresh = @ \cup {"closing"}]
                     /\ closing' = [at |-> "deleting", upload |-> t.saved]
                     /\ ordered' = [ordered EXCEPT !.cancel = @ \cup {t.saved}]
                     /\ shown' = row /\ UNCHANGED lookup
                  \/ /\ t.saved = NoFile /\ t.creation # NoFile
                     /\ StartLookup(t) /\ shown' = row /\ UNCHANGED <<closing, ordered>>
                  \/ /\ t.saved = NoFile /\ t.creation = NoFile
                     /\ LET o == Delivered(FinishCancellation(t, FALSE), row, FALSE) IN
                        held' = o.task /\ shown' = o.row
                     /\ UNCHANGED <<lookup, closing, ordered>>
    /\ UNCHANGED <<remote, creating>>

-----------------------------------------------------------------------------
(* The member and the page.                                                *)

StartFile ==
    /\ shown.attached /\ shown.phase = "waiting" /\ ~shown.queued
    /\ shown' = Enqueue(shown)
    /\ UNCHANGED <<network, held, run, transfer, lookup, closing>>

\* A retry, perhaps after the file was chosen again.
RetryFile ==
    /\ shown.attached /\ shown.phase \in {"failed", "cancelled"}
    /\ shown' = [Enqueue(shown) EXCEPT !.stopped = FALSE, !.outcome = "none", !.file = TRUE]
    /\ UNCHANGED <<network, held, run, transfer, lookup, closing>>

RowOf(outcome, file) ==
    [NewRow(IF outcome = "none" THEN "waiting" ELSE outcome, file) EXCEPT !.outcome = outcome]

\* The view goes away; the task and its requests stay.
Unmount ==
    /\ shown.attached
    /\ held' = IF shown.watched THEN Pause(held) ELSE held
    /\ shown' = [RowOf(shown.outcome, FALSE) EXCEPT !.attached = FALSE]
    /\ run' = "idle"
    /\ transfer' = IF transfer.at \in {"sending", "completing"} THEN NoTransfer ELSE transfer
    /\ UNCHANGED <<network, lookup, closing>>

\* Another view has another queue; it may have got the file from its parent.
Mount ==
    /\ ~shown.attached
    /\ \E file \in BOOLEAN : shown' = RowOf(shown.outcome, file)
    /\ UNCHANGED <<network, held, run, transfer, lookup, closing>>

\* Only what was stored survives a reload.
Reload ==
    /\ held' = [creation |-> held.creation, cancelAsked |-> held.cancelAsked,
                saved |-> held.saved, marked |-> held.marked,
                control |-> IF held.cancelAsked \/ held.marked
                            THEN "cancel-unconfirmed" ELSE "open",
                uncertain |-> held.creation # NoFile,
                pending |-> FALSE, blocked |-> FALSE, settled |-> FALSE, closed |-> {},
                kept |-> "none", active |-> "none", fresh |-> {}]
    /\ shown' = RowOf(shown.outcome, FALSE)
    /\ run' = "idle"
    /\ transfer' = NoTransfer /\ lookup' = NoAnswer /\ closing' = NoAnswer
    /\ UNCHANGED network

-----------------------------------------------------------------------------
FileNext ==
    \/ \E u \in Upload :
          \/ CreateArrives(u) \/ CreateLost(u) \/ DeleteArrives(u)
          \/ CompleteArrives(u) \/ SessionMoves(u)
    \/ RunStarts \/ CheckSaved \/ WaitForReady \/ RunFails \/ FollowReady
    \/ CreateUpload \/ CreateAnswered \/ CreateRefused \/ TransferFails
    \/ CompleteParts \/ PartsCompleted \/ SendFails
    \/ LookupAnswered \/ ReplayAnswered \/ LookupFails \/ LookupStale
    \/ CancelFile \/ CloseConfirmed \/ CloseFails \/ CloseObserved \/ CloseUnobserved
    \/ StartFile \/ RetryFile \/ Unmount \/ Mount \/ Reload

FileSpec == FileInit /\ [][FileNext]_fileVars

-----------------------------------------------------------------------------
\* Every variable has its type, and a run that is past its lookup holds the
\* task.
FileTypeOK ==
    /\ remote \in [Upload -> Underway \cup Over \cup {"none", "READY"}]
    /\ creating \in [Upload -> 0..2]
    /\ ordered \in [cancel : SUBSET Upload, complete : SUBSET Upload]
    /\ held \in [creation : Upload \cup {NoFile}, saved : Upload \cup {NoFile},
                 cancelAsked : BOOLEAN, marked : BOOLEAN, pending : BOOLEAN,
                 uncertain : BOOLEAN, blocked : BOOLEAN, settled : BOOLEAN,
                 control : {"open", "cancelling", "cancel-unconfirmed", "completion"},
                 closed : SUBSET Upload, kept : {"none", "cancelled", "finished"},
                 active : {"none", "run", "follower"},
                 fresh : SUBSET {"transfer", "lookup", "closing"}]
    /\ shown \in [phase : {"waiting", "busy", "completing", "ready", "failed",
                           "cancelled", "cancelling", "cancel-unconfirmed"},
                  outcome : {"none", "cancelled", "ready"}, stopped : BOOLEAN,
                  queued : BOOLEAN, attached : BOOLEAN, watched : BOOLEAN, file : BOOLEAN]
    /\ run \in {"idle", "looking", "checking", "sending", "waiting"}
    /\ transfer.at \in {"idle", "hashing", "creating", "sending", "completing"}
    /\ lookup.at \in {"idle", "asking", "creating"}
    /\ closing.at \in {"idle", "deleting", "observing"}
    /\ run \in {"checking", "sending", "waiting"} <=> held.active = "run"

\* The upload may yet be published.
MayLive(u) == creating[u] > 0 \/ remote[u] \in Underway

\* Whatever has been created, or may yet be, is in the storage of the page:
\* after any failure and any reload the member can resume or cancel it.
CreationsRemembered ==
    \A u \in Upload : MayLive(u) => u \in {held.creation, held.saved}

\* The row says that the upload was cancelled only when nothing of the file
\* is under way any more, nor can get under way.
CancelledWhenOver ==
    [][shown'.outcome = "cancelled" /\ shown.outcome # "cancelled"
         => \A u \in Upload : ~MayLive(u)']_fileVars
=============================================================================
