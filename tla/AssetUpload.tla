---------------------------- MODULE AssetUpload ----------------------------
(***************************************************************************)
(* The direct upload of a GAME archive of one project: the browser puts    *)
(* the parts into object storage itself, the API only moves a database     *)
(* row, the "session", through                                             *)
(*                                                                         *)
(*   ALLOCATING -> UPLOADING <-> COMPLETING -> VERIFYING -> READY          *)
(*                                                                         *)
(* with REJECTED, CANCELLED and EXPIRED as the ways to fail.  Four kinds   *)
(* of processes race on the row: request handlers that complete an upload  *)
(* (Completer), the maintenance pass that recovers a completion whose      *)
(* lease lapsed (Recoverer), the worker that validates the stored archive  *)
(* and publishes it (Validator), and the worker that aborts the multipart  *)
(* uploads of dead sessions (Aborter).                                     *)
(*                                                                         *)
(* Abstractions:                                                           *)
(*  - One project and one kind.  The unique index on active sessions, the  *)
(*    READY asset and every row operation are per project and kind.        *)
(*  - A session identifies its row, its object key, its multipart upload   *)
(*    and the asset it may become: the key contains the session id, the    *)
(*    generation is always 1, and only the request that inserted the row   *)
(*    creates a multipart upload.                                          *)
(*  - A lease is its live holder, or NoOne once the database clock passed  *)
(*    lease_until: every guarded write needs both the token and a live     *)
(*    lease, and every takeover needs a lapsed one, so a lapsed token is   *)
(*    worth what no token is worth.  A process holds at most one claim,    *)
(*    so its name stands for the random token.                             *)
(*  - Time is a step: a lease may lapse and a session may pass expires_at  *)
(*    at any moment.                                                       *)
(*  - Storage is asynchronous: a CompleteMultipart request, once sent, is  *)
(*    applied later or never, whatever its sender has learnt meanwhile.    *)
(***************************************************************************)
EXTENDS Naturals

CONSTANTS Session,      \* the upload sessions ever created
          Completer, Recoverer, Validator, Aborter,   \* processes by role
          NoOne,        \* holder of a lapsed or absent lease
          NoSession,    \* what an idle process works on
          Published,    \* the session already published at the start, if any
          MaxAttempts   \* MAX_WORKER_VALIDATION_ATTEMPTS

Worker == Completer \cup Recoverer \cup Validator \cup Aborter

ASSUME RolesDisjoint ==
    /\ Completer \cap Recoverer = {} /\ Completer \cap Validator = {}
    /\ Completer \cap Aborter = {}   /\ Recoverer \cap Validator = {}
    /\ Recoverer \cap Aborter = {}   /\ Validator \cap Aborter = {}
ASSUME NamesDistinct == NoOne \notin Worker /\ NoSession \notin Session
ASSUME PublishedAssumption ==
    Published \subseteq Session /\ \A s, t \in Published : s = t
ASSUME AttemptsAssumption == MaxAttempts \in Nat \ {0}

VARIABLES
    state,       \* asset_upload_sessions.state, "NONE" before the insert
    uploadId,    \* upload_id IS NOT NULL
    expired,     \* expires_at has passed
    completer,   \* holder of the live completion lease
    validator,   \* holder of the live validation lease
    attempts,    \* validation_attempt_count, counted up to MaxAttempts
    target,      \* expected_target_asset_id, captured at the insert
    asset,       \* status of the GAME asset made from the session
    task,        \* state of the session's multipart_abort_tasks row
    aborter,     \* holder of the live lease on that row
    deletions,   \* sessions whose object has a durable deletion row
    creator,     \* progress of the request that inserted the session
    canceller,   \* what a cancel transaction under way has read of upload_id
    multipart,   \* the multipart upload in object storage
    parts,       \* its parts are complete and valid
    object,      \* the object under the session's key
    sent,        \* sessions with a CompleteMultipart request under way
    at, on       \* each process: where it is, and on which session

row     == <<state, uploadId, expired, completer, validator, attempts, target>>
tasks   == <<task, aborter>>
store   == <<multipart, parts, object, sent>>
procs   == <<at, on>>
vars    == <<row, asset, tasks, deletions, creator, canceller, store, procs>>

Open     == {"ALLOCATING", "UPLOADING", "COMPLETING"}
Active   == Open \cup {"VERIFYING"}
Dead     == {"REJECTED", "CANCELLED", "EXPIRED"}
Terminal == Dead \cup {"READY"}

-----------------------------------------------------------------------------
Init ==
    /\ state     = [s \in Session |-> IF s \in Published THEN "READY" ELSE "NONE"]
    /\ uploadId  = [s \in Session |-> FALSE]
    /\ expired   = [s \in Session |-> FALSE]
    /\ completer = [s \in Session |-> NoOne]
    /\ validator = [s \in Session |-> NoOne]
    /\ attempts  = [s \in Session |-> 0]
    /\ target    = [s \in Session |-> NoSession]
    /\ asset     = [s \in Session |-> IF s \in Published THEN "ready" ELSE "none"]
    /\ task      = [s \in Session |-> "none"]
    /\ aborter   = [s \in Session |-> NoOne]
    /\ deletions = {}
    /\ creator   = [s \in Session |-> IF s \in Published THEN "done" ELSE "idle"]
    /\ canceller = [s \in Session |-> "idle"]
    /\ multipart = [s \in Session |-> IF s \in Published THEN "done" ELSE "none"]
    /\ parts     = [s \in Session |-> FALSE]
    /\ object    = [s \in Session |-> IF s \in Published THEN "good" ELSE "none"]
    /\ sent      = {}
    /\ at        = [w \in Worker |-> "idle"]
    /\ on        = [w \in Worker |-> NoSession]

Goto(w, l)     == at' = [at EXCEPT ![w] = l] /\ UNCHANGED on
Take(w, s, l)  == at' = [at EXCEPT ![w] = l] /\ on' = [on EXCEPT ![w] = s]
Stop(w)        == Take(w, NoSession, "idle")

\* The READY GAME of the project, if there is one.
Current == {s \in Session : asset[s] = "ready"}

\* queueMultipartAbortTask: upsert the task and make it due, unless a worker
\* holds a live claim on it.  A lapsed claim does not protect the row.
QueueAbort(s) ==
    IF task[s] = "claimed" /\ aborter[s] # NoOne
    THEN UNCHANGED tasks
    ELSE /\ task' = [task EXCEPT ![s] = "pending"]
         /\ aborter' = [aborter EXCEPT ![s] = NoOne]

-----------------------------------------------------------------------------
(* Creating, cancelling and expiring a session.                            *)

\* createSession first frees slots held by allocations that timed out.
ExpireStaleAllocations ==
    LET stale == {s \in Session : state[s] = "ALLOCATING" /\ expired[s]} IN
    /\ stale # {}
    /\ state' = [s \in Session |-> IF s \in stale THEN "EXPIRED" ELSE state[s]]
    /\ UNCHANGED <<uploadId, expired, completer, validator, attempts, target,
                   asset, tasks, deletions, creator, canceller, store, procs>>

\* The partial unique index on (project_id, kind) admits one active session.
\* The READY asset read here is what the upload may later replace.
CreateAllocating(s) ==
    /\ state[s] = "NONE"
    /\ \A t \in Session : state[t] \notin Active
    /\ state' = [state EXCEPT ![s] = "ALLOCATING"]
    /\ \/ Current = {} /\ UNCHANGED target
       \/ \E t \in Current : target' = [target EXCEPT ![s] = t]
    /\ creator' = [creator EXCEPT ![s] = "calling"]
    /\ UNCHANGED <<uploadId, expired, completer, validator, attempts,
                   asset, tasks, deletions, canceller, store, procs>>

\* Storage accepts CreateMultipart.  The answer reaches a request that still
\* waits for it; a request that gave up never learns the upload id.
CreateMultipart(s) ==
    /\ creator[s] \in {"calling", "lost"}
    /\ multipart[s] = "none"
    /\ multipart' = [multipart EXCEPT ![s] = "open"]
    /\ creator' = [creator EXCEPT ![s] = IF @ = "calling" THEN "got" ELSE @]
    /\ UNCHANGED <<row, asset, tasks, deletions, canceller, parts, object,
                   sent, procs>>

\* The process dies in the middle of createSession.
CreatorCrash(s) ==
    /\ creator[s] \in {"calling", "got"}
    /\ creator' = [creator EXCEPT ![s] = "lost"]
    /\ UNCHANGED <<row, asset, tasks, deletions, canceller, store, procs>>

\* CreateMultipart reports an error; storage may have applied it, or may yet.
FailAllocation(s) ==
    /\ creator[s] = "calling"
    /\ creator' = [creator EXCEPT ![s] = "lost"]
    /\ state' = IF state[s] = "ALLOCATING" /\ ~uploadId[s]
                THEN [state EXCEPT ![s] = "REJECTED"] ELSE state
    /\ UNCHANGED <<uploadId, expired, completer, validator, attempts, target,
                   asset, tasks, deletions, canceller, store, procs>>

\* Store the upload id if the slot is still ours, otherwise queue its abort.
SetAllocated(s) ==
    /\ creator[s] = "got"
    /\ IF state[s] = "ALLOCATING" /\ ~uploadId[s]
       THEN /\ state' = [state EXCEPT ![s] = "UPLOADING"]
            /\ uploadId' = [uploadId EXCEPT ![s] = TRUE]
            /\ creator' = [creator EXCEPT ![s] = "done"]
            /\ UNCHANGED tasks
       ELSE /\ QueueAbort(s)
            /\ creator' = [creator EXCEPT ![s] = "superseded"]
            /\ UNCHANGED <<state, uploadId>>
    /\ UNCHANGED <<expired, completer, validator, attempts, target,
                   asset, deletions, canceller, store, procs>>

\* End a session that is not being completed.  The abort of its upload is
\* queued in the same transaction when that transaction knows the upload id.
Close(s, final, known) ==
    /\ state' = [state EXCEPT ![s] = final]
    /\ uploadId' = [uploadId EXCEPT ![s] = FALSE]
    /\ completer' = [completer EXCEPT ![s] = NoOne]
    /\ IF known THEN QueueAbort(s) ELSE UNCHANGED tasks
    /\ UNCHANGED <<expired, attempts, target, asset, deletions, creator, store,
                   procs>>

\* The cancel transaction reads the session without locking it ...
CancelRead(s) ==
    /\ state[s] \in {"ALLOCATING", "UPLOADING"}
    /\ canceller[s] = "idle"
    /\ canceller' = [canceller EXCEPT
                       ![s] = IF uploadId[s] THEN "holding" ELSE "empty"]
    /\ UNCHANGED <<row, asset, tasks, deletions, creator, store, procs>>

\* ... and updates it if its state still allows, by what it read of upload_id.
Cancel(s) ==
    /\ canceller[s] # "idle"
    /\ canceller' = [canceller EXCEPT ![s] = "idle"]
    /\ IF state[s] \in {"ALLOCATING", "UPLOADING"}
       THEN Close(s, "CANCELLED", canceller[s] = "holding") /\ UNCHANGED validator
       ELSE UNCHANGED <<row, asset, tasks, deletions, creator, store, procs>>

PassExpiresAt(s) ==
    /\ state[s] \in Active
    /\ ~expired[s]
    /\ expired' = [expired EXCEPT ![s] = TRUE]
    /\ UNCHANGED <<state, uploadId, completer, validator, attempts, target,
                   asset, tasks, deletions, creator, canceller, store, procs>>

\* The recovery pass locks the rows it expires before it reads them.
ExpireTimedOutSession(s) ==
    /\ state[s] \in {"ALLOCATING", "UPLOADING"}
    /\ expired[s]
    /\ Close(s, "EXPIRED", uploadId[s])
    /\ validator' = [validator EXCEPT ![s] = NoOne]
    /\ UNCHANGED canceller

-----------------------------------------------------------------------------
(* Object storage, as the code uses it.                                    *)

\* The browser puts parts under presigned URLs, which end with the session;
\* overwriting a part can make the set invalid again.
PutParts(s) ==
    /\ multipart[s] = "open" /\ creator[s] = "done" /\ ~expired[s]
    /\ parts' = [parts EXCEPT ![s] = ~@]
    /\ UNCHANGED <<row, asset, tasks, deletions, creator, canceller, multipart,
                   object, sent, procs>>

\* A CompleteMultipart request takes effect.  "short" is the fault that the
\* size comparisons after HEAD exist for.
StoreCompletes(s) ==
    /\ s \in sent /\ multipart[s] = "open" /\ parts[s]
    /\ multipart' = [multipart EXCEPT ![s] = "done"]
    /\ \E o \in {"good", "short"} : object' = [object EXCEPT ![s] = o]
    /\ sent' = sent \ {s}
    /\ UNCHANGED <<row, asset, tasks, deletions, creator, canceller, parts,
                   procs>>

\* Storage refuses the request: no such upload, or its parts do not match.
StoreRefuses(s) ==
    /\ s \in sent
    /\ multipart[s] # "open" \/ ~parts[s]
    /\ sent' = sent \ {s}
    /\ UNCHANGED <<row, asset, tasks, deletions, creator, canceller, multipart,
                   parts, object, procs>>

\* The request never reaches storage.
StoreLoses(s) ==
    /\ s \in sent
    /\ sent' = sent \ {s}
    /\ UNCHANGED <<row, asset, tasks, deletions, creator, canceller, multipart,
                   parts, object, procs>>

\* The deletion worker (module OrphanReaper) deletes an object and resolves
\* its row.  Its check for live references is left out: the invariants below
\* show that this module never queues an object that is still needed.
ReapObject(s) ==
    /\ s \in deletions
    /\ deletions' = deletions \ {s}
    /\ object' = [object EXCEPT ![s] = "none"]
    /\ UNCHANGED <<row, asset, tasks, creator, canceller, multipart, parts,
                   sent, procs>>

-----------------------------------------------------------------------------
(* Completing an upload: the request handler.                              *)

Idle(w, role) == w \in role /\ at[w] = "idle"

\* assertOwned: the database still shows a live lease under our token.
OwnsCompletion(w) ==
    /\ state[on[w]] = "COMPLETING"
    /\ completer[on[w]] = w

\* Snapshot of the session and its parts, before anything is claimed.
ListSubmittedParts(w, s) ==
    /\ Idle(w, Completer)
    /\ state[s] = "UPLOADING" /\ uploadId[s]
    /\ multipart[s] = "open" /\ parts[s]
    /\ Take(w, s, "listed")
    /\ UNCHANGED <<row, asset, tasks, deletions, creator, canceller, store>>

ClaimCompletion(w) ==
    /\ at[w] = "listed"
    /\ IF state[on[w]] = "UPLOADING" /\ uploadId[on[w]]
       THEN /\ state' = [state EXCEPT ![on[w]] = "COMPLETING"]
            /\ completer' = [completer EXCEPT ![on[w]] = w]
            /\ Goto(w, "claimed")
       ELSE Stop(w) /\ UNCHANGED <<state, completer>>
    /\ UNCHANGED <<uploadId, expired, validator, attempts, target, asset, tasks,
                   deletions, creator, canceller, store>>

\* assertOwned, then CompleteMultipart leaves for storage.
SendComplete(w) ==
    /\ at[w] \in {"claimed", "valid"}
    /\ OwnsCompletion(w)
    /\ sent' = sent \cup {on[w]}
    /\ Goto(w, IF at[w] = "claimed" THEN "sent" ELSE "resent")
    /\ UNCHANGED <<row, asset, tasks, deletions, creator, canceller, multipart,
                   parts, object>>

\* The handler's call returns: done, or refused.
CompleteAnswered(w) ==
    /\ at[w] = "sent"
    /\ \/ multipart[on[w]] = "done" /\ Goto(w, "completed")
       \/ on[w] \notin sent /\ Goto(w, "unclear")
    /\ UNCHANGED <<row, asset, tasks, deletions, creator, canceller, store>>

\* It fails without saying whether the request took effect, or still will.
CompleteFails(w) ==
    /\ at[w] = "sent"
    /\ Goto(w, "unclear")
    /\ UNCHANGED <<row, asset, tasks, deletions, creator, canceller, store>>

\* HEAD after success; anything but the expected size goes to the catch block.
HeadCompleted(w) ==
    /\ at[w] = "completed"
    /\ OwnsCompletion(w)
    /\ Goto(w, IF object[on[w]] = "good" THEN "mark" ELSE "unclear")
    /\ UNCHANGED <<row, asset, tasks, deletions, creator, canceller, store>>

\* Planted bug: the catch block takes any object for the completed one.
HeadUnclearAnySize(w) ==
    /\ at[w] = "unclear"
    /\ Goto(w, IF object[on[w]] = "none" THEN "revert" ELSE "mark")
    /\ UNCHANGED <<row, asset, tasks, deletions, creator, canceller, store>>

\* The catch block's HEAD: only an absent object reopens the session, any
\* other doubt leaves it COMPLETING for the recovery pass.
HeadUnclear(w) ==
    /\ at[w] = "unclear"
    /\ \/ object[on[w]] = "good"  /\ Goto(w, "mark")
       \/ object[on[w]] = "none"  /\ Goto(w, "revert")
       \/ object[on[w]] = "short" /\ Stop(w)
    /\ UNCHANGED <<row, asset, tasks, deletions, creator, canceller, store>>

\* Planted bug: the update checks the session's id, not the claim on it.
MarkVerifyingUnfenced(w) ==
    /\ at[w] = "mark"
    /\ state' = [state EXCEPT ![on[w]] = "VERIFYING"]
    /\ uploadId' = [uploadId EXCEPT ![on[w]] = FALSE]
    /\ completer' = [completer EXCEPT ![on[w]] = NoOne]
    /\ Stop(w)
    /\ UNCHANGED <<expired, validator, attempts, target, asset, tasks,
                   deletions, creator, canceller, store>>

\* Both the handler and the recovery pass end here after a HEAD that showed
\* the whole object.
MarkVerifying(w) ==
    /\ at[w] = "mark"
    /\ OwnsCompletion(w)
    /\ state' = [state EXCEPT ![on[w]] = "VERIFYING"]
    /\ uploadId' = [uploadId EXCEPT ![on[w]] = FALSE]
    /\ completer' = [completer EXCEPT ![on[w]] = NoOne]
    /\ Stop(w) \/ (w \in Completer /\ Goto(w, "unclear"))
    /\ UNCHANGED <<expired, validator, attempts, target, asset, tasks,
                   deletions, creator, canceller, store>>

\* The transaction rolls back, which sends the handler to its catch block (as
\* does, in MarkVerifying, an error after the commit).
MarkFails(w) ==
    /\ at[w] = "mark" /\ w \in Completer
    /\ Goto(w, "unclear")
    /\ UNCHANGED <<row, asset, tasks, deletions, creator, canceller, store>>

RevertUploading(w) ==
    /\ at[w] = "revert"
    /\ OwnsCompletion(w)
    /\ state' = [state EXCEPT ![on[w]] = "UPLOADING"]
    /\ completer' = [completer EXCEPT ![on[w]] = NoOne]
    /\ Stop(w)
    /\ UNCHANGED <<uploadId, expired, validator, attempts, target, asset, tasks,
                   deletions, creator, canceller, store>>

\* What a process needs to go on: its claim.  A handler that has claimed
\* nothing yet, and calls that do not check, go on regardless.
Holds(w) ==
    CASE at[w] = "listed"                 -> TRUE
      [] w \in Completer \cup Recoverer   -> OwnsCompletion(w)
      [] w \in Validator                  -> /\ state[on[w]] = "VERIFYING"
                                             /\ validator[on[w]] = w
      [] w \in Aborter                    -> /\ task[on[w]] = "claimed"
                                             /\ aborter[on[w]] = w

\* A claim found lost at an assertOwned, or by a guarded update that touches
\* no row: the worker stops and changes nothing.
Yield(w) ==
    /\ at[w] # "idle" /\ ~Holds(w)
    /\ Stop(w)
    /\ UNCHANGED <<row, asset, tasks, deletions, creator, canceller, store>>

\* The process dies, or a call fails with nothing decided and the work is
\* left for a later claim.
Crash(w) ==
    /\ at[w] # "idle"
    /\ Stop(w)
    /\ UNCHANGED <<row, asset, tasks, deletions, creator, canceller, store>>

\* lease_until passes.
CompletionLapses(s) ==
    /\ completer[s] # NoOne
    /\ completer' = [completer EXCEPT ![s] = NoOne]
    /\ UNCHANGED <<state, uploadId, expired, validator, attempts, target, asset,
                   tasks, deletions, creator, canceller, store, procs>>

-----------------------------------------------------------------------------
(* Completing an upload: the recovery pass.                                *)

ClaimExpiredCompletion(w, s) ==
    /\ Idle(w, Recoverer)
    /\ state[s] = "COMPLETING" /\ uploadId[s] /\ completer[s] = NoOne
    /\ completer' = [completer EXCEPT ![s] = w]
    /\ Take(w, s, "head")
    /\ UNCHANGED <<state, uploadId, expired, validator, attempts, target, asset,
                   tasks, deletions, creator, canceller, store>>

\* What an object found by HEAD decides; next is where its absence leads.
Reconcile(w, next) ==
    \/ object[on[w]] = "good"  /\ Goto(w, "mark")
    \/ object[on[w]] = "short" /\ Goto(w, "reject")
    \/ object[on[w]] = "none"  /\ next

\* Planted bug: recovery completes at once, with the handler's list of parts.
RecoverHeadAndComplete(w) ==
    /\ at[w] = "head"
    /\ OwnsCompletion(w)
    /\ Reconcile(w, Goto(w, "claimed"))
    /\ UNCHANGED <<row, asset, tasks, deletions, creator, canceller, store>>

RecoverHead(w) ==
    /\ at[w] = "head"
    /\ OwnsCompletion(w)
    /\ Reconcile(w, Goto(w, "list"))
    /\ UNCHANGED <<row, asset, tasks, deletions, creator, canceller, store>>

\* ListParts: NoSuchUpload, a complete set of parts, or parts still missing.
RecoverList(w) ==
    /\ at[w] = "list"
    /\ Goto(w, IF multipart[on[w]] # "open" THEN "reject"
               ELSE IF parts[on[w]] THEN "valid" ELSE "release")
    /\ UNCHANGED <<row, asset, tasks, deletions, creator, canceller, store>>

\* The recovery's own CompleteMultipart (SendComplete) answers: success,
\* NoSuchUpload, or another refusal.
RecoverAnswered(w) ==
    /\ at[w] = "resent"
    /\ \/ multipart[on[w]] = "done" /\ Goto(w, "after")
       \/ multipart[on[w]] # "open" /\ Goto(w, "gone")
       \/ on[w] \notin sent /\ Goto(w, "after")
    /\ UNCHANGED <<row, asset, tasks, deletions, creator, canceller, store>>

\* It fails without saying anything.
RecoverFails(w) ==
    /\ at[w] = "resent"
    /\ Goto(w, "after")
    /\ UNCHANGED <<row, asset, tasks, deletions, creator, canceller, store>>

\* Planted bug: any error of CompleteMultipart makes absence final.
RecoverHeadAfterAnyError(w) ==
    /\ at[w] \in {"after", "gone"}
    /\ Reconcile(w, Goto(w, "reject"))
    /\ UNCHANGED <<row, asset, tasks, deletions, creator, canceller, store>>

\* The HEAD after CompleteMultipart: absence is final only after NoSuchUpload.
RecoverHeadAfter(w) ==
    /\ at[w] \in {"after", "gone"}
    /\ Reconcile(w, IF at[w] = "gone" THEN Goto(w, "reject") ELSE Stop(w))
    /\ UNCHANGED <<row, asset, tasks, deletions, creator, canceller, store>>

\* Planted bug: a session whose time is over is left to the next pass.
ReleaseOnlyUnexpired(w) ==
    /\ at[w] = "release"
    /\ OwnsCompletion(w)
    /\ IF ~expired[on[w]]
       THEN /\ state' = [state EXCEPT ![on[w]] = "UPLOADING"]
            /\ completer' = [completer EXCEPT ![on[w]] = NoOne]
       ELSE UNCHANGED <<state, completer>>
    /\ Stop(w)
    /\ UNCHANGED <<uploadId, expired, validator, attempts, target, asset, tasks,
                   deletions, creator, canceller, store>>

\* Give the session back to the browser, or end it if its time is over.
ReleaseRecoveredCompletion(w) ==
    /\ at[w] = "release"
    /\ OwnsCompletion(w)
    /\ completer' = [completer EXCEPT ![on[w]] = NoOne]
    /\ IF ~expired[on[w]]
       THEN /\ state' = [state EXCEPT ![on[w]] = "UPLOADING"]
            /\ UNCHANGED <<uploadId, tasks>>
       ELSE /\ state' = [state EXCEPT ![on[w]] = "EXPIRED"]
            /\ uploadId' = [uploadId EXCEPT ![on[w]] = FALSE]
            /\ QueueAbort(on[w])
    /\ Stop(w)
    /\ UNCHANGED <<expired, validator, attempts, target, asset, deletions,
                   creator, canceller, store>>

\* End the session and queue its object, but no abort, for deletion.
RejectRecoveredCompletion(w) ==
    /\ at[w] = "reject"
    /\ OwnsCompletion(w)
    /\ state' = [state EXCEPT ![on[w]] = "REJECTED"]
    /\ uploadId' = [uploadId EXCEPT ![on[w]] = FALSE]
    /\ completer' = [completer EXCEPT ![on[w]] = NoOne]
    /\ deletions' = deletions \cup {on[w]}
    /\ Stop(w)
    /\ UNCHANGED <<expired, validator, attempts, target, asset, tasks, creator,
                   canceller, store>>

\* Planted bug: a session under completion does not count as open.
QueueAbortOfCompleting(s) ==
    /\ multipart[s] = "open"
    /\ state[s] \notin {"ALLOCATING", "UPLOADING"}
    /\ QueueAbort(s)
    /\ UNCHANGED <<row, asset, deletions, creator, canceller, store, procs>>

\* The inventory of multipart uploads in storage: one that no open session
\* owns is aborted, known to the database or not.
QueueUnknownMultipartAbort(s) ==
    /\ multipart[s] = "open"
    /\ state[s] \notin Open
    /\ QueueAbort(s)
    /\ UNCHANGED <<row, asset, deletions, creator, canceller, store, procs>>

-----------------------------------------------------------------------------
(* Validating and publishing the stored archive.                           *)

OwnsValidation(w) ==
    /\ state[on[w]] = "VERIFYING"
    /\ validator[on[w]] = w

ClaimVerifying(w, s) ==
    /\ Idle(w, Validator)
    /\ state[s] = "VERIFYING" /\ validator[s] = NoOne
    /\ validator' = [validator EXCEPT ![s] = w]
    /\ attempts' = [attempts EXCEPT ![s] = IF @ < MaxAttempts THEN @ + 1 ELSE @]
    /\ Take(w, s, "validate")
    /\ UNCHANGED <<state, uploadId, expired, completer, target, asset, tasks,
                   deletions, creator, canceller, store>>

\* After an error that proves nothing about the archive: retry later, or keep
\* the source and give up once the attempts are spent.
RetryOrGiveUp(w) ==
    IF attempts[on[w]] >= MaxAttempts THEN Goto(w, "retain") ELSE Stop(w)

\* Stream and check the archive.  A missing or wrong-sized source and invalid
\* content are final.
Validate(w) ==
    /\ at[w] = "validate"
    /\ \/ object[on[w]] = "good" /\ Goto(w, "commit")
       \/ Goto(w, "delete")
    /\ UNCHANGED <<row, asset, tasks, deletions, creator, canceller, store>>

\* Any other error is retried, unless only an operator can repair the row.
ValidateFails(w) ==
    /\ at[w] = "validate"
    /\ RetryOrGiveUp(w) \/ Goto(w, "retain")
    /\ UNCHANGED <<row, asset, tasks, deletions, creator, canceller, store>>

\* Planted bug: the fence only refuses a game that appeared meanwhile.
TargetNotNewer(s) == Current \subseteq {target[s]}

\* The asset captured when the session was created is still the current one.
TargetCurrent(s) ==
    IF target[s] = NoSession THEN Current = {} ELSE Current = {target[s]}

\* Planted bug: the replaced asset stays READY.
CommitBesideOldGame(w) ==
    /\ at[w] = "commit"
    /\ OwnsValidation(w)
    /\ TargetCurrent(on[w])
    /\ asset' = [asset EXCEPT ![on[w]] = "ready"]
    /\ deletions' = deletions \cup Current
    /\ state' = [state EXCEPT ![on[w]] = "READY"]
    /\ validator' = [validator EXCEPT ![on[w]] = NoOne]
    /\ Stop(w)
    /\ UNCHANGED <<uploadId, expired, completer, attempts, target, tasks,
                   creator, canceller, store>>

\* commitGameReady, one serializable transaction.  Its caller may see an error
\* although it committed.
CommitGameReady(w) ==
    /\ at[w] = "commit"
    /\ OwnsValidation(w)
    /\ TargetCurrent(on[w])
    /\ asset' = [s \in Session |-> IF s = on[w] THEN "ready"
                                   ELSE IF s \in Current THEN "deleted"
                                   ELSE asset[s]]
    /\ deletions' = deletions \cup Current
    /\ state' = [state EXCEPT ![on[w]] = "READY"]
    /\ validator' = [validator EXCEPT ![on[w]] = NoOne]
    /\ Stop(w) \/ RetryOrGiveUp(w)
    /\ UNCHANGED <<uploadId, expired, completer, attempts, target, tasks,
                   creator, canceller, store>>

\* The transaction refuses for good: the target is no longer current, or the
\* project no longer accepts uploads.
CommitRefused(w) ==
    /\ at[w] = "commit"
    /\ Goto(w, "delete")
    /\ UNCHANGED <<row, asset, tasks, deletions, creator, canceller, store>>

CommitFails(w) ==
    /\ at[w] = "commit"
    /\ RetryOrGiveUp(w)
    /\ UNCHANGED <<row, asset, tasks, deletions, creator, canceller, store>>

MarkRejected(w) ==
    /\ at[w] \in {"delete", "retain"}
    /\ OwnsValidation(w)
    /\ state' = [state EXCEPT ![on[w]] = "REJECTED"]
    /\ validator' = [validator EXCEPT ![on[w]] = NoOne]
    /\ deletions' = IF at[w] = "delete" THEN deletions \cup {on[w]} ELSE deletions
    /\ Stop(w)
    /\ UNCHANGED <<uploadId, expired, completer, attempts, target, asset, tasks,
                   creator, canceller, store>>

ValidationLapses(s) ==
    /\ validator[s] # NoOne
    /\ validator' = [validator EXCEPT ![s] = NoOne]
    /\ UNCHANGED <<state, uploadId, expired, completer, attempts, target, asset,
                   tasks, deletions, creator, canceller, store, procs>>

\* Planted bug: the object is queued before the asset is terminal.
ClaimAssetAndQueue(s) ==
    /\ asset[s] = "ready"
    /\ asset' = [asset EXCEPT ![s] = "deleting"]
    /\ deletions' = deletions \cup {s}
    /\ UNCHANGED <<row, tasks, creator, canceller, store, procs>>

\* A member deletes the published GAME, in two transactions.
ClaimAssetForDeletion(s) ==
    /\ asset[s] = "ready"
    /\ asset' = [asset EXCEPT ![s] = "deleting"]
    /\ UNCHANGED <<row, tasks, deletions, creator, canceller, store, procs>>

CompleteAssetDeletion(s) ==
    /\ asset[s] \in {"deleting", "deleted"}
    /\ asset' = [asset EXCEPT ![s] = "deleted"]
    /\ deletions' = deletions \cup {s}
    /\ UNCHANGED <<row, tasks, creator, canceller, store, procs>>

-----------------------------------------------------------------------------
(* The worker that aborts multipart uploads.                               *)

OwnsTask(w) == task[on[w]] = "claimed" /\ aborter[on[w]] = w

ClaimTask(w, s) ==
    /\ Idle(w, Aborter)
    /\ task[s] = "pending" \/ (task[s] = "claimed" /\ aborter[s] = NoOne)
    /\ task' = [task EXCEPT ![s] = "claimed"]
    /\ aborter' = [aborter EXCEPT ![s] = w]
    /\ Take(w, s, "abort")
    /\ UNCHANGED <<row, asset, deletions, creator, canceller, store>>

\* AbortMultipart takes effect; NoSuchUpload counts as success.
AbortMultipart(w) ==
    /\ at[w] = "abort"
    /\ OwnsTask(w)
    /\ multipart' = [multipart EXCEPT ![on[w]] =
                       IF @ = "open" THEN "aborted" ELSE @]
    /\ Goto(w, "aborted")
    /\ UNCHANGED <<row, asset, tasks, deletions, creator, canceller, parts,
                   object, sent>>

\* It fails, after it took effect or not.
AbortFails(w) ==
    /\ at[w] = "abort"
    /\ OwnsTask(w)
    /\ multipart' \in {multipart, [multipart EXCEPT ![on[w]] =
                                      IF @ = "open" THEN "aborted" ELSE @]}
    /\ Goto(w, "failed")
    /\ UNCHANGED <<row, asset, tasks, deletions, creator, canceller, parts,
                   object, sent>>

ResolveTask(w) ==
    /\ at[w] = "aborted"
    /\ OwnsTask(w)
    /\ task' = [task EXCEPT ![on[w]] = "resolved"]
    /\ aborter' = [aborter EXCEPT ![on[w]] = NoOne]
    /\ Stop(w)
    /\ UNCHANGED <<row, asset, deletions, creator, canceller, store>>

FailTask(w) ==
    /\ at[w] = "failed"
    /\ OwnsTask(w)
    /\ task' = [task EXCEPT ![on[w]] = "pending"]
    /\ aborter' = [aborter EXCEPT ![on[w]] = NoOne]
    /\ Stop(w)
    /\ UNCHANGED <<row, asset, deletions, creator, canceller, store>>

TaskLapses(s) ==
    /\ aborter[s] # NoOne
    /\ aborter' = [aborter EXCEPT ![s] = NoOne]
    /\ UNCHANGED <<row, asset, task, deletions, creator, canceller, store, procs>>

-----------------------------------------------------------------------------
(* The next-state relation, with the steps that only a failure of storage, *)
(* of the database or of a process takes kept apart.                       *)

\* Requests of users and the passing of the session's time.
UserStep(s) ==
    \/ CreateAllocating(s) \/ CancelRead(s) \/ Cancel(s) \/ PutParts(s)
    \/ ClaimAssetForDeletion(s) \/ CompleteAssetDeletion(s)
    \/ \E w \in Completer : ListSubmittedParts(w, s)

SystemStep(s) ==
    \/ CreateMultipart(s) \/ SetAllocated(s)
    \/ PassExpiresAt(s) \/ ExpireTimedOutSession(s)
    \/ StoreCompletes(s) \/ StoreRefuses(s) \/ ReapObject(s)
    \/ QueueUnknownMultipartAbort(s)
    \/ CompletionLapses(s) \/ ValidationLapses(s) \/ TaskLapses(s)

SessionFailure(s) == CreatorCrash(s) \/ FailAllocation(s) \/ StoreLoses(s)

Claim(w, s) ==
    ClaimExpiredCompletion(w, s) \/ ClaimVerifying(w, s) \/ ClaimTask(w, s)

Progress(w) ==
    \/ ClaimCompletion(w) \/ SendComplete(w) \/ CompleteAnswered(w)
    \/ HeadCompleted(w) \/ HeadUnclear(w) \/ MarkVerifying(w)
    \/ RevertUploading(w) \/ Yield(w)
    \/ RecoverHead(w) \/ RecoverList(w) \/ RecoverAnswered(w)
    \/ RecoverHeadAfter(w) \/ ReleaseRecoveredCompletion(w)
    \/ RejectRecoveredCompletion(w)
    \/ Validate(w) \/ CommitGameReady(w) \/ CommitRefused(w) \/ MarkRejected(w)
    \/ AbortMultipart(w) \/ ResolveTask(w) \/ FailTask(w)

WorkerFailure(w) ==
    \/ Crash(w) \/ CompleteFails(w) \/ MarkFails(w) \/ RecoverFails(w)
    \/ ValidateFails(w) \/ CommitFails(w) \/ AbortFails(w)

Next ==
    \/ ExpireStaleAllocations
    \/ \E s \in Session : UserStep(s) \/ SystemStep(s) \/ SessionFailure(s)
    \/ \E w \in Worker : Progress(w) \/ WorkerFailure(w)
    \/ \E w \in Worker, s \in Session : Claim(w, s)

Spec == Init /\ [][Next]_vars

-----------------------------------------------------------------------------
(* What must hold.                                                         *)

CompletionPlaces == {"listed", "claimed", "sent", "completed", "unclear",
                     "mark", "revert"}
RecoveryPlaces   == {"head", "list", "valid", "resent", "after", "gone",
                     "mark", "release", "reject"}
ValidationPlaces == {"validate", "commit", "delete", "retain"}
AbortPlaces      == {"abort", "aborted", "failed"}

\* Every variable has its type, and each process is at a place of its role.
TypeOK ==
    /\ state \in [Session -> {"NONE"} \cup Active \cup Terminal]
    /\ uploadId \in [Session -> BOOLEAN]
    /\ expired \in [Session -> BOOLEAN]
    /\ completer \in [Session -> Completer \cup Recoverer \cup {NoOne}]
    /\ validator \in [Session -> Validator \cup {NoOne}]
    /\ attempts \in [Session -> 0 .. MaxAttempts]
    /\ target \in [Session -> Session \cup {NoSession}]
    /\ asset \in [Session -> {"none", "ready", "deleting", "deleted"}]
    /\ task \in [Session -> {"none", "pending", "claimed", "resolved"}]
    /\ aborter \in [Session -> Aborter \cup {NoOne}]
    /\ deletions \subseteq Session
    /\ creator \in [Session -> {"idle", "calling", "got", "done", "superseded",
                                "lost"}]
    /\ canceller \in [Session -> {"idle", "empty", "holding"}]
    /\ multipart \in [Session -> {"none", "open", "done", "aborted"}]
    /\ parts \in [Session -> BOOLEAN]
    /\ object \in [Session -> {"none", "good", "short"}]
    /\ sent \subseteq Session
    /\ at \in [Worker -> {"idle"} \cup CompletionPlaces \cup RecoveryPlaces
                         \cup ValidationPlaces \cup AbortPlaces]
    /\ on \in [Worker -> Session \cup {NoSession}]
    /\ \A w \in Worker :
          /\ at[w] = "idle" <=> on[w] = NoSession
          /\ at[w] \in CompletionPlaces \ {"mark"} => w \in Completer
          /\ at[w] \in RecoveryPlaces \ {"mark"} => w \in Recoverer
          /\ at[w] = "mark" => w \in Completer \cup Recoverer
          /\ at[w] \in ValidationPlaces => w \in Validator
          /\ at[w] \in AbortPlaces => w \in Aborter

\* The bytes of an archive that is being validated or is published are whole
\* and in storage: no stale completer, late request, rejection or deletion
\* takes them away.
NeededBytesKept ==
    \A s \in Session :
        state[s] = "VERIFYING" \/ asset[s] \in {"ready", "deleting"}
            => object[s] = "good"

\* A durable deletion row never names the object of an open session, of one
\* under validation or of the published asset, so the reaper's own check for
\* live references is not what saves it.
OnlyDeadObjectsQueued ==
    \A s \in deletions : state[s] \in Dead \/ asset[s] = "deleted"

\* An abort task never names the upload a session still fills or completes:
\* not when an allocation loses its race, not when inventory finds an upload
\* the database did not know.
AbortsOnlyDeadUploads ==
    \A s \in Session : task[s] # "none" => state[s] \in Dead

\* A multipart upload that outlives its session has an unresolved abort task,
\* unless its id never reached the database (creation failed or still runs)
\* or a cancellation overtook the id on its way there.
OpenUploadsTracked ==
    \A s \in Session :
        (multipart[s] = "open" /\ state[s] \in Terminal \cup {"VERIFYING"})
            => \/ task[s] \in {"pending", "claimed"}
               \/ creator[s] \in {"got", "lost"}
               \/ state[s] = "CANCELLED"

\* The project never has two published games, although a session that was
\* created to replace one commits long after it looked.
OneGame == \A s, t \in Current : s = t

\* A session that reached a final state keeps it, whatever a process that
\* still works on it does.
FinalStatesKept ==
    [][\A s \in Session : state[s] \in Terminal => state'[s] = state[s]]_vars

\* Seen from outside, the uploads are what GamePublication promises.
Phase ==
    [s \in Session |->
        CASE state[s] = "NONE"      -> "unused"
          [] state[s] \in Open      -> "open"
          [] state[s] = "VERIFYING" -> "sealed"
          [] state[s] = "READY"     -> "published"
          [] OTHER                  -> "failed"]

Game == IF Current = {} THEN NoSession ELSE CHOOSE s \in Current : TRUE

Promise == INSTANCE GamePublication WITH
    phase <- Phase, basis <- target, game <- Game,
    kept <- {s \in Session : object[s] = "good"}

PromiseKept == Promise!Spec

-----------------------------------------------------------------------------
(* How the columns of a row, the storage behind it and the processes at    *)
(* work on it hang together: what makes the invariants above inductive.    *)

\* A lease or an upload id is there only in the states that have one, and an
\* asset only once its session is READY.
ColumnsAgree(s) ==
    /\ completer[s] # NoOne => state[s] = "COMPLETING"
    /\ validator[s] # NoOne => state[s] = "VERIFYING"
    /\ uploadId[s] <=> state[s] \in {"UPLOADING", "COMPLETING"}
    /\ asset[s] # "none" <=> state[s] = "READY"
    /\ state[s] = "NONE" => target[s] = NoSession

\* How far the creating request came bounds the row, the cancellation and the
\* multipart upload.
CreationAgrees(s) ==
    /\ creator[s] = "idle" <=> state[s] = "NONE"
    /\ creator[s] \in {"calling", "got"}
          => state[s] \in {"ALLOCATING", "CANCELLED", "EXPIRED"}
    /\ state[s] = "ALLOCATING" => creator[s] \in {"calling", "got", "lost"}
    /\ state[s] \in {"UPLOADING", "COMPLETING", "VERIFYING", "READY"}
          => creator[s] = "done"
    /\ canceller[s] = "holding" => creator[s] = "done"
    /\ creator[s] \in {"idle", "calling"} => multipart[s] = "none"
    /\ creator[s] \in {"got", "done", "superseded"} => multipart[s] # "none"

\* An object comes from a finished multipart upload; an abort task names a
\* created one, and is not resolved before that one is gone.
StorageAgrees(s) ==
    /\ object[s] # "none" => multipart[s] = "done"
    /\ state[s] \in {"VERIFYING", "READY"} => multipart[s] = "done"
    /\ task[s] # "none" => multipart[s] # "none"
    /\ task[s] = "resolved" => multipart[s] # "open"

\* What a process has seen of storage still holds when it acts on it.
ViewHolds(w) ==
    /\ at[w] = "mark" /\ OwnsCompletion(w) => object[on[w]] = "good"
    /\ at[w] \in RecoveryPlaces /\ w \in Recoverer => creator[on[w]] = "done"
    /\ at[w] \in {"gone", "reject"} => multipart[on[w]] \in {"done", "aborted"}
    /\ at[w] \in AbortPlaces => multipart[on[w]] # "none"
    /\ at[w] = "aborted" => multipart[on[w]] # "open"

\* Each session's row, creation, storage and workers agree, in all of the
\* above respects: no interleaving of the handlers, the recovery pass, the
\* validation worker and the abort worker pulls them apart.
Consistent ==
    /\ \A s \in Session : ColumnsAgree(s) /\ CreationAgrees(s) /\ StorageAgrees(s)
    /\ \A w \in Worker : ViewHolds(w)

-----------------------------------------------------------------------------
(* What the repository says of itself, and the code does not quite do.     *)

\* docs/upload-lifecycle-runbook.md: "Business transactions commit pointer
\* changes and their deletion/abort outbox rows atomically."  A transaction
\* that ends a session and drops its upload id leaves an abort task behind.
AbortQueuedAtomically ==
    [][\A s \in Session :
          uploadId[s] /\ state[s] \notin Dead /\ state'[s] \in {"CANCELLED", "EXPIRED"}
              => task'[s] \in {"pending", "claimed"}]_vars

\* What the code does instead: the only transaction that drops an upload id and
\* leaves no due task is a cancellation that read the session before its id was
\* stored.  The expiry pass and the release of a recovered completion never do.
AbortLostOnlyByCancel ==
    [][\A s \in Session :
          uploadId[s] /\ state[s] \notin Dead /\ state'[s] \in {"CANCELLED", "EXPIRED"}
              => \/ task'[s] = "pending"
                 \/ /\ canceller[s] = "empty" /\ canceller'[s] = "idle"
                    /\ state[s] = "UPLOADING" /\ state'[s] = "CANCELLED"]_vars

\* recovery.service.ts, where ListParts reports NoSuchUpload: "HEAD already
\* proved no completed object exists."  A session whose object is whole is not
\* rejected by the recovery of its completion.
RecoveryRejectsOnlyLostUploads ==
    [][\A s \in Session :
          state[s] = "COMPLETING" /\ state'[s] = "REJECTED"
              => object[s] # "good"]_vars

\* How a whole object comes to be rejected: by the pass that holds the lease,
\* and that pass went from ListParts to the rejection after the completion had
\* removed the multipart upload.  Nothing else leads there, an object that was
\* short or absent when a pass decided to reject it never turns whole under it.
WholeObjectRejectedOnlyAfterList ==
    [][/\ \A s \in Session :
             state[s] = "COMPLETING" /\ state'[s] = "REJECTED" /\ object[s] = "good"
                 => \E w \in Recoverer : /\ completer[s] = w
                                        /\ at[w] = "reject" /\ on[w] = s
       /\ \A w \in Recoverer :
             at'[w] = "reject" /\ object'[on'[w]] = "good"
                 => /\ on'[w] = on[w] /\ object[on[w]] = "good"
                    /\ multipart[on[w]] = "done"
                    /\ at[w] \in {"list", "reject"}]_vars
=============================================================================
