----------------------------- MODULE VideoCommit -----------------------------
(***************************************************************************)
(* How an uploaded video becomes a READY asset.  A pass of the video       *)
(* worker claims the VERIFYING session and commits in two transactions:    *)
(* the asset with its original, and, once the playback is converted and    *)
(* uploaded, the playback with the end of the session.  A pass that dies   *)
(* between the two is resumed by the next.  The sweep of upload intents,   *)
(* the playback jobs of VideoPlayback and the members of the project go on *)
(* meanwhile.                                                              *)
(*                                                                         *)
(* Abstractions:                                                           *)
(*  - One session, of one generation of its source.  Whether the file is   *)
(*    safe to play as it is, so that no playback is made, never changes.   *)
(*  - A playback job is one step, and only counts after a session that was *)
(*    stopped: after any other it is the subject of VideoPlayback.         *)
(*  - The order of the videos of a project, their number and the refusal   *)
(*    of a member who lost access are left out: a pass may fail anyway.    *)
(*  - not_before and back-off: an intent may fall due at any time.         *)
(*  - The reaper does not fail here: no key that it deletes is wanted       *)
(*    again, so what its late requests delete is not missed.               *)
(*  - requestPlaybackRepair is left out: no route and no worker calls it.  *)
(***************************************************************************)
EXTENDS ObjectDeletion

CONSTANTS Original,         \* key of the uploaded video
          Generated,        \* videoPlaybackObjectKey of the session
          Elsewhere,        \* key of a playback that a playback job made
          Maker,            \* passes of the video worker
          IntentSweep,      \* passes of the upload-intent sweep
          MaxMakes,         \* MAX_WORKER_VALIDATION_ATTEMPTS
          MaxCommitFaults   \* bound: how often something fails, ends or lapses

ASSUME CommitKeys ==
    /\ Original # Generated /\ {Original, Generated} \subseteq Key
    /\ Elsewhere \notin Key
    /\ None \notin Maker \cup IntentSweep
    /\ {"assets", "sessions", "intents"} \subseteq Table
    /\ MaxMakes \in Nat \ {0} /\ MaxCommitFaults \in Nat

VARIABLES
    film,          \* the upload session
    clip,          \* the asset it results in, and its PLAYBACK
    made,          \* how many assets the session made (history)
    safe,          \* the file is played as it is
    outputIntent,  \* upload_intents: the row of Generated
    maker,         \* the pass each worker is in
    intentSweep,   \* what each sweep is doing
    strayUpload,   \* an abandoned PUT may still arrive
    commitFaults   \* how much has gone wrong

rowVars    == <<film, clip, made, safe, outputIntent>>
makerVars  == <<maker, strayUpload>>
commitVars == <<rowVars, makerVars, intentSweep>>

NoClip   == [status |-> "NONE", playback |-> "NONE", key |-> None]
NoneYet  == [state |-> "NONE", claim |-> None]
Away     == [at |-> "away", last |-> FALSE, operator |-> FALSE]
NotSwept == [at |-> "asleep", seen |-> FALSE]

CommitInit ==
    /\ film = [state |-> "VERIFYING", claim |-> None, lapsed |-> FALSE,
               attempts |-> 0, operator |-> FALSE]
    /\ clip = NoClip /\ made = 0
    /\ safe \in BOOLEAN
    /\ outputIntent = NoneYet
    /\ maker = [p \in Maker |-> Away]
    /\ intentSweep = [s \in IntentSweep |-> NotSwept]
    /\ strayUpload = FALSE /\ commitFaults = 0

\* renewVideoLease, and the fence of every transaction of the worker.
OwnsFilm(p) == film.state = "VERIFYING" /\ film.claim = p /\ ~film.lapsed

\* result_asset_id and result_representation_id, set with the asset.
HasResult == clip.status # "NONE"

PlaybackKey == IF safe THEN Original ELSE Generated
Undecided   == outputIntent.state \in {"PREPARED", "UPLOADED"}

MakerTo(p, l) == maker' = [maker EXCEPT ![p].at = l]
LeavePass(p)  == maker' = [maker EXCEPT ![p] = Away]

\* The lease of a pass that fails runs out; the last attempt decides.
MakeFailed(p) ==
    IF maker[p].last
    THEN maker' = [maker EXCEPT ![p].at = "deciding", ![p].operator = TRUE]
    ELSE LeavePass(p)

EndFilm(state) ==
    film' = [film EXCEPT !.state = state, !.claim = None, !.lapsed = FALSE]

-----------------------------------------------------------------------------
(* A pass of the video worker.                                             *)

ClaimVideoVerifying(p) ==
    /\ maker[p].at = "away"
    /\ film.state = "VERIFYING" /\ (film.claim = None \/ film.lapsed)
    /\ film' = [film EXCEPT !.claim = p, !.lapsed = FALSE,
                            !.attempts = IF @ < MaxMakes THEN @ + 1 ELSE @]
    /\ maker' = [maker EXCEPT ![p].at = "reading",
                              ![p].last = film'.attempts = MaxMakes]
    /\ UNCHANGED <<deletionVars, clip, made, safe, outputIntent, intentSweep,
                   strayUpload>>

\* The source is fetched, probed and decoded.  One that is missing or no
\* acceptable video is final.
ReadFilm(p) ==
    /\ maker[p].at = "reading" /\ OwnsFilm(p)
    /\ \/ Original \in stored /\ MakerTo(p, "keeping")
       \/ MakerTo(p, "deciding")
    /\ UNCHANGED <<deletionVars, rowVars, intentSweep, strayUpload>>

\* The asset an earlier pass made, unless it is deleted.
Resumable == clip.status = "READY" /\ clip.key = PlaybackKey

AfterOriginal(p) == MakerTo(p, IF safe THEN "finishing" ELSE "encoding")

NewClip == [status |-> "READY", playback |-> "VERIFYING", key |-> PlaybackKey]

\* Planted bug: the result of an earlier pass is not looked at.
CommitOriginalAfresh(p) ==
    /\ maker[p].at = "keeping" /\ OwnsFilm(p)
    /\ clip' = NewClip /\ made' = made + 1
    /\ AfterOriginal(p)
    /\ UNCHANGED <<deletionVars, film, safe, outputIntent, intentSweep, strayUpload>>

\* commitVideoOriginalReady: makes the asset, or resumes with the one an
\* earlier pass made, whose playback is due again if it had failed.
CommitVideoOriginalReady(p) ==
    /\ maker[p].at = "keeping" /\ OwnsFilm(p)
    /\ \/ /\ ~HasResult
          /\ clip' = NewClip /\ made' = made + 1
          /\ AfterOriginal(p)
       \/ /\ HasResult /\ Resumable /\ UNCHANGED made
          /\ clip' = [clip EXCEPT !.playback = IF @ = "FAILED" THEN "VERIFYING" ELSE @]
          /\ AfterOriginal(p)
       \/ /\ HasResult /\ ~Resumable
          /\ MakeFailed(p) /\ UNCHANGED <<clip, made>>
    /\ UNCHANGED <<deletionVars, film, safe, outputIntent, intentSweep, strayUpload>>

\* remux, reencode and the checks of what they made.
Convert(p) ==
    /\ maker[p].at = "encoding" /\ OwnsFilm(p)
    /\ \E l \in {"preparing", "spoiled"} : MakerTo(p, l)
    /\ UNCHANGED <<deletionVars, rowVars, intentSweep, strayUpload>>

PlaybackDue == clip.status = "READY" /\ clip.playback = "VERIFYING"

\* commitVideoPlaybackFailed, if it returns true: the video is READY without
\* a playback.
PlaybackFails ==
    /\ PlaybackDue
    /\ clip' = [clip EXCEPT !.playback = "FAILED"]
    /\ EndFilm("READY")

CommitVideoPlaybackFailed(p) ==
    /\ maker[p].at = "spoiled" /\ OwnsFilm(p)
    /\ \/ PlaybackFails /\ LeavePass(p)
       \/ ~PlaybackDue /\ MakeFailed(p) /\ UNCHANGED <<clip, film>>
    /\ UNCHANGED <<deletionVars, made, safe, outputIntent, intentSweep, strayUpload>>

\* preparePlaybackIntent, which no lease fences: the intent of an earlier
\* pass serves while it is undecided.
PreparePlaybackIntent(p) ==
    /\ maker[p].at = "preparing"
    /\ \/ Undecided /\ MakerTo(p, "looking") /\ UNCHANGED outputIntent
       \/ /\ outputIntent.state = "NONE" /\ NoDeletionClaim(Generated)
          /\ outputIntent' = [NoneYet EXCEPT !.state = "PREPARED"]
          /\ MakerTo(p, "looking")
       \/ /\ ~Undecided /\ (outputIntent.state = "NONE" => LiveClaim(Generated))
          /\ MakeFailed(p) /\ UNCHANGED outputIntent
    /\ UNCHANGED <<deletionVars, film, clip, made, safe, intentSweep, strayUpload>>

\* Bytes of an earlier pass are used if they are the same.
HeadPlayback(p) ==
    /\ maker[p].at = "looking" /\ OwnsFilm(p)
    /\ \/ MakerTo(p, "uploading")
       \/ Generated \in stored /\ MakerTo(p, "marking")
    /\ UNCHANGED <<deletionVars, rowVars, intentSweep, strayUpload>>

UploadPlayback(p) ==
    /\ maker[p].at = "uploading"
    /\ stored' = stored \cup {Generated}
    /\ MakerTo(p, "marking")
    /\ UNCHANGED <<outbox, reaper, lateDelete, rowVars, intentSweep, strayUpload>>

MarkPlaybackUploaded(p) ==
    /\ maker[p].at = "marking"
    /\ \/ /\ Undecided /\ MakerTo(p, "finishing")
          /\ outputIntent' = [outputIntent EXCEPT !.state = "UPLOADED"]
       \/ ~Undecided /\ MakeFailed(p) /\ UNCHANGED outputIntent
    /\ UNCHANGED <<deletionVars, film, clip, made, safe, intentSweep, strayUpload>>

\* What the second transaction needs of the rows, apart from the lease.
PlaybackFits ==
    /\ Resumable /\ clip.playback # "FAILED"
    /\ ~safe => Undecided /\ NoDeletionClaim(Generated)

\* commitVideoPlaybackReady with commitUploadIntents
CommitVideoPlaybackReady(p) ==
    /\ maker[p].at = "finishing" /\ OwnsFilm(p)
    /\ \/ /\ PlaybackFits
          /\ clip' = [clip EXCEPT !.playback = "READY"]
          /\ outputIntent' = IF safe THEN outputIntent
                             ELSE [outputIntent EXCEPT !.state = "COMMITTED",
                                                       !.claim = None]
          /\ EndFilm("READY")
          /\ LeavePass(p)
       \/ ~PlaybackFits /\ MakeFailed(p) /\ UNCHANGED <<clip, outputIntent, film>>
    /\ UNCHANGED <<deletionVars, made, safe, intentSweep, strayUpload>>

\* The end of a pass that may not be tried again.  A session that has its
\* asset is not rejected: rejectVideo finds no row and it is claimed again.
RejectVideo(p) ==
    /\ maker[p].at = "deciding" /\ OwnsFilm(p)
    /\ \/ /\ ~HasResult
          /\ film' = [film EXCEPT !.state = "REJECTED", !.claim = None,
                                  !.operator = maker[p].operator]
          /\ QueueDurableDeletions(IF maker[p].operator THEN {} ELSE {Original})
       \/ HasResult /\ UNCHANGED <<film, outbox>>
    /\ LeavePass(p)
    /\ UNCHANGED <<reaper, stored, lateDelete, clip, made, safe, outputIntent,
                   intentSweep, strayUpload>>

GiveUpUpload(p) ==
    strayUpload' \in {strayUpload, strayUpload \/ maker[p].at = "uploading"}

\* The lease is found lost: the pass ends and leaves everything as it is.
LoseFilm(p) ==
    /\ maker[p].at # "away" /\ ~OwnsFilm(p)
    /\ GiveUpUpload(p) /\ LeavePass(p)
    /\ UNCHANGED <<deletionVars, rowVars, intentSweep>>

\* Storage, the disk, a command or a transaction fails.
MakeFails(p) ==
    /\ maker[p].at \notin {"away", "deciding"}
    /\ GiveUpUpload(p) /\ MakeFailed(p)
    /\ UNCHANGED <<deletionVars, rowVars, intentSweep>>

\* The process ends, or the last transaction fails.
MakerStops(p) ==
    /\ maker[p].at # "away"
    /\ GiveUpUpload(p) /\ LeavePass(p)
    /\ UNCHANGED <<deletionVars, rowVars, intentSweep>>

\* A pass renews its lease until it ends.
NobodyMakes == film.claim # None /\ maker[film.claim].at = "away"

FilmLapses ==
    /\ film.claim # None /\ ~film.lapsed
    /\ film' = [film EXCEPT !.lapsed = TRUE]
    /\ UNCHANGED <<deletionVars, clip, made, safe, outputIntent, makerVars,
                   intentSweep>>

StrayUpload ==
    /\ strayUpload /\ strayUpload' = FALSE
    /\ stored' = stored \cup {Generated}
    /\ UNCHANGED <<outbox, reaper, lateDelete, rowVars, maker, intentSweep>>

-----------------------------------------------------------------------------
(* Members, operators and playback jobs.                                   *)

\* cancelSubmission stops every active session of the project, also one that
\* has made its asset, and queues its source.
CancelFilm ==
    /\ film.state = "VERIFYING"
    /\ EndFilm("CANCELLED") /\ QueueDurableDeletions({Original})
    /\ UNCHANGED <<reaper, stored, lateDelete, clip, made, safe, outputIntent,
                   makerVars, intentSweep>>

\* claimAssetForDeletion
ClaimClipForDeletion ==
    /\ clip.status = "READY"
    /\ clip' = [clip EXCEPT !.status = "DELETING"]
    /\ UNCHANGED <<deletionVars, film, made, safe, outputIntent, makerVars,
                   intentSweep>>

\* completeAssetDeletion
CompleteClipDeletion ==
    /\ clip.status = "DELETING"
    /\ clip' = [clip EXCEPT !.status = "DELETED"]
    /\ QueueDurableDeletions({Original, clip.key} \cap Key)
    /\ UNCHANGED <<reaper, stored, lateDelete, film, made, safe, outputIntent,
                   makerVars, intentSweep>>

\* A playback job gives the asset a playback of its own.  None is queued
\* while the session is VERIFYING.
PlaybackReplaced ==
    /\ clip.status = "READY" /\ clip.key # Elsewhere /\ film.state = "CANCELLED"
    /\ clip' = [clip EXCEPT !.playback = "READY", !.key = Elsewhere]
    /\ UNCHANGED <<deletionVars, film, made, safe, outputIntent, makerVars,
                   intentSweep>>

-----------------------------------------------------------------------------
(* The sweep of upload intents.                                            *)

ReferredClip == IF clip.status \in {"READY", "DELETING"}
                THEN {Original, clip.key} ELSE {}

ClaimIntent(s) ==
    /\ intentSweep[s].at = "asleep"
    /\ Undecided /\ outputIntent.claim = None
    /\ outputIntent' = [outputIntent EXCEPT !.claim = s]
    /\ intentSweep' = [intentSweep EXCEPT ![s].at = "collecting"]
    /\ UNCHANGED <<deletionVars, film, clip, made, safe, makerVars>>

CollectForIntent(s) ==
    /\ intentSweep[s].at = "collecting"
    /\ intentSweep' = [intentSweep EXCEPT ![s] =
                          [at |-> "checking", seen |-> Generated \in ReferredClip]]
    /\ UNCHANGED <<deletionVars, rowVars, makerVars>>

HeadIntent(s) ==
    /\ intentSweep[s].at = "checking"
    /\ intentSweep' = [intentSweep EXCEPT ![s].at =
          IF intentSweep[s].seen THEN "COMMITTED"
          ELSE IF Generated \notin stored THEN "RESOLVED" ELSE "CLEANUP_QUEUED"]
    /\ UNCHANGED <<deletionVars, rowVars, makerVars>>

\* markReferenced, markMissing and queueCleanup, fenced by the claim.
SettleIntent(s) ==
    /\ intentSweep[s].at \in {"COMMITTED", "RESOLVED", "CLEANUP_QUEUED"}
    /\ \/ /\ outputIntent.claim = s
          /\ outputIntent' = [state |-> intentSweep[s].at, claim |-> None]
          /\ QueueDurableDeletions(IF intentSweep[s].at = "CLEANUP_QUEUED"
                                   THEN {Generated} ELSE {})
       \/ outputIntent.claim # s /\ UNCHANGED <<outputIntent, outbox>>
    /\ intentSweep' = [intentSweep EXCEPT ![s] = NotSwept]
    /\ UNCHANGED <<reaper, stored, lateDelete, film, clip, made, safe, makerVars>>

\* The sweep ends early, or its claim runs out under it.
IntentClaimLost(s) ==
    /\ outputIntent.claim = s
    /\ outputIntent' = [outputIntent EXCEPT !.claim = None]
    /\ intentSweep' \in {intentSweep, [intentSweep EXCEPT ![s] = NotSwept]}
    /\ UNCHANGED <<deletionVars, film, clip, made, safe, makerVars>>

-----------------------------------------------------------------------------
ClipReferences(t) ==
    CASE t = "assets"   -> ReferredClip
      [] t = "sessions" -> IF film.state = "VERIFYING" THEN {Original} ELSE {}
      [] t = "intents"  -> IF Undecided THEN {Generated} ELSE {}
      [] OTHER -> {}

CommitStep ==
    \/ \E p \in Maker :
          \/ ClaimVideoVerifying(p) \/ ReadFilm(p) \/ CommitVideoOriginalReady(p)
          \/ Convert(p) \/ CommitVideoPlaybackFailed(p) \/ PreparePlaybackIntent(p)
          \/ HeadPlayback(p) \/ UploadPlayback(p) \/ MarkPlaybackUploaded(p)
          \/ CommitVideoPlaybackReady(p) \/ RejectVideo(p) \/ LoseFilm(p)
    \/ NobodyMakes /\ FilmLapses
    \/ StrayUpload \/ CancelFilm \/ ClaimClipForDeletion \/ CompleteClipDeletion
    \/ PlaybackReplaced
    \/ \E s \in IntentSweep :
          ClaimIntent(s) \/ CollectForIntent(s) \/ HeadIntent(s) \/ SettleIntent(s)
    \/ DeletionStep(ClipReferences) /\ UNCHANGED commitVars

CommitFault ==
    \/ \E p \in Maker : MakeFails(p) \/ MakerStops(p)
    \/ ~NobodyMakes /\ FilmLapses
    \/ \E s \in IntentSweep : IntentClaimLost(s)

CommitNext ==
    \/ CommitStep /\ UNCHANGED commitFaults
    \/ commitFaults < MaxCommitFaults /\ CommitFault
       /\ commitFaults' = commitFaults + 1

CommitSpec ==
    /\ ReaperInit /\ stored = {Original} /\ CommitInit
    /\ [][CommitNext]_<<deletionVars, commitVars, commitFaults>>

-----------------------------------------------------------------------------
(* Properties.                                                             *)

\* Every variable has its type.
CommitTypeOK ==
    /\ DeletionTypeOK
    /\ film \in [state : {"VERIFYING", "READY", "REJECTED", "CANCELLED"},
                 claim : Maker \cup {None}, lapsed : BOOLEAN,
                 attempts : 0 .. MaxMakes, operator : BOOLEAN]
    /\ clip \in [status : {"NONE", "READY", "DELETING", "DELETED"},
                 playback : {"NONE", "VERIFYING", "READY", "FAILED"},
                 key : {None, Original, Generated, Elsewhere}]
    /\ made \in Nat /\ safe \in BOOLEAN /\ strayUpload \in BOOLEAN
    /\ outputIntent \in [state : {"NONE", "PREPARED", "UPLOADED", "COMMITTED",
                                  "CLEANUP_QUEUED", "RESOLVED"},
                         claim : IntentSweep \cup {None}]
    /\ maker \in [Maker -> [at : {"away", "reading", "keeping", "encoding",
                                  "spoiled", "preparing", "looking", "uploading",
                                  "marking", "finishing", "deciding"},
                            last : BOOLEAN, operator : BOOLEAN]]
    /\ intentSweep \in [IntentSweep -> [at : {"asleep", "collecting", "checking",
                                              "COMMITTED", "RESOLVED",
                                              "CLEANUP_QUEUED"},
                                        seen : BOOLEAN]]
    /\ commitFaults \in 0 .. MaxCommitFaults

\* An upload makes one video, and a whole one, however often the pass that
\* makes it dies, loses its lease or is stopped between its two transactions:
\* the asset is made once, never for a rejected session; a finished session
\* leaves a playback that is decided; and what the asset shows, or a later
\* pass or an operator still has to read, has its bytes.
OneWholeVideo ==
    /\ made <= 1
    /\ film.state = "REJECTED" => clip.status = "NONE"
    /\ film.state = "READY" => clip.playback \in {"READY", "FAILED"}
    /\ clip.status = "READY" \/ film.state = "VERIFYING" \/ film.operator
          => Original \in stored
    /\ clip.status = "READY" /\ clip.playback = "READY" /\ clip.key = Generated
          => Generated \in stored
=============================================================================
