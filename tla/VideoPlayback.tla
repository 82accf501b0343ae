---------------------------- MODULE VideoPlayback ----------------------------
(***************************************************************************)
(* Renditions of a READY video.  A playback job is claimed by a pass of    *)
(* the video worker, which records the row of every object it is about to  *)
(* write, uploads it and activates the new set: PLAYBACK switches to it,   *)
(* and the files of the old set stay for 24 hours.  A pass that loses its  *)
(* lease is superseded by one with another token and other keys; a sweep   *)
(* queues the objects of rows that expired or were superseded.  Meanwhile  *)
(* the video or its project may be deleted.                                *)
(*                                                                         *)
(* Abstractions:                                                           *)
(*  - One video.  The renditions of a pass but the native one are left     *)
(*    out: they are prepared, activated and retired by the same steps.     *)
(*  - A pass is its lease token, and its output key has the same name.  It *)
(*    activates the original itself when that is safe to play, which the   *)
(*    limits of the release decide.                                        *)
(*  - Reading and converting the source may fail at any time; its version  *)
(*    changes only by deletion.                                            *)
(*  - The sweep takes all rows at once, not a hundred.                     *)
(*  - The reaper does not fail here: no output key is ever written again,  *)
(*    so what its late requests delete is not missed.                      *)
(***************************************************************************)
EXTENDS ObjectDeletion

CONSTANTS Attempt,         \* passes over a job, each with its own token
          Job,             \* playback jobs of the video
          Original,        \* key of the uploaded video
          First,           \* key of the playback made from the upload
          RetryBudget,     \* passes a job gets before it fails (3)
          MaxVideoFaults   \* bound: how often something fails, ends or lapses

ASSUME VideoKeys ==
    /\ Original # First /\ {Original, First} \cap Attempt = {}
    /\ Attempt \cup {Original, First} \subseteq Key
    /\ {"assets", "renditions"} \subseteq Table
    /\ None \notin Attempt \cup Job
    /\ RetryBudget \in Nat \ {0} /\ MaxVideoFaults \in Nat

VARIABLES
    video,       \* status of the asset; GONE with its project
    playback,    \* its PLAYBACK representation
    jobs,        \* rows of video_playback_jobs
    rendition,   \* the native rendition row of each pass
    legacy,      \* the row a pass wrote for the playback it replaced
    attempt,     \* what each pass is doing
    strayPut,    \* outputs of abandoned PUT requests that may still arrive
    stray,       \* outputs that arrived after their row was swept (history)
    videoFaults  \* how much has gone wrong

filmVars  == <<video, playback, jobs, rendition, legacy, attempt, strayPut, stray>>
videoVars == <<deletionVars, filmVars, videoFaults>>

NoJob       == [state |-> "NONE", active |-> FALSE, token |-> None,
                live |-> FALSE, attempts |-> 0]
NoRendition == [state |-> "NONE", key |-> None, expiry |-> "NONE"]
Waiting     == [at |-> "waiting", job |-> None]

\* As the upload left it: a playback of its own, the original, or a failure.
FilmInit ==
    /\ video = "READY"
    /\ \/ playback \in [state : {"READY"}, key : {First, Original}]
       \/ playback = [state |-> "FAILED", key |-> First]
    /\ jobs = [j \in Job |-> NoJob]
    /\ rendition = [a \in Attempt |-> NoRendition]
    /\ legacy = [a \in Attempt |-> NoRendition]
    /\ attempt = [a \in Attempt |-> Waiting]
    /\ strayPut = {} /\ stray = {} /\ videoFaults = 0

FilmStored == {Original} \cup (IF playback.state = "READY" THEN {playback.key} ELSE {})

VideoInit == ReaperInit /\ FilmInit /\ stored = FilmStored

\* assertOwned, and the fence of every transaction of a pass.
OwnsJob(a) ==
    LET job == jobs[attempt[a].job]
    IN job.state = "RUNNING" /\ job.token = a /\ job.live

AttemptTo(a, l) == attempt' = [attempt EXCEPT ![a].at = l]
AtWork(a)       == attempt[a].at \notin {"waiting", "over"}
Listed(row)     == row.state \notin {"NONE", "DELETED"}

-----------------------------------------------------------------------------
\* enqueuePlayback: by the commit of an upload, an administrator's retry or
\* the backfill.  One job is under way at a time.
EnqueuePlayback(j) ==
    /\ video = "READY"
    /\ jobs[j] = NoJob
    /\ \A i \in Job : jobs[i].state \notin {"PENDING", "RUNNING"}
    /\ jobs' = [jobs EXCEPT ![j].state = "PENDING"]
    /\ UNCHANGED <<deletionVars, video, playback, rendition, legacy, attempt,
                   strayPut, stray>>

\* claim: a pending job, or one whose lease has run out.  The video is read
\* with it, and must be READY for the pass to go on.
ClaimJob(a, j) ==
    /\ attempt[a].at = "waiting"
    /\ \/ jobs[j].state = "PENDING"
       \/ jobs[j].state = "RUNNING" /\ ~jobs[j].live
    /\ jobs' = [jobs EXCEPT ![j] =
          [state |-> "RUNNING", active |-> jobs[j].active, token |-> a, live |-> TRUE,
           attempts |-> jobs[j].attempts + 1]]
    /\ attempt' = [attempt EXCEPT ![a] = [job |-> j,
          at |-> IF jobs[j].attempts < RetryBudget /\ video = "READY"
                 THEN "encoding" ELSE "failing"]]
    /\ UNCHANGED <<deletionVars, video, playback, rendition, legacy, strayPut, stray>>

\* The row of the output is written before its bytes.  The original needs no
\* upload.
PrepareRendition(a) ==
    /\ attempt[a].at = "encoding" /\ OwnsJob(a)
    /\ \E k \in {a, Original} :
          /\ NoDeletionClaim(k)
          /\ rendition' = [rendition EXCEPT ![a] =
                              [state |-> "PENDING", key |-> k, expiry |-> "NONE"]]
          /\ AttemptTo(a, IF k = a THEN "uploading" ELSE "uploaded")
    /\ UNCHANGED <<deletionVars, video, playback, jobs, legacy, strayPut, stray>>

\* The lease is checked before the request is sent, and may lapse while it
\* is under way.
UploadRendition(a) ==
    /\ attempt[a].at = "uploading"
    /\ stored' = stored \cup {a}
    /\ stray' = IF Listed(rendition[a]) THEN stray ELSE stray \cup {a}
    /\ AttemptTo(a, "uploaded")
    /\ UNCHANGED <<outbox, reaper, lateDelete, video, playback, jobs, rendition,
                   legacy, strayPut>>

\* The new set replaces the active one, whose rows expire; so does a READY
\* playback that is not the original.
Activated(a) ==
    LET j   == attempt[a].job
        old == {b \in Attempt : attempt[b].job # None /\ jobs[attempt[b].job].active}
        expiring(rows) == [b \in Attempt |->
            IF b \in old /\ rows[b].state # "NONE" /\ rows[b].expiry = "NONE"
            THEN [rows[b] EXCEPT !.expiry = "SET"] ELSE rows[b]]
    IN /\ rendition' = [expiring(rendition) EXCEPT ![a].state = "READY"]
       /\ legacy' = IF playback.state = "READY" /\ playback.key # Original
                    THEN [expiring(legacy) EXCEPT ![a] =
                             [state |-> "READY", key |-> playback.key, expiry |-> "SET"]]
                    ELSE expiring(legacy)
       /\ playback' = [state |-> "READY", key |-> rendition[a].key]
       /\ jobs' = [i \in Job |->
             IF i = j THEN [jobs[j] EXCEPT !.state = "READY", !.active = TRUE,
                                           !.token = None, !.live = FALSE]
             ELSE [jobs[i] EXCEPT !.active = FALSE]]

\* complete
CompletePlayback(a) ==
    /\ attempt[a].at = "uploaded" /\ OwnsJob(a)
    /\ video = "READY" /\ Original \in stored
    /\ rendition[a].state = "PENDING" /\ NoDeletionClaim(rendition[a].key)
    /\ Activated(a)
    /\ AttemptTo(a, "over")
    /\ UNCHANGED <<deletionVars, video, strayPut, stray>>

\* Whatever goes wrong fails the job, if the pass still owns it.  A request
\* that is given up on may reach storage later.
AttemptFails(a) ==
    /\ AtWork(a)
    /\ jobs' = IF OwnsJob(a)
               THEN [jobs EXCEPT ![attempt[a].job].state = "FAILED",
                                 ![attempt[a].job].token = None,
                                 ![attempt[a].job].live = FALSE]
               ELSE jobs
    /\ strayPut' \in {strayPut, IF attempt[a].at = "uploading"
                                THEN strayPut \cup {a} ELSE strayPut}
    /\ AttemptTo(a, "over")
    /\ UNCHANGED <<deletionVars, video, playback, rendition, legacy, stray>>

\* The process ends or the pass is aborted: the job keeps its lease.
AttemptStops(a) ==
    /\ AtWork(a)
    /\ strayPut' \in {strayPut, IF attempt[a].at = "uploading"
                                THEN strayPut \cup {a} ELSE strayPut}
    /\ AttemptTo(a, "over")
    /\ UNCHANGED <<deletionVars, video, playback, jobs, rendition, legacy, stray>>

StrayPut(a) ==
    /\ a \in strayPut
    /\ stored' = stored \cup {a} /\ strayPut' = strayPut \ {a}
    /\ stray' = IF Listed(rendition[a]) THEN stray ELSE stray \cup {a}
    /\ UNCHANGED <<outbox, reaper, lateDelete, video, playback, jobs, rendition,
                   legacy, attempt>>

JobLapses(j) ==
    /\ jobs[j].live
    /\ jobs' = [jobs EXCEPT ![j].live = FALSE]
    /\ UNCHANGED <<deletionVars, video, playback, rendition, legacy, attempt,
                   strayPut, stray>>

\* The 24 hours of a row are over.
RenditionExpires(a) ==
    /\ \/ /\ rendition[a].expiry = "SET" /\ UNCHANGED legacy
          /\ rendition' = [rendition EXCEPT ![a].expiry = "PAST"]
       \/ /\ legacy[a].expiry = "SET" /\ UNCHANGED rendition
          /\ legacy' = [legacy EXCEPT ![a].expiry = "PAST"]
    /\ UNCHANGED <<deletionVars, video, playback, jobs, attempt, strayPut, stray>>

-----------------------------------------------------------------------------
(* The sweep of the worker, and deletion.                                  *)

\* The outputs of passes that failed or were superseded.
Abandoned(a) ==
    /\ rendition[a].state = "PENDING"
    /\ LET job == jobs[attempt[a].job] IN
       \/ job.state \in {"FAILED", "READY"}
       \/ job.state = "RUNNING" /\ job.token # a

Retired(row) == Listed(row) /\ (row.expiry = "PAST" \/ video # "READY")

\* The original is left alone while its representation exists, which goes
\* with the project only.
Preserved(k) == k = Original /\ video # "GONE"

Swept(rows, done) ==
    [a \in Attempt |->
        IF a \in done THEN [rows[a] EXCEPT !.state = "DELETED"] ELSE rows[a]]

\* cleanup: rows whose day is over, whose video is deleted, or that were
\* abandoned.
CleanUp ==
    LET done    == {a \in Attempt : Retired(rendition[a]) \/ Abandoned(a)}
        doneOld == {a \in Attempt : Retired(legacy[a])}
        keys    == {rendition[a].key : a \in done} \cup {legacy[a].key : a \in doneOld}
    IN /\ done \cup doneOld # {}
       /\ rendition' = Swept(rendition, done) /\ legacy' = Swept(legacy, doneOld)
       /\ QueueDurableDeletions({k \in keys : ~Preserved(k)})
       /\ UNCHANGED <<reaper, stored, lateDelete, video, playback, jobs, attempt,
                      strayPut, stray>>

\* claimAssetForDeletion
ClaimVideoForDeletion ==
    /\ video = "READY" /\ video' = "DELETING"
    /\ UNCHANGED <<deletionVars, playback, jobs, rendition, legacy, attempt,
                   strayPut, stray>>

\* completeAssetDeletion, which is repeated until it succeeded.
CompleteVideoDeletion ==
    /\ video = "DELETING" /\ video' = "DELETED"
    /\ QueueDurableDeletions({Original, playback.key})
    /\ UNCHANGED <<reaper, stored, lateDelete, playback, jobs, rendition, legacy,
                   attempt, strayPut, stray>>

\* Planted bug: the rows of the jobs and their renditions go with the asset.
DeleteProjectCascading ==
    /\ video # "GONE" /\ video' = "GONE"
    /\ QueueDurableDeletions({Original, playback.key})
    /\ rendition' = [a \in Attempt |-> NoRendition]
    /\ legacy' = [a \in Attempt |-> NoRendition]
    /\ UNCHANGED <<reaper, stored, lateDelete, playback, jobs, attempt,
                   strayPut, stray>>

\* The rows of the asset go; the jobs stay, and so do their renditions.
DeleteProject ==
    /\ video # "GONE" /\ video' = "GONE"
    /\ QueueDurableDeletions({Original, playback.key})
    /\ UNCHANGED <<reaper, stored, lateDelete, playback, jobs, rendition, legacy,
                   attempt, strayPut, stray>>

-----------------------------------------------------------------------------
VideoReferences(t) ==
    CASE t = "assets" /\ video \in {"READY", "DELETING"} -> {Original, playback.key}
      [] t = "renditions" ->
            {rendition[a].key : a \in {b \in Attempt : Listed(rendition[b])}}
               \cup {legacy[a].key : a \in {b \in Attempt : Listed(legacy[b])}}
      [] OTHER -> {}

VideoStep ==
    \/ \E j \in Job : EnqueuePlayback(j) \/ \E a \in Attempt : ClaimJob(a, j)
    \/ \E a \in Attempt :
          \/ PrepareRendition(a) \/ UploadRendition(a)
          \/ CompletePlayback(a) \/ AttemptFails(a)
          \/ StrayPut(a) \/ RenditionExpires(a)
    \/ CleanUp \/ ClaimVideoForDeletion \/ CompleteVideoDeletion \/ DeleteProject
    \/ DeletionStep(VideoReferences) /\ UNCHANGED filmVars

VideoFault ==
    \/ \E a \in Attempt : AttemptStops(a)
    \/ \E j \in Job : JobLapses(j)

VideoNext ==
    \/ VideoStep /\ UNCHANGED videoFaults
    \/ videoFaults < MaxVideoFaults /\ VideoFault /\ videoFaults' = videoFaults + 1

VideoSpec == VideoInit /\ [][VideoNext]_videoVars

-----------------------------------------------------------------------------
(* Properties.                                                             *)

Row == [state : {"NONE", "PENDING", "READY", "DELETED"}, key : Key \cup {None},
        expiry : {"NONE", "SET", "PAST"}]

\* Every variable has its type.
VideoTypeOK ==
    /\ DeletionTypeOK
    /\ video \in {"READY", "DELETING", "DELETED", "GONE"}
    /\ playback \in [state : {"READY", "FAILED"}, key : Key]
    /\ jobs \in [Job -> [state : {"NONE", "PENDING", "RUNNING", "READY", "FAILED"},
                         active : BOOLEAN, token : Attempt \cup {None},
                         live : BOOLEAN, attempts : Nat]]
    /\ rendition \in [Attempt -> Row] /\ legacy \in [Attempt -> Row]
    /\ attempt \in [Attempt -> [at : {"waiting", "encoding", "uploading",
                                      "uploaded", "failing", "over"},
                                job : Job \cup {None}]]
    /\ strayPut \in SUBSET Attempt /\ stray \in SUBSET Attempt
    /\ videoFaults \in 0 .. MaxVideoFaults

\* The playback of a READY video has its bytes, and so has every file of a
\* replaced set while its 24 hours last.
Playable ==
    /\ video = "READY" => Original \in stored
    /\ video = "READY" /\ playback.state = "READY" => playback.key \in stored
    /\ video = "READY" => \A a \in Attempt :
          /\ rendition[a].state = "READY" /\ rendition[a].expiry # "PAST"
                => rendition[a].key \in stored
          /\ legacy[a].state = "READY" /\ legacy[a].expiry # "PAST"
                => legacy[a].key \in stored

Queued(k) == outbox[k].state \in {"PENDING", "DELETE_CLAIMED"}

\* The rows that still answer for the bytes under k.
Answering(k) ==
    \/ Queued(k) \/ k \in VideoReferences("assets") \cup VideoReferences("renditions")

\* Whatever sweeps, superseded passes and deletions of other rows do, what a
\* viewer may be given has its bytes, and every generated file has a durable
\* owner that will have it deleted, a row or a queued deletion, from the moment
\* its bytes land until they are gone, unless its row had been swept before
\* they landed (playback.repository.ts:73).
GeneratedKept ==
    /\ Playable
    /\ \A k \in (Attempt \cup {First}) \cap stored : k \in stray \/ Answering(k)

\* Deleting a video is enough to have its original deleted: it is gone, or
\* something that is still under way will delete it.
OriginalOwned == Original \in stored => Answering(Original)
==============================================================================
