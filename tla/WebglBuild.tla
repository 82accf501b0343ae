----------------------------- MODULE WebglBuild -----------------------------
(***************************************************************************)
(* The WebGL worker.  A pass claims a verifying upload session, reserves a *)
(* deployment with a prefix of its own, uploads the pieces of the archive  *)
(* there, and commits: the session, its source and the deployment become   *)
(* READY and the project's pointer moves to the deployment, unless it is   *)
(* not where it was at the reservation.  Meanwhile the build is cleared, a *)
(* change request replaces it, leases lapse and passes take over.          *)
(*                                                                         *)
(* Abstractions:                                                           *)
(*  - One project that is not being submitted: staged builds are those of  *)
(*    ProjectPublication.  A session, its source and its deployment have   *)
(*    one name; a takeover finds the deployment its predecessor reserved.  *)
(*  - Each transaction is one step.  Reservation, commit and clearing are  *)
(*    SERIALIZABLE.  The rejections read their lease and write by id, but  *)
(*    a transaction lives 5 s at most and the lease was renewed for 30 s   *)
(*    just before.                                                         *)
(*  - validation_lease_until may pass at any time; a process that stalls   *)
(*    goes on uploading, and rewrites the same bytes.                      *)
(*  - Deleting a prefix is one step (PrefixDeletion has the pages).        *)
(***************************************************************************)
EXTENDS Naturals

CONSTANTS Build,      \* upload sessions, and the deployments they reserve
          Change,     \* the build of a change request
          Piece,      \* objects of an archive
          Checker,    \* passes of the worker, by their claim token
          NoBuild,    \* no deployment, no session
          NoChecker,  \* no lease
          MaxTries    \* MAX_WORKER_VALIDATION_ATTEMPTS

ASSUME WebglNames == /\ Change \notin Build /\ NoBuild \notin Build \cup {Change}
                     /\ NoChecker \notin Checker /\ MaxTries \in Nat \ {0}

VARIABLES
    upload,      \* the session of each build, and the state of its source
    deployment,  \* the row of each build
    current,     \* the project's current_webgl_deployment_id
    change,      \* the change request, and whether it is still up to date
    pieces,      \* which pieces of which build are in storage
    prefixes,    \* builds whose prefix has a deletion row
    checker      \* what each pass is doing

webglVars == <<upload, deployment, current, change, pieces, prefixes, checker>>

NoUpload == [state |-> "NONE", lease |-> NoChecker, tries |-> 0, source |-> "NONE"]
NoDeployment == [state |-> "NONE", expected |-> NoBuild]
NoCheck == [at |-> "idle", build |-> NoBuild, terminal |-> FALSE]

WebglInit ==
    /\ upload = [b \in Build \cup {Change} |->
                    IF b = Change THEN [NoUpload EXCEPT !.state = "READY", !.source = "READY"]
                    ELSE NoUpload]
    /\ deployment = [b \in Build \cup {Change} |->
                    IF b = Change THEN [NoDeployment EXCEPT !.state = "READY"]
                    ELSE NoDeployment]
    /\ current = NoBuild /\ change = "pending"
    /\ pieces = {Change} \X Piece /\ prefixes = {}
    /\ checker = [c \in Checker |-> NoCheck]

\* The version of the project moves on, and a change request becomes stale.
BumpVersion == change' = IF change = "pending" THEN "stale" ELSE change

OwnsUpload(c) ==
    LET b == checker[c].build IN upload[b].state = "VERIFYING" /\ upload[b].lease = c

CheckerTo(c, l) == checker' = [checker EXCEPT ![c].at = l]
CheckEnds(c) == checker' = [checker EXCEPT ![c] = NoCheck]

-----------------------------------------------------------------------------
\* An upload is complete.  A project has one active WEBGL session.
CompleteUpload(b) ==
    /\ upload[b].state = "NONE"
    /\ \A s \in Build : upload[s].state # "VERIFYING"
    /\ upload' = [upload EXCEPT ![b].state = "VERIFYING", ![b].source = "VERIFYING"]
    /\ UNCHANGED <<deployment, current, change, pieces, prefixes, checker>>

ClaimUpload(c, b) ==
    /\ checker[c].at = "idle"
    /\ upload[b].state = "VERIFYING" /\ upload[b].lease = NoChecker
    /\ upload' = [upload EXCEPT ![b].lease = c,
                     ![b].tries = IF @ < MaxTries THEN @ + 1 ELSE @]
    /\ checker' = [checker EXCEPT ![c] = [NoCheck EXCEPT !.at = "checking", !.build = b]]
    /\ UNCHANGED <<deployment, current, change, pieces, prefixes>>

\* The archive is valid: reserve the deployment, or find it reserved.
ReserveDeployment(c) ==
    /\ checker[c].at = "checking" /\ OwnsUpload(c)
    /\ LET b == checker[c].build IN
       deployment' = IF deployment[b].state = "NONE"
                     THEN [deployment EXCEPT ![b] = [state |-> "PROCESSING",
                                                     expected |-> current]]
                     ELSE deployment
    /\ CheckerTo(c, "uploading")
    /\ UNCHANGED <<upload, current, change, pieces, prefixes>>

\* No lease is looked at between two objects of an upload.
UploadPiece(c, x) ==
    /\ checker[c].at = "uploading"
    /\ pieces' = pieces \cup {<<checker[c].build, x>>}
    /\ UNCHANGED <<upload, deployment, current, change, prefixes, checker>>

\* Every uploaded object answered a HEAD, and the claim was renewed.
BuildManifest(c) ==
    /\ checker[c].at = "uploading"
    /\ {checker[c].build} \X Piece \subseteq pieces
    /\ OwnsUpload(c)
    /\ CheckerTo(c, "committing")
    /\ UNCHANGED <<upload, deployment, current, change, pieces, prefixes>>

\* The writes of commitReady.
Promote(c, b) ==
    /\ upload' = [upload EXCEPT ![b].state = "READY", ![b].lease = NoChecker,
                                ![b].source = "READY"]
    /\ deployment' = [deployment EXCEPT ![b].state = "READY"]
    /\ current' = b
    /\ BumpVersion /\ CheckEnds(c)
    /\ UNCHANGED <<pieces, prefixes>>

\* Planted bug: commitReady does not look at the session again.
CommitUnfenced(c) ==
    /\ checker[c].at = "committing"
    /\ current = deployment[checker[c].build].expected
    /\ Promote(c, checker[c].build)

CommitBuild(c) ==
    /\ checker[c].at = "committing" /\ OwnsUpload(c)
    /\ current = deployment[checker[c].build].expected
    /\ Promote(c, checker[c].build)

CommitFenced(c) ==
    /\ checker[c].at = "committing" /\ OwnsUpload(c)
    /\ current # deployment[checker[c].build].expected
    /\ CheckerTo(c, "fenced")
    /\ UNCHANGED <<upload, deployment, current, change, pieces, prefixes>>

\* The session, its source and its reservation fail, and the prefix of the
\* reservation is queued.
RejectBuild(c) ==
    LET b == checker[c].build IN
    /\ upload' = [upload EXCEPT ![b].state = "REJECTED", ![b].lease = NoChecker,
                                ![b].source = "FAILED"]
    /\ IF deployment[b].state \in {"PROCESSING", "FAILED"}
       THEN /\ deployment' = [deployment EXCEPT ![b].state = "FAILED"]
            /\ prefixes' = prefixes \cup {b}
       ELSE UNCHANGED <<deployment, prefixes>>
    /\ CheckEnds(c)
    /\ UNCHANGED <<current, change, pieces>>

RejectFencedAndQueueCleanup(c) ==
    checker[c].at = "fenced" /\ OwnsUpload(c) /\ RejectBuild(c)

\* Planted bug: the rejection trusts what the pass knew of its lease.
RejectUnfenced(c) ==
    checker[c].at = "failed" /\ checker[c].terminal /\ RejectBuild(c)

\* A bad archive, or an error of the last attempt.
RejectInvalidSource(c) ==
    checker[c].at = "failed" /\ checker[c].terminal /\ OwnsUpload(c) /\ RejectBuild(c)

-----------------------------------------------------------------------------
(* Errors, ends and lapses.                                                *)

CheckFails(c) ==
    /\ checker[c].at \in {"checking", "uploading", "committing"}
    /\ \E bad \in BOOLEAN :
          /\ bad => checker[c].at = "checking" \/ upload[checker[c].build].tries >= MaxTries
          /\ checker' = [checker EXCEPT ![c].at = "failed", ![c].terminal = bad]
    /\ UNCHANGED <<upload, deployment, current, change, pieces, prefixes>>

\* A pass that dies, loses its claim or is to be tried again leaves the
\* lease to lapse.
CheckStops(c) ==
    /\ checker[c].at # "idle" /\ CheckEnds(c)
    /\ UNCHANGED <<upload, deployment, current, change, pieces, prefixes>>

UploadLapses(b) ==
    /\ upload[b].lease # NoChecker
    /\ upload' = [upload EXCEPT ![b].lease = NoChecker]
    /\ UNCHANGED <<deployment, current, change, pieces, prefixes, checker>>

-----------------------------------------------------------------------------
(* What happens to the project meanwhile.                                  *)

\* The rows of the builds in gone, and their sources, are deleted.
RemoveBuilds(gone) ==
    /\ prefixes' = prefixes \cup {b \in gone : deployment[b].state # "NONE"}
    /\ deployment' = [b \in DOMAIN deployment |->
                         IF b \in gone THEN NoDeployment ELSE deployment[b]]

\* Every deployment of the project goes, and an active session is cancelled.
ClearWebglDeployment ==
    LET own == Build \cup (IF change = "applied" THEN {Change} ELSE {}) IN
    /\ RemoveBuilds(own)
    /\ upload' = [b \in DOMAIN upload |->
          IF upload[b].state = "VERIFYING"
          THEN [upload[b] EXCEPT !.state = "CANCELLED", !.lease = NoChecker]
          ELSE IF b \in own /\ deployment[b].state # "NONE"
               THEN [upload[b] EXCEPT !.source = "GONE"] ELSE upload[b]]
    /\ current' = NoBuild /\ BumpVersion
    /\ UNCHANGED <<pieces, checker>>

\* applyProjectChange: the READY builds of the project give way to the one
\* of the change; a session under way is not looked at.
ApplyProjectChange ==
    LET old == {b \in Build : upload[b].source = "READY"} IN
    /\ change = "pending" /\ change' = "applied"
    /\ RemoveBuilds(old)
    /\ upload' = [b \in DOMAIN upload |->
                     IF b \in old THEN [upload[b] EXCEPT !.source = "GONE"] ELSE upload[b]]
    /\ current' = Change
    /\ UNCHANGED <<pieces, checker>>

\* The reaper leaves the current build alone, and all if it is malformed.
ReapPrefix(b) ==
    /\ b \in prefixes
    /\ current # NoBuild => deployment[current].state = "READY" /\ upload[current].source = "READY"
    /\ prefixes' = prefixes \ {b}
    /\ pieces' = IF current = b THEN pieces ELSE pieces \ ({b} \X Piece)
    /\ UNCHANGED <<upload, deployment, current, change, checker>>

-----------------------------------------------------------------------------
WebglNext ==
    \/ \E c \in Checker :
          \/ \E b \in Build : ClaimUpload(c, b)
          \/ ReserveDeployment(c) \/ BuildManifest(c)
          \/ \E x \in Piece : UploadPiece(c, x)
          \/ CommitBuild(c) \/ CommitFenced(c)
          \/ RejectFencedAndQueueCleanup(c) \/ RejectInvalidSource(c)
          \/ CheckFails(c) \/ CheckStops(c)
    \/ \E b \in Build : CompleteUpload(b) \/ UploadLapses(b)
    \/ \E b \in Build \cup {Change} : ReapPrefix(b)
    \/ ClearWebglDeployment \/ ApplyProjectChange

WebglSpec == WebglInit /\ [][WebglNext]_webglVars

-----------------------------------------------------------------------------
(* Properties.                                                             *)

UploadState ==
    [state : {"NONE", "VERIFYING", "READY", "REJECTED", "CANCELLED"},
     lease : Checker \cup {NoChecker}, tries : 0 .. MaxTries,
     source : {"NONE", "VERIFYING", "READY", "FAILED", "GONE"}]

DeploymentState ==
    [state : {"NONE", "PROCESSING", "READY", "FAILED"},
     expected : Build \cup {Change, NoBuild}]

CheckState ==
    [at : {"idle", "checking", "uploading", "committing", "fenced", "failed"},
     build : Build \cup {NoBuild}, terminal : BOOLEAN]

\* Every variable has its type.
WebglTypeOK ==
    /\ upload \in [Build \cup {Change} -> UploadState]
    /\ deployment \in [Build \cup {Change} -> DeploymentState]
    /\ current \in Build \cup {Change, NoBuild}
    /\ change \in {"pending", "stale", "applied"}
    /\ pieces \subseteq (Build \cup {Change}) \X Piece
    /\ prefixes \subseteq Build \cup {Change}
    /\ checker \in [Checker -> CheckState]

\* The build a project points to can be played and stays so: its rows are
\* READY, every object of its manifest is in storage, and its prefix is not
\* up for deletion, whichever pass uploaded it and whatever became of the
\* others.
CurrentServed ==
    current # NoBuild =>
        /\ deployment[current].state = "READY" /\ upload[current].source = "READY"
        /\ {current} \X Piece \subseteq pieces
        /\ current \notin prefixes

\* A rejected or cancelled session leaves nothing behind that could be
\* played: its reservation failed or is gone, and only READY sessions have
\* READY deployments.
RejectedNeverServed ==
    \A b \in Build : deployment[b].state = "READY" => upload[b].state = "READY"
=============================================================================
