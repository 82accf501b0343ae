------------------------- MODULE ProjectPublication -------------------------
(***************************************************************************)
(* How a project submission is published: finalizing it creates a job with *)
(* a fixed plan; a worker claims the job, copies every staged object to    *)
(* its public key, and one transaction repoints the project, publishes the *)
(* submission and completes the job.  The submission may be cancelled, and *)
(* the project deleted, at any moment of this, and finalized again.  Every *)
(* byte that is dropped leaves through ObjectDeletion.                     *)
(*                                                                         *)
(* Abstractions:                                                           *)
(*  - One project.  An output is an image representation or a WebGL build; *)
(*    a build is one object here.  The plan is the set of all outputs, so  *)
(*    two jobs of the project have the same targets, as in plan.ts.        *)
(*  - Uploads and asset deletions are refused while a submission is        *)
(*    FINALIZING, and are left out; so are change requests, whose staging  *)
(*    project is published the same way.                                   *)
(*  - Conditions on people, versions and the publication policy, and the   *)
(*    item fences of complete(), are failures that may happen at any time. *)
(*  - complete() and validatePlan() compare the lease with the clock of    *)
(*    the process: a lease that has lapsed may still look alive to them.   *)
(***************************************************************************)
EXTENDS ObjectDeletion

CONSTANTS Image,    \* staged image representations of the project
          Build,    \* staged WebGL builds of the project
          Worker,   \* passes of the project publication worker
          MaxJobs,  \* bound: how often the submission is finalized
          MaxFaults \* bound: how often something fails, ends or lapses

Output == Image \cup Build

ASSUME PublicationKeys ==
    /\ Image \cap Build = {} /\ None \notin Worker \cup Output
    /\ Key = {"staged", "public"} \X Output
    /\ Table = {"assets", "projects"}
    /\ MaxJobs \in Nat \ {0} /\ MaxFaults \in Nat

VARIABLES
    pointer,     \* where the project's rows say its outputs are
    submission,  \* the state of its submission
    job,         \* its publication job
    worker,      \* the pass each worker is in
    latePut,     \* keys of abandoned PUT requests that may still arrive
    faults       \* how much has gone wrong

publicationVars == <<pointer, submission, job, worker, latePut>>
vars == <<deletionVars, publicationVars, faults>>

Staged(outs) == {"staged"} \X outs
Public(outs) == {"public"} \X outs

NoJob == [id |-> 0, state |-> "NONE", claim |-> None, lapsed |-> FALSE]
Idle  == [at |-> "idle", job |-> 0, todo |-> {}, output |-> None,
          validated |-> FALSE, why |-> "none"]

Init ==
    /\ ReaperInit
    /\ stored = Staged(Output)
    /\ pointer = "staged" /\ submission = "PENDING" /\ job = NoJob
    /\ worker = [w \in Worker |-> Idle]
    /\ latePut = {}
    /\ faults = 0

\* The job row a worker claimed is still there.
JobRow(w) == job.state # "NONE" /\ job.id = worker[w].job

\* The row carries the worker's token, whatever the time.
TokenOf(w) == JobRow(w) /\ job.state = "PROCESSING" /\ job.claim = w

\* renew: the claim is the worker's and its lease is alive.
Owns(w) == TokenOf(w) /\ ~job.lapsed

WorkerTo(w, l) == worker' = [worker EXCEPT ![w].at = l]
EndPass(w)     == worker' = [worker EXCEPT ![w] = Idle]
Catch(w, why)  == worker' = [worker EXCEPT ![w].at = "caught", ![w].why = why]

\* publicationCleanupTargets: the copies, and what they were copied from.
CleanupTargets == Public(Output) \cup Staged(Output)

QueueOnly(keys) ==
    /\ QueueDurableDeletions(keys)
    /\ UNCHANGED <<reaper, stored, lateDelete>>

-----------------------------------------------------------------------------
(* The submission and the project.                                         *)

\* finalizeSubmission: a FAILED or CANCELLED job makes room for a new one.
Finalize ==
    /\ \/ submission = "PENDING"
       \/ submission = "FINALIZING" /\ job.state = "FAILED"
    /\ job.id < MaxJobs
    /\ job' = [NoJob EXCEPT !.id = job.id + 1, !.state = "PENDING"]
    /\ submission' = "FINALIZING"
    /\ UNCHANGED <<deletionVars, pointer, worker, latePut>>

\* cancelSubmission queues nothing of what was copied.
Cancel ==
    /\ submission \in {"PENDING", "FINALIZING"}
    /\ submission' = "PENDING"
    /\ job' = IF job.state = "NONE" THEN job
              ELSE [job EXCEPT !.state = "CANCELLED", !.claim = None,
                               !.lapsed = FALSE]
    /\ UNCHANGED <<deletionVars, pointer, worker, latePut>>

\* Image rows name their staged and their public key until they are
\* published, build rows their public prefix or manifest.
DeletionTargets ==
    Public(Output) \cup IF pointer = "staged" THEN Staged(Image) ELSE {}

\* deleteProjectReturningAssets: the job goes with the project.
DeleteProject ==
    /\ pointer # "gone"
    /\ QueueOnly(DeletionTargets)
    /\ pointer' = "gone" /\ submission' = "GONE"
    /\ job' = [NoJob EXCEPT !.id = job.id]
    /\ UNCHANGED <<worker, latePut>>

-----------------------------------------------------------------------------
(* The worker.                                                             *)

\* Planted bug: a lease that is still alive does not keep others away.
ClaimHeldJob(w) ==
    /\ worker[w].at = "idle"
    /\ job.state \in {"PENDING", "PROCESSING"} /\ submission = "FINALIZING"
    /\ job' = [job EXCEPT !.state = "PROCESSING", !.claim = w, !.lapsed = FALSE]
    /\ worker' = [worker EXCEPT ![w].at = "claimed", ![w].job = job.id]
    /\ UNCHANGED <<deletionVars, pointer, submission, latePut>>

ClaimJob(w) ==
    /\ worker[w].at = "idle"
    /\ job.state \in {"PENDING", "PROCESSING"}
    /\ job.claim = None \/ job.lapsed
    /\ submission = "FINALIZING"
    /\ job' = [job EXCEPT !.state = "PROCESSING", !.claim = w, !.lapsed = FALSE]
    /\ worker' = [worker EXCEPT ![w].at = "claimed", ![w].job = job.id]
    /\ UNCHANGED <<deletionVars, pointer, submission, latePut>>

\* validatePlan finds the plan it recomputes.
PlanValid(w) ==
    /\ worker[w].at = "claimed" /\ TokenOf(w)
    /\ worker' = [worker EXCEPT ![w].at = "copying", ![w].todo = Output,
                                ![w].validated = TRUE]
    /\ UNCHANGED <<deletionVars, pointer, submission, job, latePut>>

\* The snapshot changed in a way nothing modelled here allows: the job
\* fails, and the targets of a plan that can still be computed are queued.
PlanInvalid(w) ==
    /\ worker[w].at = "claimed" /\ TokenOf(w)
    /\ \E rebuilt \in BOOLEAN :
          QueueOnly(IF rebuilt THEN Public(Output) ELSE {})
    /\ job' = [job EXCEPT !.state = "FAILED", !.claim = None, !.lapsed = FALSE]
    /\ EndPass(w)
    /\ UNCHANGED <<pointer, submission, latePut>>

PlanCancelled(w) ==
    /\ worker[w].at = "claimed" /\ JobRow(w) /\ job.state = "CANCELLED"
    /\ EndPass(w)
    /\ UNCHANGED <<deletionVars, pointer, submission, job, latePut>>

\* copyProjectPublicationObjects, one output at a time: a target that is
\* there already is not copied again.
HeadTarget(w, o) ==
    /\ worker[w].at = "copying" /\ o \in worker[w].todo /\ Owns(w)
    /\ worker' =
          IF Public({o}) \subseteq stored
          THEN [worker EXCEPT ![w].todo = @ \ {o}]
          ELSE [worker EXCEPT ![w].at = "reading", ![w].output = o]
    /\ UNCHANGED <<deletionVars, pointer, submission, job, latePut>>

HeadSource(w) ==
    /\ worker[w].at = "reading"
    /\ IF Staged({worker[w].output}) \subseteq stored
       THEN WorkerTo(w, "putting") ELSE Catch(w, "invariant")
    /\ UNCHANGED <<deletionVars, pointer, submission, job, latePut>>

PutTarget(w) ==
    /\ worker[w].at = "putting"
    /\ stored' = stored \cup Public({worker[w].output})
    /\ WorkerTo(w, "verifying")
    /\ UNCHANGED <<outbox, reaper, lateDelete, pointer, submission, job, latePut>>

VerifyTarget(w) ==
    /\ worker[w].at = "verifying" /\ Owns(w)
    /\ IF Public({worker[w].output}) \subseteq stored
       THEN worker' = [worker EXCEPT ![w].at = "copying", ![w].output = None,
                                     ![w].todo = @ \ {worker[w].output}]
       ELSE Catch(w, "invariant")
    /\ UNCHANGED <<deletionVars, pointer, submission, job, latePut>>

AllCopied(w) ==
    /\ worker[w].at = "copying" /\ worker[w].todo = {} /\ Owns(w)
    /\ WorkerTo(w, "completing")
    /\ UNCHANGED <<deletionVars, pointer, submission, job, latePut>>

\* complete repoints the project to the targets; it does not look whether
\* their deletion has been claimed.  Its answer may not reach the worker.
Complete(w) ==
    /\ worker[w].at = "completing" /\ TokenOf(w)
    /\ submission = "FINALIZING" /\ pointer = "staged"
    /\ QueueOnly(CleanupTargets \ Public(Output))
    /\ pointer' = "public" /\ submission' = "PUBLISHED"
    /\ job' = [job EXCEPT !.state = "COMPLETED", !.claim = None, !.lapsed = FALSE]
    /\ EndPass(w) \/ Catch(w, "error")
    /\ UNCHANGED latePut

\* Another pass completed the job, or it was cancelled meanwhile.
CompleteTooLate(w) ==
    /\ worker[w].at = "completing" /\ JobRow(w)
    /\ \/ job.state = "COMPLETED" /\ UNCHANGED deletionVars
       \/ job.state = "CANCELLED" /\ QueueOnly(CleanupTargets)
    /\ EndPass(w)
    /\ UNCHANGED <<pointer, submission, job, latePut>>

\* A PUT given up on may still reach storage.
AbandonPut(w) ==
    IF worker[w].at = "putting"
    THEN latePut' \in {latePut, latePut \cup Public({worker[w].output})}
    ELSE UNCHANGED latePut

Copying(w) == worker[w].at \in {"copying", "reading", "putting", "verifying"}

\* Storage or the database fails.
PassFails(w) ==
    /\ Copying(w) \/ worker[w].at \in {"claimed", "completing"}
    /\ AbandonPut(w) /\ Catch(w, "error")
    /\ UNCHANGED <<deletionVars, pointer, submission, job>>

\* A transaction finds the job row gone, or no longer the worker's.  The
\* heartbeat may have found out too.
FenceLost(w) ==
    /\ worker[w].at \in {"claimed", "completing"} /\ ~Owns(w)
    /\ JobRow(w) => job.state \notin {"CANCELLED", "COMPLETED"}
    /\ \E why \in {"error", "lost"} : Catch(w, why)
    /\ UNCHANGED <<deletionVars, pointer, submission, job, latePut>>

\* A renewal finds the claim gone and stops the copying.
LoseClaim(w) ==
    /\ Copying(w) /\ ~Owns(w)
    /\ AbandonPut(w) /\ Catch(w, "lost")
    /\ UNCHANGED <<deletionVars, pointer, submission, job>>

\* A renewal that fails is taken for a lost claim.
RenewalFails(w) ==
    /\ Copying(w) /\ Owns(w)
    /\ AbandonPut(w) /\ Catch(w, "lost")
    /\ UNCHANGED <<deletionVars, pointer, submission, job>>

\* Planted bug: a pass that failed cleans up after a job that goes on.
CleanUpAnyJob(w) ==
    /\ worker[w].at = "caught"
    /\ IF worker[w].validated THEN QueueOnly(CleanupTargets)
       ELSE UNCHANGED deletionVars
    /\ WorkerTo(w, "settling")
    /\ UNCHANGED <<pointer, submission, job, latePut>>

\* queueCancelledCleanup: only a job that was cancelled, or that went with
\* its project or its predecessor's place, has its targets queued.
QueueCancelledCleanup(w) ==
    /\ worker[w].at = "caught"
    /\ \/ /\ IF JobRow(w) THEN job.state = "CANCELLED" ELSE worker[w].validated
          /\ QueueOnly(CleanupTargets)
       \/ /\ IF JobRow(w) THEN job.state # "CANCELLED" ELSE ~worker[w].validated
          /\ UNCHANGED deletionVars
    /\ WorkerTo(w, "settling")
    /\ UNCHANGED <<pointer, submission, job, latePut>>

\* The clean-up transaction fails and is only logged.
CleanupFails(w) ==
    /\ worker[w].at = "caught"
    /\ WorkerTo(w, "settling")
    /\ UNCHANGED <<deletionVars, pointer, submission, job, latePut>>

\* Planted bug: the job is found by its id alone.
SettleAnyState(w) ==
    /\ worker[w].at = "settling"
    /\ job' = IF worker[w].why = "lost" \/ ~JobRow(w) THEN job
              ELSE [job EXCEPT !.claim = None, !.lapsed = FALSE,
                      !.state = IF worker[w].why = "invariant" THEN "FAILED"
                                ELSE "PENDING"]
    /\ EndPass(w)
    /\ UNCHANGED <<deletionVars, pointer, submission, latePut>>

\* release and fail compare the token only; a pass that lost its claim
\* leaves the job alone.
Settle(w) ==
    /\ worker[w].at = "settling"
    /\ job' = IF worker[w].why = "lost" \/ ~TokenOf(w) THEN job
              ELSE [job EXCEPT !.claim = None, !.lapsed = FALSE,
                      !.state = IF worker[w].why = "invariant" THEN "FAILED"
                                ELSE "PENDING"]
    /\ EndPass(w)
    /\ UNCHANGED <<deletionVars, pointer, submission, latePut>>

WorkerStops(w) ==
    /\ worker[w].at # "idle"
    /\ AbandonPut(w) /\ EndPass(w)
    /\ UNCHANGED <<deletionVars, pointer, submission, job>>

LeaseLapses ==
    /\ job.claim # None /\ ~job.lapsed
    /\ job' = [job EXCEPT !.lapsed = TRUE]
    /\ UNCHANGED <<deletionVars, pointer, submission, worker, latePut>>

LatePut(k) ==
    /\ k \in latePut
    /\ stored' = stored \cup {k}
    /\ latePut' = latePut \ {k}
    /\ UNCHANGED <<outbox, reaper, lateDelete, pointer, submission, job, worker>>

-----------------------------------------------------------------------------
\* What the reaper finds referred to.  A staged build is in no table it
\* reads: only the current deployment of a project is, and a project has
\* none before it is published.
ReferredBy(t) ==
    CASE t = "assets" /\ pointer = "staged"   -> Staged(Image)
      [] t = "assets" /\ pointer = "public"   -> Public(Image)
      [] t = "projects" /\ pointer = "public" -> Public(Build)
      [] OTHER -> {}

Step ==
    \/ Finalize \/ Cancel \/ DeleteProject
    \/ \E w \in Worker :
          \/ ClaimJob(w) \/ PlanValid(w) \/ PlanCancelled(w)
          \/ \E o \in Output : HeadTarget(w, o)
          \/ HeadSource(w) \/ PutTarget(w) \/ VerifyTarget(w) \/ AllCopied(w)
          \/ Complete(w) \/ CompleteTooLate(w) \/ FenceLost(w) \/ LoseClaim(w)
          \/ QueueCancelledCleanup(w) \/ Settle(w)
    \/ \E k \in Key : LatePut(k)
    \/ DeletionStep(ReferredBy) /\ UNCHANGED publicationVars

Fault ==
    \/ LeaseLapses
    \/ \E w \in Worker : PlanInvalid(w) \/ PassFails(w) \/ RenewalFails(w)
                         \/ CleanupFails(w) \/ WorkerStops(w)
    \/ DeletionFault /\ UNCHANGED publicationVars

Next ==
    \/ Step /\ UNCHANGED faults
    \/ faults < MaxFaults /\ Fault /\ faults' = faults + 1

Spec == Init /\ [][Next]_vars

-----------------------------------------------------------------------------
(* Properties.                                                             *)

\* Every variable has its type, and the bound on jobs is respected.
PublicationTypeOK ==
    /\ DeletionTypeOK
    /\ pointer \in {"staged", "public", "gone"}
    /\ submission \in {"PENDING", "FINALIZING", "PUBLISHED", "GONE"}
    /\ job \in [id : 0 .. MaxJobs,
                state : {"NONE", "PENDING", "PROCESSING", "COMPLETED",
                         "FAILED", "CANCELLED"},
                claim : Worker \cup {None}, lapsed : BOOLEAN]
    /\ worker \in [Worker -> [at : {"idle", "claimed", "copying", "reading",
                                    "putting", "verifying", "completing",
                                    "caught", "settling"},
                              job : 0 .. MaxJobs, todo : SUBSET Output,
                              output : Output \cup {None}, validated : BOOLEAN,
                              why : {"none", "error", "lost", "invariant"}]]
    /\ latePut \in SUBSET Public(Output)
    /\ faults \in 0 .. MaxFaults

\* The rows that complete(), cancelSubmission() and finalizeSubmission()
\* change together agree: published is published in all of them, and only a
\* submission being finalized has a job that may still run.
AggregateAgrees ==
    /\ pointer = "public" <=> submission = "PUBLISHED"
    /\ submission = "PUBLISHED" <=> job.state = "COMPLETED"
    /\ submission = "FINALIZING" => job.state \in {"PENDING", "PROCESSING", "FAILED"}
    /\ submission = "PENDING" => job.state \in {"NONE", "CANCELLED"}
    /\ job.claim # None => job.state = "PROCESSING"

\* The images of a project that is not published keep their bytes, although
\* the clean-up of a cancelled job queues them: the reaper sees that the
\* representations still refer to them.
StagedImagesKept == pointer = "staged" => Staged(Image) \subseteq stored

\* A project published by its first job has all its bytes, whichever passes
\* lost their lease, and whatever requests arrived late.
FirstPublicationKept ==
    pointer = "public" /\ job.id = 1 => Public(Output) \subseteq stored

\* A job that is being processed is failed, completed or handed back only by
\* the pass that holds its claim, one that runs for that very job; anyone
\* else can only cancel it, delete it, or take over a lease that has run out.
OnlyClaimantDecides ==
    [][job.state = "PROCESSING" /\ job' # job =>
        \/ job'.state \in {"CANCELLED", "NONE"}
        \/ job' = [job EXCEPT !.lapsed = TRUE]
        \/ job.lapsed /\ job' \in [id : {job.id}, state : {"PROCESSING"},
                                   claim : Worker, lapsed : {FALSE}]
        \/ /\ worker[job.claim].at \in {"claimed", "completing", "settling"}
           /\ worker[job.claim].job = job.id
           /\ worker'[job.claim].at \in {"idle", "caught"}]_vars

\* A published project has all its bytes.  ObjectDeletion is written so that
\* no pointer is committed to a key whose deletion is under way.
PublishedBytesKept == pointer = "public" => Public(Output) \subseteq stored

\* A private project keeps the builds it was given, however often its
\* publication is stopped.
StagedBuildsKept == pointer = "staged" => Staged(Build) \subseteq stored
=============================================================================
