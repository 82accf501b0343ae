---------------------------- MODULE ImageOutputs ----------------------------
(***************************************************************************)
(* How an uploaded image becomes a READY asset.  The image worker claims   *)
(* the VERIFYING session, records an upload intent for each representation *)
(* it is going to write, puts the bytes, and commits: the asset refers to  *)
(* the outputs, the intents are committed and the source is queued for     *)
(* deletion.  A sweep resolves the intents of passes that never committed. *)
(*                                                                         *)
(* Abstractions:                                                           *)
(*  - One session of an IMAGE.  Whether its outputs are public or staged   *)
(*    is only a matter of keys; posters and voting posters, which move a   *)
(*    pointer as well, are left out.                                       *)
(*  - The outputs of every pass have the same keys and the same bytes.     *)
(*  - Reading and converting the source is one step, which may find the    *)
(*    image unacceptable.                                                  *)
(*  - not_before and the back-off of the sweep: an intent may fall due at  *)
(*    any time after it was planned, and planning again puts it off.       *)
(***************************************************************************)
EXTENDS ObjectDeletion

CONSTANTS Output,       \* keys of the representations of the image
          Source,       \* key of the uploaded source
          Worker,       \* passes of the image worker
          Sweeper,      \* passes of the upload-intent sweep
          MaxAttempts,  \* MAX_WORKER_VALIDATION_ATTEMPTS
          MaxFaults     \* bound: how often something fails, ends or lapses

ASSUME ImageKeys ==
    /\ Source \notin Output /\ Output \cup {Source} \subseteq Key
    /\ None \notin Worker \cup Sweeper
    /\ {"assets", "sessions", "intents"} \subseteq Table
    /\ MaxAttempts \in Nat \ {0} /\ MaxFaults \in Nat

VARIABLES
    session,  \* the upload session of the source
    asset,    \* the asset row it results in
    intent,   \* upload_intents: the row of each output
    worker,   \* the pass each worker is in
    sweeper,  \* what each sweep is doing
    latePut,  \* outputs of abandoned PUT requests that may still arrive
    faults    \* how much has gone wrong

imageVars == <<session, asset, intent, worker, sweeper, latePut>>
vars == <<deletionVars, imageVars, faults>>

NoIntent == [state |-> "NONE", due |-> FALSE, claim |-> None]
Idle     == [at |-> "idle", todo |-> {}, output |-> None, last |-> FALSE,
             operator |-> FALSE]
Asleep   == [at |-> "asleep", output |-> None, seen |-> FALSE]

ImageInit ==
    /\ session = [state |-> "VERIFYING", claim |-> None, lapsed |-> FALSE,
                  attempts |-> 0, operator |-> FALSE]
    /\ asset = "NONE"
    /\ intent = [o \in Output |-> NoIntent]
    /\ worker = [w \in Worker |-> Idle]
    /\ sweeper = [s \in Sweeper |-> Asleep]
    /\ latePut = {} /\ faults = 0

Init == ReaperInit /\ stored = {Source} /\ ImageInit

\* renewLease, and the fence of every transaction of the worker.
Owns(w) == session.state = "VERIFYING" /\ session.claim = w /\ ~session.lapsed

Uncommitted(o) == intent[o].state \in {"PREPARED", "UPLOADED"}

WorkerTo(w, l) == worker' = [worker EXCEPT ![w].at = l]
EndPass(w)     == worker' = [worker EXCEPT ![w] = Idle]

\* The lease of a pass that fails runs out; the last attempt rejects.
FailPass(w) ==
    IF worker[w].last
    THEN worker' = [worker EXCEPT ![w].at = "rejecting", ![w].operator = TRUE]
    ELSE EndPass(w)

EndSession(state) ==
    session' = [session EXCEPT !.state = state, !.claim = None, !.lapsed = FALSE]

-----------------------------------------------------------------------------
(* The image worker.                                                       *)

ClaimVerifying(w) ==
    /\ worker[w].at = "idle"
    /\ session.state = "VERIFYING" /\ (session.claim = None \/ session.lapsed)
    /\ session' = [session EXCEPT !.claim = w, !.lapsed = FALSE,
                      !.attempts = IF @ < MaxAttempts THEN @ + 1 ELSE @]
    /\ worker' = [worker EXCEPT ![w].at = "reading",
                                ![w].last = session'.attempts = MaxAttempts]
    /\ UNCHANGED <<deletionVars, asset, intent, sweeper, latePut>>

\* A missing source, or one that is no acceptable image, is final.
ReadSource(w) ==
    /\ worker[w].at = "reading" /\ Owns(w)
    /\ \/ Source \in stored /\ WorkerTo(w, "planning")
       \/ WorkerTo(w, "rejecting")
    /\ UNCHANGED <<deletionVars, session, asset, intent, sweeper, latePut>>

\* prepareOutputPlan: an intent that is there keeps its state, whatever it is.
PrepareOutputPlan(w) ==
    /\ worker[w].at = "planning" /\ Owns(w)
    /\ asset' = IF asset = "NONE" THEN "PROCESSING" ELSE asset
    /\ intent' = [o \in Output |->
          IF intent[o].state = "NONE" THEN [NoIntent EXCEPT !.state = "PREPARED"]
          ELSE [intent[o] EXCEPT !.due = FALSE]]
    /\ worker' = [worker EXCEPT ![w].at = "copying", ![w].todo = Output]
    /\ UNCHANGED <<deletionVars, session, sweeper, latePut>>

HeadOutput(w, o) ==
    /\ worker[w].at = "copying" /\ o \in worker[w].todo /\ Owns(w)
    /\ worker' = [worker EXCEPT ![w].output = o,
                    ![w].at = IF o \in stored THEN "marking" ELSE "putting"]
    /\ UNCHANGED <<deletionVars, session, asset, intent, sweeper, latePut>>

PutOutput(w) ==
    /\ worker[w].at = "putting"
    /\ stored' = stored \cup {worker[w].output}
    /\ WorkerTo(w, "marking")
    /\ UNCHANGED <<outbox, reaper, lateDelete, session, asset, intent, sweeper,
                   latePut>>

\* markOutputUploaded: an intent that was swept meanwhile fails the pass.
MarkOutputUploaded(w) ==
    /\ worker[w].at = "marking" /\ Owns(w)
    /\ LET o == worker[w].output IN
       \/ /\ Uncommitted(o)
          /\ intent' = [intent EXCEPT ![o].state = "UPLOADED"]
          /\ worker' = [worker EXCEPT ![w].at = "copying", ![w].output = None,
                                      ![w].todo = @ \ {o}]
       \/ ~Uncommitted(o) /\ FailPass(w) /\ UNCHANGED intent
    /\ UNCHANGED <<deletionVars, session, asset, sweeper, latePut>>

\* Planted bug: commitUploadIntents only looks for a claimed deletion.
CommitAnyIntent(w) ==
    /\ worker[w].at = "copying" /\ worker[w].todo = {} /\ Owns(w)
    /\ \A o \in Output : NoDeletionClaim(o)
    /\ asset' = "READY"
    /\ intent' = [o \in Output |-> [intent[o] EXCEPT !.state = "COMMITTED",
                                                     !.claim = None]]
    /\ EndSession("READY")
    /\ QueueDurableDeletions({Source})
    /\ EndPass(w)
    /\ UNCHANGED <<reaper, stored, lateDelete, sweeper, latePut>>

\* commitReady with commitUploadIntents.  The status of the asset is
\* overwritten whatever it is.
CommitReady(w) ==
    /\ worker[w].at = "copying" /\ worker[w].todo = {} /\ Owns(w)
    /\ \A o \in Output : Uncommitted(o) /\ NoDeletionClaim(o)
    /\ asset' = "READY"
    /\ intent' = [o \in Output |-> [intent[o] EXCEPT !.state = "COMMITTED",
                                                     !.claim = None]]
    /\ EndSession("READY")
    /\ QueueDurableDeletions({Source})
    /\ EndPass(w)
    /\ UNCHANGED <<reaper, stored, lateDelete, sweeper, latePut>>

CommitRefused(w) ==
    /\ worker[w].at = "copying" /\ worker[w].todo = {} /\ Owns(w)
    /\ \E o \in Output : ~Uncommitted(o) \/ ~NoDeletionClaim(o)
    /\ FailPass(w)
    /\ UNCHANGED <<deletionVars, session, asset, intent, sweeper, latePut>>

\* reject: the source stays when an operator has to look at it.
Reject(w) ==
    /\ worker[w].at = "rejecting" /\ Owns(w)
    /\ session' = [session EXCEPT !.state = "REJECTED", !.claim = None,
                                  !.operator = worker[w].operator]
    /\ asset' = IF asset = "PROCESSING" THEN "FAILED" ELSE asset
    /\ QueueDurableDeletions((IF worker[w].operator THEN {} ELSE {Source})
                             \cup {o \in Output : intent[o].state # "NONE"})
    /\ intent' = [o \in Output |->
          IF Uncommitted(o)
          THEN [intent[o] EXCEPT !.state = "CLEANUP_QUEUED", !.claim = None]
          ELSE intent[o]]
    /\ EndPass(w)
    /\ UNCHANGED <<reaper, stored, lateDelete, sweeper, latePut>>

AbandonPut(w) ==
    IF worker[w].at = "putting"
    THEN latePut' \in {latePut, latePut \cup {worker[w].output}}
    ELSE UNCHANGED latePut

\* The claim is found gone: the pass ends and leaves everything as it is.
LoseClaim(w) ==
    /\ worker[w].at # "idle" /\ ~Owns(w)
    /\ AbandonPut(w) /\ EndPass(w)
    /\ UNCHANGED <<deletionVars, session, asset, intent, sweeper>>

PassFails(w) ==
    /\ worker[w].at \notin {"idle", "rejecting"}
    /\ AbandonPut(w) /\ FailPass(w)
    /\ UNCHANGED <<deletionVars, session, asset, intent, sweeper>>

\* The process ends, a renewal fails, or the rejection does.
WorkerStops(w) ==
    /\ worker[w].at # "idle"
    /\ AbandonPut(w) /\ EndPass(w)
    /\ UNCHANGED <<deletionVars, session, asset, intent, sweeper>>

\* A pass renews its lease until it ends.
Unattended == session.claim # None /\ worker[session.claim].at = "idle"

LeaseLapses ==
    /\ session.claim # None /\ ~session.lapsed
    /\ session' = [session EXCEPT !.lapsed = TRUE]
    /\ UNCHANGED <<deletionVars, asset, intent, worker, sweeper, latePut>>

LatePut(o) ==
    /\ o \in latePut
    /\ stored' = stored \cup {o} /\ latePut' = latePut \ {o}
    /\ UNCHANGED <<outbox, reaper, lateDelete, session, asset, intent, worker,
                   sweeper>>

-----------------------------------------------------------------------------
(* Users.                                                                  *)

\* cancelSubmission stops the sessions of the project; their asset rows and
\* intents stay.
CancelSubmission ==
    /\ session.state = "VERIFYING"
    /\ EndSession("CANCELLED")
    /\ QueueDurableDeletions({Source})
    /\ UNCHANGED <<reaper, stored, lateDelete, asset, intent, worker, sweeper,
                   latePut>>

\* Asset rows refer to the outputs once they have been committed.
Committed == session.state = "READY"

ClaimAssetForDeletion ==
    /\ asset \in {"PROCESSING", "READY", "FAILED"}
    /\ asset' = "DELETING"
    /\ UNCHANGED <<deletionVars, session, intent, worker, sweeper, latePut>>

\* completeAssetDeletion: refused when the worker committed meanwhile.
CompleteAssetDeletion ==
    /\ asset = "DELETING"
    /\ asset' = "DELETED"
    /\ QueueDurableDeletions(IF Committed THEN Output ELSE {})
    /\ UNCHANGED <<reaper, stored, lateDelete, session, intent, worker, sweeper,
                   latePut>>

-----------------------------------------------------------------------------
(* The sweep of upload intents.                                            *)

FallDue(o) ==
    /\ Uncommitted(o) /\ ~intent[o].due
    /\ intent' = [intent EXCEPT ![o].due = TRUE]
    /\ UNCHANGED <<deletionVars, session, asset, worker, sweeper, latePut>>

ClaimStale(s, o) ==
    /\ sweeper[s].at = "asleep"
    /\ Uncommitted(o) /\ intent[o].due /\ intent[o].claim = None
    /\ intent' = [intent EXCEPT ![o].claim = s]
    /\ sweeper' = [sweeper EXCEPT ![s].at = "collecting", ![s].output = o]
    /\ UNCHANGED <<deletionVars, session, asset, worker, latePut>>

\* The snapshot, apart from the intent itself: only an asset can refer to an
\* output.
CollectForSweep(s) ==
    /\ sweeper[s].at = "collecting"
    /\ sweeper' = [sweeper EXCEPT ![s].at = "checking",
                                  ![s].seen = Committed /\ asset # "DELETED"]
    /\ UNCHANGED <<deletionVars, session, asset, intent, worker, latePut>>

\* A referenced intent is committed, one without bytes is resolved, and any
\* other has its output deleted.  All compare the claim and nothing else.
SweepOutcome(s) ==
    IF sweeper[s].seen THEN "COMMITTED"
    ELSE IF sweeper[s].output \notin stored THEN "RESOLVED"
    ELSE "CLEANUP_QUEUED"

HeadSwept(s) ==
    /\ sweeper[s].at = "checking"
    /\ sweeper' = [sweeper EXCEPT ![s].at = SweepOutcome(s)]
    /\ UNCHANGED <<deletionVars, session, asset, intent, worker, latePut>>

FinishSweep(s) ==
    /\ sweeper[s].at \in {"COMMITTED", "RESOLVED", "CLEANUP_QUEUED"}
    /\ LET o == sweeper[s].output IN
       \/ /\ intent[o].claim = s
          /\ intent' = [intent EXCEPT ![o] = [state |-> sweeper[s].at,
                                              due |-> @.due, claim |-> None]]
          /\ QueueDurableDeletions(
                IF sweeper[s].at = "CLEANUP_QUEUED" THEN {o} ELSE {})
       \/ intent[o].claim # s /\ UNCHANGED <<intent, outbox>>
    /\ sweeper' = [sweeper EXCEPT ![s] = Asleep]
    /\ UNCHANGED <<reaper, stored, lateDelete, session, asset, worker, latePut>>

\* A failed sweep hands its claim back, or the process ends and keeps it.
SweepFails(s) ==
    /\ sweeper[s].at # "asleep"
    /\ \/ UNCHANGED intent
       \/ /\ intent[sweeper[s].output].claim = s
          /\ intent' = [intent EXCEPT ![sweeper[s].output].claim = None]
    /\ sweeper' = [sweeper EXCEPT ![s] = Asleep]
    /\ UNCHANGED <<deletionVars, session, asset, worker, latePut>>

SweepLapses(o) ==
    /\ intent[o].claim # None
    /\ intent' = [intent EXCEPT ![o].claim = None]
    /\ UNCHANGED <<deletionVars, session, asset, worker, sweeper, latePut>>

-----------------------------------------------------------------------------
ReferredBy(t) ==
    CASE t = "assets" /\ Committed /\ asset # "DELETED"  -> Output
      [] t = "sessions" /\ session.state = "VERIFYING"   -> {Source}
      [] t = "intents" -> {o \in Output : Uncommitted(o)}
      [] OTHER -> {}

Step ==
    \/ \E w \in Worker :
          \/ ClaimVerifying(w) \/ ReadSource(w) \/ PrepareOutputPlan(w)
          \/ \E o \in Output : HeadOutput(w, o)
          \/ PutOutput(w) \/ MarkOutputUploaded(w) \/ CommitReady(w)
          \/ CommitRefused(w) \/ Reject(w) \/ LoseClaim(w)
    \/ CancelSubmission \/ ClaimAssetForDeletion \/ CompleteAssetDeletion
    \/ Unattended /\ LeaseLapses
    \/ \E o \in Output : FallDue(o) \/ LatePut(o)
    \/ \E s \in Sweeper :
          \/ \E o \in Output : ClaimStale(s, o)
          \/ CollectForSweep(s) \/ HeadSwept(s) \/ FinishSweep(s)
    \/ DeletionStep(ReferredBy) /\ UNCHANGED imageVars

Fault ==
    \/ \E w \in Worker : PassFails(w) \/ WorkerStops(w)
    \/ ~Unattended /\ LeaseLapses
    \/ \E s \in Sweeper : SweepFails(s)
    \/ \E o \in Output : SweepLapses(o)
    \/ DeletionFault /\ UNCHANGED imageVars

Next ==
    \/ Step /\ UNCHANGED faults
    \/ faults < MaxFaults /\ Fault /\ faults' = faults + 1

Spec == Init /\ [][Next]_vars

-----------------------------------------------------------------------------
(* Properties.                                                             *)

\* Every variable has its type, and the bounds are respected.
ImageTypeOK ==
    /\ DeletionTypeOK
    /\ session \in [state : {"VERIFYING", "READY", "REJECTED", "CANCELLED"},
                    claim : Worker \cup {None}, lapsed : BOOLEAN,
                    attempts : 0 .. MaxAttempts, operator : BOOLEAN]
    /\ asset \in {"NONE", "PROCESSING", "READY", "FAILED", "DELETING", "DELETED"}
    /\ intent \in [Output -> [state : {"NONE", "PREPARED", "UPLOADED",
                                       "COMMITTED", "CLEANUP_QUEUED", "RESOLVED"},
                              due : BOOLEAN, claim : Sweeper \cup {None}]]
    /\ worker \in [Worker -> [at : {"idle", "reading", "planning", "copying",
                                    "putting", "marking", "rejecting"},
                              todo : SUBSET Output, output : Output \cup {None},
                              last : BOOLEAN, operator : BOOLEAN]]
    /\ sweeper \in [Sweeper -> [at : {"asleep", "collecting", "checking",
                                      "COMMITTED", "RESOLVED", "CLEANUP_QUEUED"},
                                output : Output \cup {None}, seen : BOOLEAN]]
    /\ latePut \in SUBSET Output /\ faults \in 0 .. MaxFaults

\* The representations of an asset that was committed and is not deleted have
\* their bytes: no sweep, rejected attempt, late DELETE or snapshot that
\* missed the commit takes them away.
ReadyOutputsKept == Committed /\ asset # "DELETED" => Output \subseteq stored

\* The source is there as long as a pass may still read it, and stays when
\* the attempts ran out and an operator is to look at it.
SourceKept ==
    session.state = "VERIFYING" \/ session.operator => Source \in stored

\* Intents, session and asset tell the same story: the intents of a committed
\* image are all committed, no others are, and a rejected session leaves none
\* that the sweep still has to decide.
IntentsAgree ==
    /\ \A o \in Output : intent[o].state = "COMMITTED" <=> Committed
    /\ session.state = "REJECTED" => \A o \in Output : ~Uncommitted(o)
    /\ Committed => asset \in {"READY", "DELETING", "DELETED"}

\* Deleting an asset is final: completeAssetDeletion makes the row terminal.
DeletedStaysDeleted == [][asset = "DELETED" => asset' = "DELETED"]_vars

\* Bytes somebody still needs are never taken away, of outputs and of sources,
\* and what is written down about them stays true.
ImagesKept == ReadyOutputsKept /\ SourceKept /\ IntentsAgree
=============================================================================
