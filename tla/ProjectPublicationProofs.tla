---------------------- MODULE ProjectPublicationProofs ----------------------
(***************************************************************************)
(* What the publication of a project keeps for any images, builds, workers *)
(* and reapers, and any number of jobs and failures: the rows of the       *)
(* aggregate agree, only the pass that holds a job decides it, a project   *)
(* keeps its staged images, and its first publication stays complete.      *)
(*                                                                         *)
(* The bytes are kept in two ways.  The staged images may be queued for    *)
(* deletion any number of times, but the reaper finds them referred to     *)
(* (Watched).  The public keys have no reference before the project is     *)
(* published: until its first job fails or is stopped nobody queues them   *)
(* (Untouched), so the copies a pass made or found are there to stay.      *)
(*                                                                         *)
(* The last part is about the change requests of a published project, for  *)
(* any number of requests, authors, operators and passes: what is applied  *)
(* is what was submitted.                                                  *)
(***************************************************************************)
EXTENDS ProjectPublication, ProjectChange, ObjectDeletionProofs, FiniteSetTheorems

\* The job goes with the project, and runs with a claim and a number.
JobOfProject ==
    /\ pointer = "gone" <=> submission = "GONE"
    /\ submission = "GONE" => job.state = "NONE"
    /\ job.state = "PROCESSING" => job.claim # None
    /\ job.id = 0 => job.state = "NONE"

\* A pass is for a job there was, and an output it copies is one.
PassOfJob ==
    \A w \in Worker :
        /\ worker[w].at # "idle" => 1 <= worker[w].job /\ worker[w].job <= job.id
        /\ worker[w].at \in {"reading", "putting", "verifying"} =>
              worker[w].output \in Output

\* The staged images were referred to from the start.
StagedWatched ==
    pointer = "staged" =>
        Watched(Staged(Image), "assets") /\ Staged(Image) \subseteq stored

\* Nothing has stopped the first job, or there was none yet.
FirstJob ==
    /\ pointer # "gone"
    /\ \/ job.id = 0
       \/ job.id = 1 /\ job.state \in {"PENDING", "PROCESSING", "COMPLETED"}

\* Then nobody queues the public keys, what a pass is done with is there,
\* and all of it is once the job is completed.
FirstCopiesKept ==
    FirstJob =>
        /\ Untouched(Public(Output))
        /\ \A w \in Worker :
              /\ Copying(w) \/ worker[w].at = "completing" =>
                    Public(Output \ worker[w].todo) \subseteq stored
              /\ worker[w].at = "completing" => worker[w].todo = {}
        /\ job.state = "COMPLETED" => Public(Output) \subseteq stored

IInv ==
    /\ PublicationTypeOK /\ AggregateAgrees /\ JobOfProject /\ PassOfJob
    /\ StagedWatched /\ FirstCopiesKept

-----------------------------------------------------------------------------
(* The keys, and the steps that move only rows, the reaper or storage.     *)

LEMMA PublicationKeyFacts ==
    /\ \A outs \in SUBSET Output :
          /\ Staged(outs) \in SUBSET Key /\ Public(outs) \in SUBSET Key
          /\ Staged(outs) \cap Public(Output) = {}
    /\ \A o \in Output, outs \in SUBSET Output :
          Public(outs \ {o}) \subseteq Public(outs)
          /\ Public(outs) \subseteq Public(outs \ {o}) \cup Public({o})
    /\ Public({}) = {}
    /\ Staged(Image) \in SUBSET Key /\ Staged(Image) \cap Public(Output) = {}
    /\ CleanupTargets \in SUBSET Key /\ DeletionTargets \in SUBSET Key
    /\ "assets" \in Table
BY PublicationKeys DEF Staged, Public, Output, CleanupTargets, DeletionTargets

LEMMA DeletionKinds ==
    ASSUME DeletionStep(ReferredBy)
    PROVE  \/ ReaperMoves
           \/ \E r \in Reaper, t \in Table : CollectReferences(r, t, ReferredBy(t))
BY DEF DeletionStep, ReaperMoves

\* Queueing leaves everything but rows alone.
LEMMA QueueOnlyEffect ==
    ASSUME DeletionTypeOK, NEW keys \in SUBSET Key, QueueOnly(keys)
    PROVE  /\ DeletionTypeOK' /\ UNCHANGED <<reaper, stored, lateDelete>>
           /\ \A k \in Key : k \notin keys => outbox'[k] = outbox[k]
BY Queueing DEF QueueOnly

-----------------------------------------------------------------------------
(* The kinds of steps.                                                     *)

\* Only the worker's own record of its pass, rows and storage change.
PassMoves(w) ==
    \/ PlanValid(w) \/ PlanCancelled(w)
    \/ \E o \in Output : HeadTarget(w, o)
    \/ HeadSource(w) \/ PutTarget(w) \/ VerifyTarget(w) \/ AllCopied(w)
    \/ CompleteTooLate(w) \/ PassFails(w) \/ FenceLost(w) \/ LoseClaim(w)
    \/ RenewalFails(w) \/ QueueCancelledCleanup(w) \/ CleanupFails(w)
    \/ WorkerStops(w)

\* The job changes, and with it the submission or the project.
JobMoves ==
    \/ Finalize \/ Cancel \/ DeleteProject \/ LeaseLapses
    \/ \E w \in Worker : ClaimJob(w) \/ PlanInvalid(w) \/ Complete(w) \/ Settle(w)

DeletionMoves ==
    /\ UNCHANGED publicationVars
    /\ \/ ReaperMoves
       \/ \E r \in Reaper, t \in Table : CollectReferences(r, t, ReferredBy(t))

LEMMA NextKinds ==
    ASSUME Next
    PROVE  \/ JobMoves \/ (\E w \in Worker : PassMoves(w))
           \/ (\E k \in Key : LatePut(k)) \/ DeletionMoves
<1>1. CASE Step
  <2>1. CASE DeletionStep(ReferredBy) /\ UNCHANGED publicationVars
    BY <2>1, DeletionKinds DEF DeletionMoves
  <2>2. QED BY <1>1, <2>1 DEF Step, JobMoves, PassMoves
<1>2. CASE Fault
  <2>1. CASE DeletionFault /\ UNCHANGED publicationVars
    BY <2>1 DEF DeletionMoves, ReaperMoves
  <2>2. QED BY <1>2, <2>1 DEF Fault, JobMoves, PassMoves
<1>3. QED BY <1>1, <1>2 DEF Next

LEMMA PassMovesOnly ==
    ASSUME NEW w \in Worker, PassMoves(w)
    PROVE  UNCHANGED <<pointer, submission, job>>
BY DEF PassMoves, PlanValid, PlanCancelled, HeadTarget, HeadSource, PutTarget,
   VerifyTarget, AllCopied, CompleteTooLate, PassFails, FenceLost, LoseClaim,
   RenewalFails, QueueCancelledCleanup, CleanupFails, WorkerStops

-----------------------------------------------------------------------------
(* Rows and storage.                                                       *)

\* No step of publication takes bytes or hands the reaper anything, and none
\* queues the public keys while the first job goes on.
PublicationRows ==
    /\ DeletionTypeOK' /\ UNCHANGED <<reaper, lateDelete>>
    /\ stored \subseteq stored'
    /\ FirstJob' => \A k \in Public(Output) : outbox'[k] = outbox[k]

LEMMA JobRows ==
    ASSUME IInv, JobMoves
    PROVE  PublicationRows
<1>. USE PublicationKeyFacts DEF IInv, PublicationTypeOK, PublicationRows
<1>1. DeletionTypeOK
  OBVIOUS
<1>2. CASE UNCHANGED deletionVars
  BY <1>2 DEF deletionVars, DeletionTypeOK, LiveClaim
<1>3. CASE DeleteProject
  BY <1>1, <1>3, QueueOnlyEffect DEF DeleteProject, FirstJob
<1>4. ASSUME NEW w \in Worker, PlanInvalid(w) PROVE PublicationRows
  <2>1. PICK keys \in SUBSET Key : QueueOnly(keys)
    BY <1>4 DEF PlanInvalid
  <2>2. job'.state = "FAILED" /\ job'.id = job.id
    BY <1>4 DEF PlanInvalid
  <2>3. job.id # 0
    BY <1>4 DEF PlanInvalid, TokenOf, JobOfProject
  <2>4. QED BY <1>1, <2>1, <2>2, <2>3, QueueOnlyEffect DEF FirstJob
<1>5. ASSUME NEW w \in Worker, Complete(w) PROVE PublicationRows
  <2>1. QueueOnly(CleanupTargets \ Public(Output))
    BY <1>5 DEF Complete
  <2>2. QED BY <1>1, <2>1, QueueOnlyEffect
<1>6. QED
  BY <1>2, <1>3, <1>4, <1>5 DEF JobMoves, Finalize, Cancel, LeaseLapses, ClaimJob,
     Settle

LEMMA PassRows ==
    ASSUME IInv, NEW w \in Worker, PassMoves(w)
    PROVE  PublicationRows
<1>. USE PublicationKeyFacts DEF IInv, PublicationTypeOK, PublicationRows
<1>1. DeletionTypeOK /\ FirstJob' = FirstJob
  BY PassMovesOnly DEF FirstJob
<1>2. CASE UNCHANGED deletionVars
  BY <1>2 DEF deletionVars, DeletionTypeOK, LiveClaim
<1>3. CASE PutTarget(w)
  <2>1. Public({worker[w].output}) \in SUBSET Key
    BY <1>3 DEF PutTarget, PassOfJob
  <2>2. stored' = stored \cup Public({worker[w].output})
        /\ UNCHANGED <<outbox, reaper, lateDelete>>
    BY <1>3 DEF PutTarget
  <2>3. QED BY <1>1, <2>1, <2>2 DEF DeletionTypeOK, LiveClaim
<1>4. CASE QueueOnly(CleanupTargets) /\ ~FirstJob
  BY <1>1, <1>4, QueueOnlyEffect
<1>5. CASE CompleteTooLate(w) /\ QueueOnly(CleanupTargets) /\ job.state = "CANCELLED"
  <2>1. job.id # 0
    BY <1>5 DEF JobOfProject
  <2>2. QED BY <1>4, <1>5, <2>1 DEF FirstJob
<1>6. CASE /\ worker[w].at = "caught" /\ QueueOnly(CleanupTargets)
           /\ IF JobRow(w) THEN job.state = "CANCELLED" ELSE worker[w].validated
  <2>1. 1 <= worker[w].job /\ worker[w].job <= job.id /\ job.id \in Nat
        /\ worker[w].job \in Nat
    BY <1>6 DEF PassOfJob
  <2>2. ~FirstJob
    BY <1>6, <2>1 DEF FirstJob, JobRow
  <2>3. QED BY <1>4, <1>6, <2>2
<1>7. CASE CompleteTooLate(w)
  BY <1>2, <1>5, <1>7 DEF CompleteTooLate
<1>8. CASE QueueCancelledCleanup(w)
  BY <1>2, <1>6, <1>8 DEF QueueCancelledCleanup
<1>9. QED
  BY <1>2, <1>3, <1>7, <1>8 DEF PassMoves, PlanValid, PlanCancelled, HeadTarget,
     HeadSource, VerifyTarget, AllCopied, PassFails, FenceLost, LoseClaim,
     RenewalFails, CleanupFails, WorkerStops

LEMMA LatePutRows ==
    ASSUME IInv, NEW k \in Key, LatePut(k)
    PROVE  PublicationRows
BY DEF IInv, PublicationTypeOK, PublicationRows, LatePut, DeletionTypeOK, LiveClaim

\* The reaper deletes neither the staged images of a private project nor the
\* public keys of a first publication.
LEMMA DeletionKeeps ==
    ASSUME IInv, DeletionMoves
    PROVE  /\ DeletionTypeOK' /\ UNCHANGED <<pointer, submission, job, worker>>
           /\ StagedWatched'
           /\ FirstJob' = FirstJob
           /\ FirstJob => /\ Untouched(Public(Output))'
                          /\ stored \cap Public(Output) \subseteq stored'
<1>. USE PublicationKeyFacts DEF IInv, PublicationTypeOK
<1>1. DeletionTypeOK /\ Public(Output) \in SUBSET Key
  OBVIOUS
<1>2. UNCHANGED <<pointer, submission, job, worker>>
  BY DEF DeletionMoves, publicationVars
<1>3. FirstJob' = FirstJob
  BY <1>2 DEF FirstJob
<1>4. FirstJob => Untouched(Public(Output))
  BY DEF FirstCopiesKept
<1>5. CASE ReaperMoves
  <2>1. DeletionTypeOK'
    BY <1>1, <1>5, DeletionTypeStep
  <2>2. FirstJob => Untouched(Public(Output))'
                    /\ stored \cap Public(Output) \subseteq stored'
    BY <1>1, <1>4, <1>5, UntouchedStep
  <2>3. pointer = "staged" =>
           Watched(Staged(Image), "assets")'
           /\ stored \cap Staged(Image) \subseteq stored'
    BY <1>1, <1>5, WatchedStep DEF StagedWatched
  <2>4. QED BY <1>2, <1>3, <2>1, <2>2, <2>3 DEF StagedWatched
<1>6. ASSUME NEW r \in Reaper, NEW t \in Table,
             CollectReferences(r, t, ReferredBy(t))
      PROVE  /\ DeletionTypeOK' /\ StagedWatched'
             /\ FirstJob => /\ Untouched(Public(Output))'
                            /\ stored \cap Public(Output) \subseteq stored'
  <2>1. DeletionTypeOK'
    BY <1>1, <1>6, CollectTypeStep
  <2>2. FirstJob => Untouched(Public(Output))'
                    /\ stored \cap Public(Output) \subseteq stored'
    BY <1>1, <1>4, <1>6, UntouchedCollect
  <2>3. pointer = "staged" /\ t = "assets" => Staged(Image) \subseteq ReferredBy(t)
    BY DEF ReferredBy
  <2>4. pointer = "staged" =>
           Watched(Staged(Image), "assets")'
           /\ stored \cap Staged(Image) \subseteq stored'
    BY <1>1, <1>6, <2>3, WatchedCollect DEF StagedWatched
  <2>5. QED BY <1>2, <2>1, <2>2, <2>4 DEF StagedWatched
<1>7. QED BY <1>2, <1>3, <1>5, <1>6 DEF DeletionMoves

-----------------------------------------------------------------------------
(* The inductive invariant.                                                *)

LEMMA InvInitially == Init => IInv
<1>. SUFFICES ASSUME Init PROVE IInv
  OBVIOUS
<1>. USE PublicationKeys, PublicationKeyFacts DEF Init, NoJob, Idle
<1>1. stored \in SUBSET Key /\ Staged(Image) \subseteq stored
  BY DEF Staged, Output
<1>2. DeletionTypeOK /\ Untouched(Key) /\ \A t \in Table : Watched(Key, t)
  BY <1>1, InitialDeletions
<1>3. PublicationTypeOK
  BY <1>2 DEF PublicationTypeOK
<1>4. AggregateAgrees /\ JobOfProject /\ PassOfJob
  BY DEF AggregateAgrees, JobOfProject, PassOfJob
<1>5. StagedWatched
  BY <1>1, <1>2 DEF StagedWatched, Watched
<1>6. FirstCopiesKept
  BY <1>2 DEF FirstCopiesKept, Untouched, Copying
<1>7. QED BY <1>3, <1>4, <1>5, <1>6 DEF IInv

\* The rows of the aggregate keep agreeing.
LEMMA AggregateStep ==
    ASSUME IInv, Next
    PROVE  AggregateAgrees' /\ JobOfProject'
<1>. USE PublicationKeys DEF IInv, PublicationTypeOK, AggregateAgrees, JobOfProject
<1>1. CASE UNCHANGED <<pointer, submission, job>>
  BY <1>1
<1>2. CASE Finalize
  <2>1. job.id + 1 # 0
    OBVIOUS
  <2>2. QED BY <1>2, <2>1 DEF Finalize, NoJob
<1>3. CASE Cancel
  BY <1>3 DEF Cancel
<1>4. CASE DeleteProject
  BY <1>4 DEF DeleteProject, NoJob
<1>5. CASE LeaseLapses
  BY <1>5 DEF LeaseLapses
<1>6. ASSUME NEW w \in Worker, ClaimJob(w)
      PROVE  AggregateAgrees' /\ JobOfProject'
  BY <1>6 DEF ClaimJob
<1>7. ASSUME NEW w \in Worker, PlanInvalid(w)
      PROVE  AggregateAgrees' /\ JobOfProject'
  BY <1>7 DEF PlanInvalid, TokenOf
<1>8. ASSUME NEW w \in Worker, Complete(w)
      PROVE  AggregateAgrees' /\ JobOfProject'
  BY <1>8 DEF Complete, TokenOf
<1>9. ASSUME NEW w \in Worker, Settle(w)
      PROVE  AggregateAgrees' /\ JobOfProject'
  BY <1>9 DEF Settle, TokenOf
<1>10. ASSUME NEW k \in Key, LatePut(k)
       PROVE  UNCHANGED <<pointer, submission, job>>
  BY <1>10 DEF LatePut
<1>11. ASSUME DeletionMoves PROVE UNCHANGED <<pointer, submission, job>>
  BY <1>11 DEF DeletionMoves, publicationVars
<1>12. QED
  BY <1>1, <1>2, <1>3, <1>4, <1>5, <1>6, <1>7, <1>8, <1>9, <1>10, <1>11, NextKinds,
     PassMovesOnly DEF JobMoves

\* The variables of publication keep their types, and passes their jobs.
PassRecord ==
    [at : {"idle", "claimed", "copying", "reading", "putting", "verifying",
           "completing", "caught", "settling"},
     job : 0 .. MaxJobs, todo : SUBSET Output, output : Output \cup {None},
     validated : BOOLEAN, why : {"none", "error", "lost", "invariant"}]

JobTypeOK ==
    /\ pointer \in {"staged", "public", "gone"}
    /\ submission \in {"PENDING", "FINALIZING", "PUBLISHED", "GONE"}
    /\ job \in [id : 0 .. MaxJobs,
                state : {"NONE", "PENDING", "PROCESSING", "COMPLETED",
                         "FAILED", "CANCELLED"},
                claim : Worker \cup {None}, lapsed : BOOLEAN]

PassesOK == worker \in [Worker -> PassRecord] /\ PassOfJob

\* A pass p is for one of the first n jobs, and copies an output.
PassFits(p, n) ==
    /\ p.at # "idle" => 1 <= p.job /\ p.job <= n
    /\ p.at \in {"reading", "putting", "verifying"} => p.output \in Output

\* Worker w is in pass p now, and no other pass changed.
Becomes(w, p) ==
    /\ worker' \in [Worker -> PassRecord] /\ worker'[w] = p
    /\ \A q \in Worker : q # w => worker'[q] = worker[q]

\* The records a step may give a worker: none of them changes the job.
LEMMA PassRecords ==
    ASSUME NEW p \in PassRecord
    PROVE  /\ Idle \in PassRecord /\ Idle.at = "idle"
           /\ \A l \in {"idle", "claimed", "copying", "reading", "putting",
                        "verifying", "completing", "caught", "settling"} :
                 [p EXCEPT !.at = l] \in PassRecord
           /\ \A y \in {"error", "lost", "invariant"} :
                 [p EXCEPT !.at = "caught", !.why = y] \in PassRecord
<1>1. Idle \in PassRecord /\ Idle.at = "idle"
  BY PublicationKeys DEF PassRecord, Idle
<1>2. ASSUME NEW l \in {"idle", "claimed", "copying", "reading", "putting",
                        "verifying", "completing", "caught", "settling"}
      PROVE  [p EXCEPT !.at = l] \in PassRecord
  BY DEF PassRecord
<1>3. ASSUME NEW y \in {"error", "lost", "invariant"}
      PROVE  [p EXCEPT !.at = "caught", !.why = y] \in PassRecord
  BY DEF PassRecord
<1>4. QED BY <1>1, <1>2, <1>3

LEMMA OnePass ==
    ASSUME PassesOK, job.id \in Nat, job'.id \in Nat, job.id <= job'.id,
           NEW w \in Worker, NEW p, Becomes(w, p), PassFits(p, job'.id)
    PROVE  PassesOK'
<1>1. ASSUME NEW q \in Worker
      PROVE  /\ worker'[q].at # "idle" =>
                   1 <= worker'[q].job /\ worker'[q].job <= job'.id
             /\ worker'[q].at \in {"reading", "putting", "verifying"} =>
                   worker'[q].output \in Output
  <2>1. CASE q = w
    BY <2>1 DEF Becomes, PassFits
  <2>2. CASE q # w
    <3>1. worker'[q] = worker[q] /\ worker[q].job \in Nat
      BY <2>2 DEF PassesOK, PassRecord, Becomes
    <3>2. QED BY <3>1 DEF PassesOK, PassOfJob
  <2>3. QED BY <2>1, <2>2
<1>2. QED BY <1>1 DEF Becomes, PassesOK, PassOfJob

LEMMA SamePasses ==
    ASSUME PassesOK, job.id \in Nat, job'.id \in Nat, job.id <= job'.id,
           UNCHANGED worker
    PROVE  PassesOK'
<1>1. \A q \in Worker : worker[q].job \in Nat
  BY DEF PassesOK, PassRecord
<1>2. QED BY <1>1 DEF PassesOK, PassOfJob

\* A pass that goes idle, or is caught, fits.
LEMMA PassEnds ==
    ASSUME PassesOK, job.id \in Nat, job'.id = job.id, NEW w \in Worker,
           EndPass(w) \/ (/\ worker[w].at # "idle"
                          /\ \E why \in {"error", "lost", "invariant"} : Catch(w, why))
    PROVE  PassesOK'
<1>. DEFINE p == worker[w]
<1>1. p \in PassRecord
  BY DEF PassesOK
<1>2. CASE EndPass(w)
  <2>1. Idle \in PassRecord /\ PassFits(Idle, job'.id)
    BY <1>1, PassRecords DEF PassFits
  <2>2. Becomes(w, Idle)
    BY <1>2, <2>1 DEF Becomes, EndPass, PassesOK
  <2>3. QED BY <2>1, <2>2, OnePass
<1>3. ASSUME NEW why \in {"error", "lost", "invariant"}, Catch(w, why),
             worker[w].at # "idle"
      PROVE  PassesOK'
  <2>. DEFINE c == [p EXCEPT !.at = "caught", !.why = why]
  <2>1. c \in PassRecord
    BY <1>1, PassRecords
  <2>2. c.at = "caught" /\ c.job = p.job
    BY <1>1 DEF PassRecord
  <2>3. PassFits(c, job'.id)
    BY <1>3, <2>1, <2>2 DEF PassFits, PassesOK, PassOfJob
  <2>4. Becomes(w, c)
    BY <1>3, <2>1 DEF Becomes, Catch, PassesOK
  <2>. HIDE DEF c
  <2>5. QED BY <2>1, <2>3, <2>4, OnePass
<1>4. QED BY <1>2, <1>3

LEMMA JobPassStep ==
    ASSUME JobTypeOK, PassesOK, AggregateAgrees, JobOfProject, JobMoves
    PROVE  JobTypeOK' /\ PassesOK' /\ UNCHANGED latePut
<1>. USE PublicationKeys DEF JobTypeOK
<1>1. CASE Finalize
  <2>1. job.id + 1 \in 0 .. MaxJobs
    BY <1>1 DEF Finalize
  <2>2. job' = [id |-> job.id + 1, state |-> "PENDING", claim |-> None,
                lapsed |-> FALSE]
    BY <1>1 DEF Finalize, NoJob
  <2>3. /\ job' \in [id : 0 .. MaxJobs,
                      state : {"NONE", "PENDING", "PROCESSING", "COMPLETED",
                               "FAILED", "CANCELLED"},
                      claim : Worker \cup {None}, lapsed : BOOLEAN]
        /\ job'.id = job.id + 1
    BY <2>1, <2>2
  <2>4. submission' = "FINALIZING" /\ UNCHANGED <<pointer, worker, latePut>>
    BY <1>1 DEF Finalize
  <2>5. JobTypeOK'
    BY <2>3, <2>4
  <2>6. job.id \in Nat /\ job'.id \in Nat /\ job.id <= job'.id
    BY <2>1, <2>3
  <2>7. QED BY <2>4, <2>5, <2>6, SamePasses
<1>2. CASE Cancel
  <2>1. JobTypeOK' /\ job'.id = job.id
    BY <1>2 DEF Cancel
  <2>2. QED BY <1>2, <2>1, SamePasses DEF Cancel
<1>3. CASE DeleteProject
  <2>1. JobTypeOK' /\ job'.id = job.id
    BY <1>3 DEF DeleteProject, NoJob
  <2>2. QED BY <1>3, <2>1, SamePasses DEF DeleteProject
<1>4. CASE LeaseLapses
  <2>1. JobTypeOK' /\ job'.id = job.id
    BY <1>4 DEF LeaseLapses
  <2>2. QED BY <1>4, <2>1, SamePasses DEF LeaseLapses
<1>5. ASSUME NEW w \in Worker, ClaimJob(w)
      PROVE  JobTypeOK' /\ PassesOK' /\ UNCHANGED latePut
  <2>. DEFINE p == [worker[w] EXCEPT !.at = "claimed", !.job = job.id]
  <2>1. JobTypeOK' /\ job'.id = job.id /\ job.id # 0 /\ UNCHANGED latePut
    BY <1>5 DEF ClaimJob, JobOfProject
  <2>2. p \in PassRecord /\ p.at = "claimed" /\ p.job = job.id
    BY DEF PassesOK, PassRecord
  <2>3. Becomes(w, p)
    BY <1>5, <2>2 DEF Becomes, ClaimJob, PassesOK
  <2>4. PassFits(p, job'.id)
    BY <2>1, <2>2 DEF PassFits
  <2>. HIDE DEF p, JobTypeOK
  <2>5. job.id \in Nat
    BY DEF JobTypeOK
  <2>6. PassesOK'
    BY <2>1, <2>2, <2>3, <2>4, <2>5, OnePass
  <2>7. QED BY <2>1, <2>6
<1>6. ASSUME NEW w \in Worker, PlanInvalid(w)
      PROVE  JobTypeOK' /\ PassesOK' /\ UNCHANGED latePut
  <2>1. JobTypeOK' /\ job'.id = job.id /\ UNCHANGED latePut
    BY <1>6 DEF PlanInvalid
  <2>2. QED BY <1>6, <2>1, PassEnds DEF PlanInvalid
<1>7. ASSUME NEW w \in Worker, Complete(w)
      PROVE  JobTypeOK' /\ PassesOK' /\ UNCHANGED latePut
  <2>1. JobTypeOK' /\ job'.id = job.id /\ UNCHANGED latePut
    BY <1>7 DEF Complete
  <2>2. QED BY <1>7, <2>1, PassEnds DEF Complete
<1>8. ASSUME NEW w \in Worker, Settle(w)
      PROVE  JobTypeOK' /\ PassesOK' /\ UNCHANGED latePut
  <2>1. JobTypeOK' /\ job'.id = job.id /\ UNCHANGED latePut
    BY <1>8 DEF Settle
  <2>2. QED BY <1>8, <2>1, PassEnds DEF Settle
<1>9. QED BY <1>1, <1>2, <1>3, <1>4, <1>5, <1>6, <1>7, <1>8 DEF JobMoves

LEMMA PassPassStep ==
    ASSUME JobTypeOK, PassesOK, latePut \in SUBSET Public(Output),
           NEW w \in Worker, PassMoves(w)
    PROVE  JobTypeOK' /\ PassesOK' /\ latePut' \in SUBSET Public(Output)
<1>. DEFINE p == worker[w]
<1>1. UNCHANGED <<pointer, submission, job>> /\ JobTypeOK' /\ job.id \in Nat
  BY PassMovesOnly, PublicationKeys DEF JobTypeOK
<1>2. /\ p \in PassRecord
      /\ p.at \in {"reading", "putting", "verifying"} => p.output \in Output
      /\ p.at # "idle" => 1 <= p.job /\ p.job <= job'.id
  BY <1>1 DEF PassesOK, PassOfJob
<1>3. latePut' \in SUBSET Public(Output)
  <2>1. CASE UNCHANGED latePut
    BY <2>1
  <2>2. CASE AbandonPut(w)
    <3>1. p.at = "putting" => Public({p.output}) \subseteq Public(Output)
      BY <1>2 DEF Public
    <3>2. QED BY <2>2, <3>1 DEF AbandonPut
  <2>3. QED
    BY <2>1, <2>2 DEF PassMoves, PlanValid, PlanCancelled, HeadTarget, HeadSource,
       PutTarget, VerifyTarget, AllCopied, CompleteTooLate, PassFails, FenceLost,
       LoseClaim, RenewalFails, QueueCancelledCleanup, CleanupFails, WorkerStops
<1>4. CASE PlanCancelled(w) \/ CompleteTooLate(w) \/ WorkerStops(w)
  <2>1. EndPass(w)
    BY <1>4 DEF PlanCancelled, CompleteTooLate, WorkerStops
  <2>2. QED BY <1>1, <1>3, <2>1, PassEnds
<1>5. ASSUME p.at # "idle", NEW why \in {"error", "lost", "invariant"}, Catch(w, why)
      PROVE  PassesOK'
  BY <1>1, <1>5, PassEnds
<1>6. CASE PassFails(w) \/ FenceLost(w) \/ LoseClaim(w) \/ RenewalFails(w)
  <2>1. \E why \in {"error", "lost"} : Catch(w, why)
    BY <1>6 DEF PassFails, FenceLost, LoseClaim, RenewalFails
  <2>2. p.at # "idle"
    BY <1>6 DEF PassFails, FenceLost, LoseClaim, RenewalFails, Copying
  <2>3. QED BY <1>1, <1>3, <1>5, <2>1, <2>2
<1>7. ASSUME NEW q, p.at # "idle", q.job = p.job, Becomes(w, q),
             q.at \in {"reading", "putting", "verifying"} => q.output \in Output
      PROVE  PassesOK'
  <2>1. PassFits(q, job'.id)
    BY <1>2, <1>7 DEF PassFits
  <2>2. QED BY <1>1, <1>7, <2>1, OnePass
<1>8. CASE PlanValid(w)
  <2>. DEFINE q == [p EXCEPT !.at = "copying", !.todo = Output, !.validated = TRUE]
  <2>1. q \in PassRecord /\ q.at = "copying" /\ q.job = p.job
    BY <1>2 DEF PassRecord
  <2>2. Becomes(w, q) /\ p.at = "claimed"
    BY <1>8, <2>1 DEF PlanValid, PassesOK, Becomes
  <2>. HIDE DEF q
  <2>3. QED BY <1>1, <1>3, <1>7, <2>1, <2>2
<1>9. ASSUME NEW o \in Output, HeadTarget(w, o) PROVE PassesOK'
  <2>. DEFINE q == IF Public({o}) \subseteq stored
                   THEN [p EXCEPT !.todo = @ \ {o}]
                   ELSE [p EXCEPT !.at = "reading", !.output = o]
  <2>1. /\ q \in PassRecord /\ q.job = p.job
        /\ (q.at = "reading" /\ q.output = o) \/ q.at = p.at
    BY <1>2 DEF PassRecord
  <2>2. Becomes(w, q) /\ p.at = "copying"
    <3>1. \/ Public({o}) \subseteq stored
             /\ worker' = [worker EXCEPT ![w] = [p EXCEPT !.todo = @ \ {o}]]
          \/ ~(Public({o}) \subseteq stored)
             /\ worker' = [worker EXCEPT ![w] =
                               [p EXCEPT !.at = "reading", !.output = o]]
      BY <1>9 DEF HeadTarget, PassesOK
    <3>2. QED BY <1>9, <2>1, <3>1 DEF HeadTarget, PassesOK, Becomes
  <2>. HIDE DEF q
  <2>3. QED BY <1>7, <2>1, <2>2
<1>10. ASSUME p.at # "idle",
              NEW l \in {"putting", "verifying", "completing", "settling"},
              WorkerTo(w, l), l \in {"putting", "verifying"} => p.output \in Output
       PROVE  PassesOK'
  <2>. DEFINE q == [p EXCEPT !.at = l]
  <2>1. q \in PassRecord
    BY <1>2, PassRecords
  <2>2. q.at = l /\ q.job = p.job /\ q.output = p.output
    BY <1>2 DEF PassRecord
  <2>3. Becomes(w, q)
    BY <1>10, <2>1 DEF WorkerTo, PassesOK, Becomes
  <2>. HIDE DEF q
  <2>4. QED BY <1>7, <1>10, <2>1, <2>2, <2>3
<1>11. CASE HeadSource(w)
  <2>1. p.at = "reading" /\ (WorkerTo(w, "putting") \/ Catch(w, "invariant"))
    BY <1>11 DEF HeadSource
  <2>2. QED BY <1>1, <1>2, <1>3, <1>5, <1>10, <2>1
<1>12. CASE PutTarget(w) \/ AllCopied(w) \/ QueueCancelledCleanup(w) \/ CleanupFails(w)
  <2>1. \/ p.at = "putting" /\ WorkerTo(w, "verifying")
        \/ p.at = "copying" /\ WorkerTo(w, "completing")
        \/ p.at = "caught" /\ WorkerTo(w, "settling")
    BY <1>12 DEF PutTarget, AllCopied, QueueCancelledCleanup, CleanupFails
  <2>2. QED BY <1>1, <1>2, <1>3, <1>10, <2>1
<1>13. CASE VerifyTarget(w)
  <2>. DEFINE q == [p EXCEPT !.at = "copying", !.output = None,
                             !.todo = @ \ {p.output}]
  <2>1. q \in PassRecord /\ q.job = p.job /\ q.at = "copying"
    BY <1>2 DEF PassRecord
  <2>2. p.at = "verifying" /\ (Becomes(w, q) \/ Catch(w, "invariant"))
    BY <1>13, <2>1 DEF VerifyTarget, PassesOK, Becomes
  <2>. HIDE DEF q
  <2>3. QED BY <1>1, <1>3, <1>5, <1>7, <2>1, <2>2
<1>14. QED
  BY <1>1, <1>3, <1>4, <1>6, <1>8, <1>9, <1>11, <1>12, <1>13 DEF PassMoves

LEMMA TypeStep ==
    ASSUME IInv, Next
    PROVE  PublicationTypeOK' /\ PassOfJob'
<1>1. /\ JobTypeOK /\ PassesOK /\ latePut \in SUBSET Public(Output)
      /\ AggregateAgrees /\ JobOfProject
  BY DEF IInv, PublicationTypeOK, JobTypeOK, PassesOK, PassRecord
<1>2. faults' \in 0 .. MaxFaults
  BY PublicationKeys DEF Next, IInv, PublicationTypeOK
<1>3. JobTypeOK' /\ PassesOK' /\ latePut' \in SUBSET Public(Output) /\ DeletionTypeOK'
  <2>1. CASE JobMoves
    BY <1>1, <2>1, JobPassStep, JobRows DEF PublicationRows
  <2>2. ASSUME NEW w \in Worker, PassMoves(w)
        PROVE  /\ JobTypeOK' /\ PassesOK' /\ latePut' \in SUBSET Public(Output)
               /\ DeletionTypeOK'
    BY <1>1, <2>2, PassPassStep, PassRows DEF PublicationRows
  <2>3. ASSUME NEW k \in Key, LatePut(k)
        PROVE  /\ JobTypeOK' /\ PassesOK' /\ latePut' \in SUBSET Public(Output)
               /\ DeletionTypeOK'
    <3>1. UNCHANGED <<pointer, submission, job, worker>> /\ latePut' \subseteq latePut
      BY <2>3 DEF LatePut
    <3>2. DeletionTypeOK'
      BY <2>3, LatePutRows DEF PublicationRows
    <3>3. QED BY <1>1, <3>1, <3>2 DEF JobTypeOK, PassesOK, PassOfJob
  <2>4. CASE DeletionMoves
    <3>1. UNCHANGED <<pointer, submission, job, worker, latePut>>
      BY <2>4 DEF DeletionMoves, publicationVars
    <3>2. DeletionTypeOK'
      BY <2>4, DeletionKeeps
    <3>3. QED BY <1>1, <3>1, <3>2 DEF JobTypeOK, PassesOK, PassOfJob
  <2>5. QED BY <2>1, <2>2, <2>3, <2>4, NextKinds
<1>4. QED
  BY <1>2, <1>3 DEF PublicationTypeOK, JobTypeOK, PassesOK, PassRecord

\* A project that is private now was private before, and the reaper has
\* nothing in hand that it had not.
LEMMA StagedStep ==
    ASSUME IInv, Next
    PROVE  StagedWatched'
<1>1. CASE DeletionMoves
  BY <1>1, DeletionKeeps
<1>2. ASSUME PublicationRows, pointer' = "staged" => pointer = "staged"
      PROVE  StagedWatched'
  BY <1>2 DEF PublicationRows, StagedWatched, Watched, IInv
<1>3. CASE JobMoves
  <2>1. pointer' = "staged" => pointer = "staged"
    BY <1>3 DEF JobMoves, Finalize, Cancel, DeleteProject, LeaseLapses, ClaimJob,
       PlanInvalid, Complete, Settle
  <2>2. QED BY <1>2, <1>3, <2>1, JobRows
<1>4. ASSUME NEW w \in Worker, PassMoves(w) PROVE StagedWatched'
  BY <1>2, <1>4, PassRows, PassMovesOnly
<1>5. ASSUME NEW k \in Key, LatePut(k) PROVE StagedWatched'
  BY <1>2, <1>5, LatePutRows DEF LatePut
<1>6. QED BY <1>1, <1>3, <1>4, <1>5, NextKinds

-----------------------------------------------------------------------------
(* The first publication.                                                  *)

\* What the pass of w is done with is there.
Done(w) ==
    /\ Copying(w) \/ worker[w].at = "completing" =>
          Public(Output \ worker[w].todo) \subseteq stored
    /\ worker[w].at = "completing" => worker[w].todo = {}

LEMMA DonePass ==
    ASSUME IInv, NEW w \in Worker, PassMoves(w), Done(w), stored \subseteq stored'
    PROVE  Done(w)'
<1>. USE PublicationKeyFacts DEF Done, Copying
<1>1. worker[w] \in PassRecord /\ worker \in [Worker -> PassRecord]
      /\ (worker[w].at \in {"reading", "putting", "verifying"} =>
             worker[w].output \in Output)
  BY DEF IInv, PublicationTypeOK, PassRecord, PassOfJob
<1>2. worker[w].todo \in SUBSET Output
  BY <1>1 DEF PassRecord
<1>3. CASE worker'[w].at \in {"idle", "claimed", "caught", "settling"}
  BY <1>3
<1>4. CASE PlanValid(w)
  <2>1. worker'[w].at = "copying" /\ worker'[w].todo = Output
    BY <1>1, <1>4 DEF PlanValid, PassRecord
  <2>2. Output \ worker'[w].todo = {}
    BY <2>1
  <2>3. QED BY <2>1, <2>2
<1>5. ASSUME NEW o \in Output, HeadTarget(w, o) PROVE Done(w)'
  <2>1. CASE Public({o}) \subseteq stored
    <3>1. worker'[w].todo = worker[w].todo \ {o} /\ worker'[w].at = "copying"
          /\ worker[w].at = "copying"
      BY <1>1, <1>5, <2>1 DEF HeadTarget, PassRecord
    <3>2. Public(Output \ worker'[w].todo)
             \subseteq Public(Output \ worker[w].todo) \cup Public({o})
      BY <3>1 DEF Public
    <3>3. QED BY <2>1, <3>1, <3>2
  <2>2. CASE ~(Public({o}) \subseteq stored)
    <3>1. worker'[w].todo = worker[w].todo /\ worker'[w].at = "reading"
          /\ worker[w].at = "copying"
      BY <1>1, <1>5, <2>2 DEF HeadTarget, PassRecord
    <3>2. QED BY <3>1
  <2>3. QED BY <2>1, <2>2
<1>6. CASE HeadSource(w) \/ PutTarget(w) \/ AllCopied(w)
  <2>1. \/ worker'[w].at = "caught"
        \/ /\ Copying(w) /\ worker'[w].todo = worker[w].todo
           /\ worker'[w].at = "completing" => worker[w].todo = {}
    BY <1>1, <1>6 DEF HeadSource, PutTarget, AllCopied, WorkerTo, Catch, PassRecord
  <2>2. QED BY <2>1
<1>7. CASE VerifyTarget(w)
  <2>. DEFINE o == worker[w].output
  <2>1. CASE Public({o}) \subseteq stored
    <3>1. worker'[w].todo = worker[w].todo \ {o} /\ worker'[w].at = "copying"
          /\ worker[w].at = "verifying"
      BY <1>1, <1>7, <2>1 DEF VerifyTarget, PassRecord
    <3>2. Public(Output \ worker'[w].todo)
             \subseteq Public(Output \ worker[w].todo) \cup Public({o})
      BY <3>1 DEF Public
    <3>3. QED BY <2>1, <3>1, <3>2
  <2>2. CASE ~(Public({o}) \subseteq stored)
    BY <1>1, <1>7, <2>2 DEF VerifyTarget, Catch, PassRecord
  <2>3. QED BY <2>1, <2>2
<1>8. CASE \/ PlanCancelled(w) \/ CompleteTooLate(w) \/ PassFails(w) \/ FenceLost(w)
           \/ LoseClaim(w) \/ RenewalFails(w) \/ QueueCancelledCleanup(w)
           \/ CleanupFails(w) \/ WorkerStops(w)
  <2>1. \/ EndPass(w) \/ (\E why \in {"error", "lost"} : Catch(w, why))
        \/ WorkerTo(w, "settling")
    BY <1>8 DEF PlanCancelled, CompleteTooLate, PassFails, FenceLost, LoseClaim,
       RenewalFails, QueueCancelledCleanup, CleanupFails, WorkerStops
  <2>2. worker'[w].at \in {"idle", "caught", "settling"}
    BY <1>1, <2>1 DEF EndPass, Catch, WorkerTo, Idle, PassRecord
  <2>3. QED BY <1>3, <2>2
<1>9. QED BY <1>4, <1>5, <1>6, <1>7, <1>8 DEF PassMoves

\* A pass changes no other pass.
LEMMA OtherPasses ==
    ASSUME IInv, NEW w \in Worker, PassMoves(w), NEW q \in Worker, q # w
    PROVE  worker'[q] = worker[q]
<1>1. worker \in [Worker -> PassRecord]
  BY DEF IInv, PublicationTypeOK, PassRecord
<1>2. QED
  BY <1>1 DEF PassMoves, PlanValid, PlanCancelled, HeadTarget, HeadSource, PutTarget,
     VerifyTarget, AllCopied, CompleteTooLate, PassFails, FenceLost, LoseClaim,
     RenewalFails, QueueCancelledCleanup, CleanupFails, WorkerStops, EndPass,
     WorkerTo, Catch

\* A first job comes from a first job, and no pass is at work that was not.
LEMMA FirstJobBefore ==
    ASSUME IInv, JobMoves, FirstJob'
    PROVE  /\ FirstJob
           /\ \A w \in Worker : worker'[w] = worker[w]
                                \/ worker'[w].at \in {"idle", "claimed", "caught"}
           /\ job'.state = "COMPLETED" =>
                 job.state = "COMPLETED" \/ \E w \in Worker : worker[w].at = "completing"
<1>. USE PublicationKeys DEF IInv, PublicationTypeOK, AggregateAgrees, JobOfProject,
                             FirstJob
<1>. DEFINE Goal == /\ FirstJob
                    /\ \A w \in Worker : worker'[w] = worker[w]
                          \/ worker'[w].at \in {"idle", "claimed", "caught"}
                    /\ job'.state = "COMPLETED" =>
                          job.state = "COMPLETED" \/ \E w \in Worker : worker[w].at = "completing"
<1>0. worker \in [Worker -> PassRecord]
  BY DEF PassRecord
<1>1. CASE Finalize
  <2>1. job'.id = job.id + 1 /\ job'.state = "PENDING" /\ job.id \in Nat
        /\ UNCHANGED <<pointer, worker>>
    BY <1>1 DEF Finalize, NoJob
  <2>2. job.id = 0 /\ pointer # "gone"
    BY <2>1
  <2>3. QED BY <2>1, <2>2
<1>2. CASE Cancel
  BY <1>2 DEF Cancel
<1>3. CASE DeleteProject
  BY <1>3 DEF DeleteProject
<1>4. CASE LeaseLapses
  BY <1>4 DEF LeaseLapses
<1>5. ASSUME NEW w \in Worker, ClaimJob(w) PROVE Goal
  <2>1. FirstJob /\ job'.state = "PROCESSING"
    BY <1>5 DEF ClaimJob
  <2>2. \A q \in Worker : worker'[q] = worker[q] \/ worker'[q].at = "claimed"
    BY <1>0, <1>5 DEF ClaimJob, PassRecord
  <2>3. QED BY <2>1, <2>2
<1>6. ASSUME NEW w \in Worker, PlanInvalid(w) PROVE Goal
  <2>1. job'.id = job.id /\ job'.state = "FAILED" /\ job.id # 0
    BY <1>6 DEF PlanInvalid, TokenOf
  <2>2. QED BY <2>1
<1>7. ASSUME NEW w \in Worker, Complete(w) PROVE Goal
  <2>1. FirstJob /\ worker[w].at = "completing"
    BY <1>7 DEF Complete, TokenOf
  <2>2. \A q \in Worker : worker'[q] = worker[q] \/ worker'[q].at \in {"idle", "caught"}
    BY <1>0, <1>7 DEF Complete, EndPass, Catch, Idle, PassRecord
  <2>3. QED BY <2>1, <2>2
<1>8. ASSUME NEW w \in Worker, Settle(w) PROVE Goal
  <2>1. FirstJob /\ (job'.state = "COMPLETED" => job' = job)
    BY <1>8 DEF Settle, TokenOf
  <2>2. \A q \in Worker : worker'[q] = worker[q] \/ worker'[q].at = "idle"
    BY <1>0, <1>8 DEF Settle, EndPass, Idle
  <2>3. QED BY <2>1, <2>2
<1>9. QED BY <1>1, <1>2, <1>3, <1>4, <1>5, <1>6, <1>7, <1>8 DEF JobMoves

LEMMA FirstStep ==
    ASSUME IInv, Next
    PROVE  FirstCopiesKept'
<1>. USE PublicationKeyFacts
<1>1. FirstJob => /\ Untouched(Public(Output)) /\ \A w \in Worker : Done(w)
                  /\ job.state = "COMPLETED" => Public(Output) \subseteq stored
  BY DEF IInv, FirstCopiesKept, Done
<1>2. SUFFICES ASSUME FirstJob'
               PROVE  /\ Untouched(Public(Output))' /\ \A w \in Worker : Done(w)'
                      /\ job'.state = "COMPLETED" => Public(Output) \subseteq stored'
  BY DEF FirstCopiesKept, Done, Copying
<1>3. \A outs \in SUBSET Output : Public(outs) \subseteq Public(Output)
  BY DEF Public
<1>4. ASSUME NEW w \in Worker, Done(w), stored \cap Public(Output) \subseteq stored',
             worker'[w] = worker[w]
      PROVE  Done(w)'
  <2>1. Public(Output \ worker[w].todo) \subseteq Public(Output)
    BY <1>3
  <2>2. QED BY <1>4, <2>1 DEF Done, Copying
<1>5. CASE DeletionMoves
  <2>1. /\ FirstJob /\ UNCHANGED <<worker, job>> /\ Untouched(Public(Output))'
        /\ stored \cap Public(Output) \subseteq stored'
    BY <1>2, <1>5, DeletionKeeps
  <2>2. QED BY <1>1, <1>4, <2>1
<1>6. ASSUME PublicationRows, FirstJob
      PROVE  Untouched(Public(Output))' /\ stored \subseteq stored'
  BY <1>1, <1>2, <1>6 DEF PublicationRows, Untouched
<1>7. CASE JobMoves
  <2>1. FirstJob /\ Untouched(Public(Output))' /\ stored \subseteq stored'
    BY <1>2, <1>6, <1>7, FirstJobBefore, JobRows
  <2>2. ASSUME NEW w \in Worker PROVE Done(w)'
    <3>1. CASE worker'[w] = worker[w]
      BY <1>1, <1>4, <2>1, <3>1
    <3>2. CASE worker'[w].at \in {"idle", "claimed", "caught"}
      BY <3>2 DEF Done, Copying
    <3>3. QED BY <1>2, <1>7, <3>1, <3>2, FirstJobBefore
  <2>3. ASSUME job'.state = "COMPLETED" PROVE Public(Output) \subseteq stored'
    <3>1. CASE job.state = "COMPLETED"
      BY <1>1, <2>1, <3>1
    <3>2. ASSUME NEW w \in Worker, worker[w].at = "completing"
          PROVE  Public(Output) \subseteq stored'
      <4>1. worker[w].todo = {} /\ Public(Output \ {}) \subseteq stored
        BY <1>1, <2>1, <3>2 DEF Done
      <4>2. QED BY <2>1, <4>1
    <3>3. QED BY <1>2, <1>7, <2>3, <3>1, <3>2, FirstJobBefore
  <2>4. QED BY <2>1, <2>2, <2>3
<1>8. ASSUME NEW v \in Worker, PassMoves(v)
      PROVE  /\ Untouched(Public(Output))' /\ \A w \in Worker : Done(w)'
             /\ job'.state = "COMPLETED" => Public(Output) \subseteq stored'
  <2>1. FirstJob /\ job' = job
    BY <1>2, <1>8, PassMovesOnly DEF FirstJob
  <2>2. Untouched(Public(Output))' /\ stored \subseteq stored'
    BY <1>6, <1>8, <2>1, PassRows
  <2>3. ASSUME NEW w \in Worker PROVE Done(w)'
    <3>1. CASE w = v
      BY <1>1, <1>8, <2>1, <2>2, <3>1, DonePass
    <3>2. CASE w # v
      BY <1>1, <1>4, <1>8, <2>1, <2>2, <3>2, OtherPasses
    <3>3. QED BY <3>1, <3>2
  <2>4. QED BY <1>1, <2>1, <2>2, <2>3
<1>9. ASSUME NEW k \in Key, LatePut(k)
      PROVE  /\ Untouched(Public(Output))' /\ \A w \in Worker : Done(w)'
             /\ job'.state = "COMPLETED" => Public(Output) \subseteq stored'
  <2>1. FirstJob /\ UNCHANGED <<job, worker>>
    BY <1>2, <1>9 DEF LatePut, FirstJob
  <2>2. Untouched(Public(Output))' /\ stored \subseteq stored'
    BY <1>6, <1>9, <2>1, LatePutRows
  <2>3. QED BY <1>1, <1>4, <2>1, <2>2
<1>10. QED BY <1>5, <1>7, <1>8, <1>9, NextKinds

-----------------------------------------------------------------------------
LEMMA InvInductive == IInv /\ [Next]_vars => IInv'
<1>1. ASSUME IInv, Next PROVE IInv'
  <2>1. PublicationTypeOK' /\ PassOfJob' /\ AggregateAgrees' /\ JobOfProject'
    BY <1>1, TypeStep, AggregateStep
  <2>2. StagedWatched' /\ FirstCopiesKept'
    BY <1>1, StagedStep, FirstStep
  <2>3. QED BY <2>1, <2>2 DEF IInv
<1>2. ASSUME IInv, UNCHANGED vars PROVE IInv'
  <2>. USE <1>2 DEF vars, deletionVars, publicationVars
  <2>1. PublicationTypeOK' /\ AggregateAgrees' /\ JobOfProject' /\ PassOfJob'
    BY DEF IInv, PublicationTypeOK, DeletionTypeOK, LiveClaim, AggregateAgrees,
       JobOfProject, PassOfJob
  <2>2. StagedWatched' /\ FirstCopiesKept'
    BY DEF IInv, StagedWatched, FirstCopiesKept, Watched, Untouched, FirstJob, Copying
  <2>3. QED BY <2>1, <2>2 DEF IInv
<1>3. QED BY <1>1, <1>2

LEMMA InvHolds == Spec => []IInv
BY InvInitially, InvInductive, PTL DEF Spec

\* Every variable of publication, its reapers and storage keeps its type, and
\* finalizeSubmission never creates more jobs than the bound.
THEOREM PublicationTypeCorrect == Spec => []PublicationTypeOK
<1>1. IInv => PublicationTypeOK
  BY DEF IInv
<1>2. QED BY <1>1, InvHolds, PTL

\* What finalizeSubmission, cancelSubmission, complete and the deletion of the
\* project leave in the job, the submission and the project agrees, however
\* their transactions and the workers' passes interleave.
THEOREM AggregateAlways == Spec => []AggregateAgrees
<1>1. IInv => AggregateAgrees
  BY DEF IInv
<1>2. QED BY <1>1, InvHolds, PTL

\* No clean-up, late request or lapsed claim costs a project that is not
\* published its staged images: collectObjectReferences always finds them.
THEOREM StagedImagesStay == Spec => []StagedImagesKept
<1>1. IInv => StagedImagesKept
  BY DEF IInv, StagedWatched, StagedImagesKept
<1>2. QED BY <1>1, InvHolds, PTL

\* What complete commits for the first job of a project is in storage, and
\* stays there.
THEOREM FirstPublicationStays == Spec => []FirstPublicationKept
<1>1. ASSUME IInv PROVE FirstPublicationKept
  <2>1. pointer = "public" /\ job.id = 1 => FirstJob /\ job.state = "COMPLETED"
    BY <1>1 DEF IInv, AggregateAgrees, FirstJob
  <2>2. QED BY <1>1, <2>1 DEF IInv, FirstCopiesKept, FirstPublicationKept
<1>2. QED BY <1>1, InvHolds, PTL

\* The fences of complete, fail, release and claimJob let nobody but the pass
\* that holds a running job decide it.
THEOREM OnlyClaimants == Spec => OnlyClaimantDecides
<1>. DEFINE Decided ==
        job.state = "PROCESSING" /\ job' # job =>
        \/ job'.state \in {"CANCELLED", "NONE"}
        \/ job' = [job EXCEPT !.lapsed = TRUE]
        \/ job.lapsed /\ job' \in [id : {job.id}, state : {"PROCESSING"},
                                   claim : Worker, lapsed : {FALSE}]
        \/ /\ worker[job.claim].at \in {"claimed", "completing", "settling"}
           /\ worker[job.claim].job = job.id
           /\ worker'[job.claim].at \in {"idle", "caught"}
<1>1. ASSUME IInv, Next PROVE Decided
  <2>. USE <1>1 DEF IInv, JobOfProject, AggregateAgrees
  <2>0. /\ worker \in [Worker -> PassRecord]
        /\ job \in [id : 0 .. MaxJobs,
                    state : {"NONE", "PENDING", "PROCESSING", "COMPLETED",
                             "FAILED", "CANCELLED"},
                    claim : Worker \cup {None}, lapsed : BOOLEAN]
    BY DEF PublicationTypeOK, PassRecord
  <2>1. CASE job' = job
    BY <2>1
  <2>2. CASE Finalize
    BY <2>2 DEF Finalize
  <2>3. CASE Cancel
    BY <2>0, <2>3 DEF Cancel
  <2>4. CASE DeleteProject
    BY <2>4 DEF DeleteProject, NoJob
  <2>5. CASE LeaseLapses
    BY <2>5 DEF LeaseLapses
  <2>6. ASSUME NEW w \in Worker, ClaimJob(w) PROVE Decided
    BY <2>0, <2>6 DEF ClaimJob
  <2>7. ASSUME NEW w \in Worker, PlanInvalid(w) PROVE Decided
    BY <2>0, <2>7 DEF PlanInvalid, TokenOf, JobRow, EndPass, Idle
  <2>8. ASSUME NEW w \in Worker, Complete(w) PROVE Decided
    <3>1. job.claim = w /\ worker[w].at = "completing" /\ worker[w].job = job.id
      BY <2>8 DEF Complete, TokenOf, JobRow
    <3>2. worker'[w].at \in {"idle", "caught"}
      BY <2>0, <2>8 DEF Complete, EndPass, Catch, Idle, PassRecord
    <3>3. QED BY <3>1, <3>2
  <2>9. ASSUME NEW w \in Worker, Settle(w) PROVE Decided
    BY <2>0, <2>9 DEF Settle, TokenOf, JobRow, EndPass, Idle
  <2>10. ASSUME NEW k \in Key, LatePut(k) PROVE job' = job
    BY <2>10 DEF LatePut
  <2>11. QED
    BY <2>1, <2>2, <2>3, <2>4, <2>5, <2>6, <2>7, <2>8, <2>9, <2>10, NextKinds,
       PassMovesOnly, DeletionKeeps DEF JobMoves
<1>2. ASSUME UNCHANGED vars PROVE Decided
  BY <1>2 DEF vars, publicationVars
<1>3. IInv /\ [Next]_vars => [Decided]_vars
  BY <1>1, <1>2
<1>4. QED BY <1>3, InvHolds, PTL DEF Spec, OnlyClaimantDecides

-----------------------------------------------------------------------------
(***************************************************************************)
(* Change requests.  A request, its stage, its job, what was submitted and *)
(* what it did are one row each, and fit together as RequestFits says; no  *)
(* other request is live meanwhile, and the version of the project counts  *)
(* the edits and the completed requests.                                   *)
(***************************************************************************)
Content   == Draft \cup {Nil}
AskedRow  == [state : Live \cup {"NONE", "COMPLETED", "CONFLICT", "CANCELLED", "REJECTED"},
              author : Author \cup {Nil}, base : Nat, kind : {"EDIT", "DELETE"},
              text : Content, links : Content]
StageRow  == [at : {"none", "filling", "ready", "moved"}, files : Content]
StageJob  == [state : {"NONE", "PENDING", "PROCESSING", "FAILED", "COMPLETED"},
              claim : Publisher \cup {Nil}, lapsed : BOOLEAN]
Effect    == [text : Content, links : Content, files : Content, base : Nat]
SourceRow == [alive : BOOLEAN, version : Nat, owners : SUBSET Author]

Underway == {"PENDING", "PROCESSING"}

\* A request, its stage, its job, what it asked for and what it did agree: a
\* job runs while the request is applied; files are drafted with the request
\* and stay as they were submitted; only a completed request did anything.
RequestFits(q, t, j, s, e) ==
    /\ q \in AskedRow /\ t \in StageRow /\ j \in StageJob /\ s \in Effect /\ e \in Effect
    /\ j.state \in Underway <=> q.state = "APPLYING"
    /\ j.state = "FAILED" => q.state = "FAILED"
    /\ q.state \in {"APPLYING", "FAILED"} => t.at = "ready"
    /\ t.at = "filling" => q.state = "DRAFT"
    /\ t.at = "ready" => q.state \in Live
    /\ q.state \in {"PENDING", "APPLYING", "FAILED"} =>
          s = [text |-> q.text, links |-> q.links, files |-> t.files, base |-> q.base]
    /\ q.state = "COMPLETED" => e = s
    /\ q.state # "COMPLETED" => e = NoEffect

RequestsFit ==
    \A r \in ChangeRequest :
        RequestFits(asked[r], stage[r], stageJob[r], submitted[r], effect[r])

OneLive ==
    \A r, s \in ChangeRequest :
        asked[r].state \in Live /\ asked[s].state \in Live => r = s

\* A pass and a call are about a request.
CallsFit ==
    /\ pass \in [Publisher -> [at : {"away", "validating", "copying", "completing"},
                               of : ChangeRequest \cup {Nil}]]
    /\ review \in [Operator -> [at : {"away", "resolving"},
                                of : ChangeRequest \cup {Nil},
                                action : {"approve", "retry"}, links : Content]]
    /\ \A p \in Publisher : pass[p].at # "away" => pass[p].of \in ChangeRequest
    /\ \A o \in Operator : review[o].at # "away" => review[o].of \in ChangeRequest

\* Every request completed has bumped the version at most once.
Completed == {r \in ChangeRequest : asked[r].state = "COMPLETED"}
Versions ==
    IsFiniteSet(ChangeRequest) => source.version <= MaxEdits + Cardinality(Completed)

ChangeTables ==
    /\ DOMAIN asked = ChangeRequest /\ asked = [r \in ChangeRequest |-> asked[r]]
    /\ DOMAIN stage = ChangeRequest /\ stage = [r \in ChangeRequest |-> stage[r]]
    /\ DOMAIN stageJob = ChangeRequest /\ stageJob = [r \in ChangeRequest |-> stageJob[r]]
    /\ DOMAIN submitted = ChangeRequest /\ submitted = [r \in ChangeRequest |-> submitted[r]]
    /\ DOMAIN effect = ChangeRequest /\ effect = [r \in ChangeRequest |-> effect[r]]

ChangeInv ==
    /\ source \in SourceRow /\ ChangeTables /\ RequestsFit /\ OneLive /\ CallsFit /\ Versions

-----------------------------------------------------------------------------
LEMMA ChangeBlanks ==
    /\ NoStage \in StageRow /\ NoStageJob \in StageJob /\ NoEffect \in Effect
    /\ NoStage.at = "none" /\ NoStage.files = Nil /\ NoStageJob.state = "NONE"
    /\ [NoStageJob EXCEPT !.state = "PENDING"] \in StageJob
    /\ [NoStageJob EXCEPT !.state = "PENDING"].state = "PENDING"
    /\ [NoStageJob EXCEPT !.state = "FAILED"] \in StageJob
    /\ [NoStageJob EXCEPT !.state = "FAILED"].state = "FAILED"
    /\ [NoStageJob EXCEPT !.state = "COMPLETED"] \in StageJob
    /\ [NoStageJob EXCEPT !.state = "COMPLETED"].state = "COMPLETED"
BY DEF NoStage, NoStageJob, NoEffect, StageRow, StageJob, Effect, Content

LEMMA ChangeInitially == ChangeInit => ChangeInv
<1> SUFFICES ASSUME ChangeInit PROVE ChangeInv
  OBVIOUS
<1> DEFINE q == [state |-> "NONE", author |-> Nil, base |-> 0, kind |-> "EDIT",
                 text |-> Nil, links |-> Nil]
<1>1. /\ asked = [r \in ChangeRequest |-> q] /\ stage = [r \in ChangeRequest |-> NoStage]
      /\ stageJob = [r \in ChangeRequest |-> NoStageJob]
      /\ submitted = [r \in ChangeRequest |-> NoEffect]
      /\ effect = [r \in ChangeRequest |-> NoEffect]
  BY DEF ChangeInit
<1>2. q \in AskedRow /\ q.state = "NONE"
  BY DEF AskedRow, Live, Content
<1> HIDE DEF q
<1>3. ChangeTables
  BY <1>1 DEF ChangeTables
<1>4. RequestsFit
  BY <1>1, <1>2, ChangeBlanks DEF RequestsFit, RequestFits, Underway, Live
<1>5. OneLive
  BY <1>1, <1>2 DEF OneLive, Live
<1>6. source \in SourceRow /\ source.version = 0
  BY DEF ChangeInit, SourceRow
<1>7. Versions
  <2> SUFFICES ASSUME IsFiniteSet(ChangeRequest)
               PROVE  source.version <= MaxEdits + Cardinality(Completed)
    BY DEF Versions
  <2>1. IsFiniteSet(Completed)
    BY FS_Subset, Completed \subseteq ChangeRequest DEF Completed
  <2>2. Cardinality(Completed) \in Nat
    BY <2>1, FS_CardinalityType
  <2> QED BY <2>2, <1>6, MaxEditsInNat
<1>8. CallsFit
  BY DEF ChangeInit, CallsFit, Off, NoCall, Content
<1> QED BY <1>3, <1>4, <1>5, <1>6, <1>7, <1>8 DEF ChangeInv

\* A step about one request keeps all of them fitting if it fits afterwards.
LEMMA RequestMoves ==
    ASSUME ChangeTables, RequestsFit, OneLive, NEW r \in ChangeRequest,
           NEW q, NEW t, NEW j, NEW s, NEW e, RequestFits(q, t, j, s, e),
           asked' = [asked EXCEPT ![r] = q], stage' = [stage EXCEPT ![r] = t],
           stageJob' = [stageJob EXCEPT ![r] = j],
           submitted' = [submitted EXCEPT ![r] = s], effect' = [effect EXCEPT ![r] = e],
           q.state \in Live => \A x \in ChangeRequest : asked[x].state \in Live => x = r
    PROVE  /\ ChangeTables' /\ RequestsFit' /\ OneLive'
           /\ Completed' = IF q.state = "COMPLETED" THEN Completed \cup {r}
                           ELSE Completed \ {r}
<1>1. \A x \in ChangeRequest :
         /\ asked'[x] = IF x = r THEN q ELSE asked[x]
         /\ stage'[x] = IF x = r THEN t ELSE stage[x]
         /\ stageJob'[x] = IF x = r THEN j ELSE stageJob[x]
         /\ submitted'[x] = IF x = r THEN s ELSE submitted[x]
         /\ effect'[x] = IF x = r THEN e ELSE effect[x]
  BY DEF ChangeTables
<1>2. ChangeTables'
  BY DEF ChangeTables
<1>3. RequestsFit'
  BY <1>1 DEF RequestsFit
<1>4. OneLive'
  BY <1>1 DEF OneLive
<1>5. Completed' = IF q.state = "COMPLETED" THEN Completed \cup {r} ELSE Completed \ {r}
  BY <1>1 DEF Completed
<1> QED BY <1>2, <1>3, <1>4, <1>5

\* The version counts the edits and the completed requests.
LEMMA VersionCounts ==
    ASSUME source \in SourceRow, source' \in SourceRow, Versions,
           \/ /\ Completed' = Completed
              /\ source'.version = source.version \/ source'.version <= MaxEdits
           \/ \E r \in ChangeRequest :
                 /\ r \notin Completed /\ Completed' = Completed \cup {r}
                 /\ source'.version <= source.version + 1
    PROVE  Versions'
<1> SUFFICES ASSUME IsFiniteSet(ChangeRequest)
             PROVE  source'.version <= MaxEdits + Cardinality(Completed')
  BY DEF Versions
<1> DEFINE n == Cardinality(Completed)
<1>1. IsFiniteSet(Completed)
  BY FS_Subset, Completed \subseteq ChangeRequest DEF Completed
<1>2. n \in Nat /\ source.version <= MaxEdits + n /\ source.version \in Nat
      /\ source'.version \in Nat
  BY <1>1, FS_CardinalityType DEF Versions, SourceRow
<1>3. \A x : x \notin Completed => Cardinality(Completed \cup {x}) = n + 1
  BY <1>1, FS_AddElement
<1> HIDE DEF n
<1>4. CASE Completed' = Completed
            /\ (source'.version = source.version \/ source'.version <= MaxEdits)
  <2>1. Cardinality(Completed') = n
    BY <1>4 DEF n
  <2> QED BY <1>2, <1>4, <2>1, MaxEditsInNat
<1>5. CASE \E r \in ChangeRequest :
              /\ r \notin Completed /\ Completed' = Completed \cup {r}
              /\ source'.version <= source.version + 1
  <2>1. Cardinality(Completed') = n + 1
    BY <1>3, <1>5
  <2> QED BY <1>2, <1>5, <2>1, MaxEditsInNat
<1> QED BY <1>4, <1>5

\* What the rows of one request are made of.
LEMMA RequestRows ==
    ASSUME ChangeTables, RequestsFit, NEW r \in ChangeRequest
    PROVE  /\ RequestFits(asked[r], stage[r], stageJob[r], submitted[r], effect[r])
           /\ asked = [asked EXCEPT ![r] = asked[r]]
           /\ stage = [stage EXCEPT ![r] = stage[r]]
           /\ stageJob = [stageJob EXCEPT ![r] = stageJob[r]]
           /\ submitted = [submitted EXCEPT ![r] = submitted[r]]
           /\ effect = [effect EXCEPT ![r] = effect[r]]
<1>1. RequestFits(asked[r], stage[r], stageJob[r], submitted[r], effect[r])
  BY DEF RequestsFit
<1> QED BY <1>1 DEF ChangeTables

\* A row in another state.
LEMMA AskedState ==
    ASSUME NEW q \in AskedRow, NEW state \in Live \cup {"NONE", "COMPLETED", "CONFLICT",
                                                        "CANCELLED", "REJECTED"}
    PROVE  /\ [q EXCEPT !.state = state] \in AskedRow
           /\ [q EXCEPT !.state = state].state = state
           /\ [q EXCEPT !.state = state].text = q.text
           /\ [q EXCEPT !.state = state].links = q.links
           /\ [q EXCEPT !.state = state].base = q.base
BY DEF AskedRow

LEMMA AskedDraft ==
    ASSUME NEW q \in AskedRow, NEW base \in Nat, NEW kind \in {"EDIT", "DELETE"},
           NEW a \in Author \cup {Nil}, NEW d,
           d = [q EXCEPT !.state = "DRAFT", !.author = a, !.base = base, !.kind = kind]
    PROVE  d \in AskedRow /\ d.state = "DRAFT"
BY DEF AskedRow, Live

\* A request that ends without being applied leaves no stage and no job.
LEMMA RequestDiscarded ==
    ASSUME ChangeTables, RequestsFit, OneLive, NEW r \in ChangeRequest,
           asked[r].state # "COMPLETED", NEW state \in {"CONFLICT", "CANCELLED", "REJECTED"},
           ChangeTo(r, state), DiscardStage(r), UNCHANGED <<submitted, effect>>
    PROVE  ChangeTables' /\ RequestsFit' /\ OneLive' /\ Completed' = Completed
<1> DEFINE q == [asked[r] EXCEPT !.state = state]
<1>1. RequestFits(asked[r], stage[r], stageJob[r], submitted[r], effect[r])
      /\ asked[r] \in AskedRow
  BY RequestRows DEF RequestFits
<1>2. q \in AskedRow /\ q.state = state
  BY <1>1, AskedState DEF Live
<1>3. asked' = [asked EXCEPT ![r] = q] /\ stage' = [stage EXCEPT ![r] = NoStage]
      /\ stageJob' = [stageJob EXCEPT ![r] = NoStageJob]
      /\ submitted' = [submitted EXCEPT ![r] = submitted[r]]
      /\ effect' = [effect EXCEPT ![r] = effect[r]]
  BY RequestRows DEF ChangeTo, DiscardStage
<1> HIDE DEF q
<1>4. RequestFits(q, NoStage, NoStageJob, submitted[r], effect[r]) /\ q.state \notin Live
  BY <1>1, <1>2, ChangeBlanks DEF RequestFits, Live, Underway
<1>5. /\ ChangeTables' /\ RequestsFit' /\ OneLive'
      /\ Completed' = IF q.state = "COMPLETED" THEN Completed \cup {r} ELSE Completed \ {r}
  <2>1. q.state \in Live => \A x \in ChangeRequest : asked[x].state \in Live => x = r
    BY <1>4
  <2> QED BY <1>3, <1>4, <2>1, RequestMoves
<1>6. q.state # "COMPLETED" /\ r \notin Completed
  BY <1>2 DEF Completed
<1> QED BY <1>5, <1>6

\* What a request that may be applied does to the project is what was submitted.
LEMMA ApplyAsSubmitted ==
    ASSUME ChangeTables, RequestsFit, source \in SourceRow, NEW r \in ChangeRequest,
           asked[r].state \in {"PENDING", "APPLYING", "FAILED"}, ValidSource(r),
           ApplyChange(r, Asks(r))
    PROVE  /\ effect' = [effect EXCEPT ![r] = submitted[r]]
           /\ source' \in SourceRow /\ source'.version <= source.version + 1
<1>1. RequestFits(asked[r], stage[r], stageJob[r], submitted[r], effect[r])
  BY RequestRows
<1>2. Asks(r) = submitted[r] /\ asked[r].base = source.version
  BY <1>1 DEF RequestFits, Asks, ValidSource
<1>3. [Asks(r) EXCEPT !.base = source.version] = submitted[r]
  BY <1>1, <1>2 DEF Asks, RequestFits, Effect
<1>4. source.version \in Nat
  BY DEF SourceRow
<1>5. ASSUME source' = [source EXCEPT !.alive = FALSE]
      PROVE  source' \in SourceRow /\ source'.version <= source.version + 1
  <2>1. source' \in SourceRow /\ source'.version = source.version
    BY <1>5 DEF SourceRow
  <2> QED BY <1>4, <2>1
<1>6. ASSUME NEW owners \in SUBSET Author,
             source' = [source EXCEPT !.version = source.version + 1, !.owners = owners]
      PROVE  source' \in SourceRow /\ source'.version <= source.version + 1
  <2>1. source' = [alive |-> source.alive, version |-> source.version + 1,
                   owners |-> owners]
    BY <1>6 DEF SourceRow
  <2>2. source.alive \in BOOLEAN /\ source.version + 1 \in Nat
    BY <1>4 DEF SourceRow
  <2>3. source' \in SourceRow /\ source'.version = source.version + 1
    BY <2>1, <2>2 DEF SourceRow
  <2> QED BY <1>4, <2>3
<1>7. source' \in SourceRow /\ source'.version <= source.version + 1
  <2>1. \/ source' = [source EXCEPT !.alive = FALSE]
        \/ \E owners \in SUBSET Author :
              source' = [source EXCEPT !.version = source.version + 1, !.owners = owners]
    BY DEF ApplyChange
  <2> QED BY <1>5, <1>6, <2>1
<1> QED BY <1>3, <1>7 DEF ApplyChange

LEMMA StartKeeps ==
    ASSUME ChangeTables, RequestsFit, OneLive, Versions, source \in SourceRow,
           NEW r \in ChangeRequest, asked[r].state \in {"PENDING", "FAILED"},
           StartApplication(r, asked[r].links), UNCHANGED submitted
    PROVE  /\ ChangeTables' /\ RequestsFit' /\ OneLive' /\ Versions'
           /\ source' \in SourceRow
<1>1. /\ RequestFits(asked[r], stage[r], stageJob[r], submitted[r], effect[r])
      /\ asked[r] \in AskedRow /\ stage[r] \in StageRow /\ submitted[r] \in Effect
      /\ stageJob[r] \in StageJob /\ effect[r] \in Effect
  BY RequestRows DEF RequestFits
<1>2. asked[r].state \in Live /\ asked[r].state # "COMPLETED" /\ r \notin Completed
  BY DEF Live, Completed
<1>3. CASE ChangeTo(r, "CONFLICT") /\ DiscardStage(r) /\ UNCHANGED <<source, effect>>
  <2>1. ChangeTables' /\ RequestsFit' /\ OneLive' /\ Completed' = Completed
    BY <1>2, <1>3, RequestDiscarded
  <2>2. Versions'
    BY <2>1, <1>3, VersionCounts
  <2> QED BY <2>1, <2>2, <1>3
<1>4. CASE /\ ValidSource(r) /\ stage[r].at = "none"
           /\ asked' = [asked EXCEPT ![r].state = "COMPLETED", ![r].links = asked[r].links]
           /\ ApplyChange(r, [Asks(r) EXCEPT !.links = asked[r].links])
           /\ UNCHANGED <<stage, stageJob>>
  <2> DEFINE q == [asked[r] EXCEPT !.state = "COMPLETED"]
  <2>1. q \in AskedRow /\ q.state = "COMPLETED"
    BY <1>1, AskedState
  <2>2. asked' = [asked EXCEPT ![r] = q]
    BY <1>1, <1>4 DEF ChangeTables, AskedRow
  <2>3. [Asks(r) EXCEPT !.links = asked[r].links] = Asks(r)
    BY DEF Asks
  <2>4. /\ effect' = [effect EXCEPT ![r] = submitted[r]]
        /\ source' \in SourceRow /\ source'.version <= source.version + 1
    BY <1>4, <2>3, ApplyAsSubmitted
  <2>5. /\ stage' = [stage EXCEPT ![r] = stage[r]]
        /\ stageJob' = [stageJob EXCEPT ![r] = stageJob[r]]
        /\ submitted' = [submitted EXCEPT ![r] = submitted[r]]
    BY <1>4, RequestRows
  <2> HIDE DEF q
  <2>6. RequestFits(q, stage[r], stageJob[r], submitted[r], submitted[r])
    BY <1>1, <1>4, <2>1 DEF RequestFits, Live, Underway
  <2>7. q.state \notin Live
    BY <2>1 DEF Live
  <2>8. ChangeTables' /\ RequestsFit' /\ OneLive'
        /\ Completed' = IF q.state = "COMPLETED" THEN Completed \cup {r} ELSE Completed \ {r}
    BY <2>2, <2>4, <2>5, <2>6, <2>7, RequestMoves
  <2>9. Completed' = Completed \cup {r}
    BY <2>1, <2>8
  <2>10. Versions'
    BY <1>2, <2>4, <2>9, VersionCounts
  <2> QED BY <2>4, <2>8, <2>10
<1>5. CASE /\ ValidSource(r) /\ stage[r].at = "ready"
           /\ asked' = [asked EXCEPT ![r].state = "APPLYING", ![r].links = asked[r].links]
           /\ stageJob' = [stageJob EXCEPT ![r] = [NoStageJob EXCEPT !.state = "PENDING"]]
           /\ UNCHANGED <<source, stage, effect>>
  <2> DEFINE q == [asked[r] EXCEPT !.state = "APPLYING"]
             j == [NoStageJob EXCEPT !.state = "PENDING"]
  <2>1. /\ q \in AskedRow /\ q.state = "APPLYING" /\ q.text = asked[r].text
        /\ q.links = asked[r].links /\ q.base = asked[r].base
    BY <1>1, AskedState DEF Live
  <2>2. asked' = [asked EXCEPT ![r] = q] /\ stageJob' = [stageJob EXCEPT ![r] = j]
    BY <1>1, <1>5 DEF ChangeTables, AskedRow
  <2>3. /\ effect' = [effect EXCEPT ![r] = effect[r]]
        /\ stage' = [stage EXCEPT ![r] = stage[r]]
        /\ submitted' = [submitted EXCEPT ![r] = submitted[r]]
    BY <1>5, RequestRows
  <2>4. j \in StageJob /\ j.state = "PENDING"
    BY ChangeBlanks
  <2> HIDE DEF q, j
  <2>5. RequestFits(q, stage[r], j, submitted[r], effect[r])
    BY <1>1, <1>5, <2>1, <2>4 DEF RequestFits, Live, Underway
  <2>6. \A x \in ChangeRequest : asked[x].state \in Live => x = r
    BY <1>2 DEF OneLive
  <2>7. ChangeTables' /\ RequestsFit' /\ OneLive'
        /\ Completed' = IF q.state = "COMPLETED" THEN Completed \cup {r} ELSE Completed \ {r}
    BY <2>2, <2>3, <2>5, <2>6, RequestMoves
  <2>8. Completed' = Completed
    BY <1>2, <2>1, <2>7
  <2>9. Versions'
    BY <1>5, <2>8, VersionCounts
  <2> QED BY <1>5, <2>7, <2>9
<1> QED BY <1>3, <1>4, <1>5 DEF StartApplication

\* A pass and a call that begin, move on or end are about a request.
LEMMA PassIsOf ==
    ASSUME CallsFit, UNCHANGED review, NEW p \in Publisher,
           NEW at \in {"away", "validating", "copying", "completing"},
           NEW of \in ChangeRequest \cup {Nil}, at # "away" => of \in ChangeRequest,
           pass' = [pass EXCEPT ![p] = [at |-> at, of |-> of]]
    PROVE  CallsFit'
BY DEF CallsFit

LEMMA PassMovesOn ==
    ASSUME CallsFit, UNCHANGED review, NEW p \in Publisher, pass[p].at # "away",
           PassOver(p) \/ PassTo(p, "copying") \/ PassTo(p, "completing")
    PROVE  CallsFit'
<1>1. /\ pass[p].of \in ChangeRequest
      /\ pass[p] \in [at : {"away", "validating", "copying", "completing"},
                      of : ChangeRequest \cup {Nil}]
  BY DEF CallsFit
<1>2. CASE PassOver(p)
  BY <1>2, PassIsOf DEF PassOver, Off
<1>3. ASSUME NEW l \in {"copying", "completing"}, PassTo(p, l)
      PROVE  CallsFit'
  <2>1. [pass[p] EXCEPT !.at = l] = [at |-> l, of |-> pass[p].of]
    BY <1>1
  <2>2. pass' = [pass EXCEPT ![p] = [pass[p] EXCEPT !.at = l]]
    BY <1>3 DEF PassTo, CallsFit
  <2> QED BY <1>1, <2>1, <2>2, PassIsOf
<1> QED BY <1>2, <1>3

LEMMA GiveUpKeeps ==
    ASSUME ChangeTables, RequestsFit, OneLive, Versions, source \in SourceRow,
           NEW p \in Publisher, pass[p].of \in ChangeRequest,
           stageJob[pass[p].of].state \in {"PENDING", "PROCESSING", "FAILED"},
           GiveUpApplication(p), UNCHANGED <<source, submitted, effect>>
    PROVE  ChangeTables' /\ RequestsFit' /\ OneLive' /\ Versions'
<1> DEFINE r == pass[p].of
<1>1. RequestFits(asked[r], stage[r], stageJob[r], submitted[r], effect[r])
  BY RequestRows
<1>2. asked[r].state # "COMPLETED"
  BY <1>1 DEF RequestFits, Underway
<1>3. ChangeTo(r, "CONFLICT") /\ DiscardStage(r)
  BY DEF GiveUpApplication
<1>4. ChangeTables' /\ RequestsFit' /\ OneLive' /\ Completed' = Completed
  BY <1>2, <1>3, RequestDiscarded
<1> QED BY <1>4, VersionCounts

\* The author and the operators around a request.
LEMMA AuthorKeeps ==
    ASSUME ChangeInv, NEW r \in ChangeRequest,
           \/ \E a \in Author : CreateRequest(r, a)
           \/ UpdateDraft(r) \/ FilesReady(r) \/ SubmitRequest(r) \/ CancelRequest(r)
           \/ RejectRequest(r)
    PROVE  ChangeInv'
<1> USE DEF ChangeInv
<1>1. /\ RequestFits(asked[r], stage[r], stageJob[r], submitted[r], effect[r])
      /\ asked[r] \in AskedRow /\ stage[r] \in StageRow /\ submitted[r] \in Effect
      /\ stageJob[r] \in StageJob /\ effect[r] \in Effect
      /\ asked = [asked EXCEPT ![r] = asked[r]] /\ stage = [stage EXCEPT ![r] = stage[r]]
      /\ stageJob = [stageJob EXCEPT ![r] = stageJob[r]]
      /\ submitted = [submitted EXCEPT ![r] = submitted[r]]
      /\ effect = [effect EXCEPT ![r] = effect[r]]
  BY RequestRows DEF RequestFits
<1>2. ASSUME UNCHANGED <<source, pass, review>>,
             ChangeTables', RequestsFit', OneLive', Completed' = Completed
      PROVE  ChangeInv'
  <2>1. Versions'
    BY <1>2, VersionCounts
  <2>2. CallsFit'
    BY <1>2 DEF CallsFit
  <2> QED BY <1>2, <2>1, <2>2
<1>3. asked[r].state \in {"DRAFT", "PENDING"} => asked[r].state \in Live
  BY DEF Live
<1>4. asked[r].state \in Live => \A x \in ChangeRequest : asked[x].state \in Live => x = r
  BY DEF OneLive
<1>5. asked[r].state # "COMPLETED" => r \notin Completed
  BY DEF Completed
<1>6. ASSUME NEW a \in Author, CreateRequest(r, a)
      PROVE  ChangeInv'
  <2> PICK kind \in {"EDIT", "DELETE"} :
         asked' = [asked EXCEPT ![r] = [@ EXCEPT !.state = "DRAFT", !.author = a,
                                          !.base = source.version, !.kind = kind]]
    BY <1>6 DEF CreateRequest
  <2> DEFINE q == [asked[r] EXCEPT !.state = "DRAFT", !.author = a,
                                   !.base = source.version, !.kind = kind]
  <2>1. asked' = [asked EXCEPT ![r] = q]
    BY DEF ChangeTables
  <2>2. source.version \in Nat
    BY DEF SourceRow
  <2>3. q = [asked[r] EXCEPT !.state = "DRAFT", !.author = a,
                             !.base = source.version, !.kind = kind]
    OBVIOUS
  <2> HIDE DEF q
  <2>4. q \in AskedRow /\ q.state = "DRAFT"
    <3>1. asked[r] \in AskedRow /\ a \in Author \cup {Nil}
      BY <1>1
    <3> QED BY ONLY <2>2, <2>3, <3>1, AskedDraft, kind \in {"EDIT", "DELETE"}, ZenonT(40)
  <2>5. asked[r].state = "NONE" /\ (\A x \in ChangeRequest : asked[x].state \notin Live)
        /\ UNCHANGED <<source, stage, stageJob, pass, review, submitted, effect>>
    BY <1>6 DEF CreateRequest
  <2>6. RequestFits(q, stage[r], stageJob[r], submitted[r], effect[r])
    BY <1>1, <2>4, <2>5 DEF RequestFits, Live, Underway
  <2>7. ChangeTables' /\ RequestsFit' /\ OneLive'
        /\ Completed' = IF q.state = "COMPLETED" THEN Completed \cup {r} ELSE Completed \ {r}
    <3>1. /\ stage' = [stage EXCEPT ![r] = stage[r]]
          /\ stageJob' = [stageJob EXCEPT ![r] = stageJob[r]]
          /\ submitted' = [submitted EXCEPT ![r] = submitted[r]]
          /\ effect' = [effect EXCEPT ![r] = effect[r]]
      BY <1>1, <2>5
    <3>2. q.state \in Live => \A x \in ChangeRequest : asked[x].state \in Live => x = r
      BY <2>5
    <3>3. ChangeTables /\ RequestsFit /\ OneLive
      OBVIOUS
    <3> QED BY ONLY <2>1, <2>6, <3>1, <3>2, <3>3, RequestMoves, r \in ChangeRequest
  <2> QED BY <1>2, <1>5, <2>4, <2>5, <2>7
<1>7. CASE UpdateDraft(r)
  <2>1. asked[r].state = "DRAFT" /\ UNCHANGED <<source, pass, review, submitted, effect>>
    BY <1>7 DEF UpdateDraft
  <2>2. ASSUME NEW q, NEW t, NEW j, asked' = [asked EXCEPT ![r] = q],
               stage' = [stage EXCEPT ![r] = t], stageJob' = [stageJob EXCEPT ![r] = j],
               q \in AskedRow, t \in StageRow, j \in StageJob, q.state = "DRAFT",
               t.at \in {"none", "filling", stage[r].at}, j.state \in {"NONE", stageJob[r].state}
        PROVE  ChangeInv'
    <3>1. RequestFits(q, t, j, submitted[r], effect[r])
      BY <1>1, <2>1, <2>2 DEF RequestFits, Live, Underway
    <3>2. ChangeTables' /\ RequestsFit' /\ OneLive'
          /\ Completed' = IF q.state = "COMPLETED" THEN Completed \cup {r} ELSE Completed \ {r}
      BY <1>1, <1>3, <1>4, <2>1, <2>2, <3>1, RequestMoves
    <3> QED BY <1>2, <1>5, <2>1, <2>2, <3>2
  <2>3. CASE /\ \E t, l \in Draft \cup {Nil} :
                   asked' = [asked EXCEPT ![r].text = t, ![r].links = l]
             /\ UNCHANGED <<stage, stageJob>>
    <3> PICK t \in Draft \cup {Nil}, l \in Draft \cup {Nil} :
                asked' = [asked EXCEPT ![r].text = t, ![r].links = l]
      BY <2>3
    <3> DEFINE q == [asked[r] EXCEPT !.text = t, !.links = l]
    <3>1. asked' = [asked EXCEPT ![r] = q]
      BY DEF ChangeTables
    <3>2. q \in AskedRow /\ q.state = "DRAFT"
      BY <1>1, <2>1 DEF AskedRow, Content
    <3> HIDE DEF q
    <3> QED BY <1>1, <2>2, <2>3, <3>1, <3>2
  <2>4. CASE DiscardStage(r) /\ UNCHANGED asked
    BY <1>1, <2>1, <2>2, <2>4, ChangeBlanks DEF DiscardStage
  <2>5. CASE /\ \E f \in Draft :
                   stage' = [stage EXCEPT ![r] = [at |-> "filling", files |-> f]]
             /\ UNCHANGED <<asked, stageJob>>
    <3> PICK f \in Draft :
                stage' = [stage EXCEPT ![r] = [at |-> "filling", files |-> f]]
      BY <2>5
    <3> DEFINE t == [at |-> "filling", files |-> f]
    <3>1. t \in StageRow /\ t.at = "filling"
      BY DEF StageRow, Content
    <3> QED BY <1>1, <2>1, <2>2, <2>5, <3>1
  <2> QED BY <1>7, <2>3, <2>4, <2>5 DEF UpdateDraft
<1>8. CASE FilesReady(r)
  <2> DEFINE t == [stage[r] EXCEPT !.at = "ready"]
  <2>1. stage[r].at = "filling" /\ stage' = [stage EXCEPT ![r] = t]
        /\ UNCHANGED <<source, asked, stageJob, pass, review, submitted, effect>>
    BY <1>8 DEF FilesReady, ChangeTables
  <2>2. t \in StageRow /\ t.at = "ready"
    BY <1>1 DEF StageRow
  <2>3. asked[r].state = "DRAFT"
    BY <1>1, <2>1 DEF RequestFits
  <2> HIDE DEF t
  <2>4. RequestFits(asked[r], t, stageJob[r], submitted[r], effect[r])
    BY <1>1, <2>2, <2>3 DEF RequestFits, Live
  <2>5. ChangeTables' /\ RequestsFit' /\ OneLive'
        /\ Completed' = IF asked[r].state = "COMPLETED" THEN Completed \cup {r}
                        ELSE Completed \ {r}
    <3>1. /\ asked' = [asked EXCEPT ![r] = asked[r]]
          /\ stageJob' = [stageJob EXCEPT ![r] = stageJob[r]]
          /\ submitted' = [submitted EXCEPT ![r] = submitted[r]]
          /\ effect' = [effect EXCEPT ![r] = effect[r]]
      BY <1>1, <2>1
    <3>2. asked[r].state \in Live => \A x \in ChangeRequest : asked[x].state \in Live => x = r
      BY <1>4
    <3>3. ChangeTables /\ RequestsFit /\ OneLive /\ stage' = [stage EXCEPT ![r] = t]
      BY <2>1
    <3> QED BY ONLY <2>4, <3>1, <3>2, <3>3, RequestMoves, r \in ChangeRequest
  <2> QED BY <1>2, <1>5, <2>1, <2>3, <2>5
<1>9. CASE SubmitRequest(r)
  <2> DEFINE q == [asked[r] EXCEPT !.state = "PENDING"]
  <2>1. /\ asked[r].state = "DRAFT" /\ stage[r].at # "filling"
        /\ asked' = [asked EXCEPT ![r] = q]
        /\ submitted' = [submitted EXCEPT ![r] = Asks(r)]
        /\ UNCHANGED <<source, stage, stageJob, pass, review, effect>>
    BY <1>9 DEF SubmitRequest, ChangeTo, ChangeTables
  <2>2. /\ q \in AskedRow /\ q.state = "PENDING" /\ q.text = asked[r].text
        /\ q.links = asked[r].links /\ q.base = asked[r].base
    BY <1>1, AskedState DEF Live
  <2> HIDE DEF q
  <2>3. Asks(r) \in Effect
    BY <1>1 DEF Asks, Effect, AskedRow, StageRow
  <2>4. RequestFits(q, stage[r], stageJob[r], Asks(r), effect[r])
    BY <1>1, <2>1, <2>2, <2>3 DEF RequestFits, Live, Underway, Asks
  <2>5. ChangeTables' /\ RequestsFit' /\ OneLive'
        /\ Completed' = IF q.state = "COMPLETED" THEN Completed \cup {r} ELSE Completed \ {r}
    BY <1>1, <1>3, <1>4, <2>1, <2>4, RequestMoves
  <2> QED BY <1>2, <1>5, <2>1, <2>2, <2>5
<1>10. CASE CancelRequest(r) \/ RejectRequest(r)
  <2>1. /\ asked[r].state # "COMPLETED" /\ DiscardStage(r)
        /\ \E state \in {"CONFLICT", "CANCELLED", "REJECTED"} : ChangeTo(r, state)
        /\ UNCHANGED <<source, pass, review, submitted, effect>>
    BY <1>10 DEF CancelRequest, RejectRequest
  <2>2. ChangeTables' /\ RequestsFit' /\ OneLive' /\ Completed' = Completed
    BY <2>1, RequestDiscarded
  <2> QED BY <1>2, <2>1, <2>2
<1> QED BY <1>6, <1>7, <1>8, <1>9, <1>10

\* The operators, and those who change or delete the project meanwhile.
LEMMA OperatorsKeep ==
    ASSUME ChangeInv,
           \/ \E o \in Operator : FinishReview(o) \/ \E r \in ChangeRequest : BeginReview(o, r)
           \/ EditSource \/ DeleteSource
    PROVE  ChangeInv'
<1> USE DEF ChangeInv
<1>1. ASSUME NEW o \in Operator, NEW r \in ChangeRequest, BeginReview(o, r)
      PROVE  ChangeInv'
  <2>1. UNCHANGED <<source, asked, stage, stageJob, pass, submitted, effect>>
    BY <1>1 DEF BeginReview
  <2>2. asked[r].links \in Content
    BY RequestRows DEF RequestFits, AskedRow
  <2>3. PICK action \in {"approve", "retry"}, links \in Content :
           review' = [review EXCEPT ![o] = [at |-> "resolving", of |-> r,
                                            action |-> action, links |-> links]]
    BY <1>1, <2>2 DEF BeginReview, Content
  <2>4. CallsFit'
    BY <2>1, <2>3 DEF CallsFit
  <2> QED BY <2>1, <2>4 DEF ChangeTables, RequestsFit, OneLive, Versions, Completed
<1>2. ASSUME NEW o \in Operator, FinishReview(o)
      PROVE  ChangeInv'
  <2> DEFINE r == review[o].of
  <2>1. r \in ChangeRequest
    BY <1>2 DEF FinishReview, CallsFit
  <2>2. CallsFit'
    BY <1>2 DEF FinishReview, CallsFit, NoCall, Content
  <2>3. CASE UNCHANGED <<source, asked, stage, stageJob, effect>>
    <3>1. UNCHANGED submitted
      BY <1>2 DEF FinishReview
    <3> QED BY <2>2, <2>3, <3>1
            DEF ChangeTables, RequestsFit, OneLive, Versions, Completed
  <2>4. CASE /\ asked[r].state = Awaited(o) /\ asked[r].links = review[o].links
             /\ StartApplication(r, review[o].links)
    <3>1. asked[r].state \in {"PENDING", "FAILED"} /\ UNCHANGED submitted
          /\ StartApplication(r, asked[r].links)
      BY <1>2, <2>4 DEF FinishReview, Awaited
    <3> HIDE DEF r
    <3>2. /\ ChangeTables' /\ RequestsFit' /\ OneLive' /\ Versions'
          /\ source' \in SourceRow
      BY <2>1, <3>1, StartKeeps
    <3> QED BY <2>2, <3>2
  <2> QED BY <1>2, <2>3, <2>4 DEF FinishReview
<1>3. CASE EditSource
  <2>1. UNCHANGED <<asked, stage, stageJob, pass, review, submitted, effect>>
    BY <1>3 DEF EditSource
  <2>2. source' \in SourceRow /\ source'.version <= MaxEdits
    <3> PICK owners \in SUBSET Author : Edited(owners)
      BY <1>3 DEF EditSource
    <3>1. source.version \in Nat /\ source.version < MaxEdits
      BY DEF Edited, SourceRow
    <3>2. source.version + 1 \in Nat /\ source.version + 1 <= MaxEdits
      BY <3>1, MaxEditsInNat
    <3>3. source' = [alive |-> source.alive, version |-> source.version + 1,
                     owners |-> owners]
      BY DEF Edited, SourceRow
    <3> QED BY <3>2, <3>3 DEF SourceRow
  <2>3. Completed' = Completed
    BY <2>1 DEF Completed
  <2>4. Versions'
    BY <2>2, <2>3, VersionCounts
  <2> QED BY <2>1, <2>2, <2>4 DEF ChangeTables, RequestsFit, OneLive, CallsFit
<1>4. CASE DeleteSource
  <2>1. /\ source' = [source EXCEPT !.alive = FALSE]
        /\ UNCHANGED <<pass, review, submitted, effect>>
    BY <1>4 DEF DeleteSource
  <2>2. /\ asked' = [x \in ChangeRequest |->
                         IF asked[x].state \in Live
                         THEN [asked[x] EXCEPT !.state = "CONFLICT"] ELSE asked[x]]
        /\ stage' = [x \in ChangeRequest |-> NoStage]
        /\ stageJob' = [x \in ChangeRequest |-> NoStageJob]
    BY <1>4 DEF DeleteSource
  <2>3. ASSUME NEW x \in ChangeRequest
        PROVE  /\ RequestFits(asked'[x], NoStage, NoStageJob, submitted[x], effect[x])
               /\ asked'[x].state \notin Live
               /\ asked'[x].state = "COMPLETED" <=> asked[x].state = "COMPLETED"
    <3>1. /\ RequestFits(asked[x], stage[x], stageJob[x], submitted[x], effect[x])
          /\ asked[x] \in AskedRow
      BY RequestRows DEF RequestFits
    <3>2. CASE asked[x].state \in Live
      <4> DEFINE q == [asked[x] EXCEPT !.state = "CONFLICT"]
      <4>1. asked'[x] = q
        BY <2>2, <3>2
      <4>2. q \in AskedRow /\ q.state = "CONFLICT"
        BY <3>1, AskedState DEF Live
      <4> HIDE DEF q
      <4> QED BY <3>1, <3>2, <4>1, <4>2, ChangeBlanks DEF RequestFits, Live, Underway
    <3>3. CASE asked[x].state \notin Live
      <4>1. asked'[x] = asked[x]
        BY <2>2, <3>3
      <4> QED BY <3>1, <3>3, <4>1, ChangeBlanks DEF RequestFits, Live, Underway
    <3> QED BY <3>2, <3>3
  <2>4. ChangeTables'
    BY <2>1, <2>2 DEF ChangeTables
  <2>5. RequestsFit' /\ OneLive'
    BY <2>1, <2>2, <2>3 DEF RequestsFit, OneLive
  <2>6. Completed' = Completed
    BY <2>3 DEF Completed
  <2>7. source' \in SourceRow /\ source'.version = source.version
    BY <2>1 DEF SourceRow
  <2>8. Versions'
    BY <2>6, <2>7, VersionCounts
  <2>9. CallsFit'
    BY <2>1 DEF CallsFit
  <2> QED BY <2>4, <2>5, <2>7, <2>8, <2>9
<1> QED BY <1>1, <1>2, <1>3, <1>4

\* A step of a job that is not about to end its request.
LEMMA StageJobMoves ==
    ASSUME ChangeInv, NEW r \in ChangeRequest, NEW j \in StageJob,
           stageJob' = [stageJob EXCEPT ![r] = j],
           j.state \in Underway <=> stageJob[r].state \in Underway,
           j.state # "FAILED" \/ stageJob[r].state = "FAILED",
           UNCHANGED <<source, asked, stage, submitted, effect>>
    PROVE  ChangeTables' /\ RequestsFit' /\ OneLive' /\ Versions'
<1> USE DEF ChangeInv
<1>1. /\ RequestFits(asked[r], stage[r], stageJob[r], submitted[r], effect[r])
      /\ asked' = [asked EXCEPT ![r] = asked[r]] /\ stage' = [stage EXCEPT ![r] = stage[r]]
      /\ submitted' = [submitted EXCEPT ![r] = submitted[r]]
      /\ effect' = [effect EXCEPT ![r] = effect[r]]
  BY RequestRows
<1>2. RequestFits(asked[r], stage[r], j, submitted[r], effect[r])
  BY <1>1 DEF RequestFits
<1>3. asked[r].state \in Live => \A x \in ChangeRequest : asked[x].state \in Live => x = r
  BY DEF OneLive
<1>4. /\ ChangeTables' /\ RequestsFit' /\ OneLive'
      /\ Completed' = IF asked[r].state = "COMPLETED" THEN Completed \cup {r}
                      ELSE Completed \ {r}
  <2>1. ChangeTables /\ RequestsFit /\ OneLive
    OBVIOUS
  <2>2. stageJob' = [stageJob EXCEPT ![r] = j]
    OBVIOUS
  <2> QED BY ONLY <1>1, <1>2, <1>3, <2>1, <2>2, r \in ChangeRequest, RequestMoves
<1>5. Completed' = Completed
  BY DEF Completed
<1> QED BY <1>4, <1>5, VersionCounts

LEMMA JobFails ==
    ASSUME ChangeInv, NEW r \in ChangeRequest, asked[r].state = "APPLYING",
           stageJob' = [stageJob EXCEPT ![r] = [NoStageJob EXCEPT !.state = "FAILED"]],
           ChangeTo(r, "FAILED"), UNCHANGED <<source, stage, submitted, effect>>
    PROVE  ChangeTables' /\ RequestsFit' /\ OneLive' /\ Versions'
<1> USE DEF ChangeInv
<1> DEFINE q == [asked[r] EXCEPT !.state = "FAILED"]
           j == [NoStageJob EXCEPT !.state = "FAILED"]
<1>1. /\ RequestFits(asked[r], stage[r], stageJob[r], submitted[r], effect[r])
      /\ asked[r] \in AskedRow
  BY RequestRows DEF RequestFits
<1>2. /\ q \in AskedRow /\ q.state = "FAILED" /\ q.text = asked[r].text
      /\ q.links = asked[r].links /\ q.base = asked[r].base
      /\ j \in StageJob /\ j.state = "FAILED"
  BY <1>1, AskedState, ChangeBlanks DEF Live
<1>3. /\ asked' = [asked EXCEPT ![r] = q] /\ stage' = [stage EXCEPT ![r] = stage[r]]
      /\ stageJob' = [stageJob EXCEPT ![r] = j]
      /\ submitted' = [submitted EXCEPT ![r] = submitted[r]]
      /\ effect' = [effect EXCEPT ![r] = effect[r]]
  BY RequestRows DEF ChangeTo, ChangeTables
<1> HIDE DEF q, j
<1>4. RequestFits(q, stage[r], j, submitted[r], effect[r])
  BY <1>1, <1>2 DEF RequestFits, Live, Underway
<1>5. q.state \in Live => \A x \in ChangeRequest : asked[x].state \in Live => x = r
  BY DEF OneLive, Live
<1>6. /\ ChangeTables' /\ RequestsFit' /\ OneLive'
      /\ Completed' = IF q.state = "COMPLETED" THEN Completed \cup {r} ELSE Completed \ {r}
  <2>1. ChangeTables /\ RequestsFit /\ OneLive
    OBVIOUS
  <2> QED BY ONLY <1>3, <1>4, <1>5, <2>1, r \in ChangeRequest, RequestMoves
<1>7. Completed' = Completed
  BY <1>2, <1>6 DEF Completed
<1> QED BY <1>6, <1>7, VersionCounts

LEMMA JobCompletes ==
    ASSUME ChangeInv, NEW r \in ChangeRequest, asked[r].state = "APPLYING", ValidSource(r),
           ApplyChange(r, Asks(r)), ChangeTo(r, "COMPLETED"),
           stageJob' = [stageJob EXCEPT ![r] = [NoStageJob EXCEPT !.state = "COMPLETED"]],
           stage' = [stage EXCEPT ![r].at = "moved"], UNCHANGED submitted
    PROVE  ChangeTables' /\ RequestsFit' /\ OneLive' /\ Versions' /\ source' \in SourceRow
<1> USE DEF ChangeInv
<1> DEFINE q == [asked[r] EXCEPT !.state = "COMPLETED"]
           j == [NoStageJob EXCEPT !.state = "COMPLETED"]
           t == [stage[r] EXCEPT !.at = "moved"]
<1>1. /\ RequestFits(asked[r], stage[r], stageJob[r], submitted[r], effect[r])
      /\ asked[r] \in AskedRow /\ stage[r] \in StageRow
  BY RequestRows DEF RequestFits
<1>2. /\ q \in AskedRow /\ q.state = "COMPLETED" /\ j \in StageJob /\ j.state = "COMPLETED"
      /\ t \in StageRow /\ t.at = "moved"
  <2>1. q \in AskedRow /\ q.state = "COMPLETED"
    BY <1>1, AskedState
  <2>2. t \in StageRow /\ t.at = "moved"
    BY <1>1 DEF StageRow
  <2> QED BY <2>1, <2>2, ChangeBlanks
<1>3. /\ asked' = [asked EXCEPT ![r] = q] /\ stage' = [stage EXCEPT ![r] = t]
      /\ stageJob' = [stageJob EXCEPT ![r] = j]
      /\ submitted' = [submitted EXCEPT ![r] = submitted[r]]
  BY RequestRows DEF ChangeTo, ChangeTables
<1>4. /\ effect' = [effect EXCEPT ![r] = submitted[r]]
      /\ source' \in SourceRow /\ source'.version <= source.version + 1
  BY ApplyAsSubmitted
<1> HIDE DEF q, j, t
<1>5. RequestFits(q, t, j, submitted[r], submitted[r])
  BY <1>1, <1>2 DEF RequestFits, Underway
<1>6. q.state \in Live => \A x \in ChangeRequest : asked[x].state \in Live => x = r
  BY <1>2 DEF Live
<1>7. /\ ChangeTables' /\ RequestsFit' /\ OneLive'
      /\ Completed' = IF q.state = "COMPLETED" THEN Completed \cup {r} ELSE Completed \ {r}
  <2>1. ChangeTables /\ RequestsFit /\ OneLive
    OBVIOUS
  <2> QED BY ONLY <1>3, <1>4, <1>5, <1>6, <2>1, r \in ChangeRequest, RequestMoves
<1>8. r \notin Completed /\ Completed' = Completed \cup {r}
  BY <1>2, <1>7 DEF Completed
<1>9. Versions'
  BY <1>4, <1>8, VersionCounts
<1> QED BY <1>4, <1>7, <1>9

\* The publication worker.
LEMMA PublishersKeep ==
    ASSUME ChangeInv, NEW p \in Publisher,
           \/ \E r \in ChangeRequest : ClaimStageJob(p, r)
           \/ ValidateStagePlan(p) \/ CopyStage(p) \/ CompleteStage(p) \/ StagePassErrs(p)
    PROVE  ChangeInv'
<1> USE DEF ChangeInv
<1>1. ASSUME NEW r \in ChangeRequest
      PROVE  /\ RequestFits(asked[r], stage[r], stageJob[r], submitted[r], effect[r])
             /\ stageJob[r] \in StageJob
  BY <1>1, RequestRows DEF RequestFits
<1>2. ASSUME NEW r \in ChangeRequest, ClaimStageJob(p, r)
      PROVE  ChangeInv'
  <2> DEFINE j == [state |-> "PROCESSING", claim |-> p, lapsed |-> FALSE]
  <2>1. /\ stageJob[r].state \in Underway /\ stageJob' = [stageJob EXCEPT ![r] = j]
        /\ pass' = [pass EXCEPT ![p] = [at |-> "validating", of |-> r]]
        /\ UNCHANGED <<source, asked, stage, review, submitted, effect>>
    BY <1>2 DEF ClaimStageJob, Underway
  <2>2. j \in StageJob /\ j.state = "PROCESSING"
    BY DEF StageJob
  <2> HIDE DEF j
  <2>3. ChangeTables' /\ RequestsFit' /\ OneLive' /\ Versions'
    BY <2>1, <2>2, StageJobMoves DEF Underway
  <2>4. CallsFit'
    BY <2>1, PassIsOf
  <2> QED BY <2>1, <2>3, <2>4
<1> DEFINE r == pass[p].of
<1>4. ASSUME pass[p].at # "away", TokenOfPass(p)
      PROVE  /\ r \in ChangeRequest /\ stageJob[r].state = "PROCESSING"
             /\ asked[r].state = "APPLYING"
  <2>1. r \in ChangeRequest
    BY <1>4 DEF CallsFit
  <2>2. stageJob[r].state = "PROCESSING"
    BY <1>4 DEF TokenOfPass
  <2> QED BY <1>1, <2>1, <2>2 DEF RequestFits, Underway
<1>5. CASE ValidateStagePlan(p)
  <2>1. /\ pass[p].at # "away" /\ r \in ChangeRequest
        /\ stageJob[r].state \in {"PENDING", "PROCESSING", "FAILED"}
        /\ UNCHANGED <<source, review, submitted, effect>>
    BY <1>5 DEF ValidateStagePlan, CallsFit
  <2>2. CASE GiveUpApplication(p)
    <3>1. ChangeTables' /\ RequestsFit' /\ OneLive' /\ Versions'
      BY <2>1, <2>2, GiveUpKeeps
    <3>2. CallsFit'
      BY <2>1, <2>2, PassMovesOn DEF GiveUpApplication
    <3> QED BY <2>1, <3>1, <3>2
  <2>3. CASE PassTo(p, "copying") /\ UNCHANGED <<asked, stageJob, stage>>
    <3>1. CallsFit'
      BY <2>1, <2>3, PassMovesOn
    <3> QED BY <2>1, <2>3, <3>1
            DEF ChangeTables, RequestsFit, OneLive, Versions, Completed
  <2>4. CASE /\ asked[r].state = "APPLYING"
             /\ stageJob' = [stageJob EXCEPT ![r] = [NoStageJob EXCEPT !.state = "FAILED"]]
             /\ ChangeTo(r, "FAILED") /\ PassOver(p) /\ UNCHANGED stage
    <3>1. CallsFit'
      BY <2>1, <2>4, PassMovesOn
    <3> HIDE DEF r
    <3>2. ChangeTables' /\ RequestsFit' /\ OneLive' /\ Versions'
      BY <2>1, <2>4, JobFails
    <3> QED BY <2>1, <3>1, <3>2
  <2> QED BY <1>5, <2>2, <2>3, <2>4 DEF ValidateStagePlan
<1>6. CASE CopyStage(p)
  <2>1. /\ pass[p].at # "away" /\ PassTo(p, "completing")
        /\ UNCHANGED <<source, asked, stage, stageJob, review, submitted, effect>>
    BY <1>6 DEF CopyStage
  <2>2. CallsFit'
    BY <2>1, PassMovesOn
  <2> QED BY <2>1, <2>2 DEF ChangeTables, RequestsFit, OneLive, Versions, Completed
<1>7. CASE CompleteStage(p)
  <2>1. /\ r \in ChangeRequest /\ stageJob[r].state = "PROCESSING"
        /\ asked[r].state = "APPLYING" /\ pass[p].at # "away" /\ PassOver(p)
        /\ UNCHANGED <<review, submitted>>
    BY <1>4, <1>7 DEF CompleteStage, GiveUpApplication
  <2>2. CallsFit'
    BY <2>1, PassMovesOn
  <2>3. CASE GiveUpApplication(p) /\ UNCHANGED <<source, effect>>
    <3>1. ChangeTables' /\ RequestsFit' /\ OneLive' /\ Versions'
      BY <2>1, <2>3, GiveUpKeeps
    <3> QED BY <2>2, <2>3, <3>1
  <2>4. CASE /\ ValidSource(r) /\ ApplyChange(r, Asks(r)) /\ ChangeTo(r, "COMPLETED")
             /\ stageJob' = [stageJob EXCEPT ![r] = [NoStageJob EXCEPT !.state = "COMPLETED"]]
             /\ stage' = [stage EXCEPT ![r].at = "moved"]
    <3> HIDE DEF r
    <3>1. ChangeTables' /\ RequestsFit' /\ OneLive' /\ Versions' /\ source' \in SourceRow
      BY <2>1, <2>4, JobCompletes
    <3> QED BY <2>2, <3>1
  <2> QED BY <1>7, <2>3, <2>4 DEF CompleteStage
<1>8. CASE StagePassErrs(p)
  <2>1. /\ pass[p].at # "away" /\ PassOver(p)
        /\ UNCHANGED <<source, stage, review, submitted, effect>>
    BY <1>8 DEF StagePassErrs
  <2>2. CallsFit'
    BY <2>1, PassMovesOn
  <2>3. CASE UNCHANGED <<stageJob, asked>>
    BY <2>1, <2>2, <2>3 DEF ChangeTables, RequestsFit, OneLive, Versions, Completed
  <2>4. CASE /\ TokenOfPass(p) /\ UNCHANGED asked
             /\ stageJob' = [stageJob EXCEPT ![r] = [NoStageJob EXCEPT !.state = "PENDING"]]
    <3>1. r \in ChangeRequest /\ stageJob[r].state = "PROCESSING"
      BY <1>4, <2>1, <2>4
    <3> HIDE DEF r
    <3>2. ChangeTables' /\ RequestsFit' /\ OneLive' /\ Versions'
      BY <2>1, <2>4, <3>1, ChangeBlanks, StageJobMoves DEF Underway
    <3> QED BY <2>1, <2>2, <3>2
  <2>5. CASE /\ TokenOfPass(p)
             /\ stageJob' = [stageJob EXCEPT ![r] = [NoStageJob EXCEPT !.state = "FAILED"]]
             /\ ChangeTo(r, IF asked[r].state = "APPLYING" THEN "FAILED" ELSE asked[r].state)
    <3>1. r \in ChangeRequest /\ asked[r].state = "APPLYING"
      BY <1>4, <2>1, <2>5
    <3>2. ChangeTo(r, "FAILED")
      BY <2>5, <3>1
    <3> HIDE DEF r
    <3>3. ChangeTables' /\ RequestsFit' /\ OneLive' /\ Versions'
      BY <2>1, <2>5, <3>1, <3>2, JobFails
    <3> QED BY <2>1, <2>2, <3>3
  <2> QED BY <1>8, <2>3, <2>4, <2>5 DEF StagePassErrs
<1> QED BY <1>2, <1>5, <1>6, <1>7, <1>8

\* A lease lapses whoever holds it.
LEMMA StageLeaseLapses ==
    ASSUME ChangeInv, NEW r \in ChangeRequest, StageJobLapses(r) PROVE ChangeInv'
<1> USE DEF ChangeInv
<1> DEFINE j == [stageJob[r] EXCEPT !.lapsed = TRUE]
<1>1. /\ stageJob' = [stageJob EXCEPT ![r] = j]
      /\ UNCHANGED <<source, asked, stage, pass, review, submitted, effect>>
  BY DEF StageJobLapses, ChangeTables
<1>2. j \in StageJob /\ j.state = stageJob[r].state
  <2>1. stageJob[r] \in StageJob
    BY RequestRows DEF RequestFits
  <2> QED BY <2>1 DEF StageJob
<1> HIDE DEF j
<1>3. ChangeTables' /\ RequestsFit' /\ OneLive' /\ Versions'
  BY <1>1, <1>2, StageJobMoves
<1>4. CallsFit'
  BY <1>1 DEF CallsFit
<1> QED BY <1>1, <1>3, <1>4

LEMMA ChangeStep == ChangeInv /\ [ChangeNext]_changeVars => ChangeInv'
<1> SUFFICES ASSUME ChangeInv, [ChangeNext]_changeVars PROVE ChangeInv'
  OBVIOUS
<1>1. ASSUME NEW r \in ChangeRequest,
             \/ \E a \in Author : CreateRequest(r, a)
             \/ UpdateDraft(r) \/ FilesReady(r) \/ SubmitRequest(r) \/ CancelRequest(r)
             \/ RejectRequest(r)
      PROVE  ChangeInv'
  BY <1>1, AuthorKeeps
<1>2. ASSUME NEW r \in ChangeRequest, StageJobLapses(r) PROVE ChangeInv'
  BY <1>2, StageLeaseLapses
<1>3. ASSUME NEW o \in Operator, NEW r \in ChangeRequest, BeginReview(o, r) PROVE ChangeInv'
  BY <1>3, OperatorsKeep
<1>4. ASSUME NEW p \in Publisher, NEW r \in ChangeRequest, ClaimStageJob(p, r)
      PROVE  ChangeInv'
  BY <1>4, PublishersKeep
<1>5. CASE (\E o \in Operator : FinishReview(o)) \/ EditSource \/ DeleteSource
  BY <1>5, OperatorsKeep
<1>6. ASSUME NEW p \in Publisher,
             ValidateStagePlan(p) \/ CopyStage(p) \/ CompleteStage(p) \/ StagePassErrs(p)
      PROVE  ChangeInv'
  BY <1>6, PublishersKeep
<1>7. CASE UNCHANGED changeVars
  BY <1>7 DEF changeVars, ChangeInv, ChangeTables, RequestsFit, OneLive, CallsFit,
              Versions, Completed
<1> QED BY <1>1, <1>2, <1>3, <1>4, <1>5, <1>6, <1>7 DEF ChangeNext

-----------------------------------------------------------------------------
LEMMA ChangeInvariant == ChangeSpec => []ChangeInv
BY ChangeInitially, ChangeStep, PTL DEF ChangeSpec

\* Every request, stage and job keeps its type, and the version of the project
\* is bounded by the edits and the requests there are.
THEOREM ChangeTypesHold == ASSUME IsFiniteSet(ChangeRequest) PROVE ChangeSpec => []ChangeTypeOK
<1>1. ChangeInv => ChangeTypeOK
  <2> SUFFICES ASSUME ChangeInv PROVE ChangeTypeOK
    OBVIOUS
  <2> USE DEF ChangeInv
  <2>1. source.version <= MaxEdits + Cardinality(ChangeRequest)
    <3>1. IsFiniteSet(Completed) /\ Cardinality(Completed) <= Cardinality(ChangeRequest)
      BY FS_Subset, Completed \subseteq ChangeRequest DEF Completed
    <3>2. /\ Cardinality(Completed) \in Nat /\ Cardinality(ChangeRequest) \in Nat
          /\ source.version \in Nat
      BY <3>1, FS_CardinalityType DEF SourceRow
    <3> QED BY <3>1, <3>2, MaxEditsInNat DEF Versions
  <2>2. /\ MaxEdits + Cardinality(ChangeRequest) \in Nat /\ source.version \in Nat
    BY FS_CardinalityType, MaxEditsInNat DEF SourceRow
  <2>3. source.version \in 0 .. MaxEdits + Cardinality(ChangeRequest)
    BY <2>1, <2>2
  <2>4. source = [alive |-> source.alive, version |-> source.version,
                  owners |-> source.owners]
        /\ source.alive \in BOOLEAN /\ source.owners \in SUBSET Author
    BY DEF SourceRow
  <2>5. source \in [alive : BOOLEAN, version : 0 .. MaxEdits + Cardinality(ChangeRequest),
                    owners : SUBSET Author]
    BY <2>3, <2>4
  <2>6. \A r \in ChangeRequest :
           /\ asked[r].state \in Live \cup {"NONE", "COMPLETED", "CONFLICT",
                                             "CANCELLED", "REJECTED"}
           /\ stage[r] \in StageRow /\ stageJob[r] \in StageJob
    BY DEF RequestsFit, RequestFits, AskedRow
  <2>7. /\ \A p \in Publisher :
              pass[p].at \in {"away", "validating", "copying", "completing"}
        /\ \A o \in Operator : review[o].at \in {"away", "resolving"}
    BY DEF CallsFit
  <2> QED BY <2>5, <2>6, <2>7 DEF ChangeTypeOK, StageRow, StageJob, Content
<1> QED BY <1>1, ChangeInvariant, PTL

\* What a request did to the project is what its author submitted, done to the
\* version its author saw, and no project has two live requests.
THEOREM ChangesAppliedAsSubmitted == ChangeSpec => []AppliedAsSubmitted
<1>1. ChangeInv => AppliedAsSubmitted
  BY DEF ChangeInv, RequestsFit, RequestFits, OneLive, AppliedAsSubmitted, Underway, Live
<1> QED BY <1>1, ChangeInvariant, PTL

-----------------------------------------------------------------------------
(* How requests move on.                                                   *)

\* A request t goes on as it may, and FAILED is left as it may be.
GoesOn(t) ==
    /\ asked'[t].state \in {asked[t].state} \cup Follows(asked[t].state)
    /\ asked[t].state = "FAILED" /\ asked'[t].state = "CONFLICT"
          => ~ValidSource(t) \/ ~source'.alive \/ LatePass(t)

\* A step that gives at most one request another state.
LEMMA OneGoesOn ==
    ASSUME ChangeInv, NEW t \in ChangeRequest, NEW r \in ChangeRequest, NEW to,
           ChangeTo(r, to), t = r => to \in {asked[t].state} \cup Follows(asked[t].state),
           t = r /\ asked[t].state = "FAILED" /\ to = "CONFLICT"
               => ~ValidSource(t) \/ LatePass(t)
    PROVE  GoesOn(t)
<1>1. asked[r] \in AskedRow /\ asked \in [ChangeRequest -> AskedRow]
  BY DEF ChangeInv, ChangeTables, RequestsFit, RequestFits
<1>2. asked' = [asked EXCEPT ![r].state = to]
  BY DEF ChangeTo
<1>3. CASE t = r
  <2>1. asked'[t].state = to
    BY <1>1, <1>2, <1>3 DEF AskedRow
  <2>2. QED BY <1>3, <2>1 DEF GoesOn
<1>4. CASE t # r
  <2>1. asked'[t] = asked[t]
    BY <1>1, <1>2, <1>4
  <2>2. QED BY <2>1 DEF GoesOn
<1>5. QED BY <1>3, <1>4

\* The states that follow each other, as facts.
LEMMA FollowsFacts ==
    /\ Follows("NONE") = {"DRAFT"}
    /\ Follows("DRAFT") = {"PENDING", "CANCELLED", "CONFLICT"}
    /\ Follows("PENDING") = {"APPLYING", "COMPLETED", "REJECTED", "CANCELLED", "CONFLICT"}
    /\ Follows("APPLYING") = {"COMPLETED", "FAILED", "CONFLICT"}
    /\ Follows("FAILED") = {"APPLYING", "CONFLICT"}
BY DEF Follows

\* Approval and retry start from the state that the call awaits.
LEMMA StartGoesOn ==
    ASSUME ChangeInv, NEW t \in ChangeRequest, NEW r \in ChangeRequest, NEW links,
           asked[r].state \in {"PENDING", "FAILED"}, StartApplication(r, links)
    PROVE  GoesOn(t)
<1>1. /\ asked[r] \in AskedRow /\ asked \in [ChangeRequest -> AskedRow]
      /\ asked[r].state = "FAILED" => stage[r].at = "ready"
  BY DEF ChangeInv, ChangeTables, RequestsFit, RequestFits
<1>2. CASE ~ValidSource(r) /\ ChangeTo(r, "CONFLICT")
  BY <1>2, FollowsFacts, OneGoesOn
<1>3. ASSUME NEW to \in {"COMPLETED", "APPLYING"},
             asked' = [asked EXCEPT ![r].state = to, ![r].links = links],
             asked[r].state = "FAILED" => to = "APPLYING"
      PROVE  GoesOn(t)
  <2>1. CASE t = r
    <3>1. asked'[t].state = to
      BY <1>1, <1>3, <2>1 DEF AskedRow
    <3>2. QED BY <1>3, <2>1, <3>1, FollowsFacts DEF GoesOn
  <2>2. CASE t # r
    <3>1. asked'[t] = asked[t]
      BY <1>1, <1>3, <2>2
    <3>2. QED BY <3>1 DEF GoesOn
  <2>3. QED BY <2>1, <2>2
<1>4. QED BY <1>1, <1>2, <1>3 DEF StartApplication

LEMMA RequestGoesOn ==
    ASSUME ChangeInv, ChangeNext, NEW t \in ChangeRequest
    PROVE  GoesOn(t)
<1>0. /\ asked \in [ChangeRequest -> AskedRow]
      /\ \A r \in ChangeRequest :
            /\ stageJob[r].state \in {"PENDING", "PROCESSING"} <=> asked[r].state = "APPLYING"
            /\ stageJob[r].state = "FAILED" => asked[r].state = "FAILED"
  BY DEF ChangeInv, ChangeTables, RequestsFit, RequestFits, Underway
<1>1. ASSUME UNCHANGED asked PROVE GoesOn(t)
  BY <1>1 DEF GoesOn
<1>2. ASSUME NEW r \in ChangeRequest, NEW a \in Author, CreateRequest(r, a) PROVE GoesOn(t)
  <2>1. PICK kind \in {"EDIT", "DELETE"} :
           asked' = [asked EXCEPT ![r] = [@ EXCEPT !.state = "DRAFT", !.author = a,
                                            !.base = source.version, !.kind = kind]]
    BY <1>2 DEF CreateRequest
  <2>2. asked[r].state = "NONE"
    BY <1>2 DEF CreateRequest
  <2>3. CASE t = r
    <3>1. asked'[t].state = "DRAFT"
      BY <1>0, <2>1, <2>3 DEF AskedRow
    <3>2. QED BY <2>2, <2>3, <3>1, FollowsFacts DEF GoesOn
  <2>4. CASE t # r
    <3>1. asked'[t] = asked[t]
      BY <1>0, <2>1, <2>4
    <3>2. QED BY <3>1 DEF GoesOn
  <2>5. QED BY <2>3, <2>4
<1>3. ASSUME NEW r \in ChangeRequest, UpdateDraft(r) PROVE GoesOn(t)
  <2>1. CASE \E x, l \in Draft \cup {Nil} : asked' = [asked EXCEPT ![r].text = x, ![r].links = l]
    <3>1. asked'[t].state = asked[t].state
      BY <1>0, <2>1 DEF AskedRow
    <3>2. asked[t].state = "FAILED" => asked'[t].state # "CONFLICT"
      BY <3>1
    <3>3. QED BY <3>1, <3>2 DEF GoesOn
  <2>2. QED BY <1>1, <1>3, <2>1 DEF UpdateDraft
<1>4. ASSUME NEW r \in ChangeRequest,
             SubmitRequest(r) \/ CancelRequest(r) \/ RejectRequest(r)
      PROVE  GoesOn(t)
  <2>1. \/ asked[r].state = "DRAFT" /\ ChangeTo(r, "PENDING")
        \/ asked[r].state \in {"DRAFT", "PENDING"} /\ ChangeTo(r, "CANCELLED")
        \/ asked[r].state = "PENDING" /\ ChangeTo(r, "REJECTED")
    BY <1>4 DEF SubmitRequest, CancelRequest, RejectRequest
  <2>2. QED BY <2>1, FollowsFacts, OneGoesOn
<1>5. ASSUME NEW o \in Operator, FinishReview(o) PROVE GoesOn(t)
  <2>1. review[o].of \in ChangeRequest
    BY <1>5 DEF FinishReview, ChangeInv, CallsFit
  <2>2. CASE /\ asked[review[o].of].state = Awaited(o)
             /\ StartApplication(review[o].of, review[o].links)
    BY <2>1, <2>2, StartGoesOn DEF Awaited
  <2>3. QED BY <1>1, <1>5, <2>2 DEF FinishReview
<1>6. CASE DeleteSource
  <2>1. /\ source'.alive = FALSE
        /\ asked' = [r \in ChangeRequest |->
                        IF asked[r].state \in Live
                        THEN [asked[r] EXCEPT !.state = "CONFLICT"] ELSE asked[r]]
    BY <1>6 DEF DeleteSource, ChangeInv, SourceRow
  <2>2. asked'[t].state = IF asked[t].state \in Live THEN "CONFLICT" ELSE asked[t].state
    BY <1>0, <2>1 DEF AskedRow
  <2>3. asked[t].state \in Live => "CONFLICT" \in Follows(asked[t].state)
    BY FollowsFacts DEF Live
  <2>4. QED BY <2>1, <2>2, <2>3 DEF GoesOn
<1>7. ASSUME NEW p \in Publisher, ValidateStagePlan(p) PROVE GoesOn(t)
  <2> DEFINE r == pass[p].of
  <2>1. r \in ChangeRequest /\ pass[p].at = "validating"
        /\ stageJob[r].state \in {"PENDING", "PROCESSING", "FAILED"}
    BY <1>7 DEF ValidateStagePlan, ChangeInv, CallsFit
  <2>2. CASE GiveUpApplication(p)
    <3>1. ChangeTo(r, "CONFLICT") /\ asked[r].state \in {"APPLYING", "FAILED"}
      BY <1>0, <2>1, <2>2 DEF GiveUpApplication
    <3>2. asked[r].state = "FAILED" => stageJob[r].state = "FAILED"
      BY <1>0, <2>1
    <3>3. asked[r].state = "FAILED" => LatePass(r)
      BY <2>1, <3>2 DEF LatePass, TokenOfPass
    <3> HIDE DEF r
    <3>4. QED BY <2>1, <3>1, <3>3, FollowsFacts, OneGoesOn
  <2>3. CASE asked[r].state = "APPLYING" /\ (UNCHANGED asked \/ ChangeTo(r, "FAILED"))
    <3> HIDE DEF r
    <3>1. QED BY <1>1, <2>1, <2>3, FollowsFacts, OneGoesOn
  <2>4. QED BY <1>7, <2>2, <2>3 DEF ValidateStagePlan
<1>8. ASSUME NEW p \in Publisher, CompleteStage(p) \/ StagePassErrs(p) PROVE GoesOn(t)
  <2> DEFINE r == pass[p].of
  <2>1. r \in ChangeRequest
    BY <1>8 DEF CompleteStage, StagePassErrs, ChangeInv, CallsFit
  <2>2. TokenOfPass(p) => asked[r].state = "APPLYING"
    BY <1>0, <2>1 DEF TokenOfPass
  <2>3. \/ UNCHANGED asked
        \/ /\ asked[r].state = "APPLYING"
           /\ ChangeTo(r, "CONFLICT") \/ ChangeTo(r, "COMPLETED") \/ ChangeTo(r, "FAILED")
    BY <1>8, <2>2 DEF CompleteStage, StagePassErrs, GiveUpApplication
  <2> HIDE DEF r
  <2>4. QED BY <1>1, <2>1, <2>3, FollowsFacts, OneGoesOn
<1>9. QED
  BY <1>1, <1>2, <1>3, <1>4, <1>5, <1>6, <1>7, <1>8
     DEF ChangeNext, FilesReady, StageJobLapses, BeginReview, ClaimStageJob,
         EditSource, CopyStage

\* Every step of every actor moves a request along RequestLifecycle only: one
\* that is over stays as it is.
THEOREM RequestsEndOnce == ChangeSpec => RequestLifecycle
<1>1. ChangeInv /\ ChangeNext => \A r \in ChangeRequest :
         asked'[r].state \in {asked[r].state} \cup Follows(asked[r].state)
  BY RequestGoesOn DEF GoesOn
<1>2. QED BY <1>1, ChangeInvariant, PTL DEF ChangeSpec, RequestLifecycle

\* A failed request is kept for its retry, unless the project changed or a pass
\* that lost its job turns it into a conflict.
THEOREM FailedLostToLatePass == ChangeSpec => FailedLostOnlyToLatePass
<1>1. ChangeInv /\ ChangeNext => \A r \in ChangeRequest :
         asked[r].state = "FAILED" /\ asked'[r].state # "FAILED"
            => \/ asked'[r].state = "APPLYING"
               \/ /\ asked'[r].state = "CONFLICT"
                  /\ ~ValidSource(r) \/ ~source'.alive \/ LatePass(r)
  BY RequestGoesOn, FollowsFacts DEF GoesOn
<1>2. QED BY <1>1, ChangeInvariant, PTL DEF ChangeSpec, FailedLostOnlyToLatePass
=============================================================================
