----------------------------- MODULE MediaProofs -----------------------------
(***************************************************************************)
(* What the workers that turn an upload into media promise, for any number *)
(* of them, of sweepers and of reapers, and for any number of outputs: the *)
(* images of an image session are all there or may still be made, and the  *)
(* video of an asset is one whole file.  Both rest on the fact about the   *)
(* deletion queue proved in ObjectDeletionProofs: an object nobody queues  *)
(* is not removed.                                                         *)
(***************************************************************************)
EXTENDS ImageOutputs, VideoCommit, ObjectDeletionProofs

-----------------------------------------------------------------------------
(***************************************************************************)
(* The image worker.  A key that somebody may still want has no deletion   *)
(* queued; sessions, assets and upload intents tell one story; and what a  *)
(* pass and a sweep remember of it agrees with the rows.                   *)
(***************************************************************************)
SessionState == [state : {"VERIFYING", "READY", "REJECTED", "CANCELLED"},
                 claim : Worker \cup {None}, lapsed : BOOLEAN,
                 attempts : 0 .. MaxAttempts, operator : BOOLEAN]
AssetState == {"NONE", "PROCESSING", "READY", "FAILED", "DELETING", "DELETED"}
IntentRow == [state : {"NONE", "PREPARED", "UPLOADED", "COMMITTED",
                       "CLEANUP_QUEUED", "RESOLVED"},
              due : BOOLEAN, claim : Sweeper \cup {None}]
ImagePass == [at : {"idle", "reading", "planning", "copying", "putting", "marking",
                    "rejecting"},
              todo : SUBSET Output, output : Output \cup {None},
              last : BOOLEAN, operator : BOOLEAN]
ImageSweep == [at : {"asleep", "collecting", "checking", "COMMITTED", "RESOLVED",
                     "CLEANUP_QUEUED"},
               output : Output \cup {None}, seen : BOOLEAN]

\* An operator looks at what was rejected, and at nothing else.
OperatorLooks == session.operator => session.state = "REJECTED"

\* Somebody may still want this key: the source of a session that may be read
\* again, an output before its intent is decided, or one of a READY asset.
Needed(k) ==
    \/ k = Source /\ (session.state = "VERIFYING" \/ session.operator)
    \/ /\ k \in Output
       /\ intent[k].state = "NONE" \/ Uncommitted(k) \/ (Committed /\ asset # "DELETED")

\* Nobody has queued the deletion of such a key.
NeededUntouched == \A k \in Key : Needed(k) => Untouched({k})

\* What a pass has put and marked is there, unless it is not wanted any more.
PassFits(w) ==
    /\ worker[w].at \in {"putting", "marking"} => worker[w].output \in Output
    /\ worker[w].at = "marking" /\ Uncommitted(worker[w].output)
          => worker[w].output \in stored
    /\ worker[w].at \in {"copying", "putting", "marking"} =>
          \A o \in Output : /\ intent[o].state # "NONE"
                            /\ o \notin worker[w].todo => intent[o].state # "PREPARED"

UploadsStored == \A o \in Output : intent[o].state = "UPLOADED" => o \in stored

\* A sweep holds only intents that are undecided, and has seen an asset refer
\* to an output only after the commit.
SweepsAgree ==
    /\ \A o \in Output : intent[o].claim # None => Uncommitted(o)
    /\ \A s \in Sweeper : /\ sweeper[s].at # "asleep" => sweeper[s].output \in Output
                          /\ sweeper[s].seen \/ sweeper[s].at = "COMMITTED" => Committed

ImageInv ==
    /\ ImageTypeOK /\ NeededUntouched /\ SourceKept /\ UploadsStored
    /\ ReadyOutputsKept /\ (\A w \in Worker : PassFits(w)) /\ SweepsAgree /\ IntentsAgree
    /\ OperatorLooks

-----------------------------------------------------------------------------
LEMMA ImageTypes ==
    ImageTypeOK <=>
        /\ DeletionTypeOK
        /\ session \in SessionState /\ asset \in AssetState
        /\ intent \in [Output -> IntentRow] /\ worker \in [Worker -> ImagePass]
        /\ sweeper \in [Sweeper -> ImageSweep]
        /\ latePut \in SUBSET Output /\ faults \in 0 .. MaxFaults
BY DEF ImageTypeOK, SessionState, AssetState, IntentRow, ImagePass, ImageSweep

LEMMA ImageBlanks ==
    /\ Idle \in ImagePass /\ Idle.at = "idle"
    /\ Asleep \in ImageSweep /\ Asleep.at = "asleep" /\ ~Asleep.seen
    /\ NoIntent \in IntentRow /\ NoIntent.state = "NONE" /\ NoIntent.claim = None
BY DEF Idle, Asleep, NoIntent, ImagePass, ImageSweep, IntentRow

LEMMA ImageInitially == Init => ImageInv
<1> SUFFICES ASSUME Init PROVE ImageInv
  OBVIOUS
<1>1. stored \in SUBSET Key /\ ReaperInit /\ stored = {Source}
  BY ImageKeys DEF Init
<1>2. DeletionTypeOK /\ Untouched(Key)
  BY <1>1, InitialDeletions
<1>3. session \in SessionState /\ session.state = "VERIFYING"
  BY ImageKeys DEF Init, ImageInit, SessionState
<1>4. /\ asset = "NONE" /\ intent = [o \in Output |-> NoIntent]
      /\ worker = [w \in Worker |-> Idle] /\ sweeper = [s \in Sweeper |-> Asleep]
      /\ latePut = {} /\ faults = 0 /\ ~session.operator
  BY DEF Init, ImageInit
<1>5. ImageTypeOK
  BY <1>2, <1>3, <1>4, ImageTypes, ImageBlanks, ImageKeys DEF AssetState
<1>6. NeededUntouched
  BY <1>2 DEF NeededUntouched, Untouched
<1>7. SourceKept /\ UploadsStored /\ ReadyOutputsKept /\ SweepsAgree /\ IntentsAgree
      /\ OperatorLooks
  BY <1>1, <1>3, <1>4, ImageBlanks DEF OperatorLooks, SourceKept, UploadsStored, ReadyOutputsKept,
     SweepsAgree, IntentsAgree, Committed, Uncommitted
<1>8. \A w \in Worker : PassFits(w)
  BY <1>4, ImageBlanks DEF PassFits
<1>9. QED BY <1>5, <1>6, <1>7, <1>8 DEF ImageInv

\* An intent is decided once.
Forward(o) ==
    \/ intent'[o].state \in {intent[o].state, "COMMITTED", "CLEANUP_QUEUED", "RESOLVED"}
    \/ intent[o].state = "NONE" /\ intent'[o].state = "PREPARED"
    \/ Uncommitted(o) /\ intent'[o].state = "UPLOADED"

\* A step of a worker, a user or a sweep: it takes no bytes away, and queues
\* only what is not needed any more.
LEMMA ImageMoves ==
    ASSUME ImageInv, DeletionTypeOK', session' \in SessionState, asset' \in AssetState,
           intent' \in [Output -> IntentRow], worker' \in [Worker -> ImagePass],
           sweeper' \in [Sweeper -> ImageSweep], latePut' \in SUBSET Output,
           faults' \in 0 .. MaxFaults,
           stored \subseteq stored', UNCHANGED <<reaper, lateDelete>>,
           \A k \in Key : Needed(k)' => Needed(k) /\ outbox'[k] = outbox[k],
           \A o \in Output : Forward(o),
           \A w \in Worker : worker'[w] = worker[w] \/ PassFits(w)',
           UploadsStored', ReadyOutputsKept', SweepsAgree', IntentsAgree', OperatorLooks'
    PROVE  ImageInv'
<1>1. ImageTypeOK'
  BY DEF ImageTypeOK, SessionState, AssetState, IntentRow, ImagePass, ImageSweep
<1>2. NeededUntouched'
  BY DEF ImageInv, NeededUntouched, Untouched
<1>3. SourceKept'
  BY ImageKeys DEF ImageInv, SourceKept, Needed
<1>4. ASSUME NEW w \in Worker, worker'[w] = worker[w] PROVE PassFits(w)'
  BY <1>4 DEF ImageInv, PassFits, Forward, Uncommitted, UploadsStored
<1>5. QED BY <1>1, <1>2, <1>3, <1>4 DEF ImageInv

\* What a pass or a sweep reads and remembers changes no row.
LEMMA WorkerMoves ==
    ASSUME ImageInv, NEW w \in Worker, NEW p \in ImagePass,
           worker' = [worker EXCEPT ![w] = p],
           session' \in SessionState, session'.state = session.state,
           session'.operator = session.operator,
           UNCHANGED <<outbox, reaper, lateDelete, asset, intent, sweeper>>,
           stored \subseteq stored', stored' \in SUBSET Key,
           latePut' \in SUBSET Output, faults' \in 0 .. MaxFaults,
           p.at \in {"putting", "marking"} => p.output \in Output,
           p.at = "marking" => p.output \in stored',
           p.at \in {"copying", "putting", "marking"} =>
               \A o \in Output : /\ intent[o].state # "NONE"
                                 /\ o \notin p.todo => intent[o].state # "PREPARED"
    PROVE  ImageInv'
<1>0. /\ DeletionTypeOK /\ worker \in [Worker -> ImagePass] /\ asset \in AssetState
      /\ intent \in [Output -> IntentRow] /\ sweeper \in [Sweeper -> ImageSweep]
  BY ImageTypes DEF ImageInv
<1>1. DeletionTypeOK'
  BY <1>0 DEF DeletionTypeOK, LiveClaim
<1>2. \A k \in Key : Needed(k)' => Needed(k) /\ outbox'[k] = outbox[k]
  BY DEF Needed, Uncommitted, Committed
<1>3. worker' \in [Worker -> ImagePass] /\ worker'[w] = p
      /\ \A v \in Worker : v # w => worker'[v] = worker[v]
  BY <1>0
<1>4. PassFits(w)'
  BY <1>3 DEF PassFits, Uncommitted
<1>5. \A v \in Worker : worker'[v] = worker[v] \/ PassFits(v)'
  BY <1>3, <1>4
<1>6. UploadsStored' /\ ReadyOutputsKept' /\ SweepsAgree' /\ IntentsAgree'
      /\ OperatorLooks'
  BY DEF ImageInv, UploadsStored, ReadyOutputsKept, SweepsAgree, IntentsAgree,
     OperatorLooks, Committed, Uncommitted
<1>7. \A o \in Output : Forward(o)
  BY DEF Forward
<1>8. QED BY <1>0, <1>1, <1>2, <1>3, <1>5, <1>6, <1>7, ImageMoves

\* A pass ends, or goes to reject the upload, whatever it did before.
LEMMA WorkerLeaves ==
    ASSUME ImageInv, NEW w \in Worker, EndPass(w) \/ FailPass(w),
           UNCHANGED <<deletionVars, session, asset, intent, sweeper>>,
           latePut' \in SUBSET Output, faults' \in 0 .. MaxFaults
    PROVE  ImageInv'
<1>0. session \in SessionState /\ worker[w] \in ImagePass /\ stored \in SUBSET Key
  BY ImageTypes DEF ImageInv, DeletionTypeOK
<1> DEFINE p == [worker[w] EXCEPT !.at = "rejecting", !.operator = TRUE]
<1>1. p \in ImagePass /\ p.at = "rejecting"
  BY <1>0 DEF ImagePass
<1>2. worker' = [worker EXCEPT ![w] = p] \/ worker' = [worker EXCEPT ![w] = Idle]
  BY DEF EndPass, FailPass
<1> HIDE DEF p
<1>3. QED BY <1>0, <1>1, <1>2, ImageBlanks, WorkerMoves DEF deletionVars

\* A pass goes on to l and keeps the rest.
LEMMA WorkerGoes ==
    ASSUME ImageInv, NEW w \in Worker,
           NEW l \in {"reading", "planning", "marking", "rejecting"}, WorkerTo(w, l),
           UNCHANGED <<outbox, reaper, lateDelete, session, asset, intent, sweeper, latePut>>,
           stored \subseteq stored', stored' \in SUBSET Key, faults' \in 0 .. MaxFaults,
           l = "marking" => worker[w].at = "putting" /\ worker[w].output \in stored'
    PROVE  ImageInv'
<1>0. session \in SessionState /\ worker[w] \in ImagePass /\ latePut \in SUBSET Output
  BY ImageTypes DEF ImageInv
<1> DEFINE p == [worker[w] EXCEPT !.at = l]
<1>1. p \in ImagePass /\ p.at = l /\ p.output = worker[w].output
      /\ p.todo = worker[w].todo
  BY <1>0 DEF ImagePass
<1>2. worker' = [worker EXCEPT ![w] = p]
  BY DEF WorkerTo
<1> HIDE DEF p
<1>3. l = "marking" =>
        /\ p.output \in Output
        /\ \A o \in Output : /\ intent[o].state # "NONE"
                             /\ o \notin p.todo => intent[o].state # "PREPARED"
  BY <1>1 DEF ImageInv, PassFits
<1>4. QED BY <1>0, <1>1, <1>2, <1>3, WorkerMoves

LEMMA ReadingMoves ==
    ASSUME ImageInv, NEW w \in Worker, faults' \in 0 .. MaxFaults,
           \/ ClaimVerifying(w) \/ ReadSource(w)
           \/ \E o \in Output : HeadOutput(w, o)
           \/ PutOutput(w) \/ CommitRefused(w) \/ LoseClaim(w)
           \/ PassFails(w) \/ WorkerStops(w)
    PROVE  ImageInv'
<1>0. /\ session \in SessionState /\ worker \in [Worker -> ImagePass]
      /\ stored \in SUBSET Key /\ latePut \in SUBSET Output
      /\ worker[w] \in ImagePass
  BY ImageTypes DEF ImageInv, DeletionTypeOK
<1>1. CASE ClaimVerifying(w)
  <2> DEFINE n == IF session.attempts < MaxAttempts THEN session.attempts + 1
                  ELSE session.attempts
             u == [session EXCEPT !.claim = w, !.lapsed = FALSE, !.attempts = n]
             p == [worker[w] EXCEPT !.at = "reading",
                                    !.last = session'.attempts = MaxAttempts]
  <2>1. n \in 0 .. MaxAttempts
    BY <1>0, ImageKeys DEF SessionState
  <2>2. u \in SessionState /\ u.state = session.state /\ u.operator = session.operator
    BY <1>0, <2>1 DEF SessionState
  <2>3. session' = u
    BY <1>1 DEF ClaimVerifying
  <2>4. p \in ImagePass /\ p.at = "reading"
    BY <1>0 DEF ImagePass
  <2>5. worker' = [worker EXCEPT ![w] = p]
    BY <1>1 DEF ClaimVerifying
  <2> HIDE DEF u, p
  <2>6. UNCHANGED <<deletionVars, asset, intent, sweeper, latePut>>
    BY <1>1 DEF ClaimVerifying
  <2>7. QED BY <1>0, <2>2, <2>3, <2>4, <2>5, <2>6, WorkerMoves DEF deletionVars
<1>2. CASE ReadSource(w)
  BY <1>0, <1>2, WorkerGoes DEF ReadSource, deletionVars
<1>3. ASSUME NEW o \in Output, HeadOutput(w, o) PROVE ImageInv'
  <2>1. PICK l \in {"marking", "putting"} :
           /\ worker' = [worker EXCEPT ![w].output = o, ![w].at = l]
           /\ l = "marking" => o \in stored
    BY <1>3 DEF HeadOutput
  <2> DEFINE p == [worker[w] EXCEPT !.output = o, !.at = l]
  <2>2. p \in ImagePass /\ p.at = l /\ p.output = o /\ p.todo = worker[w].todo
    BY <1>0 DEF ImagePass
  <2>3. worker' = [worker EXCEPT ![w] = p]
    BY <2>1
  <2> HIDE DEF p
  <2>4. \A q \in Output : /\ intent[q].state # "NONE"
                          /\ q \notin p.todo => intent[q].state # "PREPARED"
    BY <1>3, <2>2 DEF HeadOutput, ImageInv, PassFits
  <2>5. UNCHANGED <<deletionVars, session, asset, intent, sweeper, latePut>>
    BY <1>3 DEF HeadOutput
  <2>6. QED BY <1>0, <2>1, <2>2, <2>3, <2>4, <2>5, WorkerMoves DEF deletionVars
<1>4. CASE PutOutput(w)
  <2>1. worker[w].output \in Output /\ worker[w].output \in Key
    BY <1>4, ImageKeys DEF PutOutput, ImageInv, PassFits
  <2>2. QED BY <1>0, <1>4, <2>1, WorkerGoes DEF PutOutput
<1>5. CASE CommitRefused(w)
  BY <1>0, <1>5, WorkerLeaves DEF CommitRefused
<1>6. CASE LoseClaim(w) \/ PassFails(w) \/ WorkerStops(w)
  <2>1. latePut' \in SUBSET Output
    <3>1. AbandonPut(w)
      BY <1>6 DEF LoseClaim, PassFails, WorkerStops
    <3>2. worker[w].at = "putting" => worker[w].output \in Output
      BY DEF ImageInv, PassFits
    <3>3. QED BY <1>0, <3>1, <3>2 DEF AbandonPut
  <2>2. QED BY <1>6, <2>1, WorkerLeaves DEF LoseClaim, PassFails, WorkerStops
<1>7. QED BY <1>1, <1>2, <1>3, <1>4, <1>5, <1>6

-----------------------------------------------------------------------------
(* Steps that change a row.                                                *)

LEMMA PrepareKeeps ==
    ASSUME ImageInv, NEW w \in Worker, PrepareOutputPlan(w), faults' \in 0 .. MaxFaults
    PROVE  ImageInv'
<1>0. /\ session \in SessionState /\ worker \in [Worker -> ImagePass]
      /\ intent \in [Output -> IntentRow] /\ asset \in AssetState
      /\ sweeper \in [Sweeper -> ImageSweep] /\ latePut \in SUBSET Output
      /\ worker[w] \in ImagePass
      /\ UNCHANGED <<outbox, reaper, stored, lateDelete, session, sweeper, latePut>>
      /\ session.state = "VERIFYING" /\ DeletionTypeOK
  BY ImageTypes DEF ImageInv, PrepareOutputPlan, deletionVars, Owns
<1> DEFINE p == [worker[w] EXCEPT !.at = "copying", !.todo = Output]
           row(o) == IF intent[o].state = "NONE" THEN [NoIntent EXCEPT !.state = "PREPARED"]
                     ELSE [intent[o] EXCEPT !.due = FALSE]
<1>1. \A o \in Output :
         /\ row(o) \in IntentRow
         /\ row(o).state = IF intent[o].state = "NONE" THEN "PREPARED" ELSE intent[o].state
         /\ row(o).claim = IF intent[o].state = "NONE" THEN None ELSE intent[o].claim
  BY <1>0, ImageBlanks DEF IntentRow
<1>2. intent' \in [Output -> IntentRow] /\ \A o \in Output : intent'[o] = row(o)
  BY <1>1 DEF PrepareOutputPlan
<1>3. p \in ImagePass /\ p.at = "copying" /\ p.todo = Output
  BY <1>0 DEF ImagePass
<1>4. worker' = [worker EXCEPT ![w] = p]
  BY DEF PrepareOutputPlan
<1>5. asset' \in AssetState /\ DeletionTypeOK'
  BY <1>0 DEF PrepareOutputPlan, AssetState, DeletionTypeOK, LiveClaim
<1> HIDE DEF p, row
<1>6. /\ worker' \in [Worker -> ImagePass]
      /\ \A v \in Worker : v # w => worker'[v] = worker[v]
      /\ worker'[w] = p
  BY <1>0, <1>3, <1>4
<1>7. PassFits(w)'
  BY <1>1, <1>2, <1>3, <1>6 DEF PassFits
<1>8. \A o \in Output : Forward(o)
  BY <1>1, <1>2 DEF Forward
<1>9. \A k \in Key : Needed(k)' => Needed(k) /\ outbox'[k] = outbox[k]
  BY <1>0, <1>1, <1>2 DEF Needed, Uncommitted, Committed
<1>10. UploadsStored' /\ ReadyOutputsKept' /\ SweepsAgree' /\ IntentsAgree' /\ OperatorLooks'
  BY <1>0, <1>1, <1>2 DEF ImageInv, UploadsStored, ReadyOutputsKept, SweepsAgree,
     IntentsAgree, OperatorLooks, Committed, Uncommitted
<1>11. QED BY <1>0, <1>2, <1>5, <1>6, <1>7, <1>8, <1>9, <1>10, ImageMoves

LEMMA MarkKeeps ==
    ASSUME ImageInv, NEW w \in Worker, MarkOutputUploaded(w), faults' \in 0 .. MaxFaults
    PROVE  ImageInv'
<1>0. /\ session \in SessionState /\ worker \in [Worker -> ImagePass]
      /\ intent \in [Output -> IntentRow] /\ asset \in AssetState
      /\ sweeper \in [Sweeper -> ImageSweep] /\ latePut \in SUBSET Output
      /\ worker[w] \in ImagePass
      /\ UNCHANGED <<outbox, reaper, stored, lateDelete, session, asset, sweeper, latePut>>
      /\ session.state = "VERIFYING" /\ DeletionTypeOK
      /\ worker[w].at = "marking"
  BY ImageTypes DEF ImageInv, MarkOutputUploaded, deletionVars, Owns
<1>1. CASE FailPass(w) /\ UNCHANGED intent
  BY <1>0, <1>1, WorkerLeaves DEF deletionVars
<1>2. CASE /\ Uncommitted(worker[w].output)
           /\ intent' = [intent EXCEPT ![worker[w].output].state = "UPLOADED"]
           /\ worker' = [worker EXCEPT ![w].at = "copying", ![w].output = None,
                                       ![w].todo = worker[w].todo \ {worker[w].output}]
  <2>1. PICK o \in Output : o = worker[w].output
    BY <1>0 DEF ImageInv, PassFits
  <2> DEFINE p == [worker[w] EXCEPT !.at = "copying", !.output = None,
                                    !.todo = worker[w].todo \ {o}]
             i == [intent[o] EXCEPT !.state = "UPLOADED"]
  <2>2. p \in ImagePass /\ p.at = "copying" /\ p.todo = worker[w].todo \ {o}
    BY <1>0 DEF ImagePass
  <2>3. i \in IntentRow /\ i.state = "UPLOADED" /\ i.claim = intent[o].claim
    BY <1>0 DEF IntentRow
  <2>4. worker' = [worker EXCEPT ![w] = p] /\ intent' = [intent EXCEPT ![o] = i]
    BY <1>2, <2>1
  <2> HIDE DEF p, i
  <2>5. /\ worker' \in [Worker -> ImagePass] /\ worker'[w] = p
        /\ \A v \in Worker : v # w => worker'[v] = worker[v]
        /\ intent' \in [Output -> IntentRow] /\ intent'[o] = i
        /\ \A q \in Output : q # o => intent'[q] = intent[q]
    BY <1>0, <2>2, <2>3, <2>4
  <2>6. o \in stored
    BY <1>0, <1>2, <2>1 DEF ImageInv, PassFits
  <2>7. PassFits(w)'
    BY <1>0, <2>2, <2>3, <2>5 DEF ImageInv, PassFits
  <2>8. \A q \in Output : Forward(q)
    BY <1>2, <2>1, <2>3, <2>5 DEF Forward
  <2>9. \A k \in Key : Needed(k)' => Needed(k) /\ outbox'[k] = outbox[k]
    BY <1>0, <1>2, <2>1, <2>3, <2>5 DEF Needed, Uncommitted, Committed
  <2>10. UploadsStored' /\ ReadyOutputsKept' /\ SweepsAgree' /\ IntentsAgree'
         /\ OperatorLooks'
    BY <1>0, <1>2, <2>1, <2>3, <2>5, <2>6 DEF ImageInv, UploadsStored, ReadyOutputsKept,
       SweepsAgree, IntentsAgree, OperatorLooks, Committed, Uncommitted
  <2>11. DeletionTypeOK'
    BY <1>0 DEF DeletionTypeOK, LiveClaim
  <2>12. QED BY <1>0, <2>5, <2>7, <2>8, <2>9, <2>10, <2>11, ImageMoves
<1>3. QED BY <1>0, <1>1, <1>2 DEF MarkOutputUploaded

LEMMA EndedSession ==
    ASSUME session \in SessionState,
           NEW l \in {"READY", "CANCELLED"}, EndSession(l)
    PROVE  /\ session' \in SessionState /\ session'.state = l
           /\ session'.operator = session.operator
BY DEF SessionState, EndSession

LEMMA CommitKeeps ==
    ASSUME ImageInv, NEW w \in Worker, CommitReady(w), faults' \in 0 .. MaxFaults
    PROVE  ImageInv'
<1>0. /\ session \in SessionState /\ worker \in [Worker -> ImagePass]
      /\ intent \in [Output -> IntentRow] /\ sweeper \in [Sweeper -> ImageSweep]
      /\ latePut \in SUBSET Output /\ DeletionTypeOK
      /\ UNCHANGED <<reaper, stored, lateDelete, sweeper, latePut>>
      /\ session.state = "VERIFYING" /\ asset' = "READY"
      /\ worker[w].at = "copying" /\ worker[w].todo = {}
      /\ \A o \in Output : Uncommitted(o)
  BY ImageTypes DEF ImageInv, CommitReady, Owns
<1>1. DeletionTypeOK' /\ \A k \in Key : k # Source => outbox'[k] = outbox[k]
  <2>1. {Source} \in SUBSET Key
    BY ImageKeys
  <2>2. QED BY <1>0, <2>1, Queueing DEF CommitReady
<1>2. session' \in SessionState /\ session'.state = "READY"
      /\ session'.operator = session.operator
  BY <1>0, EndedSession DEF CommitReady
<1>3. /\ intent' \in [Output -> IntentRow]
      /\ \A o \in Output : intent'[o].state = "COMMITTED" /\ intent'[o].claim = None
  BY <1>0 DEF CommitReady, IntentRow
<1>4. /\ worker' \in [Worker -> ImagePass] /\ worker'[w].at = "idle"
      /\ \A v \in Worker : v # w => worker'[v] = worker[v]
  BY <1>0, ImageBlanks DEF CommitReady, EndPass
<1>5. PassFits(w)'
  BY <1>4 DEF PassFits
<1>6. \A o \in Output : Forward(o)
  BY <1>3 DEF Forward
<1>7. ~session.operator
  BY <1>0 DEF ImageInv, OperatorLooks
<1>8. \A k \in Key : Needed(k)' => Needed(k) /\ outbox'[k] = outbox[k]
  BY <1>0, <1>1, <1>2, <1>7, ImageKeys DEF Needed
<1>9. \A o \in Output : o \in stored
  BY <1>0 DEF ImageInv, PassFits, UploadsStored, Uncommitted
<1>10. UploadsStored' /\ ReadyOutputsKept' /\ OperatorLooks'
  BY <1>0, <1>2, <1>3, <1>7, <1>9 DEF UploadsStored, ReadyOutputsKept, OperatorLooks
<1>11. SweepsAgree' /\ IntentsAgree'
  BY <1>0, <1>2, <1>3 DEF ImageInv, SweepsAgree, IntentsAgree, Committed
<1>12. QED BY <1>0, <1>1, <1>2, <1>3, <1>4, <1>5, <1>6, <1>8, <1>10, <1>11, ImageMoves
           DEF AssetState

LEMMA RejectKeeps ==
    ASSUME ImageInv, NEW w \in Worker, Reject(w), faults' \in 0 .. MaxFaults
    PROVE  ImageInv'
<1>0. /\ session \in SessionState /\ worker \in [Worker -> ImagePass]
      /\ intent \in [Output -> IntentRow] /\ sweeper \in [Sweeper -> ImageSweep]
      /\ latePut \in SUBSET Output /\ DeletionTypeOK /\ asset \in AssetState
      /\ worker[w] \in ImagePass
      /\ UNCHANGED <<reaper, stored, lateDelete, sweeper, latePut>>
      /\ session.state = "VERIFYING"
  BY ImageTypes DEF ImageInv, Reject, Owns
<1> DEFINE keys == (IF worker[w].operator THEN {} ELSE {Source})
                   \cup {o \in Output : intent[o].state # "NONE"}
<1>1. DeletionTypeOK' /\ \A k \in Key : k \notin keys => outbox'[k] = outbox[k]
  <2>1. keys \in SUBSET Key
    BY ImageKeys
  <2>2. QED BY <1>0, <2>1, Queueing DEF Reject
<1>2. session' \in SessionState /\ session'.state = "REJECTED"
      /\ session'.operator = worker[w].operator
  BY <1>0 DEF Reject, SessionState, ImagePass
<1>3. /\ intent' \in [Output -> IntentRow]
      /\ \A o \in Output :
            IF Uncommitted(o)
            THEN intent'[o].state = "CLEANUP_QUEUED" /\ intent'[o].claim = None
            ELSE intent'[o] = intent[o]
  BY <1>0 DEF Reject, IntentRow
<1>4. /\ worker' \in [Worker -> ImagePass] /\ worker'[w].at = "idle"
      /\ \A v \in Worker : v # w => worker'[v] = worker[v]
  BY <1>0, ImageBlanks DEF Reject, EndPass
<1>5. PassFits(w)' /\ asset' \in AssetState
  BY <1>0, <1>4 DEF PassFits, Reject, AssetState
<1>6. \A o \in Output : Forward(o)
  BY <1>3 DEF Forward
<1>7. \A k \in Key : Needed(k)' => Needed(k) /\ k \notin keys
  BY <1>0, <1>2, <1>3, ImageKeys DEF Needed, Uncommitted, Committed
<1> HIDE DEF keys
<1>8. \A o \in Output : intent[o].state # "COMMITTED" /\ ~Uncommitted(o)'
                        /\ intent'[o].state # "COMMITTED"
  BY <1>0, <1>3 DEF ImageInv, IntentsAgree, Committed, Uncommitted
<1>9. UploadsStored' /\ ReadyOutputsKept' /\ OperatorLooks' /\ IntentsAgree'
  BY <1>2, <1>8 DEF UploadsStored, ReadyOutputsKept, OperatorLooks, IntentsAgree,
     Committed, Uncommitted
<1>10. SweepsAgree'
  BY <1>0, <1>2, <1>3 DEF ImageInv, SweepsAgree, Committed
<1>11. QED BY <1>0, <1>1, <1>2, <1>3, <1>4, <1>5, <1>6, <1>7, <1>9, <1>10, ImageMoves

\* The workers stay as they are in a step of a user or of a sweep.
LEMMA OthersMove ==
    ASSUME ImageInv, DeletionTypeOK', session' \in SessionState, asset' \in AssetState,
           intent' \in [Output -> IntentRow], sweeper' \in [Sweeper -> ImageSweep],
           UNCHANGED <<reaper, stored, lateDelete, worker, latePut>>,
           faults' \in 0 .. MaxFaults,
           \A k \in Key : Needed(k)' => Needed(k) /\ outbox'[k] = outbox[k],
           \A o \in Output : intent'[o].state \in {intent[o].state, "CLEANUP_QUEUED", "RESOLVED"},
           ReadyOutputsKept', SweepsAgree', IntentsAgree', OperatorLooks'
    PROVE  ImageInv'
<1>1. worker' \in [Worker -> ImagePass] /\ latePut' \in SUBSET Output
  BY ImageTypes DEF ImageInv
<1>2. UploadsStored' /\ \A o \in Output : Forward(o)
  BY DEF ImageInv, UploadsStored, Forward
<1>3. QED BY <1>1, <1>2, ImageMoves

LEMMA UsersKeep ==
    ASSUME ImageInv, faults' \in 0 .. MaxFaults,
           CancelSubmission \/ ClaimAssetForDeletion \/ CompleteAssetDeletion \/ LeaseLapses
    PROVE  ImageInv'
<1>0. /\ session \in SessionState /\ asset \in AssetState /\ DeletionTypeOK
      /\ intent' \in [Output -> IntentRow] /\ sweeper' \in [Sweeper -> ImageSweep]
      /\ UNCHANGED <<reaper, stored, lateDelete, intent, sweeper, worker, latePut>>
  BY ImageTypes DEF ImageInv, CancelSubmission, ClaimAssetForDeletion,
     CompleteAssetDeletion, LeaseLapses, deletionVars
<1>1. CASE CancelSubmission
  <2>1. DeletionTypeOK' /\ \A k \in Key : k # Source => outbox'[k] = outbox[k]
    <3>1. {Source} \in SUBSET Key
      BY ImageKeys
    <3>2. QED BY <1>0, <1>1, <3>1, Queueing DEF CancelSubmission
  <2>2. session' \in SessionState /\ session'.state = "CANCELLED"
        /\ session'.operator = session.operator /\ session.state = "VERIFYING"
        /\ asset' = asset
    BY <1>0, <1>1, EndedSession DEF CancelSubmission
  <2>3. ~session.operator
    BY <2>2 DEF ImageInv, OperatorLooks
  <2>4. \A k \in Key : Needed(k)' => Needed(k) /\ outbox'[k] = outbox[k]
    BY <1>0, <2>1, <2>2, <2>3, ImageKeys DEF Needed, Uncommitted, Committed
  <2>5. ReadyOutputsKept' /\ SweepsAgree' /\ IntentsAgree' /\ OperatorLooks'
    BY <1>0, <2>2, <2>3 DEF ImageInv, ReadyOutputsKept, SweepsAgree, IntentsAgree,
       OperatorLooks, Committed, Uncommitted
  <2>6. QED BY <1>0, <2>1, <2>2, <2>4, <2>5, OthersMove
<1>2. CASE ClaimAssetForDeletion
  <2>1. /\ asset' = "DELETING" /\ asset \notin {"DELETED", "NONE"}
        /\ UNCHANGED <<outbox, session>>
    BY <1>2 DEF ClaimAssetForDeletion, deletionVars
  <2>2. DeletionTypeOK'
    BY <1>0, <2>1 DEF DeletionTypeOK, LiveClaim
  <2>3. \A k \in Key : Needed(k)' => Needed(k) /\ outbox'[k] = outbox[k]
    BY <1>0, <2>1 DEF Needed, Uncommitted, Committed
  <2>4. ReadyOutputsKept' /\ SweepsAgree' /\ IntentsAgree' /\ OperatorLooks'
    BY <1>0, <2>1 DEF ImageInv, ReadyOutputsKept, SweepsAgree, IntentsAgree,
       OperatorLooks, Committed, Uncommitted
  <2>5. QED BY <1>0, <2>1, <2>2, <2>3, <2>4, OthersMove DEF AssetState
<1>3. CASE CompleteAssetDeletion
  <2> DEFINE keys == IF Committed THEN Output ELSE {}
  <2>1. DeletionTypeOK' /\ \A k \in Key : k \notin keys => outbox'[k] = outbox[k]
    <3>1. keys \in SUBSET Key
      BY ImageKeys
    <3>2. QED BY <1>0, <1>3, <3>1, Queueing DEF CompleteAssetDeletion
  <2>2. asset' = "DELETED" /\ UNCHANGED session
    BY <1>3 DEF CompleteAssetDeletion
  <2>3. Committed => \A o \in Output : intent[o].state = "COMMITTED"
    BY DEF ImageInv, IntentsAgree
  <2>4. \A k \in Key : Needed(k)' => Needed(k) /\ k \notin keys
    BY <1>0, <2>2, <2>3, ImageKeys DEF Needed, Uncommitted, Committed
  <2> HIDE DEF keys
  <2>5. ReadyOutputsKept' /\ SweepsAgree' /\ IntentsAgree' /\ OperatorLooks'
    BY <1>0, <2>2 DEF ImageInv, ReadyOutputsKept, SweepsAgree, IntentsAgree,
       OperatorLooks, Committed, Uncommitted
  <2>6. QED BY <1>0, <2>1, <2>2, <2>4, <2>5, OthersMove DEF AssetState
<1>4. CASE LeaseLapses
  <2>1. session' \in SessionState /\ session'.state = session.state
        /\ session'.operator = session.operator /\ UNCHANGED <<outbox, asset>>
    BY <1>0, <1>4 DEF LeaseLapses, SessionState, deletionVars
  <2>2. DeletionTypeOK'
    BY <1>0, <2>1 DEF DeletionTypeOK, LiveClaim
  <2>3. \A k \in Key : Needed(k)' => Needed(k) /\ outbox'[k] = outbox[k]
    BY <1>0, <2>1 DEF Needed, Uncommitted, Committed
  <2>4. ReadyOutputsKept' /\ SweepsAgree' /\ IntentsAgree' /\ OperatorLooks'
    BY <1>0, <2>1 DEF ImageInv, ReadyOutputsKept, SweepsAgree, IntentsAgree,
       OperatorLooks, Committed, Uncommitted
  <2>5. QED BY <1>0, <2>1, <2>2, <2>3, <2>4, OthersMove
<1>5. QED BY <1>1, <1>2, <1>3, <1>4

\* A late PUT only adds bytes.
LEMMA LatePutKeeps ==
    ASSUME ImageInv, NEW o \in Output, LatePut(o), faults' \in 0 .. MaxFaults
    PROVE  ImageInv'
<1>0. /\ session \in SessionState /\ asset \in AssetState /\ DeletionTypeOK
      /\ intent \in [Output -> IntentRow] /\ sweeper \in [Sweeper -> ImageSweep]
      /\ worker \in [Worker -> ImagePass] /\ latePut \in SUBSET Output
      /\ UNCHANGED <<outbox, reaper, lateDelete, session, asset, intent, sweeper, worker>>
      /\ stored' = stored \cup {o} /\ latePut' = latePut \ {o}
  BY ImageTypes DEF ImageInv, LatePut
<1>1. DeletionTypeOK'
  BY <1>0, ImageKeys DEF DeletionTypeOK, LiveClaim
<1>2. \A k \in Key : Needed(k)' => Needed(k) /\ outbox'[k] = outbox[k]
  BY <1>0 DEF Needed, Uncommitted, Committed
<1>3. /\ UploadsStored' /\ ReadyOutputsKept' /\ SweepsAgree' /\ IntentsAgree'
      /\ OperatorLooks' /\ \A q \in Output : Forward(q)
  BY <1>0 DEF ImageInv, UploadsStored, ReadyOutputsKept, SweepsAgree, IntentsAgree,
     OperatorLooks, Committed, Uncommitted, Forward
<1>4. QED BY <1>0, <1>1, <1>2, <1>3, ImageMoves

\* A sweep or an intent's claim changes, and no decision.
LEMMA SweepMoves ==
    ASSUME ImageInv, UNCHANGED <<deletionVars, session, asset, worker, latePut>>,
           intent' \in [Output -> IntentRow], sweeper' \in [Sweeper -> ImageSweep],
           \A o \in Output : intent'[o].state = intent[o].state,
           SweepsAgree', faults' \in 0 .. MaxFaults
    PROVE  ImageInv'
<1>1. DeletionTypeOK' /\ session' \in SessionState /\ asset' \in AssetState
  BY ImageTypes DEF ImageInv, DeletionTypeOK, LiveClaim, deletionVars
<1>2. \A k \in Key : Needed(k)' => Needed(k) /\ outbox'[k] = outbox[k]
  BY DEF Needed, Uncommitted, Committed, deletionVars
<1>3. ReadyOutputsKept' /\ IntentsAgree' /\ OperatorLooks'
  BY DEF ImageInv, ReadyOutputsKept, IntentsAgree, OperatorLooks, Committed,
     Uncommitted, deletionVars
<1>4. QED BY <1>1, <1>2, <1>3, OthersMove DEF deletionVars

LEMMA SweepReads ==
    ASSUME ImageInv, faults' \in 0 .. MaxFaults,
           \/ \E o \in Output : FallDue(o) \/ SweepLapses(o)
           \/ \E s \in Sweeper : \/ \E o \in Output : ClaimStale(s, o)
                                 \/ CollectForSweep(s) \/ HeadSwept(s) \/ SweepFails(s)
    PROVE  ImageInv'
<1>0. intent \in [Output -> IntentRow] /\ sweeper \in [Sweeper -> ImageSweep]
  BY ImageTypes DEF ImageInv
<1>1. ASSUME NEW o \in Output, FallDue(o) \/ SweepLapses(o) PROVE ImageInv'
  <2> DEFINE due == [intent[o] EXCEPT !.due = TRUE]
             free == [intent[o] EXCEPT !.claim = None]
  <2>1. /\ due \in IntentRow /\ due.state = intent[o].state /\ due.claim = intent[o].claim
        /\ free \in IntentRow /\ free.state = intent[o].state /\ free.claim = None
    BY <1>0 DEF IntentRow
  <2>2. PICK i \in {due, free} : intent' = [intent EXCEPT ![o] = i]
    BY <1>1 DEF FallDue, SweepLapses
  <2> HIDE DEF due, free
  <2>3. /\ intent' \in [Output -> IntentRow] /\ intent'[o] = i
        /\ \A q \in Output : q # o => intent'[q] = intent[q]
    BY <1>0, <2>1, <2>2
  <2>4. UNCHANGED <<deletionVars, session, asset, worker, latePut, sweeper>>
    BY <1>1 DEF FallDue, SweepLapses
  <2>5. SweepsAgree'
    BY <2>1, <2>2, <2>3, <2>4 DEF ImageInv, SweepsAgree, Committed, Uncommitted
  <2>6. QED BY <1>0, <2>1, <2>2, <2>3, <2>4, <2>5, SweepMoves
<1>2. ASSUME NEW s \in Sweeper, NEW o \in Output, ClaimStale(s, o) PROVE ImageInv'
  <2> DEFINE i == [intent[o] EXCEPT !.claim = s]
             z == [sweeper[s] EXCEPT !.at = "collecting", !.output = o]
  <2>1. i \in IntentRow /\ i.state = intent[o].state /\ i.claim = s
    BY <1>0 DEF IntentRow
  <2>2. z \in ImageSweep /\ z.at = "collecting" /\ z.output = o /\ z.seen = sweeper[s].seen
    BY <1>0 DEF ImageSweep
  <2>3. intent' = [intent EXCEPT ![o] = i] /\ sweeper' = [sweeper EXCEPT ![s] = z]
        /\ Uncommitted(o) /\ UNCHANGED <<deletionVars, session, asset, worker, latePut>>
    BY <1>2 DEF ClaimStale
  <2> HIDE DEF i, z
  <2>4. /\ intent' \in [Output -> IntentRow] /\ intent'[o] = i
        /\ \A q \in Output : q # o => intent'[q] = intent[q]
        /\ sweeper' \in [Sweeper -> ImageSweep] /\ sweeper'[s] = z
        /\ \A q \in Sweeper : q # s => sweeper'[q] = sweeper[q]
    BY <1>0, <2>1, <2>2, <2>3
  <2>5. SweepsAgree'
    BY <2>1, <2>2, <2>3, <2>4 DEF ImageInv, SweepsAgree, Committed, Uncommitted
  <2>6. QED BY <2>1, <2>3, <2>4, <2>5, SweepMoves
<1>3. ASSUME NEW s \in Sweeper, CollectForSweep(s) \/ HeadSwept(s) PROVE ImageInv'
  <2>0. sweeper[s] \in ImageSweep
        /\ UNCHANGED <<deletionVars, session, asset, worker, latePut, intent>>
        /\ sweeper[s].at # "asleep"
    BY <1>0, <1>3 DEF CollectForSweep, HeadSwept
  <2>1. PICK z \in ImageSweep :
           /\ sweeper' = [sweeper EXCEPT ![s] = z] /\ z.output = sweeper[s].output
           /\ z.seen \/ z.at = "COMMITTED" => Committed
    <3>1. CASE CollectForSweep(s)
      <4> DEFINE b == Committed /\ asset # "DELETED"
                 z == [sweeper[s] EXCEPT !.at = "checking", !.seen = b]
      <4>1. b \in BOOLEAN /\ (b => Committed)
        OBVIOUS
      <4>2. sweeper' = [sweeper EXCEPT ![s] = z]
        BY <3>1 DEF CollectForSweep
      <4> HIDE DEF b
      <4>3. z \in ImageSweep /\ z.output = sweeper[s].output /\ z.at = "checking"
            /\ z.seen = b
        BY <2>0, <4>1 DEF ImageSweep
      <4>4. QED BY <4>1, <4>2, <4>3
    <3>2. CASE HeadSwept(s)
      <4> DEFINE l == SweepOutcome(s)
                 z == [sweeper[s] EXCEPT !.at = l]
      <4>1. l \in {"COMMITTED", "RESOLVED", "CLEANUP_QUEUED"}
            /\ (l = "COMMITTED" => sweeper[s].seen)
        BY DEF SweepOutcome
      <4>2. sweeper' = [sweeper EXCEPT ![s] = z]
        BY <3>2 DEF HeadSwept
      <4> HIDE DEF l
      <4>3. z \in ImageSweep /\ z.output = sweeper[s].output /\ z.at = l
            /\ z.seen = sweeper[s].seen
        BY <2>0, <4>1 DEF ImageSweep
      <4>4. sweeper[s].seen => Committed
        BY DEF ImageInv, SweepsAgree
      <4>5. QED BY <4>1, <4>2, <4>3, <4>4
    <3>3. QED BY <1>3, <3>1, <3>2
  <2>2. /\ sweeper' \in [Sweeper -> ImageSweep] /\ sweeper'[s] = z
        /\ \A q \in Sweeper : q # s => sweeper'[q] = sweeper[q]
    BY <1>0, <2>1
  <2>3. SweepsAgree'
    BY <2>0, <2>1, <2>2 DEF ImageInv, SweepsAgree, Committed, Uncommitted
  <2>4. QED BY <1>0, <2>0, <2>2, <2>3, SweepMoves
<1>4. ASSUME NEW s \in Sweeper, SweepFails(s) PROVE ImageInv'
  <2>1. PICK o \in Output : o = sweeper[s].output
    BY <1>4 DEF SweepFails, ImageInv, SweepsAgree
  <2> DEFINE i == [intent[o] EXCEPT !.claim = None]
  <2>2. i \in IntentRow /\ i.state = intent[o].state /\ i.claim = None
    BY <1>0 DEF IntentRow
  <2>3. /\ intent' = [intent EXCEPT ![o] = i] \/ UNCHANGED intent
        /\ sweeper' = [sweeper EXCEPT ![s] = Asleep]
        /\ UNCHANGED <<deletionVars, session, asset, worker, latePut>>
    BY <1>4, <2>1 DEF SweepFails
  <2> HIDE DEF i
  <2>4. /\ intent' \in [Output -> IntentRow]
        /\ \A q \in Output : intent'[q] = intent[q] \/ (q = o /\ intent'[q] = i)
        /\ sweeper' \in [Sweeper -> ImageSweep] /\ sweeper'[s] = Asleep
        /\ \A q \in Sweeper : q # s => sweeper'[q] = sweeper[q]
    BY <1>0, <2>2, <2>3, ImageBlanks
  <2>5. SweepsAgree'
    BY <2>2, <2>3, <2>4, ImageBlanks DEF ImageInv, SweepsAgree, Committed, Uncommitted
  <2>6. QED BY <2>2, <2>3, <2>4, <2>5, SweepMoves
<1>5. QED BY <1>1, <1>2, <1>3, <1>4

\* A sweep that still holds its intent queues an output nobody needs.
LEMMA SweepSettles ==
    ASSUME ImageInv, NEW s \in Sweeper, FinishSweep(s), faults' \in 0 .. MaxFaults
    PROVE  ImageInv'
<1>0. /\ intent \in [Output -> IntentRow] /\ sweeper \in [Sweeper -> ImageSweep]
      /\ session \in SessionState /\ asset \in AssetState /\ DeletionTypeOK
      /\ UNCHANGED <<reaper, stored, lateDelete, session, asset, worker, latePut>>
  BY ImageTypes DEF ImageInv, FinishSweep
<1>1. PICK o \in Output : o = sweeper[s].output
  BY DEF FinishSweep, ImageInv, SweepsAgree
<1>2. /\ sweeper' \in [Sweeper -> ImageSweep] /\ sweeper'[s] = Asleep
      /\ \A q \in Sweeper : q # s => sweeper'[q] = sweeper[q]
  BY <1>0, ImageBlanks DEF FinishSweep
<1>3. CASE UNCHANGED <<intent, outbox>>
  <2>1. SweepsAgree'
    BY <1>0, <1>2, <1>3, ImageBlanks DEF ImageInv, SweepsAgree, Committed, Uncommitted
  <2>2. QED BY <1>0, <1>2, <1>3, <2>1, SweepMoves DEF deletionVars
<1>4. CASE /\ intent[o].claim = s
           /\ intent' = [intent EXCEPT ![o] = [state |-> sweeper[s].at,
                                               due |-> intent[o].due, claim |-> None]]
           /\ QueueDurableDeletions(
                 IF sweeper[s].at = "CLEANUP_QUEUED" THEN {o} ELSE {})
  <2>1. Uncommitted(o)
    BY <1>4, ImageKeys DEF ImageInv, SweepsAgree
  <2>2. ~Committed
    BY <2>1 DEF ImageInv, IntentsAgree, Uncommitted
  <2>3. sweeper[s].at \in {"RESOLVED", "CLEANUP_QUEUED"}
    BY <2>2 DEF FinishSweep, ImageInv, SweepsAgree
  <2> DEFINE i == [state |-> sweeper[s].at, due |-> intent[o].due, claim |-> None]
  <2>4. i \in IntentRow /\ i.state \in {"RESOLVED", "CLEANUP_QUEUED"} /\ i.claim = None
    BY <1>0, <2>3 DEF IntentRow
  <2>5. intent' = [intent EXCEPT ![o] = i]
    BY <1>4
  <2> HIDE DEF i
  <2>6. /\ intent' \in [Output -> IntentRow] /\ intent'[o] = i
        /\ \A q \in Output : q # o => intent'[q] = intent[q]
    BY <1>0, <2>4, <2>5
  <2>7. DeletionTypeOK' /\ \A k \in Key : k # o => outbox'[k] = outbox[k]
    <3> DEFINE keys == IF sweeper[s].at = "CLEANUP_QUEUED" THEN {o} ELSE {}
    <3>1. keys \in SUBSET Key
      BY ImageKeys
    <3>2. QED BY <1>0, <1>4, <3>1, Queueing
  <2>8. \A k \in Key : Needed(k)' => Needed(k) /\ outbox'[k] = outbox[k]
    BY <1>0, <2>2, <2>4, <2>6, <2>7, ImageKeys DEF Needed, Uncommitted, Committed
  <2>9. ReadyOutputsKept' /\ IntentsAgree' /\ OperatorLooks' /\ SweepsAgree'
    BY <1>0, <1>2, <2>2, <2>4, <2>6, ImageBlanks DEF ImageInv, ReadyOutputsKept,
       IntentsAgree, OperatorLooks, SweepsAgree, Committed, Uncommitted
  <2>10. \A q \in Output :
            intent'[q].state \in {intent[q].state, "CLEANUP_QUEUED", "RESOLVED"}
    BY <2>4, <2>6
  <2>11. QED BY <1>0, <1>2, <2>6, <2>7, <2>8, <2>9, <2>10, OthersMove
<1>5. QED BY <1>1, <1>3, <1>4 DEF FinishSweep

\* The reaper reaches no key that is needed.
LEMMA ReaperKeeps ==
    ASSUME ImageInv, UNCHANGED imageVars, faults' \in 0 .. MaxFaults,
           \/ ReaperMoves
           \/ \E r \in Reaper, t \in Table : CollectReferences(r, t, ReferredBy(t))
    PROVE  ImageInv'
<1>0. DeletionTypeOK /\ UNCHANGED <<session, asset, intent, worker, sweeper, latePut>>
  BY ImageTypes DEF ImageInv, imageVars
<1>1. DeletionTypeOK'
  BY <1>0, DeletionTypeStep, CollectTypeStep
<1>2. ASSUME NEW k \in Key, Needed(k)
      PROVE  Untouched({k})' /\ (k \in stored => k \in stored')
  <2>1. Untouched({k}) /\ {k} \in SUBSET Key
    BY <1>2 DEF ImageInv, NeededUntouched
  <2>2. QED BY <1>0, <2>1, UntouchedStep, UntouchedCollect
<1>3. \A k \in Key : Needed(k)' = Needed(k)
  BY <1>0 DEF Needed, Uncommitted, Committed
<1>4. NeededUntouched'
  BY <1>2, <1>3 DEF NeededUntouched
<1>5. SourceKept'
  BY <1>0, <1>2, ImageKeys DEF ImageInv, SourceKept, Needed
<1>6. UploadsStored' /\ ReadyOutputsKept'
  BY <1>0, <1>2, ImageKeys DEF ImageInv, UploadsStored, ReadyOutputsKept, Needed,
     Uncommitted, Committed
<1>7. \A w \in Worker : PassFits(w)'
  BY <1>0, <1>2, ImageKeys DEF ImageInv, PassFits, Needed, Uncommitted
<1>8. SweepsAgree' /\ IntentsAgree' /\ OperatorLooks'
  BY <1>0 DEF ImageInv, SweepsAgree, IntentsAgree, OperatorLooks, Committed, Uncommitted
<1>9. ImageTypeOK'
  BY <1>0, <1>1 DEF ImageInv, ImageTypeOK
<1>10. QED BY <1>4, <1>5, <1>6, <1>7, <1>8, <1>9 DEF ImageInv

LEMMA ImageStep == ImageInv /\ [Next]_vars => ImageInv'
<1> SUFFICES ASSUME ImageInv, [Next]_vars PROVE ImageInv'
  OBVIOUS
<1>1. CASE UNCHANGED vars
  <2>1. UNCHANGED <<deletionVars, session, asset, intent, worker, sweeper, latePut, faults>>
    BY <1>1 DEF vars, imageVars
  <2>2. SweepsAgree' /\ intent' \in [Output -> IntentRow]
        /\ sweeper' \in [Sweeper -> ImageSweep] /\ faults' \in 0 .. MaxFaults
    BY <2>1, ImageTypes DEF ImageInv, SweepsAgree, Committed, Uncommitted
  <2>3. QED BY <2>1, <2>2, SweepMoves
<1>2. CASE Next
  <2>0. faults' \in 0 .. MaxFaults
    BY <1>2, ImageKeys, ImageTypes DEF Next, ImageInv
  <2>1. ASSUME NEW w \in Worker,
               \/ ClaimVerifying(w) \/ ReadSource(w) \/ PrepareOutputPlan(w)
               \/ \E o \in Output : HeadOutput(w, o)
               \/ PutOutput(w) \/ MarkOutputUploaded(w) \/ CommitReady(w)
               \/ CommitRefused(w) \/ Reject(w) \/ LoseClaim(w)
               \/ PassFails(w) \/ WorkerStops(w)
        PROVE  ImageInv'
    BY <2>0, <2>1, ReadingMoves, PrepareKeeps, MarkKeeps, CommitKeeps, RejectKeeps
  <2>2. CASE CancelSubmission \/ ClaimAssetForDeletion \/ CompleteAssetDeletion \/ LeaseLapses
    BY <2>0, <2>2, UsersKeep
  <2>3. ASSUME NEW o \in Output, FallDue(o) \/ LatePut(o) \/ SweepLapses(o) PROVE ImageInv'
    BY <2>0, <2>3, SweepReads, LatePutKeeps
  <2>4. ASSUME NEW s \in Sweeper,
               \/ \E o \in Output : ClaimStale(s, o)
               \/ CollectForSweep(s) \/ HeadSwept(s) \/ FinishSweep(s) \/ SweepFails(s)
        PROVE  ImageInv'
    BY <2>0, <2>4, SweepReads, SweepSettles
  <2>5. CASE DeletionStep(ReferredBy) /\ UNCHANGED imageVars
    <3>1. ReaperMoves \/ \E r \in Reaper, t \in Table : CollectReferences(r, t, ReferredBy(t))
      BY <2>5 DEF DeletionStep, ReaperMoves
    <3>2. QED BY <2>0, <2>5, <3>1, ReaperKeeps
  <2>6. CASE DeletionFault /\ UNCHANGED imageVars
    BY <2>0, <2>6, ReaperKeeps DEF ReaperMoves
  <2>7. QED BY <1>2, <2>1, <2>2, <2>3, <2>4, <2>5, <2>6 DEF Next, Step, Fault
<1>3. QED BY <1>1, <1>2

\* The rows of the image worker, the reaper and storage keep their types.
THEOREM ImageTypesHold == Spec => []ImageTypeOK
<1>1. ImageInv => ImageTypeOK
  BY DEF ImageInv
<1>2. QED BY ImageInitially, ImageStep, <1>1, PTL DEF Spec

\* Bytes somebody still needs stay, of sources and of outputs, and the intents,
\* the session and the asset agree, for any number of outputs, passes and faults.
THEOREM ImagesAlwaysKept == Spec => []ImagesKept
<1>1. ImageInv => ImagesKept
  BY DEF ImageInv, ImagesKept
<1>2. QED BY ImageInitially, ImageStep, <1>1, PTL DEF Spec

-----------------------------------------------------------------------------
(***************************************************************************)
(* The video worker.  The asset is made once, by the pass that holds the   *)
(* session; the file it names is stored and will not be removed; and a late*)
(* pass or a retry finds what it has already done.                         *)
(***************************************************************************)
FilmState == [state : {"VERIFYING", "READY", "REJECTED", "CANCELLED"},
              claim : Maker \cup {None}, lapsed : BOOLEAN,
              attempts : 0 .. MaxMakes, operator : BOOLEAN]
ClipState == [status : {"NONE", "READY", "DELETING", "DELETED"},
              playback : {"NONE", "VERIFYING", "READY", "FAILED"},
              key : {None, Original, Generated, Elsewhere}]
PlaybackRow == [state : {"NONE", "PREPARED", "UPLOADED", "COMMITTED",
                         "CLEANUP_QUEUED", "RESOLVED"},
                claim : IntentSweep \cup {None}]
VideoPass == [at : {"away", "reading", "keeping", "encoding", "spoiled", "preparing",
                    "looking", "uploading", "marking", "finishing", "deciding"},
              last : BOOLEAN, operator : BOOLEAN]
VideoSweep == [at : {"asleep", "collecting", "checking", "COMMITTED", "RESOLVED",
                     "CLEANUP_QUEUED"},
               seen : BOOLEAN]

\* Session, asset and intent tell the same story: the intent comes after the
\* asset, and the asset is made once.
RowsFit ==
    /\ made = IF HasResult THEN 1 ELSE 0
    /\ film.state = "REJECTED" => clip.status = "NONE"
    /\ film.state = "READY" => clip.playback \in {"READY", "FAILED"}
    /\ film.operator => film.state = "REJECTED"
    /\ clip.status = "NONE" => outputIntent = NoneYet

\* A pass beyond the first transaction has its asset, and one that has put the
\* playback of an asset that is still there finds it.
MakerFits(p) ==
    /\ maker[p].at \in {"encoding", "spoiled", "preparing", "looking", "uploading",
                        "marking", "finishing"} => HasResult
    /\ maker[p].at \in {"marking", "finishing"}
       /\ clip.status = "READY" /\ clip.key = Generated => Generated \in stored

\* Before there is an asset nobody has queued what it is made of; from then on
\* the asset, and until its end the session, is seen to refer to it.
FilesSafe ==
    /\ clip.status = "NONE" => Untouched({Generated})
    /\ clip.status = "NONE" /\ (film.state = "VERIFYING" \/ film.operator)
          => Untouched({Original})
    /\ film.state = "VERIFYING" => Watched({Original}, "sessions")
    /\ clip.status = "READY" => Watched({Original}, "assets")
    /\ clip.status = "READY" /\ clip.key = Generated => Watched({Generated}, "assets")

CommitInv ==
    /\ CommitTypeOK /\ RowsFit /\ FilesSafe /\ OneWholeVideo
    /\ \A p \in Maker : MakerFits(p)

-----------------------------------------------------------------------------
LEMMA CommitTypes ==
    CommitTypeOK <=>
        /\ DeletionTypeOK
        /\ film \in FilmState /\ clip \in ClipState
        /\ made \in Nat /\ safe \in BOOLEAN /\ strayUpload \in BOOLEAN
        /\ outputIntent \in PlaybackRow /\ maker \in [Maker -> VideoPass]
        /\ intentSweep \in [IntentSweep -> VideoSweep]
        /\ commitFaults \in 0 .. MaxCommitFaults
BY DEF CommitTypeOK, FilmState, ClipState, PlaybackRow, VideoPass, VideoSweep

LEMMA CommitBlanks ==
    /\ NoClip \in ClipState /\ NoClip.status = "NONE" /\ NoClip.playback = "NONE"
    /\ NoneYet \in PlaybackRow /\ NoneYet.state = "NONE" /\ NoneYet.claim = None
    /\ Away \in VideoPass /\ Away.at = "away"
    /\ NotSwept \in VideoSweep
BY DEF NoClip, NoneYet, Away, NotSwept, ClipState, PlaybackRow, VideoPass, VideoSweep

LEMMA CommitInitially ==
    ReaperInit /\ stored = {Original} /\ CommitInit => CommitInv
<1> SUFFICES ASSUME ReaperInit, stored = {Original}, CommitInit PROVE CommitInv
  OBVIOUS
<1>1. stored \in SUBSET Key
  BY CommitKeys
<1>2. DeletionTypeOK /\ Untouched(Key)
  BY <1>1, InitialDeletions
<1>3. film \in FilmState /\ film.state = "VERIFYING" /\ ~film.operator
  BY CommitKeys DEF CommitInit, FilmState
<1>4. /\ clip = NoClip /\ made = 0 /\ safe \in BOOLEAN /\ outputIntent = NoneYet
      /\ maker = [p \in Maker |-> Away] /\ intentSweep = [s \in IntentSweep |-> NotSwept]
      /\ strayUpload = FALSE /\ commitFaults = 0
  BY DEF CommitInit
<1>5. CommitTypeOK
  <2>1. commitFaults \in 0 .. MaxCommitFaults /\ made \in Nat
    BY <1>4, CommitKeys
  <2>2. strayUpload \in BOOLEAN
    BY <1>4
  <2>3. maker \in [Maker -> VideoPass] /\ intentSweep \in [IntentSweep -> VideoSweep]
        /\ clip \in ClipState /\ outputIntent \in PlaybackRow
    BY <1>4, CommitBlanks
  <2>4. QED BY <1>2, <1>3, <1>4, <2>1, <2>2, <2>3, CommitTypes
<1>6. RowsFit /\ OneWholeVideo
  BY <1>3, <1>4, CommitBlanks DEF RowsFit, OneWholeVideo, HasResult
<1>7. Untouched({Generated}) /\ Untouched({Original})
  BY <1>2, CommitKeys DEF Untouched
<1>8. FilesSafe
  BY <1>4, <1>7, CommitBlanks, UntouchedIsWatched DEF FilesSafe
<1>9. \A p \in Maker : MakerFits(p)
  BY <1>4, CommitBlanks DEF MakerFits
<1>10. QED BY <1>5, <1>6, <1>8, <1>9 DEF CommitInv

\* A step of anybody but the reaper.  The asset comes and goes once, from a
\* session that is not over, and nothing is queued before.
LEMMA VideoMoves ==
    ASSUME CommitInv, DeletionTypeOK', film' \in FilmState, clip' \in ClipState,
           made' \in Nat, UNCHANGED <<safe, reaper, lateDelete>>, strayUpload' \in BOOLEAN,
           outputIntent' \in PlaybackRow, maker' \in [Maker -> VideoPass],
           intentSweep' \in [IntentSweep -> VideoSweep],
           commitFaults' \in 0 .. MaxCommitFaults, stored \subseteq stored', RowsFit',
           \A p \in Maker : maker'[p] = maker[p] \/ MakerFits(p)',
           film'.state = "VERIFYING" => film.state = "VERIFYING",
           film'.operator => film.operator \/ film.state = "VERIFYING",
           clip'.status = "NONE" =>
               /\ clip.status = "NONE" /\ outbox'[Generated] = outbox[Generated]
               /\ film'.state = "VERIFYING" \/ film'.operator
                     => outbox'[Original] = outbox[Original],
           clip'.status = "READY" =>
               \/ clip.status = "NONE" /\ film.state = "VERIFYING"
               \/ clip.status = "READY" /\ clip'.key \in {clip.key, Elsewhere},
           clip'.status = "READY" /\ clip'.playback = "READY" /\ clip'.key = Generated
               => Generated \in stored'
    PROVE  CommitInv'
<1>0. Elsewhere # Generated /\ film \in FilmState /\ clip \in ClipState
  BY CommitKeys, CommitTypes DEF CommitInv
<1>1. CommitTypeOK'
  <2>1. safe' \in BOOLEAN
    BY CommitTypes DEF CommitInv
  <2>2. QED BY <2>1 DEF CommitTypeOK, FilmState, ClipState, PlaybackRow, VideoPass, VideoSweep
<1>2. FilesSafe'
  <2>1. clip'.status = "NONE" => Untouched({Generated})'
    BY DEF CommitInv, FilesSafe, Untouched
  <2>2. clip'.status = "NONE" /\ (film'.state = "VERIFYING" \/ film'.operator)
          => Untouched({Original})'
    BY DEF CommitInv, FilesSafe, Untouched
  <2>3. film'.state = "VERIFYING" => Watched({Original}, "sessions")'
    BY DEF CommitInv, FilesSafe, Watched
  <2>4. clip'.status = "READY" => Watched({Original}, "assets")'
    <3>1. clip'.status = "READY" => Watched({Original}, "assets")
      BY UntouchedIsWatched DEF CommitInv, FilesSafe
    <3>2. QED BY <3>1 DEF Watched
  <2>5. clip'.status = "READY" /\ clip'.key = Generated => Watched({Generated}, "assets")'
    <3>1. clip'.status = "READY" /\ clip'.key = Generated => Watched({Generated}, "assets")
      BY <1>0, UntouchedIsWatched DEF CommitInv, FilesSafe
    <3>2. QED BY <3>1 DEF Watched
  <2>6. QED BY <2>1, <2>2, <2>3, <2>4, <2>5 DEF FilesSafe
<1>3. OneWholeVideo'
  <2>1. made' <= 1 /\ (film'.state = "REJECTED" => clip'.status = "NONE")
        /\ (film'.state = "READY" => clip'.playback \in {"READY", "FAILED"})
    BY DEF RowsFit, HasResult
  <2>2. clip'.status = "READY" \/ film'.state = "VERIFYING" \/ film'.operator
           => Original \in stored'
    BY DEF CommitInv, OneWholeVideo
  <2>3. QED BY <2>1, <2>2 DEF OneWholeVideo
<1>4. ASSUME NEW p \in Maker, maker'[p] = maker[p] PROVE MakerFits(p)'
  BY <1>0, <1>4 DEF CommitInv, MakerFits, HasResult
<1>5. QED BY <1>1, <1>2, <1>3, <1>4 DEF CommitInv

\* A step of one pass, to q, that may also move the claim of the session and,
\* once there is an asset, the intent.
LEMMA VideoWorks ==
    ASSUME CommitInv, NEW p \in Maker, NEW q \in VideoPass,
           maker' = [maker EXCEPT ![p] = q], film' \in FilmState,
           film'.state = film.state, film'.operator = film.operator,
           outputIntent' \in PlaybackRow, outputIntent' # outputIntent => HasResult,
           UNCHANGED <<outbox, reaper, lateDelete, clip, made, safe, intentSweep>>,
           stored \subseteq stored', stored' \in SUBSET Key,
           strayUpload' \in BOOLEAN, commitFaults' \in 0 .. MaxCommitFaults,
           q.at \in {"encoding", "spoiled", "preparing", "looking", "uploading",
                     "marking", "finishing"} => HasResult,
           q.at \in {"marking", "finishing"} /\ clip.status = "READY"
              /\ clip.key = Generated => Generated \in stored'
    PROVE  CommitInv'
<1>0. /\ DeletionTypeOK /\ clip \in ClipState /\ made \in Nat
      /\ maker \in [Maker -> VideoPass] /\ intentSweep \in [IntentSweep -> VideoSweep]
  BY CommitTypes DEF CommitInv
<1>1. DeletionTypeOK'
  BY <1>0 DEF DeletionTypeOK, LiveClaim
<1>2. RowsFit'
  BY DEF CommitInv, RowsFit, HasResult
<1>3. /\ maker' \in [Maker -> VideoPass] /\ maker'[p] = q
      /\ \A v \in Maker : v # p => maker'[v] = maker[v]
  BY <1>0
<1>4. MakerFits(p)'
  BY <1>3 DEF MakerFits, HasResult
<1>5. \A v \in Maker : maker'[v] = maker[v] \/ MakerFits(v)'
  BY <1>3, <1>4
<1>6. film.state = "VERIFYING" \/ (clip.status = "READY" => clip.status = "READY")
  OBVIOUS
<1>7. clip.status = "READY" /\ clip.playback = "READY" /\ clip.key = Generated
         => Generated \in stored'
  BY DEF CommitInv, OneWholeVideo
<1>8. QED BY <1>0, <1>1, <1>2, <1>3, <1>5, <1>7, VideoMoves

\* A pass goes on to l and keeps the rest.
LEMMA VideoGoes ==
    ASSUME CommitInv, NEW p \in Maker,
           NEW l \in {"keeping", "deciding", "spoiled", "preparing", "looking",
                      "uploading", "marking", "finishing"},
           MakerTo(p, l), UNCHANGED <<outbox, reaper, lateDelete, film, clip, made, safe,
                                      intentSweep, strayUpload>>,
           outputIntent' \in PlaybackRow,
           stored \subseteq stored', stored' \in SUBSET Key,
           commitFaults' \in 0 .. MaxCommitFaults,
           l \notin {"keeping", "deciding"} => HasResult,
           l \in {"keeping", "deciding"} => UNCHANGED outputIntent,
           l = "marking" => Generated \in stored',
           l = "finishing" => maker[p].at = "marking"
    PROVE  CommitInv'
<1>0. film \in FilmState /\ maker[p] \in VideoPass /\ strayUpload \in BOOLEAN
  BY CommitTypes DEF CommitInv
<1> DEFINE q == [maker[p] EXCEPT !.at = l]
<1>1. q \in VideoPass /\ q.at = l
  BY <1>0 DEF VideoPass
<1>2. maker' = [maker EXCEPT ![p] = q]
  BY DEF MakerTo
<1> HIDE DEF q
<1>3. l = "finishing" /\ clip.status = "READY" /\ clip.key = Generated
         => Generated \in stored'
  BY DEF CommitInv, MakerFits
<1>4. QED BY <1>0, <1>1, <1>2, <1>3, VideoWorks

\* A pass that ends, or goes to decide about the upload.
LEMMA PassOver ==
    ASSUME CommitInv, NEW p \in Maker, LeavePass(p) \/ MakeFailed(p)
    PROVE  \E q \in VideoPass : /\ maker' = [maker EXCEPT ![p] = q]
                                /\ q.at \in {"away", "deciding"}
<1>0. maker[p] \in VideoPass
  BY CommitTypes DEF CommitInv
<1> DEFINE q == [maker[p] EXCEPT !.at = "deciding", !.operator = TRUE]
<1>1. q \in VideoPass /\ q.at = "deciding"
  BY <1>0 DEF VideoPass
<1>2. maker' = [maker EXCEPT ![p] = q] \/ maker' = [maker EXCEPT ![p] = Away]
  BY DEF LeavePass, MakeFailed
<1> HIDE DEF q
<1>3. QED BY <1>1, <1>2, CommitBlanks

LEMMA VideoLeaves ==
    ASSUME CommitInv, NEW p \in Maker, LeavePass(p) \/ MakeFailed(p),
           UNCHANGED <<deletionVars, film, clip, made, safe, outputIntent, intentSweep>>,
           strayUpload' \in BOOLEAN, commitFaults' \in 0 .. MaxCommitFaults
    PROVE  CommitInv'
<1>0. film \in FilmState /\ outputIntent \in PlaybackRow /\ stored \in SUBSET Key
  BY CommitTypes DEF CommitInv, DeletionTypeOK
<1>1. PICK q \in VideoPass : maker' = [maker EXCEPT ![p] = q] /\ q.at \in {"away", "deciding"}
  BY PassOver
<1>2. QED BY <1>0, <1>1, VideoWorks DEF deletionVars

LEMMA VideoReads ==
    ASSUME CommitInv, NEW p \in Maker, commitFaults' \in 0 .. MaxCommitFaults,
           \/ ClaimVideoVerifying(p) \/ ReadFilm(p) \/ Convert(p)
           \/ PreparePlaybackIntent(p) \/ HeadPlayback(p) \/ UploadPlayback(p)
           \/ MarkPlaybackUploaded(p) \/ LoseFilm(p) \/ MakeFails(p) \/ MakerStops(p)
    PROVE  CommitInv'
<1>0. /\ film \in FilmState /\ outputIntent \in PlaybackRow /\ stored \in SUBSET Key
      /\ maker[p] \in VideoPass /\ strayUpload \in BOOLEAN
  BY CommitTypes DEF CommitInv, DeletionTypeOK
<1>1. CASE ClaimVideoVerifying(p)
  <2> DEFINE n == IF film.attempts < MaxMakes THEN film.attempts + 1 ELSE film.attempts
             u == [film EXCEPT !.claim = p, !.lapsed = FALSE, !.attempts = n]
             q == [maker[p] EXCEPT !.at = "reading", !.last = film'.attempts = MaxMakes]
  <2>1. n \in 0 .. MaxMakes
    BY <1>0, CommitKeys DEF FilmState
  <2>2. u \in FilmState /\ u.state = film.state /\ u.operator = film.operator
    BY <1>0, <2>1 DEF FilmState
  <2>3. film' = u
    BY <1>1 DEF ClaimVideoVerifying
  <2>4. q \in VideoPass /\ q.at = "reading"
    BY <1>0 DEF VideoPass
  <2>5. maker' = [maker EXCEPT ![p] = q]
    BY <1>1 DEF ClaimVideoVerifying
  <2> HIDE DEF u, q
  <2>6. UNCHANGED <<deletionVars, clip, made, safe, outputIntent, intentSweep, strayUpload>>
    BY <1>1 DEF ClaimVideoVerifying
  <2>7. QED BY <1>0, <2>2, <2>3, <2>4, <2>5, <2>6, VideoWorks DEF deletionVars
<1>2. CASE ReadFilm(p)
  BY <1>0, <1>2, VideoGoes DEF ReadFilm, deletionVars, rowVars
<1>3. CASE Convert(p) \/ HeadPlayback(p)
  <2>1. HasResult
    BY <1>3 DEF Convert, HeadPlayback, CommitInv, MakerFits
  <2>2. QED BY <1>0, <1>3, <2>1, VideoGoes DEF Convert, HeadPlayback, deletionVars, rowVars
<1>4. CASE PreparePlaybackIntent(p)
  <2>1. HasResult
    BY <1>4 DEF PreparePlaybackIntent, CommitInv, MakerFits
  <2>2. outputIntent' \in PlaybackRow
    BY <1>0, <1>4, CommitBlanks DEF PreparePlaybackIntent, PlaybackRow
  <2>3. UNCHANGED <<deletionVars, film, clip, made, safe, intentSweep, strayUpload>>
    BY <1>4 DEF PreparePlaybackIntent
  <2>4. CASE MakerTo(p, "looking")
    BY <1>0, <2>1, <2>2, <2>3, <2>4, VideoGoes DEF deletionVars
  <2>5. CASE MakeFailed(p) /\ UNCHANGED outputIntent
    BY <1>0, <2>3, <2>5, VideoLeaves
  <2>6. QED BY <1>4, <2>4, <2>5 DEF PreparePlaybackIntent
<1>5. CASE UploadPlayback(p)
  <2>1. HasResult
    BY <1>5 DEF UploadPlayback, CommitInv, MakerFits
  <2>2. QED BY <1>0, <1>5, <2>1, CommitKeys, VideoGoes DEF UploadPlayback, rowVars
<1>6. CASE MarkPlaybackUploaded(p)
  <2>1. HasResult
    BY <1>6 DEF MarkPlaybackUploaded, CommitInv, MakerFits
  <2>2. outputIntent' \in PlaybackRow
    BY <1>0, <1>6 DEF MarkPlaybackUploaded, PlaybackRow
  <2>3. UNCHANGED <<deletionVars, film, clip, made, safe, intentSweep, strayUpload>>
        /\ maker[p].at = "marking"
    BY <1>6 DEF MarkPlaybackUploaded
  <2>4. CASE MakerTo(p, "finishing")
    BY <1>0, <2>1, <2>2, <2>3, <2>4, VideoGoes DEF deletionVars
  <2>5. CASE MakeFailed(p) /\ UNCHANGED outputIntent
    BY <1>0, <2>3, <2>5, VideoLeaves
  <2>6. QED BY <1>6, <2>4, <2>5 DEF MarkPlaybackUploaded
<1>7. CASE LoseFilm(p) \/ MakeFails(p) \/ MakerStops(p)
  <2>1. strayUpload' \in BOOLEAN
    BY <1>0, <1>7 DEF LoseFilm, MakeFails, MakerStops, GiveUpUpload
  <2>2. QED BY <1>7, <2>1, VideoLeaves DEF LoseFilm, MakeFails, MakerStops, rowVars
<1>8. QED BY <1>1, <1>2, <1>3, <1>4, <1>5, <1>6, <1>7

LEMMA FilmEnds ==
    ASSUME film \in FilmState, NEW l \in {"READY", "CANCELLED"}, EndFilm(l)
    PROVE  film' \in FilmState /\ film'.state = l /\ film'.operator = film.operator
BY DEF EndFilm, FilmState

\* The first transaction makes the asset, or finds it.
LEMMA OriginalCommitted ==
    ASSUME CommitInv, NEW p \in Maker, CommitVideoOriginalReady(p),
           commitFaults' \in 0 .. MaxCommitFaults
    PROVE  CommitInv'
<1>0. /\ film \in FilmState /\ outputIntent \in PlaybackRow /\ stored \in SUBSET Key
      /\ maker \in [Maker -> VideoPass] /\ maker[p] \in VideoPass /\ strayUpload \in BOOLEAN
      /\ clip \in ClipState /\ made \in Nat /\ safe \in BOOLEAN /\ DeletionTypeOK
      /\ intentSweep \in [IntentSweep -> VideoSweep]
      /\ UNCHANGED <<deletionVars, film, safe, outputIntent, intentSweep, strayUpload>>
      /\ film.state = "VERIFYING" /\ ~film.operator
  BY CommitTypes DEF CommitInv, DeletionTypeOK, CommitVideoOriginalReady, OwnsFilm, RowsFit
<1>1. DeletionTypeOK'
  BY <1>0 DEF DeletionTypeOK, LiveClaim, deletionVars
<1>2. CASE /\ AfterOriginal(p) /\ clip' \in ClipState /\ clip'.status = "READY"
           /\ made' = 1 /\ clip'.key = PlaybackKey
           /\ \/ clip.status = "NONE" /\ clip'.playback = "VERIFYING"
              \/ /\ clip.status = "READY" /\ clip'.key = clip.key
                 /\ clip'.playback \in {clip.playback, "VERIFYING"}
  <2>1. PICK l \in {"finishing", "encoding"} :
           MakerTo(p, l) /\ (l = "finishing" => safe)
    BY <1>0, <1>2 DEF AfterOriginal
  <2> DEFINE q == [maker[p] EXCEPT !.at = l]
  <2>2. q \in VideoPass /\ q.at = l
    BY <1>0 DEF VideoPass
  <2>3. maker' = [maker EXCEPT ![p] = q]
    BY <2>1 DEF MakerTo
  <2> HIDE DEF q
  <2>4. /\ maker' \in [Maker -> VideoPass] /\ maker'[p] = q
        /\ \A v \in Maker : v # p => maker'[v] = maker[v]
    BY <1>0, <2>2, <2>3
  <2>5. MakerFits(p)'
    BY <1>0, <1>2, <2>1, <2>2, <2>4, CommitKeys DEF MakerFits, HasResult, PlaybackKey
  <2>6. \A v \in Maker : maker'[v] = maker[v] \/ MakerFits(v)'
    BY <2>4, <2>5
  <2>7. RowsFit'
    BY <1>0, <1>2 DEF CommitInv, RowsFit, HasResult
  <2>8. clip'.playback = "READY" /\ clip'.key = Generated => Generated \in stored'
    BY <1>0, <1>2 DEF CommitInv, OneWholeVideo, deletionVars
  <2>9. QED BY <1>0, <1>1, <1>2, <2>4, <2>6, <2>7, <2>8, VideoMoves DEF deletionVars
<1>3. CASE ~HasResult /\ clip' = NewClip /\ made' = made + 1 /\ AfterOriginal(p)
  <2>1. made = 0 /\ clip.status = "NONE"
    BY <1>3 DEF CommitInv, RowsFit, HasResult
  <2>2. NewClip \in ClipState /\ NewClip.status = "READY" /\ NewClip.key = PlaybackKey
        /\ NewClip.playback = "VERIFYING"
    BY DEF NewClip, ClipState, PlaybackKey
  <2>3. QED BY <1>2, <1>3, <2>1, <2>2
<1>4. CASE /\ HasResult /\ Resumable /\ UNCHANGED made /\ AfterOriginal(p)
           /\ clip' = [clip EXCEPT !.playback =
                          IF clip.playback = "FAILED" THEN "VERIFYING" ELSE clip.playback]
  <2>1. made = 1
    BY <1>4 DEF CommitInv, RowsFit
  <2>2. /\ clip' \in ClipState /\ clip'.status = clip.status /\ clip'.key = clip.key
        /\ clip'.playback \in {clip.playback, "VERIFYING"}
    BY <1>0, <1>4 DEF ClipState
  <2>3. QED BY <1>2, <1>4, <2>1, <2>2 DEF Resumable
<1>5. CASE MakeFailed(p) /\ UNCHANGED <<clip, made>>
  BY <1>0, <1>5, VideoLeaves
<1>6. QED BY <1>3, <1>4, <1>5 DEF CommitVideoOriginalReady

LEMMA VideoDecides ==
    ASSUME CommitInv, NEW p \in Maker, commitFaults' \in 0 .. MaxCommitFaults,
           \/ CommitVideoPlaybackFailed(p) \/ CommitVideoPlaybackReady(p)
           \/ RejectVideo(p)
    PROVE  CommitInv'
<1>0. /\ film \in FilmState /\ outputIntent \in PlaybackRow /\ stored \in SUBSET Key
      /\ maker \in [Maker -> VideoPass] /\ maker[p] \in VideoPass /\ strayUpload \in BOOLEAN
      /\ clip \in ClipState /\ made \in Nat /\ safe \in BOOLEAN /\ DeletionTypeOK
      /\ intentSweep \in [IntentSweep -> VideoSweep]
      /\ UNCHANGED <<reaper, stored, lateDelete, made, safe, intentSweep, strayUpload>>
      /\ film.state = "VERIFYING" /\ ~film.operator
  BY CommitTypes DEF CommitInv, DeletionTypeOK, CommitVideoPlaybackFailed,
     CommitVideoPlaybackReady, RejectVideo, OwnsFilm, RowsFit, deletionVars
\* The pass ends and the session is READY, with a playback that is decided.
<1>1. ASSUME LeavePass(p), EndFilm("READY"), clip' \in ClipState,
             clip'.status = "READY", clip.status = "READY", clip'.key = clip.key,
             clip'.playback \in {"READY", "FAILED"}, UNCHANGED outbox,
             outputIntent' \in PlaybackRow,
             clip'.playback = "READY" /\ clip.key = Generated => Generated \in stored
      PROVE  CommitInv'
  <2>1. DeletionTypeOK'
    BY <1>0, <1>1 DEF DeletionTypeOK, LiveClaim
  <2>2. film' \in FilmState /\ film'.state = "READY" /\ film'.operator = film.operator
    BY <1>0, <1>1, FilmEnds
  <2>3. /\ maker' \in [Maker -> VideoPass] /\ maker'[p] = Away
        /\ \A v \in Maker : v # p => maker'[v] = maker[v]
    BY <1>0, <1>1, CommitBlanks DEF LeavePass
  <2>4. \A v \in Maker : maker'[v] = maker[v] \/ MakerFits(v)'
    BY <2>3, CommitBlanks DEF MakerFits
  <2>5. RowsFit'
    BY <1>0, <1>1, <2>2 DEF CommitInv, RowsFit, HasResult
  <2>6. QED BY <1>0, <1>1, <2>1, <2>2, <2>3, <2>4, <2>5, VideoMoves
<1>2. CASE CommitVideoPlaybackFailed(p)
  <2>1. CASE PlaybackFails /\ LeavePass(p)
    <3>1. clip' = [clip EXCEPT !.playback = "FAILED"] /\ clip.status = "READY"
          /\ EndFilm("READY")
      BY <2>1 DEF PlaybackFails, PlaybackDue
    <3>2. clip' \in ClipState /\ clip'.status = clip.status /\ clip'.key = clip.key
          /\ clip'.playback = "FAILED"
      BY <1>0, <3>1 DEF ClipState
    <3>3. UNCHANGED <<outbox, outputIntent>>
      BY <1>2 DEF CommitVideoPlaybackFailed, deletionVars
    <3>4. QED BY <1>0, <1>1, <2>1, <3>1, <3>2, <3>3
  <2>2. CASE MakeFailed(p) /\ UNCHANGED <<clip, film>>
    BY <1>0, <1>2, <2>2, VideoLeaves DEF CommitVideoPlaybackFailed
  <2>3. QED BY <1>2, <2>1, <2>2 DEF CommitVideoPlaybackFailed
<1>3. CASE CommitVideoPlaybackReady(p)
  <2>1. CASE PlaybackFits /\ EndFilm("READY") /\ LeavePass(p)
    <3>1. clip.status = "READY"
      BY <2>1 DEF PlaybackFits, Resumable
    <3>2. clip' = [clip EXCEPT !.playback = "READY"]
          \/ UNCHANGED <<clip, outputIntent, film>>
      BY <1>3 DEF CommitVideoPlaybackReady
    <3>3. film'.state = "READY"
      BY <1>0, <2>1, FilmEnds
    <3>4. clip' \in ClipState /\ clip'.status = clip.status /\ clip'.key = clip.key
          /\ clip'.playback = "READY"
      BY <1>0, <3>2, <3>3 DEF ClipState
    <3>5. outputIntent' \in PlaybackRow /\ UNCHANGED outbox
      BY <1>0, <1>3 DEF CommitVideoPlaybackReady, PlaybackRow, deletionVars
    <3>6. clip.key = Generated => Generated \in stored
      BY <1>3, <3>1 DEF CommitVideoPlaybackReady, CommitInv, MakerFits
    <3>7. QED BY <1>0, <1>1, <2>1, <3>1, <3>4, <3>5, <3>6
  <2>2. CASE MakeFailed(p) /\ UNCHANGED <<clip, outputIntent, film>>
    BY <1>0, <1>3, <2>2, VideoLeaves DEF CommitVideoPlaybackReady
  <2>3. QED BY <1>3, <2>1, <2>2 DEF CommitVideoPlaybackReady
<1>4. CASE RejectVideo(p)
  <2> DEFINE keys == IF maker[p].operator THEN {} ELSE {Original}
  <2>1. LeavePass(p) /\ UNCHANGED <<clip, outputIntent>>
    BY <1>4 DEF RejectVideo
  <2>2. CASE HasResult /\ UNCHANGED <<film, outbox>>
    BY <1>0, <2>1, <2>2, VideoLeaves DEF deletionVars
  <2>3. CASE /\ ~HasResult /\ QueueDurableDeletions(keys)
             /\ film' = [film EXCEPT !.state = "REJECTED", !.claim = None,
                                     !.operator = maker[p].operator]
    <3>1. keys \in SUBSET Key
      BY CommitKeys
    <3>2. DeletionTypeOK' /\ \A k \in Key : k \notin keys => outbox'[k] = outbox[k]
      BY <1>0, <2>3, <3>1, Queueing
    <3>3. film' \in FilmState /\ film'.state = "REJECTED"
          /\ film'.operator = maker[p].operator
      BY <1>0, <2>3 DEF FilmState, VideoPass
    <3>4. outbox'[Generated] = outbox[Generated]
          /\ (film'.operator => outbox'[Original] = outbox[Original])
      BY <3>2, <3>3, CommitKeys
    <3>5. /\ maker' \in [Maker -> VideoPass] /\ maker'[p] = Away
          /\ \A v \in Maker : v # p => maker'[v] = maker[v]
      BY <1>0, <2>1, CommitBlanks DEF LeavePass
    <3>6. \A v \in Maker : maker'[v] = maker[v] \/ MakerFits(v)'
      BY <3>5, CommitBlanks DEF MakerFits
    <3>7. RowsFit' /\ clip'.status = "NONE"
      BY <1>0, <2>1, <2>3, <3>3 DEF CommitInv, RowsFit, HasResult
    <3>8. QED BY <1>0, <2>1, <3>2, <3>3, <3>4, <3>5, <3>6, <3>7, VideoMoves
  <2>4. QED BY <1>4, <2>2, <2>3 DEF RejectVideo
<1>5. QED BY <1>2, <1>3, <1>4

\* A step of the members of the project, or of a sweep; no pass takes part.
LEMMA VideoAround ==
    ASSUME CommitInv, DeletionTypeOK', film' \in FilmState, clip' \in ClipState,
           UNCHANGED <<made, safe, reaper, lateDelete, maker>>, strayUpload' \in BOOLEAN,
           outputIntent' \in PlaybackRow, intentSweep' \in [IntentSweep -> VideoSweep],
           commitFaults' \in 0 .. MaxCommitFaults, stored \subseteq stored',
           film'.operator = film.operator,
           film'.state = film.state
              \/ (film'.state = "CANCELLED" /\ film.state = "VERIFYING"),
           clip' = clip
              \/ (clip.status # "NONE" /\ clip'.status \in {"DELETING", "DELETED"}
                  /\ clip'.playback = clip.playback)
              \/ (clip.status = "READY" /\ clip'.status = "READY"
                  /\ clip'.key = Elsewhere /\ clip'.playback = "READY"),
           clip.status = "NONE" =>
               /\ outputIntent' = outputIntent /\ outbox'[Generated] = outbox[Generated]
               /\ film'.state = "VERIFYING" \/ film'.operator
                     => outbox'[Original] = outbox[Original]
    PROVE  CommitInv'
<1>0. film \in FilmState /\ clip \in ClipState /\ made \in Nat
      /\ maker \in [Maker -> VideoPass] /\ Elsewhere # Generated
  BY CommitKeys, CommitTypes DEF CommitInv
<1>1. RowsFit'
  BY <1>0 DEF CommitInv, RowsFit, HasResult
<1>2. clip'.status = "READY" /\ clip'.playback = "READY" /\ clip'.key = Generated
         => Generated \in stored'
  BY <1>0 DEF CommitInv, OneWholeVideo
<1>3. clip'.status = "READY" => clip.status = "READY" /\ clip'.key \in {clip.key, Elsewhere}
  OBVIOUS
<1>4. clip'.status = "NONE" => clip.status = "NONE"
  OBVIOUS
<1>5. QED BY <1>0, <1>1, <1>2, <1>3, <1>4, VideoMoves

LEMMA MembersMove ==
    ASSUME CommitInv, commitFaults' \in 0 .. MaxCommitFaults,
           \/ FilmLapses \/ StrayUpload \/ CancelFilm \/ ClaimClipForDeletion
           \/ CompleteClipDeletion \/ PlaybackReplaced
    PROVE  CommitInv'
<1>0. /\ film \in FilmState /\ outputIntent \in PlaybackRow /\ clip \in ClipState
      /\ strayUpload \in BOOLEAN /\ DeletionTypeOK /\ stored \in SUBSET Key
      /\ intentSweep \in [IntentSweep -> VideoSweep]
  BY CommitTypes DEF CommitInv, DeletionTypeOK
<1>1. CASE FilmLapses \/ StrayUpload
  <2>1. /\ UNCHANGED <<outbox, reaper, lateDelete, clip, made, safe, outputIntent, maker,
                       intentSweep>>
        /\ stored' \in {stored, stored \cup {Generated}} /\ strayUpload' \in BOOLEAN
    BY <1>0, <1>1 DEF FilmLapses, StrayUpload, deletionVars, makerVars, rowVars
  <2>2. film' \in FilmState /\ film'.state = film.state /\ film'.operator = film.operator
    BY <1>0, <1>1 DEF FilmLapses, StrayUpload, FilmState, rowVars
  <2>3. DeletionTypeOK'
    BY <1>0, <2>1, CommitKeys DEF DeletionTypeOK, LiveClaim
  <2>4. QED BY <1>0, <2>1, <2>2, <2>3, VideoAround
<1>2. CASE CancelFilm
  <2>1. {Original} \in SUBSET Key
    BY CommitKeys
  <2>2. /\ QueueDurableDeletions({Original}) /\ EndFilm("CANCELLED")
        /\ film.state = "VERIFYING"
        /\ UNCHANGED <<reaper, stored, lateDelete, clip, made, safe, outputIntent, maker,
                       strayUpload, intentSweep>>
    BY <1>2 DEF CancelFilm, makerVars
  <2>3. DeletionTypeOK' /\ \A k \in Key : k # Original => outbox'[k] = outbox[k]
    BY <1>0, <2>1, <2>2, Queueing
  <2>4. film' \in FilmState /\ film'.state = "CANCELLED" /\ film'.operator = film.operator
    BY <1>0, <2>2, FilmEnds
  <2>5. ~film.operator /\ outbox'[Generated] = outbox[Generated]
    BY <2>2, <2>3, CommitKeys DEF CommitInv, RowsFit
  <2>6. QED BY <1>0, <2>2, <2>3, <2>4, <2>5, VideoAround
<1>3. CASE ClaimClipForDeletion \/ PlaybackReplaced
  <2>1. /\ UNCHANGED <<outbox, reaper, stored, lateDelete, film, made, safe, outputIntent,
                       maker, strayUpload, intentSweep>>
        /\ clip.status = "READY"
    BY <1>3 DEF ClaimClipForDeletion, PlaybackReplaced, deletionVars, makerVars
  <2>2. CASE ClaimClipForDeletion
    <3>1. clip' \in ClipState /\ clip'.status = "DELETING" /\ clip'.playback = clip.playback
      BY <1>0, <2>2 DEF ClaimClipForDeletion, ClipState
    <3>2. DeletionTypeOK'
      BY <1>0, <2>1 DEF DeletionTypeOK, LiveClaim
    <3>3. QED BY <1>0, <2>1, <3>1, <3>2, VideoAround
  <2>3. CASE PlaybackReplaced
    <3>1. clip' \in ClipState /\ clip'.status = "READY" /\ clip'.playback = "READY"
          /\ clip'.key = Elsewhere
      BY <1>0, <2>1, <2>3 DEF PlaybackReplaced, ClipState
    <3>2. DeletionTypeOK'
      BY <1>0, <2>1 DEF DeletionTypeOK, LiveClaim
    <3>3. QED BY <1>0, <2>1, <3>1, <3>2, VideoAround
  <2>4. QED BY <1>3, <2>2, <2>3
<1>4. CASE CompleteClipDeletion
  <2> DEFINE keys == {Original, clip.key} \cap Key
  <2>1. keys \in SUBSET Key
    OBVIOUS
  <2>2. /\ QueueDurableDeletions(keys) /\ clip.status = "DELETING"
        /\ UNCHANGED <<reaper, stored, lateDelete, film, made, safe, outputIntent, maker,
                       strayUpload, intentSweep>>
    BY <1>4 DEF CompleteClipDeletion, makerVars
  <2> HIDE DEF keys
  <2>3. DeletionTypeOK'
    BY <1>0, <2>1, <2>2, Queueing
  <2>4. clip' \in ClipState /\ clip'.status = "DELETED" /\ clip'.playback = clip.playback
    BY <1>0, <1>4 DEF CompleteClipDeletion, ClipState
  <2>5. QED BY <1>0, <2>2, <2>3, <2>4, VideoAround
<1>5. QED BY <1>1, <1>2, <1>3, <1>4

LEMMA IntentSweepMoves ==
    ASSUME CommitInv, commitFaults' \in 0 .. MaxCommitFaults, NEW s \in IntentSweep,
           \/ ClaimIntent(s) \/ CollectForIntent(s) \/ HeadIntent(s) \/ SettleIntent(s)
           \/ IntentClaimLost(s)
    PROVE  CommitInv'
<1>0. /\ film \in FilmState /\ outputIntent \in PlaybackRow /\ clip \in ClipState
      /\ strayUpload \in BOOLEAN /\ DeletionTypeOK /\ stored \in SUBSET Key
      /\ intentSweep \in [IntentSweep -> VideoSweep] /\ intentSweep[s] \in VideoSweep
      /\ UNCHANGED <<film, clip, made, safe, maker, strayUpload, reaper, stored, lateDelete>>
  BY CommitTypes DEF CommitInv, DeletionTypeOK, ClaimIntent, CollectForIntent, HeadIntent,
     SettleIntent, IntentClaimLost, deletionVars, rowVars, makerVars
<1>1. ASSUME intentSweep' \in [IntentSweep -> VideoSweep], UNCHANGED outbox,
             outputIntent' \in PlaybackRow,
             outputIntent' = outputIntent \/ outputIntent # NoneYet
      PROVE  CommitInv'
  <2>1. DeletionTypeOK'
    BY <1>0, <1>1 DEF DeletionTypeOK, LiveClaim
  <2>2. clip.status = "NONE" => outputIntent' = outputIntent
    BY <1>1 DEF CommitInv, RowsFit
  <2>3. QED BY <1>0, <1>1, <2>1, <2>2, VideoAround
<1>2. CASE ClaimIntent(s)
  <2>1. outputIntent' \in PlaybackRow /\ outputIntent # NoneYet
    BY <1>0, <1>2, CommitBlanks DEF ClaimIntent, PlaybackRow, Undecided
  <2>2. intentSweep' \in [IntentSweep -> VideoSweep] /\ UNCHANGED outbox
    BY <1>0, <1>2 DEF ClaimIntent, VideoSweep, deletionVars
  <2>3. QED BY <1>1, <2>1, <2>2
<1>3. CASE CollectForIntent(s) \/ HeadIntent(s)
  <2>1. UNCHANGED <<outputIntent, outbox>>
    BY <1>3 DEF CollectForIntent, HeadIntent, rowVars, deletionVars
  <2>2. intentSweep' \in [IntentSweep -> VideoSweep]
    <3>1. CASE CollectForIntent(s)
      <4> DEFINE b == Generated \in ReferredClip
      <4>1. b \in BOOLEAN
        OBVIOUS
      <4>2. intentSweep' = [intentSweep EXCEPT ![s] = [at |-> "checking", seen |-> b]]
        BY <3>1 DEF CollectForIntent
      <4> HIDE DEF b
      <4>3. QED BY <1>0, <4>1, <4>2 DEF VideoSweep
    <3>2. CASE HeadIntent(s)
      <4>1. PICK l \in {"COMMITTED", "RESOLVED", "CLEANUP_QUEUED"} :
               intentSweep' = [intentSweep EXCEPT ![s].at = l]
        BY <3>2 DEF HeadIntent
      <4>2. QED BY <1>0, <4>1 DEF VideoSweep
    <3>3. QED BY <1>3, <3>1, <3>2
  <2>3. QED BY <1>0, <1>1, <2>1, <2>2
<1>4. CASE IntentClaimLost(s)
  <2>1. outputIntent' \in PlaybackRow /\ outputIntent # NoneYet
    BY <1>0, <1>4, CommitBlanks, CommitKeys DEF IntentClaimLost, PlaybackRow
  <2>2. intentSweep' \in [IntentSweep -> VideoSweep] /\ UNCHANGED outbox
    BY <1>0, <1>4, CommitBlanks DEF IntentClaimLost, deletionVars
  <2>3. QED BY <1>1, <2>1, <2>2
<1>5. CASE SettleIntent(s)
  <2>1. intentSweep' \in [IntentSweep -> VideoSweep]
    BY <1>0, <1>5, CommitBlanks DEF SettleIntent
  <2>2. CASE UNCHANGED <<outputIntent, outbox>>
    BY <1>0, <1>1, <2>1, <2>2
  <2>3. CASE /\ outputIntent.claim = s
             /\ outputIntent' = [state |-> intentSweep[s].at, claim |-> None]
             /\ QueueDurableDeletions(IF intentSweep[s].at = "CLEANUP_QUEUED"
                                      THEN {Generated} ELSE {})
    <3> DEFINE keys == IF intentSweep[s].at = "CLEANUP_QUEUED" THEN {Generated} ELSE {}
    <3>1. keys \in SUBSET Key
      BY CommitKeys
    <3>2. DeletionTypeOK'
      BY <1>0, <2>3, <3>1, Queueing
    <3>3. clip.status # "NONE"
      BY <2>3, CommitBlanks, CommitKeys DEF CommitInv, RowsFit
    <3>4. outputIntent' \in PlaybackRow
      BY <1>5, <2>3 DEF SettleIntent, PlaybackRow
    <3>5. QED BY <1>0, <2>1, <3>2, <3>3, <3>4, VideoAround
  <2>4. QED BY <1>5, <2>2, <2>3 DEF SettleIntent
<1>6. QED BY <1>2, <1>3, <1>4, <1>5

\* The reaper sees the references it has to see.
LEMMA ReaperSpares ==
    ASSUME CommitInv, UNCHANGED commitVars, commitFaults' \in 0 .. MaxCommitFaults,
           \/ ReaperMoves
           \/ \E r \in Reaper, t \in Table : CollectReferences(r, t, ClipReferences(t))
    PROVE  CommitInv'
<1>0. /\ DeletionTypeOK
      /\ UNCHANGED <<film, clip, made, safe, outputIntent, maker, strayUpload, intentSweep>>
  BY CommitTypes DEF CommitInv, commitVars, rowVars, makerVars
<1>1. DeletionTypeOK'
  BY <1>0, DeletionTypeStep, CollectTypeStep
<1>2. CommitTypeOK'
  BY <1>0, <1>1 DEF CommitInv, CommitTypeOK
<1>3. ASSUME NEW k \in Key, Untouched({k})
      PROVE  Untouched({k})' /\ (k \in stored => k \in stored')
  <2>1. {k} \in SUBSET Key
    OBVIOUS
  <2>2. QED BY <1>0, <1>3, <2>1, UntouchedStep, UntouchedCollect
<1>4. ASSUME NEW k \in Key, NEW u \in Table, Watched({k}, u), k \in ClipReferences(u)
      PROVE  Watched({k}, u)' /\ (k \in stored => k \in stored')
  <2>1. {k} \in SUBSET Key /\ {k} \subseteq ClipReferences(u)
    BY <1>4
  <2>2. CASE ReaperMoves
    BY <1>0, <1>4, <2>1, <2>2, WatchedStep
  <2>3. ASSUME NEW r \in Reaper, NEW t \in Table, CollectReferences(r, t, ClipReferences(t))
        PROVE  Watched({k}, u)' /\ (k \in stored => k \in stored')
    <3>1. t = u => {k} \subseteq ClipReferences(t)
      BY <2>1
    <3>2. QED BY <1>0, <1>4, <2>1, <2>3, <3>1, WatchedCollect
  <2>4. QED BY <2>2, <2>3
<1>5. /\ film.state = "VERIFYING" => Original \in ClipReferences("sessions")
      /\ clip.status = "READY" => Original \in ClipReferences("assets")
      /\ clip.status = "READY" /\ clip.key = Generated => Generated \in ClipReferences("assets")
  BY DEF ClipReferences, ReferredClip
<1>6. /\ film.state = "VERIFYING" =>
            Watched({Original}, "sessions")' /\ (Original \in stored => Original \in stored')
      /\ clip.status = "READY" =>
            Watched({Original}, "assets")' /\ (Original \in stored => Original \in stored')
      /\ clip.status = "READY" /\ clip.key = Generated =>
            Watched({Generated}, "assets")' /\ (Generated \in stored => Generated \in stored')
  BY <1>4, <1>5, CommitKeys DEF CommitInv, FilesSafe
<1>7. /\ clip.status = "NONE" => Untouched({Generated})'
      /\ clip.status = "NONE" /\ (film.state = "VERIFYING" \/ film.operator) =>
            Untouched({Original})' /\ (Original \in stored => Original \in stored')
  BY <1>3, CommitKeys DEF CommitInv, FilesSafe
<1>8. FilesSafe'
  BY <1>0, <1>6, <1>7 DEF FilesSafe
<1>9. RowsFit'
  BY <1>0 DEF CommitInv, RowsFit, HasResult
<1>10. OneWholeVideo'
  BY <1>0, <1>6, <1>7 DEF CommitInv, OneWholeVideo, RowsFit
<1>11. \A p \in Maker : MakerFits(p)'
  BY <1>0, <1>6 DEF CommitInv, MakerFits, HasResult
<1>12. QED BY <1>2, <1>8, <1>9, <1>10, <1>11 DEF CommitInv

LEMMA CommitStepKeeps ==
    CommitInv /\ [CommitNext]_<<deletionVars, commitVars, commitFaults>> => CommitInv'
<1> SUFFICES ASSUME CommitInv, [CommitNext]_<<deletionVars, commitVars, commitFaults>>
             PROVE  CommitInv'
  OBVIOUS
<1>1. CASE UNCHANGED <<deletionVars, commitVars, commitFaults>>
  <2>1. /\ UNCHANGED <<outbox, reaper, stored, lateDelete, film, clip, made, safe,
                       outputIntent, maker, strayUpload, intentSweep, commitFaults>>
        /\ film \in FilmState /\ outputIntent \in PlaybackRow /\ clip \in ClipState
        /\ strayUpload \in BOOLEAN /\ DeletionTypeOK
        /\ intentSweep \in [IntentSweep -> VideoSweep]
        /\ commitFaults \in 0 .. MaxCommitFaults
    BY <1>1, CommitTypes DEF CommitInv, deletionVars, commitVars, rowVars, makerVars
  <2>2. DeletionTypeOK'
    BY <2>1 DEF DeletionTypeOK, LiveClaim
  <2>3. QED BY <2>1, <2>2, VideoAround
<1>2. CASE CommitNext
  <2>0. commitFaults' \in 0 .. MaxCommitFaults
    BY <1>2, CommitKeys, CommitTypes DEF CommitNext, CommitInv
  <2>1. ASSUME NEW p \in Maker,
               \/ ClaimVideoVerifying(p) \/ ReadFilm(p) \/ CommitVideoOriginalReady(p)
               \/ Convert(p) \/ CommitVideoPlaybackFailed(p) \/ PreparePlaybackIntent(p)
               \/ HeadPlayback(p) \/ UploadPlayback(p) \/ MarkPlaybackUploaded(p)
               \/ CommitVideoPlaybackReady(p) \/ RejectVideo(p) \/ LoseFilm(p)
               \/ MakeFails(p) \/ MakerStops(p)
        PROVE  CommitInv'
    BY <2>0, <2>1, VideoReads, OriginalCommitted, VideoDecides
  <2>2. CASE \/ FilmLapses \/ StrayUpload \/ CancelFilm \/ ClaimClipForDeletion
             \/ CompleteClipDeletion \/ PlaybackReplaced
    BY <2>0, <2>2, MembersMove
  <2>3. ASSUME NEW s \in IntentSweep,
               \/ ClaimIntent(s) \/ CollectForIntent(s) \/ HeadIntent(s) \/ SettleIntent(s)
               \/ IntentClaimLost(s)
        PROVE  CommitInv'
    BY <2>0, <2>3, IntentSweepMoves
  <2>4. CASE DeletionStep(ClipReferences) /\ UNCHANGED commitVars
    <3>1. \/ ReaperMoves
          \/ \E r \in Reaper, t \in Table : CollectReferences(r, t, ClipReferences(t))
      BY <2>4 DEF DeletionStep, ReaperMoves
    <3>2. QED BY <2>0, <2>4, <3>1, ReaperSpares
  <2>5. QED BY <1>2, <2>1, <2>2, <2>3, <2>4 DEF CommitNext, CommitStep, CommitFault
<1>3. QED BY <1>1, <1>2

\* The rows, passes and sweeps of the video worker keep their types.
THEOREM CommitTypesHold == CommitSpec => []CommitTypeOK
<1>1. CommitInv => CommitTypeOK
  BY DEF CommitInv
<1>2. QED BY CommitInitially, CommitStepKeeps, <1>1, PTL DEF CommitSpec

\* An upload makes one video, and a whole one, for any number of passes and of
\* sweeps, however often they fail, and whatever the reaper has in hand.
THEOREM VideoAlwaysWhole == CommitSpec => []OneWholeVideo
<1>1. CommitInv => OneWholeVideo
  BY DEF CommitInv
<1>2. QED BY CommitInitially, CommitStepKeeps, <1>1, PTL DEF CommitSpec
=============================================================================
