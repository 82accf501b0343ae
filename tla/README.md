# A verification of the upload and publication back end

The repository is the web service of an exhibition of student games: an API
process, a handful of workers, a PostgreSQL database, S3-compatible object
storage and a browser client. Rows and bytes live in two systems that share no
transaction, several processes write both, and any of them may stop at any
moment. What keeps them together is a discipline of leases, outbox rows and
fenced updates. This directory models that discipline in TLA+, checks it with
TLC on small instances, and proves the parts that matter most (direct uploads,
publication, change requests, images and videos, the runtime and the life of its
process, WebGL builds, exports, submissions, the browser's side of an upload,
bans, play sessions and the deletion of prefixes) with TLAPS for every value of
the constants.

Paths below are relative to `src/apps/api/src/` unless they start with `docs/`,
`apps/` or `prisma/`; those under `apps/web` are relative to `src/`.

## 1. The system

### Components, their state and their operations

| Component | State | Operations | What makes it correct |
|---|---|---|---|
| Direct upload (`modules/asset-upload`) | session row with state, upload id, completion lease, validation lease, attempts, expected target | create, store the upload id, cancel, expire, complete, recover a completion, validate, publish, reject | needed bytes are whole and kept; final states stay; at most one published game; every session ends |
| Multipart aborts (`modules/multipart-abort`) | one task per session, with a claim | queue, claim, abort, resolve, fail; inventory of unknown uploads | no live upload is aborted, no dead one is forgotten |
| Orphan outbox and reaper (`modules/orphan`) | one row per storage target, with a claim | queue, claim a batch, snapshot of references, renew, DELETE, resolve, cancel, fail | nothing that is referred to is deleted |
| Publication job (`modules/project-publication`, `modules/admin/project`) | job with a plan and a claim; submission; pointers of representations and builds | finalize, claim, validate, copy, complete, release, fail, cancel, clean up | rows that change together agree; the bytes behind published pointers are there; a private project keeps its bytes |
| Image worker and upload intents (`modules/image`, `modules/upload-intent`) | session lease, asset row, one intent per output | claim, plan, PUT, mark, commit, reject; sweep of stale intents | committed outputs and needed sources are kept; intents and rows agree |
| Lifecycle runtime (`modules/upload-lifecycle/runtime.ts`, `backend-context/maintenance.ts`) | pending flags, flights, promises in memory | wake, schedule, start, close | no wake is lost; one flight at a time; closing ends |
| Prefix deletion (`application/prefix-deletion.ts`) | a cursor, a batch and a page budget in memory | list a page, delete a batch, look again from the head | a pass that reports success left nothing |
| Video worker (`modules/video`) | session lease, asset, intent of the playback; playback jobs and rendition rows | claim, commit the original, convert, commit the playback; claim a job, record, upload, activate, sweep | one whole video for each upload; what a viewer may be given has its bytes; every generated file has an owner |
| WebGL worker (`modules/webgl`, `modules/asset-upload/webgl-processing-repository.ts`) | session lease, deployment, the project's pointer | claim, reserve, upload, check the manifest, commit or fence, reject | the build a project points to is whole and stays |
| Idempotent operations (`modules/idempotency`) | operation row with an owner and a lease | claim, take over, succeed, fail, purge | one project for each key; no answer for another payload |
| WebGL play sessions, network policy (`modules/webgl-play`) | play sessions with a snapshot of origins, policy version | issue, renew, serve, close, log out, approve, revoke | a revocation reaches every play; budgets hold; no two requests wait for each other |
| Change requests (`modules/project-change`) | request, staging project and its publication job | draft, submit, withdraw, approve, reject, retry, apply | what is applied is what was submitted, to the version it was written for |
| Year exports (`modules/admin/export`) | job row with a claim and a snapshot; directories on the NAS | claim, snapshot, copy, publish by rename, complete | a READY job has its directory; its report names what is there |
| Voting and draws (`modules/voting`) | votes, ballots, event with stock, retained posters | view, vote, draw, edit, save the event | ballots hold what was shown; no prize is lost or given twice; posters outlive their works |
| Browser queue (`apps/web/src/lib/upload`) | session storage records, one task per file | start, resume, cancel, recover | no creation is forgotten; a cancelled file stays cancelled |
| API process (`server.ts`, `backend-context/resource-owner.ts`, `lib/lifecycle.ts`) | mode, started and closed resources, requests in flight, exit code | start, listen, drain, close, exit | nothing is closed under a request or a start; ready means serving; a process told to stop ends |
| Download bans (`modules/admin/banned-ip`, `shared/download-rate-limit.ts`, `shared/ban-mutation-queue.ts`) | rows of bans, a cache of them in the process, hits of each address | ban, unban, ban by the ceiling, warm up | the cache says what the rows say; a lifted ban stays lifted |
| Canonical migration (`modules/migration`, `scripts/backfill-canonical-assets.ts`) | rows of the legacy and of the canonical schema, the ledger of relocations, the progress file | backfill row by row, copy, commit, restart, preflight of the contract | a row is done or remembered; every copy has an owner |
| Access, awards, administration | rows behind one transaction each | forms | sequential |

`PROJECT.json` lists every component, also those that are not modelled, with the
reason.

### How they interact

* A **request** changes rows and queues outbox rows (deletions, aborts) in one
  transaction, then wakes the runtime. The wake is a hint: the outbox row is the
  durable request, and a 60 s schedule runs the workers in any case.
* A **worker** claims a row with a random token and a lease on the database
  clock, renews it with a heartbeat while it talks to storage, and finishes with
  an update that compares the token and the lease. A claim that lapsed may be
  taken over by another pass while the first still runs.
* The **reaper** deletes what the outbox names unless a snapshot of the
  reference tables still refers to it. Most writers of references look for a
  claimed deletion of the key they commit (`assertNoDeletionClaim`).
* **Storage** answers late, twice or never: a request the client gave up on may
  still take effect.

### What is hard

Concurrency: handlers, recovery passes, workers and users on the same rows, with
storage calls between their transactions. Failure: a process ends between any
two steps, a commit is lost or its answer is. Ordering: an abandoned
CompleteMultipart, PUT or DELETE lands after everyone moved on; wakes race the
end of a flight. Time: leases lapse under a live holder. `PROJECT.json`
"hazards" lists these at the line where they bite, with the property that
watches over each.

## 2. The modules

| Module | Models | State and actions against the code |
|---|---|---|
| `GamePublication` | what uploads promise seen from outside (abstract) | phase of each upload, the current game, the complete objects |
| `AssetUpload` | direct upload of a GAME with its recovery, validation and aborts | a variable per column of `asset_upload_sessions` and `multipart_abort_tasks`; `multipart`, `parts`, `object`, `sent` are storage; `at`/`on` say where each process is. One action per transaction or storage call of `repository.ts`, `service.ts`, `recovery.service.ts`, `validation-worker.service.ts` and `multipart-abort/*` |
| `AssetUploadLive` | the same with a bound on failures and fairness | splits the actions of `AssetUpload` into undisturbed ones and failures |
| `ObjectDeletion` | orphan outbox, reaper and storage | `outbox` is a record per row of `orphan_objects`, `reaper` the pass of each reaper; actions follow `orphan/outbox.ts`, `repository.ts`, `service.ts` |
| `ObjectDeletionProofs` | lemmas on the reaper | which keys it cannot delete and which it does not forget, whoever writes references |
| `ProjectPublication` | extends `ObjectDeletion` with the publication job and its users | `job`, `submission`, `pointer` are rows, `worker` is the pass of each worker; actions follow `project-publication/*` and `admin/project/crud.repository.ts` |
| `ImageOutputs` | extends `ObjectDeletion` with the image worker and the intent sweep | `session`, `asset`, `intent` are rows, `worker` and `sweeper` are passes; actions follow `image/prisma.repository.ts`, `image/worker.ts`, `upload-intent/*` |
| `VideoCommit` | extends `ObjectDeletion` with the commit of an uploaded video | `film` is the session, `clip` the asset, `outputIntent` the intent of the playback; `maker` and `intentSweep` are passes; actions follow `video/repository.ts`, `video/processor.ts` |
| `VideoPlayback` | extends `ObjectDeletion` with the playback jobs of a READY video | `jobs`, `rendition`, `legacy` are rows, `attempt` is the pass of each lease token, `strayPut` the PUT requests given up on; actions follow `video/playback.repository.ts`, `playback.worker.ts` |
| `Voting` | extends `ObjectDeletion` with votes, draws and retained posters | `vote`, `ballot`, `event`, `stock`, `drawn`, `pinned` are rows, `page` and `form` what a client still shows; one action per transaction of `voting/service.ts` |
| `PrefixDeletion` | a reaper pass over a prefix, page by page | `removal` is the local state of `deletePrefixPages`, `present` the keys of the prefix |
| `WebglBuild` | the WebGL worker and those who move the pointer | `upload`, `deployment`, `current` are rows, `pieces` and `prefixes` storage and its outbox, `checker` the passes |
| `ProjectChange` | change requests, their review and their publication job | `asked`, `stage`, `stageJob`, `source` are rows; `review` is what an operator's request read before its transaction, `pass` what a publication pass does |
| `IdempotentKey` | what an Idempotency-Key promises its clients (abstract) | what each request asked for and was answered with, the results made, the one the key stands for |
| `ProjectSubmit` | submission of a project under an Idempotency-Key | `operation` is the row of the key, `request` each HTTP request, `projects` what was created; `KeyPromise` maps them to `IdempotentKey` |
| `PlaySessions` | play sessions and the policy of origins | a request (`call`) is between two of its row locks; `play`, `grant`, `policy` are rows |
| `ExportJob` | the year export | `exportJob` is the row, `staging` and `exported` the directories, `exporter` the passes |
| `FileUpload` | the browser's side of an upload | one action is one turn of the event loop of `fileUploadQueue.ts` and `directUploadTask.ts`; the API and the network are actions of their own |
| `LifecycleRuntime` | wakes, flights, schedule, start and close | one action is one turn of the event loop of `upload-lifecycle/runtime.ts` |
| `ServerLifecycle` | the API process from its start to its end | `starter` and `closer` are the two promises of the resource owner, `startup` and `stopping` say where `start()` and `shutdown()` of `server.ts` are; one action is one turn of the event loop; Fastify is external |
| `DownloadBans` | bans of addresses and their cache | `bans` are rows, `banCache`, `hits` and `banQueue` the memory of the process; a request (`caller`) is between the write of its row and the change of the cache |
| `CanonicalBackfill` | extends `ObjectDeletion` with the backfill of the canonical schema | `canonical` and `ledger` are rows, `progress` is the file that is written between two rows, `backfill` the run of the command; `online` says whether the application is up beside it; actions follow `migration/canonical-backfill*.ts`, `contract-preflight.ts` |
| `ReferenceIndex` | the index of references (an algorithm) | `trie` after `references` have been put in; the look-up and the pairwise comparison are operators; `orphan/reference-resolver.ts` |
| `*Proofs` | the theorems on the module they are named for | extend that module and TLAPS; `ProjectPublicationProofs` is also about `ProjectChange` |
| `MediaProofs`, `RuntimeProofs`, `RequestProofs`, `ReferenceProofs` | the theorems on several modules | `ImageOutputs` and `VideoCommit`; `LifecycleRuntime`, `ServerLifecycle`, `WebglBuild`, `PrefixDeletion` and `ExportJob`; `ProjectSubmit`, `DownloadBans` and `PlaySessions`; `CanonicalBackfill`, `VideoPlayback`, `Voting` and `ReferenceIndex` |
| `MC_*` | instances for TLC | values of constants, symmetry, `subject` |

`ProjectPublication`, `ImageOutputs`, `VideoCommit`, `VideoPlayback`,
`CanonicalBackfill` and `Voting` compose with `ObjectDeletion` by extending it: the reaper's actions
take an operator that tells which keys each table refers to, and the writers of
references use its queueing operators and its claim check inside their own
transactions. `AssetUpload` keeps its deletions as a set of queued keys, for it
only has to show that no needed key is queued; `ObjectDeletion` shows what
happens to queued keys. `PrefixDeletion` is what its step DeleteObject does for
a row of kind PREFIX. `ProjectChange` and `WebglBuild` are two views of applying
a change request: the request with its review, and the builds it replaces.
`FileUpload` has the session of `AssetUpload` as the API shows it to a client.

Every module's header lists its abstractions. The main ones:

* A **lease** is its live holder, or no one. Every guarded write needs both the
  token and a live lease, so a lapsed token is worth no token. The exceptions
  are modelled as such: publication's `release` and `fail` compare the token
  only, `complete` and `validatePlan` compare with the clock of the process, and
  an export's lease does not fence the directory.
* **Time** is a step: leases lapse, rows fall due and sessions expire at any
  moment. Back-off and age fences are left out, which only adds behaviours.
* An **object** is whole, short or absent; a short one is the fault that the
  size checks exist for. A WebGL build is one object, but in `WebglBuild` and
  `PrefixDeletion`, which have its pieces.
* **Refusals** by access policy are nondeterministic.
* In `AssetUpload`: one project and the kind GAME. Left out: the budget of part
  capabilities, replays of a creation (which change nothing) and uploads owned
  by a submission.
* In `ProjectPublication`: one project, the plan is all of its outputs. Change
  requests are in `ProjectChange`; uploads and asset deletions are refused while a
  submission is FINALIZING.
* **Locks.** A transaction that locks what it reads is one step. `PlaySessions`
  takes its transactions apart, lock by lock, because its hazards are there;
  `Voting` has one advisory lock for all of its transactions.
* In `LifecycleRuntime`: a service takes a batch; rows that fail one by one
  count as taken. The recovery of direct uploads and the purges share the
  schedule and are left out.

Definitions marked "Planted bug" are variants of the definition that follows
them. Nothing uses them; each shows, put in place of its neighbour, that the
properties notice.

## 3. What TLC checks

Four runs pass. Each holds several instances: the variable `subject` is chosen at
the start, the component it names runs, and the others stay as they start. So
one run checks each component by itself, with all its processes, and components
that do not interact do not multiply.

| Run | Subject and instance | Shows |
|---|---|---|
| `uploads` (`MC_Uploads`) | `races`: one session; two completing handlers, two recovery passes, a validator, an abort worker, any three of them at a time | no interleaving, late request, lapsed lease or crash loses needed bytes (`NeededBytesKept`), aborts a live upload (`AbortsOnlyDeadUploads`), forgets a dead one (`OpenUploadsTracked`) or changes a final state (`FinalStatesKept`) |
| | `replace`: a published game, the session that replaces it, and its deletion; two validators, a handler, a recovery pass, an abort worker, any two of them at a time | one game at a time (`OneGame`), no needed object is queued for deletion (`OnlyDeadObjectsQueued`), and the uploads refine `GamePublication` (`PromiseKept`) |
| | `video`: a READY video, two playback jobs, two passes, the sweep, the reaper, deletion | a playback, and a replaced one for its 24 hours, has its bytes, and no generated file is without an owner (`GeneratedKept`) |
| | `browser`: one file, two creations, two requests under way | a creation whose answer is lost is never forgotten (`CreationsRemembered`); when "cancelled" is announced, nothing of the file can still come to life (`CancelledWhenOver`) |
| | `backfill`: two rows, three copies, a reaper while the application is up, two failures or deaths | every row is done or remembered, no copy is without an owner or taken from under a row, and a clean preflight means that the contract loses nothing (`BackfillKept`) |
| | `votes`: one vote, two voters, one prize, operators, a work on the ballot that is deleted | ballots hold what their voters saw, draws are earned, stock adds up, posters stay (`VotesHonoured`) |
| `publish` (`MC_Publications`) | `project`: one image; two publication workers, the reaper, two jobs, two faults, one of them at most from the second job on | the rows of the aggregate agree (`AggregateAgrees`), staged images survive the clean-up that queues them (`StagedImagesKept`), a first publication keeps its bytes (`FirstPublicationKept`), only the claimant decides a job (`OnlyClaimantDecides`) |
| | `change`: two requests of one author, one operator, two publication passes, edits and deletion of the project | what a request does is what was submitted, files included, and to the version it was written for (`AppliedAsSubmitted`) |
| | `index`: three references with keys of up to two characters | a look-up finds those and only those references that overlap its target, duplicates and nested prefixes included (`IndexAgrees`) |
| `services` (`MC_Services`) | `submit`: three requests with one key, two payloads | one project for a key, no answer for another payload (`KeyHonoured`) |
| | `play`: two plays, a login, an origin, two requests at a time, two policy versions | revocations reach open plays (`RevocationReaches`), nothing is served that the project no longer shows (`BarredNeverServed`), budgets hold (`PlayBudgets`), no circle of waiting requests (`NoWaitCircle`) |
| | `images`: one output; two passes, a sweep, the reaper, two attempts, two faults | committed outputs and needed sources are kept; intents, session and asset agree (`ImagesKept`) |
| | `commit`: a video session, two passes, the sweep, the reaper, two attempts | one whole video for an upload (`OneWholeVideo`) |
| | `webgl`: two builds and that of a change request, two pieces each, two passes | the current build is whole and stays (`CurrentServed`) |
| | `prefix`: three keys, pages of two, three pages, two passes | success means that nothing was left for the last LIST (`NothingLeftBehind`) |
| | `export`: one job, two objects, two passes | a READY job is on the NAS, with nothing its snapshot does not name (`ReadyIsExported`) |
| | `bans`: an address, an older form of it and a range around it; two rows, two mutations at a time, two losses (restarts, failed or unanswered writes) | the cache follows the rows in every order of bans and unbans, and automatic bans never undo an unban (`BansHonoured`) |
| `live` (`MC_Liveness`) | `upload`: one session, one process of each role, three failures | every upload ends, and multipart uploads of dead sessions are removed (`EveryUploadEnds`) |
| | `runtime`: the deletion and the maintenance worker, two rows, one failure | no wake is lost (`NoLostWake`), one flight at a time (`SingleFlight`), a closed runtime is quiet (`ClosedIsQuiet`); every row is taken and closing ends (`RuntimeProgress`) |
| | `server`: three resources, the second of which holds the state of the process; one request at a time | ready means serving, nothing is closed out of order, exit code 0 means that nothing was cut short (`OrderlyServer`); a process told to stop ends, whatever hangs (`ServerStops`) |

`TypesOK` is the type invariant of the component that runs.

Eight more runs show where the code departs from what the repository says of it:

| Run | Departure |
|---|---|
| `cancel` | a cancellation that overtakes the store of the upload id drops the id without queueing an abort; the inventory of unknown uploads repairs it hours later |
| `reject` | a CompleteMultipart that takes effect between the recovery's HEAD and its ListParts makes it reject a whole upload |
| `again` | stop and finalize again: the clean-up of the first job has queued the targets of the second, whose commit does not look for claimed deletions, and the reaper removes the published bytes |
| `stop` | stopping a publication while a pass is copying removes the staged WebGL build of a project that is private again |
| `delete` | an image asset deleted while the worker processes it comes back as READY |
| `original` | deleting a video that is played as it is, in an unlucky order, leaves the bytes of its original with no one to delete them |
| `export` | a pass that lost its claim removes the staging directory its successor writes to; the published report names files that are gone |
| `failed` | a publication pass that lost its lease finds the change request that its successor failed, makes it a conflict and deletes the approved files, so that there is nothing left to retry |

One departure is stated as the exception it is, in `SingleFlight`: when one
service of a maintenance pass fails, `Promise.all` settles while its siblings
run on, so the next pass overlaps them and `close()` does not wait for them
(`runtime.ts:97`), although `docs/upload-lifecycle-runbook.md:231` speaks of one
active worker.

Other observations, met while modelling and not the subject of a run:

* *Video.* Once `commitVideoOriginalReady` has committed, `rejectVideo` finds
  `result_asset_id` set and changes nothing, so a session that exhausts its
  attempts in the second half is claimed again for ever; once the sweep has
  settled the intent of the playback, `preparePlaybackIntent` always throws and
  the session stays VERIFYING. A submission cancelled in the gap leaves a READY
  asset whose playback stays VERIFYING. `OneWholeVideo` therefore says nothing of
  sessions that never end.
* *Browser.* `FileUploadQueue.run` goes on after `initialize` has delivered a kept
  outcome "cancelled" to a new view, so a cancelled file that the page still holds
  is uploaded again while its stored outcome stays "cancelled"
  (`fileUploadQueue.ts:57`). `CancelledWhenOver` is therefore stated for the step
  that announces the end. After cancelled, retry and cancel while still waiting,
  `task.cancel` returns at once and the row stays "cancelling" until a reload.
* *Bans.* When the commit of a manual ban succeeds and its answer is lost, the
  cache lacks it, and the operator who repeats the ban is told that it exists
  (`modules/admin/banned-ip/repository.ts:17`): it is enforced only after the next
  start. `BansHonoured` leaves out the targets of such writes (`unknown`).
* *Index.* `createObjectReferenceIndex` walks a key by code points when it indexes
  (`orphan/reference-resolver.ts:67`) and by code units when it looks up (`:97`): a
  character outside the basic plane would be indexed where no look-up finds it.
  Keys are made of identifiers and file extensions; `ReferenceIndex` has
  characters of one unit.
* *Server.* A resource whose start outlives the 5 s that `close()` gives it is
  closed while it starts; `ClosedInOrder` states that as its exception.

### Bounds, and why they are enough

* *Processes.* Races on a row are between a holder, the one who takes its lease
  over, and users; two processes of a role give all of these. The
  proofs remove the bound for the components of section 4. In `uploads` three of
  the processes are in the middle of something at a time (`AtWorkAfter`), two
  when a published game is replaced: the holder, the one who takes over, and
  one that is late. In `browser` two requests are under way: the one whose
  answer is lost and the one that repairs it.
* *Sessions.* Sessions of a project interact only through the slot of the active
  session and through the published game: one old and one new suffice, and the
  proofs again cover every number.
* *Jobs.* `MaxJobs = 2`: the second job is the one that meets the leftovers of
  the first. A third meets what the second met, and the proofs cover any number.
* *Faults.* `MaxFaults`, `MaxFailures`: every hazard found in this code needs one
  or two failures; two allow a lapse and what follows from it. `ImageOutputs` also
  holds with three faults, and with two outputs and one fault; the run is kept
  short. In the run the second fault of an image is one before the end of its
  session, and that of a publication is one of its first job: what either
  leaves to be repaired is repaired without another. `Spec` of the components
  has none of these restrictions, and the proofs are about `Spec`.
* *Attempts.* `MaxAttempts = 2` has a first and a last attempt; the code has 5.
* *Rows.* `MaxRows = 2` and `Batch = 1`: a full batch, a partial one, and a row
  committed behind a flight.

* *Prefixes.* Three keys and pages of two: a full page, a last one, a key put
  behind the cursor, and a budget (`MaxPages = 3`) that runs out.
* *Policies.* `MaxVersion = 2`: an approval and the revocation that follows. In
  `MC_Services` the build is replaced, and the clock ends plays, only where no
  origin has been approved: these checks are made under different locks and do
  not meet.
* *Deletions.* In the subjects `video` and `commit` the files of a deleted video
  are reaped when no pass is at work on it; in `votes` the event is neither saved nor drawn
  from once the work of a candidate is being deleted. Both leave out
  interleavings of steps that read nothing of each other.
* *Process.* Three resources: one before, one after and the one that holds the
  state. One request at a time, any number of them one after the other. The
  resources of the code are about twenty, started and closed in one loop each.
* *Bans.* Two mutations that overlap, and a third caller as soon as one is done;
  two rows can be two forms of one address. `MaxIpHits = 1`: below and at the
  ceiling.
* *Edits.* `MaxEdits = 1` and `MaxVoteEdits = 2`: one change that makes what was
  read stale; one text and one more edit of a vote. `MaxSaves = 3`: the event as
  it was opened, saved with stock, and drawn from.

Deadlock is not checked where a finite set of sessions, jobs or a closed runtime
really stops; the header of each configuration says so.

### Fairness

The run `live` gives each subject the fairness of its own component.
`AssetUploadLive` assumes weak fairness of what the code repeats by schedule:
expiry, recovery and inventory (`backend-context/maintenance.ts`, every 60 s),
the claim loops of the workers, the answer or the refusal of storage, and the
lapse of a lease whose holder is gone. It assumes none of users, of the creating
request, nor of any single failure. `LifecycleRuntime` assumes weak fairness of
the event loop (claims, ends of passes, finally callbacks, the return of close)
and of the schedule, and none of wakes or microtasks: rows are taken although
every wake is lost. `ServerLifecycle` assumes that timers run out and that the event
loop then goes on (the end of the drain, the deadline, the two waits of
`shutdown()`, the time limits of `close()`), and nothing of what they wait for:
resources may start, close and requests end late or never.

## 4. What is proved

`AssetUploadProofs` proves, for all sets of sessions and processes and every
bound on attempts, from the assumptions of `AssetUpload` on its constants
(roles are disjoint, names distinct, at most one game published at the start,
a positive bound):

| Theorem | Says |
|---|---|
| `TypeCorrect` | `Spec => []TypeOK` |
| `ConsistentAlways` | rows, creation, storage and processes agree |
| `BytesKept` | `NeededBytesKept` |
| `QueuedAreDead` | `OnlyDeadObjectsQueued` |
| `AbortedAreDead` | `AbortsOnlyDeadUploads` |
| `UploadsTracked` | `OpenUploadsTracked` |
| `OneGameAlways` | `OneGame` |
| `FinalStatesStay` | `FinalStatesKept`, an action property |
| `Refinement` | every step of `AssetUpload` is a step or a stutter of `GamePublication` |
| `LiveImplements` | `FairSpec => Spec /\ []IInv /\ PromiseKept`: what `AssetUploadLive` adds for the run `live` only restricts |
| `AbortsLost`, `RejectionsExplained` | how far two departures go, below |

The inductive invariant is

    IInv == TypeOK /\ Consistent /\ NeededBytesKept /\ OnlyDeadObjectsQueued
            /\ AbortsOnlyDeadUploads /\ OpenUploadsTracked

The safety invariants alone are not inductive. That bytes are kept needs to know
that a process about to mark a session VERIFYING saw a whole object and still
owns the lease (`ViewHolds`); that no live upload is aborted needs to know how
far the creating request is in every state of the row (`CreationAgrees`); that
uploads are tracked needs that a resolved task names a finished upload
(`StorageAgrees`); all need which columns a state may have (`ColumnsAgree`).
`Consistent` was checked with TLC before it was proved. The proof takes the
actions one by one, with lemmas for what groups of actions leave alone;
`OneGame` and the refinement follow from `IInv` by one lemma on the current
game. `LiveImplements` rests on `LiveDivision`: the undisturbed steps and the
failures of `AssetUploadLive` are together just the steps of `AssetUpload`, so
the liveness that TLC checks is that of the specification proved about.

### Publication

`ProjectPublicationProofs` proves, for all outputs, workers and reapers and any
number of jobs and faults, from `PublicationKeys` and `DeletionNames`:

| Theorem | Says |
|---|---|
| `PublicationTypeCorrect` | `Spec => []PublicationTypeOK` |
| `AggregateAlways` | `AggregateAgrees` |
| `StagedImagesStay` | `StagedImagesKept` |
| `FirstPublicationStays` | `FirstPublicationKept` |
| `OnlyClaimants` | `OnlyClaimantDecides`, an action property |

Bytes are safe from the reaper for one of two reasons, which
`ObjectDeletionProofs` states and shows preserved by every step of the reaper and
of storage:

* `Untouched(keys)`: nobody has queued them. The public keys are untouched until
  the first job is failed, cancelled or deleted, so whatever copy a pass made or
  found before that stays (`FirstCopiesKept`). The run `again` shows that this is
  where the argument ends: a second job has no such protection.
* `Watched(keys, t)`: table `t` has referred to them since before any snapshot
  that still counts, so every reaper that has one of them in hand either saw the
  reference or has yet to read `t`. The staged images are watched by `assets` as
  long as the project is private (`StagedWatched`). Staged builds are in no
  table, which is what the run `stop` shows.

The inductive invariant adds to these the facts of the job row: a processing job
has a claim, a pass is for a job there was (`JobOfProject`, `PassOfJob`). TLC
checked it on the instance of `publish` before it was proved. `PublicationTypeOK`
is checked there as a part of `TypesOK`.

### Change requests

`ProjectPublicationProofs` also proves `ChangesAppliedAsSubmitted`
(`AppliedAsSubmitted`) for any requests, authors, operators and publishers, and
`ChangeTypesHold` for a finite set of requests: the type bounds the version of the
project by its edits and the requests there are. `ChangeInv` says of each request
how its five rows fit together (`RequestFits`: a job is open exactly while its
request is APPLYING; from PENDING on, what was submitted is what the rows say),
that no two requests are live, and that the version counts no more than the edits
and the completed requests. The difficult actions are those of `review` and
`pass`, which act on what an earlier transaction read: they are fenced by the
state of the row and by its base version, and the invariant shows the fence to be
enough.

`RequestsEndOnce` (`RequestLifecycle`) states the life of a request as an action
property: from each state only the states of `Follows`, so no late call of an
operator and no late pass brings back a request that is over. It follows from
`ChangeInv` by one lemma on each step (`RequestGoesOn`).

### Images and videos

`MediaProofs` proves `ImagesAlwaysKept` (`ImagesKept`) and `VideoAlwaysWhole`
(`OneWholeVideo`) with the types of both modules, for any outputs, passes, sweeps,
reapers and faults, from the lemmas of `ObjectDeletionProofs`. What an image still
needs (`Needed`: its source while it may be read again, an output until its intent
is decided or once it is committed) is untouched, in the sense above; a pass that
marks an output has put it (`PassFits`); a sweep has seen an asset refer to an
output only after the commit (`SweepsAgree`). `CommitInv` says the same of the one
file of a video, and of its rows that a commit whose answer was lost is found by
the pass that repeats it (`RowsFit`, `MakerFits`): one asset is made, and no sweep
takes its file.

### The runtime

`RuntimeProofs` proves `RuntimeTypeCorrect`, `NoWakeIsLost`
(`NoLostWake`), `OneFlight` (`SingleFlight`) and `QuietAfterClose`
(`ClosedIsQuiet`) for any workers, services, batch and numbers of rows and
failures, from `RuntimeParameters`: every service belongs to one worker, and the
drained one has a worker of its own, as the reaper has. A service runs for a
flight exactly while the flight's promise is unsettled (`RunsFollowFlights`), and
closing clears what is pending (`PhaseAgrees`). That no wake is lost has to be
said while other requests still owe theirs (`WakeServed`): a waiting row with its
wake called is in a pass that has not claimed yet, behind a full batch, or behind
a pending flag that the end of the flight or a queued start will honour.

The module also proves `ServerTypeCorrect` and `ServerAlwaysOrderly`
(`OrderlyServer`) of the process around the runtime, for any number of resources
and requests, from `ServerParameters`: the worker runtime is one of the resources.
`ServerInv` says that how far the start is tells what the resources and Fastify
can be (`StartAgrees`), and who asked for the close of the context and what
`shutdown()` has seen of it (`CloseAgrees`). That the process stops
(`ServerStops`) stays with TLC.

### Builds, submissions, bans, play sessions and prefixes

| Module | Theorems |
|---|---|
| `RuntimeProofs` | `WebglTypeCorrect`, `CurrentAlwaysServed` (`CurrentServed`), `RejectedIsNeverServed` (`RejectedNeverServed`: a READY deployment has a READY session), `PrefixTypesHold`, `PrefixEmptied` (`NothingLeftBehind`), `ExportTypesHold`, `ReadyMeansExported` (`ReadyIsExported`) |
| `RequestProofs` | `SubmitTypeCorrect`, `KeyAlwaysHonoured` (`KeyHonoured`), `KeyRefinement` (`KeyPromiseKept`), `BansTypeCorrect`, `BansAlwaysHonoured` (`BansHonoured`) |
|  | `PlayTypeCorrect`, `RevocationAlwaysReaches` (`RevocationReaches`), `NoWaitCircleEver` (`NoWaitCircle`), `BudgetsAlwaysHold` (`PlayBudgets`), `BarredIsNeverServed` (`BarredNeverServed`) |

* `WebglInv`: a prefix is up for deletion only once the session of its build is
  over (`PrefixesOver`), so a pass about to commit, whose session is not, still
  has every piece it saw (`ManifestHolds`); and the build of a change request can
  be served for as long as it may be applied (`ChangeServable`). The assumptions
  are that names are distinct and that a build has a piece (`WebglNames`).
* `SubmitInv` follows the hash: from the request that owns the row to the row
  (`ClaimOfOwner`), and from the row to the project it names as its result
  (`ResultOfPayload`), through take-overs, failures and purges. With one more
  fact, that a request that is not sent or has yet to create has made nothing
  and has no answer (`Unmade`), every step of the row is a step or a stutter of
  `IdempotentKey`: a claim and a take-over are invisible, the transaction that
  creates the project is `Make`, a stored answer is `Answer`, the purge of a row
  that succeeded is `Forget`.
* `BansInv`: only the mutation at the head of the queue can have written its row
  and not yet changed the cache (`TurnAgrees`), so outside of that one step cache
  and rows agree; a text has one row (`TextsUnique`); a target an operator has
  lifted has rows and none of them is active (`LiftedAgrees`), which is what an
  automatic ban looks at. `BanNames` assumes of the canonical form of an address
  only that it is its own canonical form.
* `PlayInv`: between its snapshot and its insert a request holds the lock of the
  project, and with it a policy no review has changed since (`Current`). That is
  why the version a play remembers is never newer than the policy
  (`VersionsPast`), and why a revocation after it can be counted.
  Three more parts are inductive beside it. `LocksInv` tells which locks a request
  of each kind holds where it stands, and that only the lock of the project is
  shared; so whoever waits, waits for a request at a later lock (`WaitsAhead`),
  and a set of requests that wait for each other would have no last one. `BudgetInv`
  keeps room for the play of a request between its count and its insert (`Room`):
  others that would take it wait for the advisory lock. `ServedInv` follows a play
  that is barred to what a request read of it before (`StillBarred`): a build that
  is no longer current, a login that is gone or a revocation past its version, which
  a later step of the request looks at.
* `ExportInv`: what a pass has in its staging directory, and what is published, is
  named by the snapshot it works for (`OfSnapshot`), and a pass that is about to
  mark the job READY has seen the directory published (`SeenExported`).
* `PrefixInv` extends the property to passes that are about to report success
  (`Verified`); that an empty page from the head means an empty prefix is the
  lemma `EmptyHead`, for any page size.

### The browser's uploads

`FileUploadProofs` proves `CreationsAlwaysRemembered` (`CreationsRemembered`),
`CancelledIsOver` (`CancelledWhenOver`, an action property) and `FileTypesHold` for
any set of identities, from `FileUploadNames` alone. `FileInv` has one part for each
holder of state:

* `TaskFits`: the task knows at most one upload and has not closed it; a creation
  nobody waits for is doubted (`uncertain` or `blocked`); nothing runs while it
  cancels; a cancellation is only kept by a task that holds nothing.
* `RowFits`: the pass of the queue is past its lookup exactly while it holds the
  task, and only a row that watches has one.
* `TransferFits`, `AnswersFit`: an answer whose epoch is current is about what the
  task holds. A refused creation is taken for a proof that there is no session
  only by a transfer nobody doubts, so the invariant counts: such a transfer has one
  request in the network.

`Told` says of every step that the row comes to say "cancelled" only when the task
holds nothing after it; with `CreationsRemembered` there is then nothing left that
could come to life. TLC checked `FileInv` with three uploads first.

### Playback, the backfill, votes and the index

`ReferenceProofs` proves of three writers of references, for any number of reapers
and from the lemmas of `ObjectDeletionProofs`, and of the index they are found with:

| Theorems | From |
|---|---|
| `VideoTypesHold`, `GeneratedAlwaysKept` (`GeneratedKept`) | `VideoKeys` |
| `BackfillTypesHold`, `BackfillAlwaysKept` (`BackfillKept`) | `BackfillParameters` |
| `VotingTypesHold`, `VotesAlwaysHonoured` (`VotesHonoured`) | `VotingNames`, which has finitely many voters |
| `IndexTypesHold`, `LookupsAgree` (`IndexAgrees`) | `IndexBounds`: keys of any characters and length, any number of references |

The first two promise more than that bytes stay: what nobody names any more has to
stay on its way to deletion. Two more lemmas on the reaper say so of any set of keys.
`Owned` says that an object is named or its deletion queued; it is inductive only
with `HoldersAgree`: a reaper that holds the claim on such an object has not deleted
it yet, and if it saw the object referred to, then the object still is, or its row
has been told to run again. `OwnedStep` and `OwnedCollect` show that the reaper keeps
both, `OwnedQueueing` that a transaction does which queues what it leaves unnamed.

* `VideoInv` follows a file through its names. A row is written before the bytes,
  when nobody can have queued them (`NamedSpared`), and from then on the file is
  watched by the table of renditions; First passes from the asset to such a row while
  it is untouched. The rows of the active job do not expire (`PlaybackFits`): an
  expiry implies a job that is done, and activation lets exactly the rows of the
  jobs it retires expire. The sweep therefore takes no row that is played. Bytes
  that land after their row was swept are the exception the property itself names.
* `BackfillInv`: the command runs only while the application is drained, and then no
  reaper is at work and no DELETE under way (`DrainedQuiet`), so what it found or
  made is there when it commits the row (`WorkFits`); a copy is queued for deletion
  before it is made and taken off the queue by that commit; and neither the progress
  file nor the run has passed a row that is not done or listed (`WalksAgree`),
  wherever it dies.
* `VotingInv`: a page of the current version shows the current candidates
  (`PagesFit`), a form of the current version the current stock (`FormFits`), which
  is why a request with an older one is refused; and the poster is untouched until
  the votes refer to it and watched from then on (`PosterFits`). Their type needs
  `VotingBounds` too: a text is never newer than its vote, nor a ballot than the text.
* `IndexInv`: there is a node for just the starts of the keys put in, and each counts
  the references that end there and below (`CountsKept`). A look-up adds up the nodes
  above its target, a fold over lengths. The prover has no induction over data, so
  `SumCounts` does without: the cardinality of the references above, taken for every
  set of lengths, is a function that satisfies the recursion of the fold, and the
  only one, since of the sets for which another differs a smallest one would differ
  without its chosen length (`WFMin`). The references above a target and those that
  end at or below it are apart and are all that overlap it (`OverlapSplit`).

### How far the departures go

The violation runs show that the code departs from what is said of it; four
theorems say what is true instead, for every value of the constants.

| Theorem | Run | Says |
|---|---|---|
| `AbortsLost` (`AbortLostOnlyByCancel`) | `cancel` | only a cancellation that read the session before its upload id was stored ends a session without a due abort task for its upload; the expiry pass and a recovered completion never do |
| `RejectionsExplained` (`WholeObjectRejectedOnlyAfterList`) | `reject` | a whole object is rejected only by the pass that owns the completion and decided to after a ListParts that came when the completion had taken effect |
| `FailedLostToLatePass` (`FailedLostOnlyToLatePass`) | `failed` | a failed request leaves FAILED by a retry, because its project was changed or deleted, or through a pass that lost its lease in "validating", and in no other way |
| `AloneReportsExactly` (`ReportExact`) | `export` | as long as no two passes are at the staging directory at once (`OnePassStages`), the published report names exactly the files that are there, whatever fails and is taken over |

The first three are action properties of the invariants above. The last has an
invariant of its own, `StageInv`: what the one pass at work has in its memory is
what is in the directory. Its hypothesis is an assumption on time which the code
cannot enforce, for the lease does not fence the directory: that a pass which
loses its claim stops before its successor reaches the directory.

### What stays with TLC

Liveness under fairness, and ENABLED, are out of the prover's reach:
`EveryUploadEnds`, `RuntimeProgress` and `ServerStops`. Induction over data is too,
but for what `SumCounts` shows. No module that is proved about declares a RECURSIVE
operator. Every safety property of a passing run is proved of the component it is
about; `TypesOK` of the MC modules is the conjunction of the types of the modules,
each proved by itself. Proved and in no run by themselves are `Consistent`,
`RejectedNeverServed`, the four properties of the departures,
`RequestLifecycle` and `KeyPromiseKept`. TLC agreed to each before it was proved:
to those of uploads on the instance of `cancel` (11,925 states), to `ReportExact`
with three claims and the constraint `OnePassStages` (257,275), to those of change requests on
two instances (44,426 and 243,144), to `KeyPromiseKept` with three requests and
two payloads (132,016).

## 5. What is not modelled, and the plan

The map in `PROJECT.json` names about an eighth of the implementation's lines. The
rest is for the most part not of the kind a model says something about: pages and
components of the web client, route schemas, the seed, scripts, parsers. Of the back end there is left:

* *Reconcile command* (`modules/orphan/reconcile.ts`). Run by hand, it queues
  every object nothing refers to; only its age fence keeps it from uploads under
  way, and time is no more than a step in these models. A row queued again while
  its DELETE is under way is resolved by that DELETE
  (`orphan/repository.ts:160`); bytes that land afterwards have no row until
  this command finds them. Neither is covered by a property.
* *Uploads of other kinds.* WEBGL and VIDEO continue in `WebglBuild` and
  `VideoCommit`; materials and posters take the path of a GAME or of an image.
  The budget of part capabilities (`asset-upload/repository.ts:271`), replays of a
  creation and the binding of uploads to submissions are left out.
* *Delivery and access.* Reads of what the models keep consistent; refusals are
  nondeterministic choices in the models.
* *Administration* (years, imports, awards, sign-in): one transaction each.
* *Parsers and conversions.* Their verdict is an input.
* *Migration.* The correction of single assets, the dry run, and what the plans and
  the preflight check of metadata, buckets and metrics.

What would come next: reconciliation as a writer of `ObjectDeletion`, with an age for
each object; submissions that own uploads, as a composition of `AssetUpload` with
`ProjectPublication`; and several votes of one event, for which `Voting` is
written but the instance is too large.
