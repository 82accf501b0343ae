---------------------------- MODULE ProjectChange ----------------------------
(***************************************************************************)
(* Change requests.  The project of a closed exhibition is changed by its  *)
(* owners through requests: drafted, submitted, and approved or rejected   *)
(* by an operator.  The files of a request lie in a staging project of its *)
(* own, which a publication job prepares and moves into the project.       *)
(* Operators edit the project meanwhile, and its owners come and go.       *)
(*                                                                         *)
(* Abstractions:                                                           *)
(*  - One source project.  What a request changes is its text, its links   *)
(*    and its files, each a draft or nothing; whether the links have been  *)
(*    resolved is left out.                                                *)
(*  - Transactions lock the source, then the staging project, then the     *)
(*    request, and are serializable: each is one step.                     *)
(*  - A staging project has its files ready or not; what a job copies, and *)
(*    what is queued when a staging project goes, is in ProjectPublication.*)
(*  - A lease that lapsed is a flag; back-off is left out.  Transactions   *)
(*    compare leases with the clock of the process, to which a lapsed one  *)
(*    may still look alive.                                                *)
(***************************************************************************)
EXTENDS Naturals, FiniteSets

CONSTANTS ChangeRequest,  \* ids of change requests
          Author,         \* users who may be owners of the project
          Draft,          \* contents of a text, of links and of files
          Operator,       \* calls that approve or retry
          Publisher,      \* passes of the publication worker
          Nil,
          MaxEdits        \* bound on the version of the project

ASSUME ChangeNames == Nil \notin Author \cup Draft \cup Publisher
ASSUME MaxEditsInNat == MaxEdits \in Nat

VARIABLES
    source,     \* the project: its row and its owners
    asked,      \* project_change_requests
    stage,      \* the staging project of each request
    stageJob,   \* its publication job
    pass,       \* what each pass of the worker is doing
    review,     \* what each call of an operator is doing
    submitted,  \* what each request asked for when submitted (history)
    effect      \* what each request did to the project (history)

changeVars == <<source, asked, stage, stageJob, pass, review, submitted, effect>>

Live   == {"DRAFT", "PENDING", "APPLYING", "FAILED"}   \* activeStates
NoStage == [at |-> "none", files |-> Nil]
NoStageJob   == [state |-> "NONE", claim |-> Nil, lapsed |-> FALSE]
Off     == [at |-> "away", of |-> Nil]
NoCall  == [at |-> "away", of |-> Nil, action |-> "approve", links |-> Nil]
NoEffect == [text |-> Nil, links |-> Nil, files |-> Nil, base |-> 0]

ChangeInit ==
    /\ \E owners \in SUBSET Author :
          source = [alive |-> TRUE, version |-> 0, owners |-> owners]
    /\ asked = [r \in ChangeRequest |-> [state |-> "NONE", author |-> Nil, base |-> 0,
                                         kind |-> "EDIT", text |-> Nil, links |-> Nil]]
    /\ stage = [r \in ChangeRequest |-> NoStage]
    /\ stageJob = [r \in ChangeRequest |-> NoStageJob]
    /\ pass = [p \in Publisher |-> Off]
    /\ review = [o \in Operator |-> NoCall]
    /\ submitted = [r \in ChangeRequest |-> NoEffect]
    /\ effect = [r \in ChangeRequest |-> NoEffect]

\* validateSource: the project is what the request was made for, and its
\* author an owner still.
ValidSource(r) ==
    source.alive /\ source.version = asked[r].base /\ asked[r].author \in source.owners

ChangeTo(r, state) == asked' = [asked EXCEPT ![r].state = state]

\* deleteProjectInTransaction: uploads, files and the job go with it.
DiscardStage(r) ==
    /\ stage' = [stage EXCEPT ![r] = NoStage]
    /\ stageJob' = [stageJob EXCEPT ![r] = NoStageJob]

\* Every writer of the project bumps its version.
Edited(owners) ==
    /\ source.alive /\ source.version < MaxEdits
    /\ source' = [source EXCEPT !.version = @ + 1, !.owners = owners]

-----------------------------------------------------------------------------
(* The author.                                                             *)

CreateRequest(r, a) ==
    /\ asked[r].state = "NONE"
    /\ source.alive /\ a \in source.owners
    /\ \A s \in ChangeRequest : asked[s].state \notin Live
    /\ \E kind \in {"EDIT", "DELETE"} :
          asked' = [asked EXCEPT ![r] = [@ EXCEPT !.state = "DRAFT", !.author = a,
                                           !.base = source.version, !.kind = kind]]
    /\ UNCHANGED <<source, stage, stageJob, pass, review, submitted, effect>>

\* update: text and links are replaced together; another manifest discards
\* the files there were.
UpdateDraft(r) ==
    /\ asked[r].state = "DRAFT" /\ ValidSource(r) /\ asked[r].kind = "EDIT"
    /\ \/ /\ \E t, l \in Draft \cup {Nil} :
                asked' = [asked EXCEPT ![r].text = t, ![r].links = l]
          /\ UNCHANGED <<stage, stageJob>>
       \/ /\ DiscardStage(r) /\ UNCHANGED asked
       \/ /\ \E f \in Draft :
                stage' = [stage EXCEPT ![r] = [at |-> "filling", files |-> f]]
          /\ UNCHANGED <<asked, stageJob>>
    /\ UNCHANGED <<source, pass, review, submitted, effect>>

\* The last file of the manifest has been uploaded and processed.
FilesReady(r) ==
    /\ stage[r].at = "filling"
    /\ stage' = [stage EXCEPT ![r].at = "ready"]
    /\ UNCHANGED <<source, asked, stageJob, pass, review, submitted, effect>>

Asks(r) == [text |-> asked[r].text, links |-> asked[r].links,
            files |-> stage[r].files, base |-> asked[r].base]

SubmitRequest(r) ==
    /\ asked[r].state = "DRAFT" /\ ValidSource(r) /\ stage[r].at # "filling"
    /\ ChangeTo(r, "PENDING")
    /\ submitted' = [submitted EXCEPT ![r] = Asks(r)]
    /\ UNCHANGED <<source, stage, stageJob, pass, review, effect>>

CancelRequest(r) ==
    /\ asked[r].state \in {"DRAFT", "PENDING"}
    /\ ChangeTo(r, "CANCELLED") /\ DiscardStage(r)
    /\ UNCHANGED <<source, pass, review, submitted, effect>>

-----------------------------------------------------------------------------
(* Operators.                                                              *)

RejectRequest(r) ==
    /\ asked[r].state = "PENDING"
    /\ ChangeTo(r, "REJECTED") /\ DiscardStage(r)
    /\ UNCHANGED <<source, pass, review, submitted, effect>>

\* transition reads the links and resolves them before its transaction.
BeginReview(o, r) ==
    /\ review[o].at = "away" /\ asked[r].state # "NONE"
    /\ \E action \in {"approve", "retry"} :
          review' = [review EXCEPT ![o] =
              [at |-> "resolving", of |-> r, action |-> action,
               links |-> IF asked[r].state = "COMPLETED" THEN Nil
                         ELSE asked[r].links]]
    /\ UNCHANGED <<source, asked, stage, stageJob, pass, submitted, effect>>

\* applyProjectChange: the project takes what the request asks for, and the
\* files of the staging project.
ApplyChange(r, wanted) ==
    /\ effect' = [effect EXCEPT ![r] = [wanted EXCEPT !.base = source.version]]
    /\ IF asked[r].kind = "DELETE"
       THEN source' = [source EXCEPT !.alive = FALSE]
       ELSE \E owners \in SUBSET Author :
                /\ asked[r].text = Nil => owners = source.owners
                /\ source' = [source EXCEPT !.version = @ + 1, !.owners = owners]

\* startApplication: an outdated request is a conflict; one without files is
\* applied at once; files are prepared by a publication job first.
StartApplication(r, links) ==
    \/ /\ ~ValidSource(r)
       /\ ChangeTo(r, "CONFLICT") /\ DiscardStage(r)
       /\ UNCHANGED <<source, effect>>
    \/ /\ ValidSource(r) /\ stage[r].at = "none"
       /\ asked' = [asked EXCEPT ![r].state = "COMPLETED", ![r].links = links]
       /\ ApplyChange(r, [Asks(r) EXCEPT !.links = links])
       /\ UNCHANGED <<stage, stageJob>>
    \/ /\ ValidSource(r) /\ stage[r].at = "ready"
       /\ asked' = [asked EXCEPT ![r].state = "APPLYING", ![r].links = links]
       /\ stageJob' = [stageJob EXCEPT ![r] = [NoStageJob EXCEPT !.state = "PENDING"]]
       /\ UNCHANGED <<source, stage, effect>>

Awaited(o) == IF review[o].action = "retry" THEN "FAILED" ELSE "PENDING"

\* Planted bug: links that changed while they were resolved are not noticed.
ReviewUnseen(o) ==
    LET r == review[o].of IN
    /\ review[o].at = "resolving"
    /\ review' = [review EXCEPT ![o] = NoCall]
    /\ \/ asked[r].state = Awaited(o) /\ StartApplication(r, review[o].links)
       \/ UNCHANGED <<source, asked, stage, stageJob, effect>>
    /\ UNCHANGED <<pass, submitted>>

\* The transaction of approve or retry, which may refuse: the files or what
\* the request removes are not as they should be any more.
FinishReview(o) ==
    LET r == review[o].of IN
    /\ review[o].at = "resolving"
    /\ review' = [review EXCEPT ![o] = NoCall]
    /\ \/ /\ asked[r].state = Awaited(o) /\ asked[r].links = review[o].links
          /\ StartApplication(r, review[o].links)
       \/ UNCHANGED <<source, asked, stage, stageJob, effect>>
    /\ UNCHANGED <<pass, submitted>>

\* An operator edits the project, or adds or removes an owner.
EditSource ==
    /\ \E owners \in SUBSET Author : Edited(owners)
    /\ UNCHANGED <<asked, stage, stageJob, pass, review, submitted, effect>>

\* deleteProjectReturningAssets with cleanupSourceChangeRequests
DeleteSource ==
    /\ source.alive /\ source' = [source EXCEPT !.alive = FALSE]
    /\ asked' = [r \in ChangeRequest |->
                     IF asked[r].state \in Live
                     THEN [asked[r] EXCEPT !.state = "CONFLICT"] ELSE asked[r]]
    /\ stage' = [r \in ChangeRequest |-> NoStage]
    /\ stageJob' = [r \in ChangeRequest |-> NoStageJob]
    /\ UNCHANGED <<pass, review, submitted, effect>>

-----------------------------------------------------------------------------
(* The publication worker, on the job of a staging project.                *)

PassTo(p, l) == pass' = [pass EXCEPT ![p].at = l]
PassOver(p)  == pass' = [pass EXCEPT ![p] = Off]

ClaimStageJob(p, r) ==
    /\ pass[p].at = "away"
    /\ stageJob[r].state \in {"PENDING", "PROCESSING"}
    /\ stageJob[r].claim = Nil \/ stageJob[r].lapsed
    /\ stageJob' = [stageJob EXCEPT ![r] = [state |-> "PROCESSING", claim |-> p,
                                            lapsed |-> FALSE]]
    /\ pass' = [pass EXCEPT ![p] = [at |-> "validating", of |-> r]]
    /\ UNCHANGED <<source, asked, stage, review, submitted, effect>>

\* The job carries the token of the pass.
TokenOfPass(p) ==
    LET j == stageJob[pass[p].of] IN j.state = "PROCESSING" /\ j.claim = p

\* The project changed, or the request is not being applied.
GiveUpApplication(p) ==
    LET r == pass[p].of IN
    /\ asked[r].state # "APPLYING" \/ ~ValidSource(r)
    /\ ChangeTo(r, "CONFLICT") /\ DiscardStage(r)
    /\ PassOver(p)

\* validatePlan looks at the request before it looks at its claim.
ValidateStagePlan(p) ==
    LET r == pass[p].of IN
    /\ pass[p].at = "validating"
    /\ stageJob[r].state \in {"PENDING", "PROCESSING", "FAILED"}
    /\ \/ GiveUpApplication(p)
       \/ /\ asked[r].state = "APPLYING" /\ ValidSource(r) /\ TokenOfPass(p)
          /\ \/ PassTo(p, "copying") /\ UNCHANGED <<asked, stageJob>>
             \/ /\ stageJob' = [stageJob EXCEPT ![r] = [NoStageJob EXCEPT !.state = "FAILED"]]
                /\ ChangeTo(r, "FAILED") /\ PassOver(p)
          /\ UNCHANGED stage
    /\ UNCHANGED <<source, review, submitted, effect>>

CopyStage(p) ==
    /\ pass[p].at = "copying" /\ TokenOfPass(p) /\ ~stageJob[pass[p].of].lapsed
    /\ PassTo(p, "completing")
    /\ UNCHANGED <<source, asked, stage, stageJob, review, submitted, effect>>

\* complete with applyProjectChange
CompleteStage(p) ==
    LET r == pass[p].of IN
    /\ pass[p].at = "completing" /\ TokenOfPass(p)
    /\ \/ GiveUpApplication(p) /\ UNCHANGED <<source, effect>>
       \/ /\ asked[r].state = "APPLYING" /\ ValidSource(r)
          /\ ApplyChange(r, Asks(r))
          /\ ChangeTo(r, "COMPLETED")
          /\ stageJob' = [stageJob EXCEPT ![r] = [NoStageJob EXCEPT !.state = "COMPLETED"]]
          /\ stage' = [stage EXCEPT ![r].at = "moved"]
          /\ PassOver(p)
    /\ UNCHANGED <<review, submitted>>

\* A pass that fails releases its job, or fails it if what it copies is not as
\* planned, by its token alone.  It does neither once it knows that its lease
\* is lost, or if the job has been completed.
StagePassErrs(p) ==
    LET r == pass[p].of IN
    /\ pass[p].at # "away"
    /\ \/ UNCHANGED <<stageJob, asked>>
       \/ /\ TokenOfPass(p)
          /\ stageJob' = [stageJob EXCEPT ![r] = [NoStageJob EXCEPT !.state = "PENDING"]]
          /\ UNCHANGED asked
       \/ /\ TokenOfPass(p)
          /\ pass[p].at = "copying"
          /\ stageJob' = [stageJob EXCEPT ![r] = [NoStageJob EXCEPT !.state = "FAILED"]]
          /\ ChangeTo(r, IF asked[r].state = "APPLYING" THEN "FAILED" ELSE asked[r].state)
    /\ PassOver(p)
    /\ UNCHANGED <<source, stage, review, submitted, effect>>

StageJobLapses(r) ==
    /\ stageJob[r].claim # Nil /\ ~stageJob[r].lapsed
    /\ stageJob' = [stageJob EXCEPT ![r].lapsed = TRUE]
    /\ UNCHANGED <<source, asked, stage, pass, review, submitted, effect>>

-----------------------------------------------------------------------------
ChangeNext ==
    \/ \E r \in ChangeRequest :
          \/ \E a \in Author : CreateRequest(r, a)
          \/ UpdateDraft(r) \/ FilesReady(r) \/ SubmitRequest(r) \/ CancelRequest(r)
          \/ RejectRequest(r) \/ StageJobLapses(r)
          \/ \E o \in Operator : BeginReview(o, r)
          \/ \E p \in Publisher : ClaimStageJob(p, r)
    \/ \E o \in Operator : FinishReview(o)
    \/ EditSource \/ DeleteSource
    \/ \E p \in Publisher :
          ValidateStagePlan(p) \/ CopyStage(p) \/ CompleteStage(p) \/ StagePassErrs(p)

ChangeSpec == ChangeInit /\ [][ChangeNext]_changeVars

-----------------------------------------------------------------------------
(* Properties.                                                             *)

\* Every variable has its type.
ChangeTypeOK ==
    /\ source \in [alive : BOOLEAN, version : 0 .. MaxEdits + Cardinality(ChangeRequest),
                   owners : SUBSET Author]
    /\ \A r \in ChangeRequest :
          /\ asked[r].state \in Live \cup {"NONE", "COMPLETED", "CONFLICT",
                                            "CANCELLED", "REJECTED"}
          /\ stage[r] \in [at : {"none", "filling", "ready", "moved"},
                           files : Draft \cup {Nil}]
          /\ stageJob[r] \in [state : {"NONE", "PENDING", "PROCESSING", "FAILED",
                                       "COMPLETED"},
                              claim : Publisher \cup {Nil}, lapsed : BOOLEAN]
    /\ \A p \in Publisher : pass[p].at \in {"away", "validating", "copying", "completing"}
    /\ \A o \in Operator : review[o].at \in {"away", "resolving"}

\* What a request does to the project is what its author submitted, files
\* included, and it is done to the very version that the author saw, however
\* its drafting, reviews by several operators, lost leases of the publication
\* worker and edits of the project interleave.  No project has two live
\* requests, files lie in staging for live requests alone, and a job runs for
\* a request exactly while it is being applied.
AppliedAsSubmitted ==
    /\ \A r \in ChangeRequest :
          /\ asked[r].state = "COMPLETED" => effect[r] = submitted[r]
          /\ asked[r].state # "COMPLETED" => effect[r] = NoEffect
          /\ stage[r].at \in {"filling", "ready"} => asked[r].state \in Live
          /\ (stageJob[r].state \in {"PENDING", "PROCESSING"})
                <=> asked[r].state = "APPLYING"
          /\ asked[r].state \in {"APPLYING", "FAILED"} => stage[r].at = "ready"
    /\ \A r, s \in ChangeRequest :
          asked[r].state \in Live /\ asked[s].state \in Live => r = s

\* docs/operations/year-change-approval.md: after a failure the project is
\* kept and the same approved content is retried, unless the project changed.
FailedAwaitsRetry ==
    [][\A r \in ChangeRequest :
          asked[r].state = "FAILED" /\ asked'[r].state # "FAILED"
             => asked'[r].state = "APPLYING" \/ ~ValidSource(r) \/ ~source'.alive]_changeVars

\* How a FAILED request is lost without any change of the project: to a pass
\* that waits in "validating" although its job has failed, and for nothing else.
LatePass(r) ==
    \E p \in Publisher : /\ pass[p].at = "validating" /\ pass[p].of = r
                         /\ stageJob[r].state = "FAILED" /\ ~TokenOfPass(p)

FailedLostOnlyToLatePass ==
    [][\A r \in ChangeRequest :
          asked[r].state = "FAILED" /\ asked'[r].state # "FAILED"
             => \/ asked'[r].state = "APPLYING"
                \/ /\ asked'[r].state = "CONFLICT"
                   /\ ~ValidSource(r) \/ ~source'.alive \/ LatePass(r)]_changeVars

\* The states a request may come to from each.
Follows(from) ==
    CASE from = "NONE"     -> {"DRAFT"}
      [] from = "DRAFT"    -> {"PENDING", "CANCELLED", "CONFLICT"}
      [] from = "PENDING"  -> {"APPLYING", "COMPLETED", "REJECTED", "CANCELLED",
                               "CONFLICT"}
      [] from = "APPLYING" -> {"COMPLETED", "FAILED", "CONFLICT"}
      [] from = "FAILED"   -> {"APPLYING", "CONFLICT"}
      [] OTHER             -> {}

\* Requests end once: no late call of an operator and no late pass of the
\* worker brings back one that is over, applies one that is not under way, or
\* completes one that was to be tried again.
RequestLifecycle ==
    [][\A r \in ChangeRequest :
          asked'[r].state \in {asked[r].state} \cup Follows(asked[r].state)]_changeVars
=============================================================================
