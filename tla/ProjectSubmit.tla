---------------------------- MODULE ProjectSubmit ----------------------------
(***************************************************************************)
(* Submitting a project under an Idempotency-Key.  A request claims the    *)
(* row of its key, creates the project and completes the row in the same   *)
(* transaction, or marks it failed.  A client that heard nothing sends the *)
(* request again, while the first may still be running; a row whose owner  *)
(* died is taken over once its lease has run out.                          *)
(*                                                                         *)
(* Abstractions:                                                           *)
(*  - One key of one actor and scope: what is done under another key never *)
(*    meets it.  A request is its owner token, and the project it creates  *)
(*    has the same name.                                                   *)
(*  - A payload is its request hash.  All payloads have the same title; a  *)
(*    payload in Duplicates sets allowDuplicateTitle.                      *)
(*  - owner_until and expires_at are flags the clock may set at any time;  *)
(*    a claim clears both.  renewOwnership has no caller and is left out.  *)
(*  - A slug taken meanwhile is retried inside the same request and only   *)
(*    ends in the creation or in an error.                                 *)
(***************************************************************************)
EXTENDS Naturals

CONSTANTS Request,     \* requests, each sent once by the client
          Payload,     \* request hashes
          Duplicates,  \* payloads with allowDuplicateTitle
          NoRequest    \* no owner, no result

ASSUME SubmitNames == NoRequest \notin Request /\ Duplicates \subseteq Payload

VARIABLES
    operation,  \* the row of idempotency_operations
    request,    \* what each request is doing and was answered
    projects,   \* the requests whose project was created
    forgotten   \* of those, the ones whose row was purged since (history)

submitVars == <<operation, request, projects, forgotten>>

NoOperation == [state |-> "ABSENT", hash |-> NoRequest, owner |-> NoRequest,
                lapsed |-> FALSE, expired |-> FALSE, result |-> NoRequest]

SubmitInit ==
    /\ operation = NoOperation
    /\ request \in [Request -> [at : {"unsent"}, payload : Payload,
                                terminal : {FALSE}, answer : {NoRequest}]]
    /\ projects = {} /\ forgotten = {}

\* The fence of every update by an owner.
OwnsOperation(r) ==
    /\ operation.state = "IN_PROGRESS" /\ operation.owner = r
    /\ ~operation.lapsed

RequestTo(r, l) == request' = [request EXCEPT ![r].at = l]

-----------------------------------------------------------------------------
\* canTakeOver: the same request, failed for now or left by its owner.
CanTakeOver(r) ==
    /\ operation.hash = request[r].payload
    /\ \/ operation.state = "RETRYABLE_FAILED"
       \/ operation.state = "IN_PROGRESS" /\ operation.lapsed

\* The claim inserts the row or takes it over, and starts both clocks.
Acquire(r) ==
    /\ request[r].at = "unsent"
    /\ operation.state = "ABSENT" \/ CanTakeOver(r)
    /\ operation' = [NoOperation EXCEPT !.state = "IN_PROGRESS", !.owner = r,
                                        !.hash = request[r].payload]
    /\ RequestTo(r, "creating")
    /\ UNCHANGED <<projects, forgotten>>

\* The stored result answers a repeated request.
AnswerStored(r) ==
    /\ request[r].at = "unsent" /\ operation.state = "SUCCEEDED"
    /\ operation.hash = request[r].payload
    /\ request' = [request EXCEPT ![r].at = "answered",
                                  ![r].answer = operation.result]
    /\ UNCHANGED <<operation, projects, forgotten>>

\* Another payload, an owner at work, or a final failure.
RefuseClaim(r) ==
    /\ request[r].at = "unsent" /\ operation.state # "ABSENT"
    /\ ~CanTakeOver(r)
    /\ operation.state = "SUCCEEDED" => operation.hash # request[r].payload
    /\ RequestTo(r, "refused")
    /\ UNCHANGED <<operation, projects, forgotten>>

\* The title is free in the exhibition.  It stays so: the row is locked.
TitleAllowed(r) == projects = {} \/ request[r].payload \in Duplicates

\* Planted bug: the row is completed without its owner fence.
CreateUnfenced(r) ==
    /\ request[r].at = "creating" /\ TitleAllowed(r)
    /\ projects' = projects \cup {r}
    /\ operation' = [operation EXCEPT !.state = "SUCCEEDED", !.result = r,
                                      !.owner = NoRequest, !.lapsed = FALSE]
    /\ \/ request' = [request EXCEPT ![r].at = "answered", ![r].answer = r]
       \/ RequestTo(r, "failing")
    /\ UNCHANGED forgotten

\* createProjectWithAssets with succeedIdempotencyOperation, one transaction.
\* The request may not learn that its commit succeeded.
CreateProject(r) ==
    /\ request[r].at = "creating" /\ TitleAllowed(r) /\ OwnsOperation(r)
    /\ projects' = projects \cup {r}
    /\ operation' = [operation EXCEPT !.state = "SUCCEEDED", !.result = r,
                                      !.owner = NoRequest, !.lapsed = FALSE]
    /\ \/ request' = [request EXCEPT ![r].at = "answered", ![r].answer = r]
       \/ RequestTo(r, "failing")
    /\ UNCHANGED forgotten

\* A client error other than 409 is final; a taken title, a lost lease and
\* anything unexpected are not.  Nothing of the transaction remains.
CreateFails(r) ==
    /\ request[r].at = "creating"
    /\ \E terminal \in BOOLEAN :
          request' = [request EXCEPT ![r].at = "failing", ![r].terminal = terminal]
    /\ UNCHANGED <<operation, projects, forgotten>>

\* markFailed; that the lease was lost is swallowed.
MarkFailed(r) ==
    /\ request[r].at = "failing"
    /\ \/ /\ OwnsOperation(r)
          /\ operation' = [operation EXCEPT
                !.state = IF request[r].terminal THEN "TERMINAL_FAILED"
                          ELSE "RETRYABLE_FAILED",
                !.owner = NoRequest, !.lapsed = FALSE]
       \/ ~OwnsOperation(r) /\ UNCHANGED operation
    /\ RequestTo(r, "refused")
    /\ UNCHANGED <<projects, forgotten>>

\* The process ends.
RequestDies(r) ==
    /\ request[r].at \in {"creating", "failing"}
    /\ RequestTo(r, "dead")
    /\ UNCHANGED <<operation, projects, forgotten>>

OperationLapses ==
    /\ operation.state = "IN_PROGRESS" /\ ~operation.lapsed
    /\ operation' = [operation EXCEPT !.lapsed = TRUE]
    /\ UNCHANGED <<request, projects, forgotten>>

OperationExpires ==
    /\ operation.state # "ABSENT" /\ ~operation.expired
    /\ operation' = [operation EXCEPT !.expired = TRUE]
    /\ UNCHANGED <<request, projects, forgotten>>

\* Maintenance forgets what has expired, unless its owner is at work.
PurgeExpired ==
    /\ operation.expired
    /\ operation.state = "IN_PROGRESS" => operation.lapsed
    /\ operation' = NoOperation
    /\ forgotten' = IF operation.state = "SUCCEEDED"
                    THEN forgotten \cup {operation.result} ELSE forgotten
    /\ UNCHANGED <<request, projects>>

SubmitNext ==
    \/ \E r \in Request :
          \/ Acquire(r) \/ AnswerStored(r) \/ RefuseClaim(r)
          \/ CreateProject(r) \/ CreateFails(r) \/ MarkFailed(r)
          \/ RequestDies(r)
    \/ OperationLapses \/ OperationExpires \/ PurgeExpired

SubmitSpec == SubmitInit /\ [][SubmitNext]_submitVars

-----------------------------------------------------------------------------
OperationState ==
    [state : {"ABSENT", "IN_PROGRESS", "SUCCEEDED", "RETRYABLE_FAILED",
              "TERMINAL_FAILED"},
     hash : Payload \cup {NoRequest}, owner : Request \cup {NoRequest},
     lapsed : BOOLEAN, expired : BOOLEAN, result : Request \cup {NoRequest}]

RequestState ==
    [at : {"unsent", "creating", "failing", "answered", "refused", "dead"},
     payload : Payload, terminal : BOOLEAN, answer : Request \cup {NoRequest}]

SubmitTypeOK ==
    /\ operation \in OperationState
    /\ request \in [Request -> RequestState]
    /\ projects \in SUBSET Request
    /\ forgotten \in SUBSET projects

(* However often a request is repeated, taken over or answered late, its  *)
(* key stands for one project: what was created under it is the result    *)
(* its row keeps until the row expires, so that no retry creates another. *)
OneProjectPerKey ==
    \A r \in projects \ forgotten :
        operation.state = "SUCCEEDED" /\ operation.result = r

(* A request is answered with a project that was created from the payload *)
(* it carries, be it by an earlier request or one that took over.         *)
SamePayload ==
    \A r \in Request : request[r].answer # NoRequest =>
        /\ request[r].answer \in projects
        /\ request[request[r].answer].payload = request[r].payload

(* The promise of a key to its clients: one project, and the one they      *)
(* asked for.                                                              *)
KeyHonoured == OneProjectPerKey /\ SamePayload

\* Seen by the clients, the row of a key is what IdempotentKey promises:
\* retries, takeovers, lost answers and the purge of the row included.
KeyPromise == INSTANCE IdempotentKey WITH
    Nothing <- NoRequest, made <- projects,
    asks <- [r \in Request |-> request[r].payload],
    answer <- [r \in Request |-> request[r].answer],
    standing <- IF operation.state = "SUCCEEDED" THEN operation.result ELSE NoRequest

KeyPromiseKept == KeyPromise!Spec
=============================================================================
