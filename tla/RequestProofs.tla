--------------------------- MODULE RequestProofs ---------------------------
(***************************************************************************)
(* Three protocols between requests, their rows and what a process holds.  *)
(*                                                                         *)
(* A key stands for one project, and answers only the payload it was       *)
(* claimed with, for any number of requests and payloads.  The invariant   *)
(* follows the hash: from the request that owns the row to the row, and    *)
(* from the row to the project it names as its result.                     *)
(*                                                                         *)
(* Downloads are checked against what the rows of bans say, for any        *)
(* addresses, rows and calls.  The invariant says which mutation may be    *)
(* between its row and the cache: the one at the head of the queue.        *)
(*                                                                         *)
(* Play sessions, for any number of plays, logins, origins and requests.   *)
(* That a revocation reaches every play rests on what a request holds      *)
(* between its snapshot and its insert: the lock of the project, and with  *)
(* it a policy that no review has changed since (PlayInv).  That requests  *)
(* never wait in a circle rests on which locks a request has where it      *)
(* stands (LocksInv).  With them, the advisory lock keeps the room that    *)
(* was counted until the insert (BudgetInv), and what bars a request keeps *)
(* barring it at every place it gets to (ServedInv).                       *)
(***************************************************************************)
EXTENDS ProjectSubmit, DownloadBans, PlaySessions, SequenceTheorems,
        FiniteSetTheorems, TLAPS

-----------------------------------------------------------------------------
(* Submissions under a key.                                                *)

\* The row of a claim carries the payload of its owner.
ClaimOfOwner ==
    operation.state = "IN_PROGRESS" /\ operation.owner \in Request =>
        operation.hash = request[operation.owner].payload

\* The result of the row was created from the payload of the row.
ResultOfPayload ==
    operation.state = "SUCCEEDED" =>
        /\ operation.result \in projects
        /\ request[operation.result].payload = operation.hash

SubmitInv ==
    SubmitTypeOK /\ ClaimOfOwner /\ ResultOfPayload /\ OneProjectPerKey /\ SamePayload

-----------------------------------------------------------------------------
LEMMA SubmitInitially == SubmitInit => SubmitInv
<1> SUFFICES ASSUME SubmitInit PROVE SubmitInv
  OBVIOUS
<1>1. SubmitTypeOK
  BY DEF SubmitInit, SubmitTypeOK, NoOperation, OperationState, RequestState
<1>2. ClaimOfOwner /\ ResultOfPayload /\ OneProjectPerKey /\ SamePayload
  BY DEF SubmitInit, NoOperation, ClaimOfOwner, ResultOfPayload, OneProjectPerKey, SamePayload
<1>3. QED BY <1>1, <1>2 DEF SubmitInv

\* A request takes a step of its own and is not answered by it.
LEMMA RequestMoves ==
    ASSUME SubmitInv, NEW r \in Request, NEW s \in RequestState,
           request' = [request EXCEPT ![r] = s],
           s.payload = request[r].payload, s.answer = request[r].answer,
           projects \subseteq projects', projects' \subseteq Request
    PROVE  /\ request' \in [Request -> RequestState] /\ SamePayload'
           /\ \A q \in Request : request'[q].payload = request[q].payload
BY DEF SubmitInv, SubmitTypeOK, SamePayload

\* It is answered with a project of its payload.
LEMMA RequestAnswered ==
    ASSUME SubmitInv, NEW r \in Request, NEW s \in RequestState,
           request' = [request EXCEPT ![r] = s],
           s.payload = request[r].payload, s.answer \in projects',
           request[s.answer].payload = s.payload,
           projects \subseteq projects', projects' \subseteq Request
    PROVE  /\ request' \in [Request -> RequestState] /\ SamePayload'
           /\ \A q \in Request : request'[q].payload = request[q].payload
<1>1. request \in [Request -> RequestState] /\ s.answer \in Request
  BY DEF SubmitInv, SubmitTypeOK
<1>2. \A q \in Request : request'[q].payload = request[q].payload
  BY <1>1
<1>3. SamePayload'
  <2> SUFFICES ASSUME NEW q \in Request, request'[q].answer # NoRequest
               PROVE  /\ request'[q].answer \in projects'
                      /\ request'[request'[q].answer].payload = request'[q].payload
    BY DEF SamePayload
  <2>1. CASE q = r
    BY <1>1, <1>2, <2>1
  <2>2. CASE q # r
    <3>1. request'[q].answer = request[q].answer
      BY <1>1, <2>2
    <3>2. request[q].answer \in projects /\ request[q].answer \in Request
          /\ request[request[q].answer].payload = request[q].payload
      BY <3>1 DEF SubmitInv, SubmitTypeOK, SamePayload
    <3>3. QED BY <1>2, <3>1, <3>2
  <2>3. QED BY <2>1, <2>2
<1>4. QED BY <1>1, <1>2, <1>3

\* RequestTo is such a step.
LEMMA RequestGoesTo ==
    ASSUME SubmitInv, NEW r \in Request,
           NEW l \in {"creating", "failing", "refused", "dead"}, RequestTo(r, l),
           projects \subseteq projects', projects' \subseteq Request
    PROVE  /\ request' \in [Request -> RequestState] /\ SamePayload'
           /\ \A q \in Request : request'[q].payload = request[q].payload
<1> DEFINE s == [request[r] EXCEPT !.at = l]
<1>1. request[r] \in RequestState
  BY DEF SubmitInv, SubmitTypeOK
<1>2. s \in RequestState /\ s.payload = request[r].payload /\ s.answer = request[r].answer
  BY <1>1 DEF RequestState
<1>3. request' = [request EXCEPT ![r] = s]
  BY DEF RequestTo
<1> HIDE DEF s
<1>4. QED BY <1>2, <1>3, RequestMoves

-----------------------------------------------------------------------------
LEMMA SubmitStep == SubmitInv /\ [SubmitNext]_submitVars => SubmitInv'
<1> SUFFICES ASSUME SubmitInv, [SubmitNext]_submitVars PROVE SubmitInv'
  OBVIOUS
<1> USE SubmitNames DEF SubmitInv
<1>0. /\ operation \in OperationState /\ projects \subseteq Request
      /\ forgotten \subseteq projects /\ request \in [Request -> RequestState]
  BY DEF SubmitTypeOK
\* A step of a request that leaves the row and the projects alone.
<1>1. ASSUME UNCHANGED <<operation, projects, forgotten>>,
             request' \in [Request -> RequestState], SamePayload',
             \A q \in Request : request'[q].payload = request[q].payload
      PROVE  SubmitInv'
  <2>1. SubmitTypeOK'
    BY <1>1 DEF SubmitTypeOK
  <2>2. OneProjectPerKey'
    BY <1>1 DEF OneProjectPerKey
  <2>3. ClaimOfOwner'
    BY <1>0, <1>1 DEF ClaimOfOwner
  <2>4. ResultOfPayload'
    BY <1>0, <1>1 DEF ResultOfPayload
  <2>5. QED BY <1>1, <2>1, <2>2, <2>3, <2>4
\* A row that is neither claimed nor completed by the step.
<1>2. ASSUME operation' \in OperationState,
             operation'.state \notin {"IN_PROGRESS", "SUCCEEDED"},
             operation.state # "SUCCEEDED", UNCHANGED <<projects, forgotten>>,
             request' \in [Request -> RequestState], SamePayload'
      PROVE  SubmitInv'
  <2>1. SubmitTypeOK'
    BY <1>2 DEF SubmitTypeOK
  <2>2. OneProjectPerKey' /\ ClaimOfOwner' /\ ResultOfPayload'
    BY <1>2 DEF OneProjectPerKey, ClaimOfOwner, ResultOfPayload
  <2>3. QED BY <1>2, <2>1, <2>2
<1>3. ASSUME NEW r \in Request, Acquire(r) PROVE SubmitInv'
  <2> DEFINE s == [NoOperation EXCEPT !.state = "IN_PROGRESS", !.owner = r,
                                      !.hash = request[r].payload]
  <2>1. /\ request' \in [Request -> RequestState] /\ SamePayload'
        /\ \A q \in Request : request'[q].payload = request[q].payload
    BY <1>0, <1>3, RequestGoesTo DEF Acquire
  <2>2. request[r].payload \in Payload
    BY <1>0 DEF RequestState
  <2>3. s \in OperationState /\ s.state = "IN_PROGRESS" /\ s.owner = r
        /\ s.hash = request[r].payload
    BY <2>2 DEF OperationState, NoOperation
  <2>4. operation' = s /\ UNCHANGED <<projects, forgotten>>
        /\ operation.state # "SUCCEEDED"
    BY <1>3 DEF Acquire, CanTakeOver
  <2> HIDE DEF s
  <2>5. SubmitTypeOK'
    BY <2>1, <2>3, <2>4 DEF SubmitTypeOK
  <2>6. OneProjectPerKey' /\ ResultOfPayload'
    BY <2>3, <2>4 DEF OneProjectPerKey, ResultOfPayload
  <2>7. ClaimOfOwner'
    BY <2>1, <2>3, <2>4 DEF ClaimOfOwner
  <2>8. QED BY <2>1, <2>5, <2>6, <2>7
<1>4. ASSUME NEW r \in Request, AnswerStored(r) PROVE SubmitInv'
  <2> DEFINE s == [request[r] EXCEPT !.at = "answered", !.answer = operation.result]
  <2>1. operation.result \in projects
        /\ request[operation.result].payload = request[r].payload
    BY <1>4 DEF AnswerStored, ResultOfPayload
  <2>2. s \in RequestState /\ s.payload = request[r].payload /\ s.answer = operation.result
    BY <1>0, <2>1 DEF RequestState
  <2>3. request' = [request EXCEPT ![r] = s] /\ UNCHANGED <<operation, projects, forgotten>>
    BY <1>4 DEF AnswerStored
  <2> HIDE DEF s
  <2>4. QED BY <1>0, <1>1, <2>1, <2>2, <2>3, RequestAnswered
<1>5. ASSUME NEW r \in Request, RefuseClaim(r) \/ RequestDies(r) PROVE SubmitInv'
  BY <1>0, <1>1, <1>5, RequestGoesTo DEF RefuseClaim, RequestDies
<1>6. ASSUME NEW r \in Request, CreateFails(r) PROVE SubmitInv'
  <2>1. PICK t \in BOOLEAN :
           request' = [request EXCEPT ![r].at = "failing", ![r].terminal = t]
    BY <1>6 DEF CreateFails
  <2> DEFINE s == [request[r] EXCEPT !.at = "failing", !.terminal = t]
  <2>2. s \in RequestState /\ s.payload = request[r].payload /\ s.answer = request[r].answer
    BY <1>0 DEF RequestState
  <2>3. request' = [request EXCEPT ![r] = s]
    BY <2>1
  <2> HIDE DEF s
  <2>4. QED BY <1>0, <1>1, <1>6, <2>2, <2>3, RequestMoves DEF CreateFails
<1>7. ASSUME NEW r \in Request, CreateProject(r) PROVE SubmitInv'
  <2> DEFINE o == [operation EXCEPT !.state = "SUCCEEDED", !.result = r,
                                    !.owner = NoRequest, !.lapsed = FALSE]
             s == [request[r] EXCEPT !.at = "answered", !.answer = r]
  <2>1. operation.state = "IN_PROGRESS" /\ operation.owner = r
    BY <1>7 DEF CreateProject, OwnsOperation
  <2>2. operation.hash = request[r].payload
    BY <2>1 DEF ClaimOfOwner
  <2>3. projects \subseteq forgotten
    BY <2>1 DEF OneProjectPerKey
  <2>4. /\ operation' = o /\ projects' = projects \cup {r} /\ forgotten' = forgotten
    BY <1>7 DEF CreateProject
  <2>5. o \in OperationState /\ o.state = "SUCCEEDED" /\ o.result = r
        /\ o.hash = operation.hash
    BY <1>0 DEF OperationState
  <2>6. s \in RequestState /\ s.payload = request[r].payload /\ s.answer = r
    BY <1>0 DEF RequestState
  <2>7. request' = [request EXCEPT ![r] = s] \/ RequestTo(r, "failing")
    BY <1>7 DEF CreateProject
  <2> HIDE DEF o, s
  <2>8. /\ request' \in [Request -> RequestState] /\ SamePayload'
        /\ \A q \in Request : request'[q].payload = request[q].payload
    BY <1>0, <2>4, <2>6, <2>7, RequestAnswered, RequestGoesTo
  <2>9. SubmitTypeOK'
    BY <1>0, <2>4, <2>5, <2>8 DEF SubmitTypeOK
  <2>10. OneProjectPerKey'
    BY <2>3, <2>4, <2>5 DEF OneProjectPerKey
  <2>11. ResultOfPayload'
    BY <2>2, <2>4, <2>5, <2>8 DEF ResultOfPayload
  <2>12. ClaimOfOwner'
    BY <2>4, <2>5 DEF ClaimOfOwner
  <2>13. QED BY <2>8, <2>9, <2>10, <2>11, <2>12
<1>8. ASSUME NEW r \in Request, MarkFailed(r) PROVE SubmitInv'
  <2>1. /\ request' \in [Request -> RequestState] /\ SamePayload'
        /\ \A q \in Request : request'[q].payload = request[q].payload
    BY <1>0, <1>8, RequestGoesTo DEF MarkFailed
  <2>2. CASE UNCHANGED operation
    BY <1>1, <1>8, <2>1, <2>2 DEF MarkFailed
  <2>3. CASE OwnsOperation(r)
    <3> DEFINE l == IF request[r].terminal THEN "TERMINAL_FAILED" ELSE "RETRYABLE_FAILED"
               o == [operation EXCEPT !.state = l, !.owner = NoRequest, !.lapsed = FALSE]
    <3>1. l \in {"TERMINAL_FAILED", "RETRYABLE_FAILED"}
      OBVIOUS
    <3>2. operation' = o /\ operation.state # "SUCCEEDED"
      BY <1>8, <2>3 DEF MarkFailed, OwnsOperation
    <3> HIDE DEF l
    <3>3. o \in OperationState /\ o.state = l
      BY <1>0, <3>1 DEF OperationState
    <3> HIDE DEF o
    <3>4. QED BY <1>2, <1>8, <2>1, <3>1, <3>2, <3>3 DEF MarkFailed
  <2>4. QED BY <1>8, <2>2, <2>3 DEF MarkFailed
\* A clock only sets its flag.
<1>9. ASSUME OperationLapses \/ OperationExpires PROVE SubmitInv'
  <2>1. operation' \in OperationState /\ operation'.state = operation.state
        /\ operation'.owner = operation.owner /\ operation'.hash = operation.hash
        /\ operation'.result = operation.result
    BY <1>0, <1>9 DEF OperationLapses, OperationExpires, OperationState
  <2>2. UNCHANGED <<request, projects, forgotten>>
    BY <1>9 DEF OperationLapses, OperationExpires
  <2>3. QED
    BY <2>1, <2>2 DEF SubmitTypeOK, OneProjectPerKey, ClaimOfOwner, ResultOfPayload, SamePayload
<1>10. ASSUME PurgeExpired PROVE SubmitInv'
  <2>1. /\ operation' = NoOperation /\ UNCHANGED <<request, projects>>
        /\ forgotten' = IF operation.state = "SUCCEEDED"
                        THEN forgotten \cup {operation.result} ELSE forgotten
    BY <1>10 DEF PurgeExpired
  <2>2. NoOperation \in OperationState /\ NoOperation.state = "ABSENT"
    BY DEF NoOperation, OperationState
  <2>3. projects \subseteq forgotten' /\ forgotten' \subseteq projects
    BY <1>0, <2>1 DEF OneProjectPerKey, ResultOfPayload
  <2>4. SubmitTypeOK'
    BY <2>1, <2>2, <2>3 DEF SubmitTypeOK
  <2>5. OneProjectPerKey' /\ ClaimOfOwner' /\ ResultOfPayload' /\ SamePayload'
    BY <2>1, <2>2, <2>3 DEF OneProjectPerKey, ClaimOfOwner, ResultOfPayload, SamePayload
  <2>6. QED BY <2>4, <2>5
<1>11. CASE UNCHANGED submitVars
  BY <1>11 DEF submitVars, SubmitTypeOK, OneProjectPerKey, ClaimOfOwner, ResultOfPayload,
               SamePayload
<1>12. QED
  BY <1>3, <1>4, <1>5, <1>6, <1>7, <1>8, <1>9, <1>10, <1>11 DEF SubmitNext

-----------------------------------------------------------------------------
(* The row, the requests and the projects have their types throughout.     *)
THEOREM SubmitTypeCorrect == SubmitSpec => []SubmitTypeOK
<1>1. SubmitInv => SubmitTypeOK
  BY DEF SubmitInv
<1>2. QED BY <1>1, SubmitInitially, SubmitStep, PTL DEF SubmitSpec

(* However many requests carry a key, lapse, take over or are purged, what *)
(* was created under the key and is not forgotten is one project, which    *)
(* the row names, and no request is answered with a project of another     *)
(* payload.                                                                *)
THEOREM KeyAlwaysHonoured == SubmitSpec => []KeyHonoured
<1>1. SubmitInv => KeyHonoured
  BY DEF SubmitInv, KeyHonoured
<1>2. QED BY <1>1, SubmitInitially, SubmitStep, PTL DEF SubmitSpec

-----------------------------------------------------------------------------
(* What the clients of a key see.                                          *)

Asks     == [r \in Request |-> request[r].payload]
Answers  == [r \in Request |-> request[r].answer]
Standing == IF operation.state = "SUCCEEDED" THEN operation.result ELSE NoRequest

\* A request that may still create has created nothing and has no answer.
Unmade ==
    \A r \in Request : request[r].at \in {"unsent", "creating"}
        => r \notin projects /\ request[r].answer = NoRequest

\* A request of any state that takes a step keeps what it asks for.
LEMMA RowOf ==
    ASSUME SubmitInv, NEW r \in Request, NEW s \in RequestState,
           request' = [request EXCEPT ![r] = s], s.payload = request[r].payload
    PROVE  /\ request'[r] = s
           /\ \A q \in Request \ {r} : request'[q] = request[q]
           /\ Asks' = Asks
           /\ Answers' = [Answers EXCEPT ![r] = s.answer]
<1>1. request \in [Request -> RequestState]
  BY DEF SubmitInv, SubmitTypeOK
<1>2. request'[r] = s /\ \A q \in Request \ {r} : request'[q] = request[q]
  BY <1>1
<1>3. \A q \in Request : request'[q].payload = request[q].payload
  BY <1>2
<1>4. Asks' = Asks
  BY <1>3 DEF Asks
<1>5. \A q \in Request : request'[q].answer = IF q = r THEN s.answer ELSE request[q].answer
  BY <1>2
<1>6. Answers' = [Answers EXCEPT ![r] = s.answer]
  BY <1>5 DEF Answers
<1>7. QED BY <1>2, <1>4, <1>6

LEMMA UnmadeInitially == SubmitInit => Unmade
<1> SUFFICES ASSUME SubmitInit PROVE Unmade
  OBVIOUS
<1>1. \A r \in Request : request[r].answer = NoRequest
  BY DEF SubmitInit
<1>2. QED BY <1>1 DEF SubmitInit, Unmade

\* The steps of requests, as what they do to the row, the projects and one
\* request: this is all that the clients and Unmade are concerned with.
LEMMA RequestSteps ==
    ASSUME SubmitInv, Unmade, NEW r \in Request,
           \/ Acquire(r) \/ AnswerStored(r) \/ RefuseClaim(r) \/ CreateProject(r)
           \/ CreateFails(r) \/ MarkFailed(r) \/ RequestDies(r)
    PROVE  \E s \in RequestState :
              /\ request' = [request EXCEPT ![r] = s]
              /\ s.payload = request[r].payload
              /\ s.at \in {"unsent", "creating"} => request[r].at = "unsent"
              /\ \/ /\ s.answer = request[r].answer
                    /\ UNCHANGED projects
                    /\ Standing' = Standing
                 \/ /\ s.at = "answered" /\ request[r].answer = NoRequest
                    /\ UNCHANGED projects
                    /\ operation.state = "SUCCEEDED" /\ UNCHANGED operation
                    /\ operation.hash = request[r].payload
                    /\ s.answer = operation.result
                 \/ /\ s.at \in {"answered", "failing"} /\ request[r].answer = NoRequest
                    /\ request[r].at = "creating" /\ r \notin projects
                    /\ projects' = projects \cup {r}
                    /\ projects = {} \/ request[r].payload \in Duplicates
                    /\ operation.state # "SUCCEEDED" /\ Standing' = r
                    /\ s.answer \in {NoRequest, r}
<1>0. /\ request[r] \in RequestState /\ operation \in OperationState
      /\ request \in [Request -> RequestState]
  BY DEF SubmitInv, SubmitTypeOK
<1>1. CASE Acquire(r)
  <2> DEFINE s == [request[r] EXCEPT !.at = "creating"]
             row == [NoOperation EXCEPT !.state = "IN_PROGRESS", !.owner = r,
                                        !.hash = request[r].payload]
  <2>1. /\ s \in RequestState /\ s.payload = request[r].payload
        /\ s.answer = request[r].answer
    BY <1>0 DEF RequestState
  <2>2. /\ request' = [request EXCEPT ![r] = s] /\ operation' = row
        /\ request[r].at = "unsent" /\ UNCHANGED projects
        /\ operation.state # "SUCCEEDED"
    BY <1>1 DEF Acquire, RequestTo, CanTakeOver
  <2>3. row.state = "IN_PROGRESS"
    BY DEF NoOperation
  <2> HIDE DEF s, row
  <2>4. Standing' = Standing
    BY <2>2, <2>3 DEF Standing
  <2>5. QED BY <2>1, <2>2, <2>4
<1>2. CASE AnswerStored(r)
  <2> DEFINE s == [request[r] EXCEPT !.at = "answered", !.answer = operation.result]
  <2>1. /\ s \in RequestState /\ s.payload = request[r].payload
        /\ s.at = "answered" /\ s.answer = operation.result
    BY <1>0 DEF RequestState, OperationState
  <2>2. /\ request' = [request EXCEPT ![r] = s]
        /\ operation.state = "SUCCEEDED" /\ operation.hash = request[r].payload
        /\ UNCHANGED <<operation, projects>> /\ request[r].at = "unsent"
    BY <1>2 DEF AnswerStored
  <2> HIDE DEF s
  <2>3. request[r].answer = NoRequest
    BY <2>2 DEF Unmade
  <2>4. QED BY <2>1, <2>2, <2>3
<1>3. CASE CreateProject(r)
  <2>1. PICK s \in {[request[r] EXCEPT !.at = "answered", !.answer = r],
                    [request[r] EXCEPT !.at = "failing"]} :
            request' = [request EXCEPT ![r] = s]
    BY <1>3 DEF CreateProject, RequestTo
  <2> DEFINE row == [operation EXCEPT !.state = "SUCCEEDED", !.result = r,
                                      !.owner = NoRequest, !.lapsed = FALSE]
  <2>2. /\ request[r].at = "creating" /\ projects' = projects \cup {r}
        /\ projects = {} \/ request[r].payload \in Duplicates
        /\ operation.state = "IN_PROGRESS" /\ operation' = row
    BY <1>3 DEF CreateProject, TitleAllowed, OwnsOperation
  <2>3. request[r].answer = NoRequest /\ r \notin projects
    BY <2>2 DEF Unmade
  <2>4. /\ s \in RequestState /\ s.payload = request[r].payload
        /\ s.at \in {"answered", "failing"} /\ s.answer \in {NoRequest, r}
    BY <1>0, <2>3 DEF RequestState
  <2>5. row.state = "SUCCEEDED" /\ row.result = r
    BY <1>0 DEF OperationState
  <2> HIDE DEF row
  <2>6. Standing' = r
    BY <2>2, <2>5 DEF Standing
  <2>7. QED BY <2>1, <2>2, <2>3, <2>4, <2>6
<1>4. CASE RefuseClaim(r) \/ RequestDies(r)
  <2>1. PICK l \in {"refused", "dead"} : RequestTo(r, l) /\ UNCHANGED <<operation, projects>>
    BY <1>4 DEF RefuseClaim, RequestDies
  <2> DEFINE s == [request[r] EXCEPT !.at = l]
  <2>2. /\ s \in RequestState /\ s.payload = request[r].payload /\ s.at = l
        /\ s.answer = request[r].answer
    BY <1>0 DEF RequestState
  <2>3. request' = [request EXCEPT ![r] = s] /\ Standing' = Standing
    BY <2>1 DEF RequestTo, Standing
  <2> HIDE DEF s
  <2>4. QED BY <2>1, <2>2, <2>3
<1>5. CASE CreateFails(r)
  <2>1. PICK terminal \in BOOLEAN :
            request' = [request EXCEPT ![r].at = "failing", ![r].terminal = terminal]
    BY <1>5 DEF CreateFails
  <2> DEFINE s == [request[r] EXCEPT !.at = "failing", !.terminal = terminal]
  <2>2. /\ s \in RequestState /\ s.payload = request[r].payload /\ s.at = "failing"
        /\ s.answer = request[r].answer
    BY <1>0 DEF RequestState
  <2>3. /\ request' = [request EXCEPT ![r] = s] /\ Standing' = Standing
        /\ UNCHANGED projects
    BY <1>5, <2>1 DEF CreateFails, Standing
  <2> HIDE DEF s
  <2>4. QED BY <2>2, <2>3
<1>6. CASE MarkFailed(r)
  <2> DEFINE s == [request[r] EXCEPT !.at = "refused"]
  <2>1. /\ s \in RequestState /\ s.payload = request[r].payload /\ s.at = "refused"
        /\ s.answer = request[r].answer
    BY <1>0 DEF RequestState
  <2>2. request' = [request EXCEPT ![r] = s] /\ UNCHANGED projects
    BY <1>6 DEF MarkFailed, RequestTo
  <2> HIDE DEF s
  <2>3. CASE UNCHANGED operation
    BY <2>1, <2>2, <2>3 DEF Standing
  <2>4. CASE OwnsOperation(r) /\ ~UNCHANGED operation
    <3>1. operation.state = "IN_PROGRESS"
      BY <2>4 DEF OwnsOperation
    <3>2. PICK l \in {"TERMINAL_FAILED", "RETRYABLE_FAILED"} :
             operation' = [operation EXCEPT !.state = l, !.owner = NoRequest,
                                            !.lapsed = FALSE]
      BY <1>6, <2>4 DEF MarkFailed
    <3>3. operation'.state = l
      BY <1>0, <3>2 DEF OperationState
    <3>4. Standing' = Standing
      BY <3>1, <3>3 DEF Standing
    <3>5. QED BY <2>1, <2>2, <3>4
  <2>5. QED BY <1>6, <2>3, <2>4 DEF MarkFailed
<1>7. QED BY <1>1, <1>2, <1>3, <1>4, <1>5, <1>6

LEMMA UnmadeStep == SubmitInv /\ Unmade /\ [SubmitNext]_submitVars => Unmade'
<1> SUFFICES ASSUME SubmitInv, Unmade, [SubmitNext]_submitVars PROVE Unmade'
  OBVIOUS
<1>1. ASSUME NEW r \in Request,
             \/ Acquire(r) \/ AnswerStored(r) \/ RefuseClaim(r) \/ CreateProject(r)
             \/ CreateFails(r) \/ MarkFailed(r) \/ RequestDies(r)
      PROVE  Unmade'
  <2>1. PICK s \in RequestState :
              /\ request' = [request EXCEPT ![r] = s]
              /\ s.payload = request[r].payload
              /\ s.at \in {"unsent", "creating"} =>
                    /\ request[r].at = "unsent"
                    /\ s.answer = request[r].answer /\ UNCHANGED projects
              /\ projects' \in {projects, projects \cup {r}}
    BY <1>1, RequestSteps
  <2>2. request'[r] = s /\ \A q \in Request \ {r} : request'[q] = request[q]
    BY <2>1, RowOf
  <2>3. QED BY <2>1, <2>2 DEF Unmade
<1>2. CASE OperationLapses \/ OperationExpires \/ PurgeExpired
  BY <1>2 DEF OperationLapses, OperationExpires, PurgeExpired, Unmade
<1>3. CASE UNCHANGED submitVars
  BY <1>3 DEF submitVars, Unmade
<1>4. QED BY <1>1, <1>2, <1>3 DEF SubmitNext

LEMMA KeyInitially == SubmitInit => KeyPromise!Init
<1> SUFFICES ASSUME SubmitInit PROVE KeyPromise!Init
  OBVIOUS
<1>1. request \in [Request -> [at : {"unsent"}, payload : Payload,
                               terminal : {FALSE}, answer : {NoRequest}]]
      /\ operation.state = "ABSENT" /\ projects = {}
  BY DEF SubmitInit, NoOperation
<1>2. \A r \in Request : request[r].payload \in Payload /\ request[r].answer = NoRequest
  BY <1>1
<1>3. QED BY <1>1, <1>2 DEF KeyPromise!Init

\* Every step of the requests, of the clock and of the purge is a step of the
\* promise, or is not seen.
LEMMA KeyStep ==
    ASSUME SubmitInv, Unmade, [SubmitNext]_submitVars
    PROVE  [KeyPromise!Next]_KeyPromise!vars
<1> DEFINE Shown == KeyPromise!Next \/ UNCHANGED KeyPromise!vars
<1>0. \A r \in Request : Answers[r] = request[r].answer /\ Asks[r] = request[r].payload
  BY DEF Answers, Asks
<1>1. ASSUME UNCHANGED <<Asks, Answers, projects, Standing>> PROVE Shown
  BY <1>1 DEF KeyPromise!vars, Asks, Answers, Standing
<1>2. ASSUME NEW r \in Request,
             \/ Acquire(r) \/ AnswerStored(r) \/ RefuseClaim(r) \/ CreateProject(r)
             \/ CreateFails(r) \/ MarkFailed(r) \/ RequestDies(r)
      PROVE  Shown
  <2>1. PICK s \in RequestState :
              /\ request' = [request EXCEPT ![r] = s]
              /\ s.payload = request[r].payload
              /\ \/ /\ s.answer = request[r].answer
                    /\ UNCHANGED projects
                    /\ Standing' = Standing
                 \/ /\ s.at = "answered" /\ request[r].answer = NoRequest
                    /\ UNCHANGED projects
                    /\ operation.state = "SUCCEEDED" /\ UNCHANGED operation
                    /\ operation.hash = request[r].payload
                    /\ s.answer = operation.result
                 \/ /\ s.at \in {"answered", "failing"} /\ request[r].answer = NoRequest
                    /\ request[r].at = "creating" /\ r \notin projects
                    /\ projects' = projects \cup {r}
                    /\ projects = {} \/ request[r].payload \in Duplicates
                    /\ operation.state # "SUCCEEDED" /\ Standing' = r
                    /\ s.answer \in {NoRequest, r}
    BY <1>2, RequestSteps
  <2>2. Asks' = Asks /\ Answers' = [Answers EXCEPT ![r] = s.answer]
    BY <2>1, RowOf
  <2>3. CASE s.answer = request[r].answer /\ UNCHANGED projects /\ Standing' = Standing
    <3>1. Answers' = Answers
      BY <1>0, <2>2, <2>3 DEF Answers
    <3>2. QED BY <1>1, <2>2, <2>3, <3>1
  <2>4. CASE /\ s.at = "answered" /\ request[r].answer = NoRequest
             /\ UNCHANGED projects
             /\ operation.state = "SUCCEEDED" /\ UNCHANGED operation
             /\ operation.hash = request[r].payload
             /\ s.answer = operation.result
    <3>1. Standing = operation.result /\ Standing' = Standing
      BY <2>4 DEF Standing
    <3>2. operation.result \in Request /\ request[operation.result].payload = request[r].payload
      BY <2>4 DEF SubmitInv, ResultOfPayload, SubmitTypeOK
    <3>3. Standing # NoRequest /\ Asks[r] = Asks[Standing] /\ Answers[r] = NoRequest
      BY <1>0, <2>4, <3>1, <3>2, SubmitNames
    <3>4. Answers' = [Answers EXCEPT ![r] = Standing]
      BY <2>2, <2>4, <3>1
    <3>5. KeyPromise!Answer(r)
      BY <2>2, <2>4, <3>1, <3>3, <3>4 DEF KeyPromise!Answer, Asks, Answers, Standing
    <3>6. QED BY <3>5 DEF KeyPromise!Next
  <2>5. CASE /\ request[r].answer = NoRequest /\ r \notin projects
             /\ projects' = projects \cup {r}
             /\ projects = {} \/ request[r].payload \in Duplicates
             /\ operation.state # "SUCCEEDED" /\ Standing' = r
             /\ s.answer \in {NoRequest, r}
    <3>1. Standing = NoRequest
      BY <2>5 DEF Standing
    <3>2. Answers' = Answers \/ Answers' = [Answers EXCEPT ![r] = r]
      BY <1>0, <2>2, <2>5 DEF Answers
    <3>3. Answers[r] = NoRequest /\ (projects = {} \/ Asks[r] \in Duplicates)
      BY <1>0, <2>5
    <3>4. KeyPromise!Make(r)
      BY <2>2, <2>5, <3>1, <3>2, <3>3 DEF KeyPromise!Make, Asks, Answers, Standing
    <3>5. QED BY <3>4 DEF KeyPromise!Next
  <2>6. QED BY <2>1, <2>3, <2>4, <2>5
<1>3. CASE OperationLapses \/ OperationExpires
  <2>1. operation'.state = operation.state /\ operation'.result = operation.result
    BY <1>3 DEF OperationLapses, OperationExpires, SubmitInv, SubmitTypeOK, OperationState
  <2>2. Standing' = Standing
    BY <2>1 DEF Standing
  <2>3. QED BY <1>1, <1>3, <2>2 DEF OperationLapses, OperationExpires, Asks, Answers
<1>4. CASE PurgeExpired
  <2>1. Standing' = NoRequest /\ UNCHANGED <<Asks, Answers, projects>>
    BY <1>4 DEF PurgeExpired, Standing, NoOperation, Asks, Answers
  <2>2. CASE Standing = NoRequest
    BY <1>1, <2>1, <2>2
  <2>3. CASE Standing # NoRequest
    <3>1. KeyPromise!Forget
      BY <2>1, <2>3 DEF KeyPromise!Forget, Asks, Answers, Standing
    <3>2. QED BY <3>1 DEF KeyPromise!Next
  <2>4. QED BY <2>2, <2>3
<1>5. CASE UNCHANGED submitVars
  BY <1>1, <1>5 DEF submitVars, Asks, Answers, Standing
<1>6. QED BY <1>2, <1>3, <1>4, <1>5 DEF SubmitNext

\* The row of a key implements IdempotentKey: whatever is repeated, taken over,
\* lost or purged, its clients see one standing result, made by a request that
\* made no other and given to those that asked for the same.
THEOREM KeyRefinement == SubmitSpec => KeyPromiseKept
<1>1. SubmitInv /\ Unmade /\ [SubmitNext]_submitVars
         => [KeyPromise!Next]_KeyPromise!vars
  BY KeyStep
<1>2. QED BY SubmitInitially, SubmitStep, UnmadeInitially, UnmadeStep, KeyInitially,
             <1>1, PTL DEF SubmitSpec, KeyPromiseKept, KeyPromise!Spec

-----------------------------------------------------------------------------

\* A text is the key of at most one row.
TextsUnique == \A r, q \in Kept : bans[r].ip = bans[q].ip => r = q

\* Only the mutation whose turn it is has written its row and not yet changed
\* the cache; and what it wrote is in the rows.
TurnAgrees ==
    \A c \in Caller :
        /\ caller[c].at \in {"add", "remove"} => banQueue # <<>> /\ Head(banQueue) = c
        /\ caller[c].at = "add" => \E r \in Enforced : bans[r].ip = caller[c].ip
        /\ caller[c].at = "remove" => \A r \in Enforced : bans[r].ip # caller[c].ip
        /\ caller[c].at = "unban" => caller[c].row \in Kept
        /\ caller[c].at = "auto" => auto /\ caller[c].ip \in Address
        /\ caller[c].at = "register" => Canonical(caller[c].ip) = caller[c].ip

\* A lifted target has rows, and none of them is active.
LiftedAgrees == \A t \in lifted : FormsOf(t) # {} /\ FormsOf(t) \cap On = {}

BansInv ==
    BansTypeOK /\ TextsUnique /\ TurnAgrees /\ LiftedAgrees /\ CacheFollowsRows

LEMMA BansReady == BansInv => BansHonoured
BY DEF BansInv, LiftedAgrees, BansHonoured, UnbanRespected, Enforced

\* The rows are those that have a state.
LEMMA KeptRows ==
    ASSUME BansTypeOK
    PROVE  /\ Kept \subseteq BanRow /\ On \subseteq Kept /\ Enforced \subseteq On
           /\ \A r \in BanRow : r \in Kept <=> bans[r].state # "none"
           /\ \A r \in Kept :
                 bans[r].ip \in Target /\ bans[r].state \in {"active", "disabled"}
BY DEF BansTypeOK, RowOfBan, Kept, On, Enforced, NoBan

\* One row gets a text and a state.
LEMMA RowSet ==
    ASSUME BansTypeOK, NEW r \in BanRow, NEW t \in Target,
           NEW state \in {"active", "disabled"},
           NEW source \in {"LEGACY", "AUTO", "MANUAL"},
           SetBan(r, t, state, source), UNCHANGED auto
    PROVE  /\ bans' \in [BanRow -> {NoBan} \cup RowOfBan]
           /\ Kept' = Kept \cup {r}
           /\ On' = IF state = "active" THEN On \cup {r} ELSE On \ {r}
           /\ Enforced' \ {r} = Enforced \ {r}
           /\ r \in Enforced' <=> state = "active" /\ (source # "AUTO" \/ auto)
           /\ bans'[r].ip = t /\ \A q \in BanRow \ {r} : bans'[q] = bans[q]
<1>1. bans' = [bans EXCEPT ![r] = [ip |-> t, state |-> state, source |-> source]]
  BY DEF SetBan
<1>2. /\ bans'[r] = [ip |-> t, state |-> state, source |-> source] /\ bans'[r] # NoBan
      /\ \A q \in BanRow \ {r} : bans'[q] = bans[q]
  BY <1>1 DEF BansTypeOK, RowOfBan, NoBan
<1>3. bans' \in [BanRow -> {NoBan} \cup RowOfBan]
  BY <1>1 DEF BansTypeOK, RowOfBan
<1>4. Kept' = Kept \cup {r}
  BY <1>2 DEF Kept
<1>5. On' = IF state = "active" THEN On \cup {r} ELSE On \ {r}
  BY <1>2, <1>4 DEF On, Kept
<1>6. Enforced' \ {r} = Enforced \ {r}
      /\ (r \in Enforced' <=> state = "active" /\ (source # "AUTO" \/ auto))
  BY <1>2, <1>5 DEF Enforced, On, Kept
<1>7. QED BY <1>2, <1>3, <1>4, <1>5, <1>6

LEMMA BansInitially == BansInit => BansInv
<1> SUFFICES ASSUME BansInit PROVE BansInv
  OBVIOUS
<1>1. PICK old \in SUBSET {r \in [ip : Target, state : {"active"},
                                    source : {"LEGACY", "AUTO"}] :
                             r.source = "AUTO" => r.ip \in Address} :
          /\ \A r, q \in old : r.ip = q.ip => r = q
          /\ bans \in [BanRow -> old \cup {NoBan}]
  BY DEF BansInit
<1>2. bans \in [BanRow -> {NoBan} \cup RowOfBan]
  BY <1>1 DEF RowOfBan
<1>3. /\ banCache = {bans[r].ip : r \in Enforced} /\ hits = [a \in Address |-> 0]
      /\ caller = [c \in Caller |-> NoCall] /\ banQueue = <<>>
      /\ lifted = {} /\ unknown = {} /\ losses = 0 /\ auto \in BOOLEAN
  BY DEF BansInit
<1>4. \A r \in Kept : bans[r] \in old
  BY <1>1 DEF Kept
<1>5. banCache \subseteq Target
  BY <1>1, <1>3, <1>4 DEF Enforced, On
<1>6. BansTypeOK
  <2>1. hits \in [Address -> 0 .. MaxIpHits] /\ losses \in 0 .. MaxLosses
    BY <1>3, BanNames
  <2>2. caller \in [Caller -> CallOfBan]
    BY <1>3 DEF CallOfBan
  <2>3. QED BY <1>2, <1>3, <1>5, <2>1, <2>2 DEF BansTypeOK
<1>7. TextsUnique
  <2>1. \A i, j \in BanRow : i # j => bans[i] = NoBan \/ bans[i] # bans[j]
    BY DEF BansInit
  <2>2. QED BY <1>1, <1>4, <2>1 DEF TextsUnique, Kept
<1>8. TurnAgrees /\ LiftedAgrees /\ CacheFollowsRows
  BY <1>3 DEF TurnAgrees, LiftedAgrees, CacheFollowsRows, NoCall
<1>9. QED BY <1>6, <1>7, <1>8 DEF BansInv

\* What a call has with it.
LEMMA CallFields ==
    ASSUME BansTypeOK, NEW c \in Caller
    PROVE  /\ caller[c].at \in {"idle", "unban", "register", "auto", "add", "remove"}
           /\ caller[c].at = "idle" <=> caller[c] = NoCall
           /\ caller[c].at = "unban" => caller[c].row \in BanRow
           /\ caller[c].at \in {"register", "auto", "add", "remove"} =>
                 caller[c].ip \in Target
BY DEF BansTypeOK, CallOfBan, NoCall

\* While it is the turn of one call, no other has written its row.
LEMMA OnlyHead ==
    ASSUME TurnAgrees, NEW c \in Caller, IsTurn(c)
    PROVE  \A d \in Caller : caller[d].at \in {"add", "remove"} => d = c
BY DEF TurnAgrees, IsTurn

\* A call that ends leaves the others waiting.
LEMMA FinishLeaves ==
    ASSUME BansTypeOK, TurnAgrees, NEW c \in Caller, IsTurn(c), Finish(c),
           UNCHANGED <<auto, bans>>
    PROVE  /\ caller' \in [Caller -> CallOfBan] /\ banQueue' \in Seq(Caller)
           /\ TurnAgrees'
           /\ \A d \in Caller : caller'[d].at \notin {"add", "remove"}
<1>1. /\ caller'[c] = NoCall /\ \A d \in Caller \ {c} : caller'[d] = caller[d]
      /\ caller' \in [Caller -> CallOfBan]
  BY DEF Finish, BansTypeOK, CallOfBan
<1>2. banQueue' \in Seq(Caller)
  BY HeadTailProperties DEF Finish, IsTurn, BansTypeOK
<1>3. \A d \in Caller : caller'[d].at \notin {"add", "remove"}
  BY <1>1, OnlyHead DEF NoCall
<1>4. Kept' = Kept /\ Enforced' = Enforced
  BY DEF Kept, On, Enforced
<1>5. TurnAgrees'
  BY <1>1, <1>3, <1>4 DEF TurnAgrees, NoCall
<1>6. QED BY <1>1, <1>2, <1>3, <1>5

\* A call whose turn it is, at its row: every other text is as the cache says.
LEMMA BeforeWrite ==
    ASSUME BansInv, NEW c \in Caller, IsTurn(c), caller[c].at \notin {"add", "remove"}
    PROVE  \A u \in Target \ unknown :
              u \in banCache <=> \E r \in Enforced : bans[r].ip = u
<1>1. \A d \in Caller : caller[d].at \notin {"add", "remove"}
  BY OnlyHead DEF BansInv
<1>2. QED BY <1>1 DEF BansInv, CacheFollowsRows

\* A row is written for text t, and the texts of the other enforced rows stay.
LEMMA WriteKeeps ==
    ASSUME BansInv, NEW c \in Caller, IsTurn(c),
           caller[c].at \in {"register", "unban", "auto"},
           NEW t \in Target, NEW change \in {"add", "remove"}, Written(c, change, t),
           bans' \in [BanRow -> {NoBan} \cup RowOfBan],
           Kept \subseteq Kept', TextsUnique', lifted' \subseteq Target, LiftedAgrees',
           change = "add" => \E r \in Enforced' : bans'[r].ip = t,
           change = "remove" => \A r \in Enforced' : bans'[r].ip # t,
           \A u \in Target \ {t} :
              (\E r \in Enforced' : bans'[r].ip = u)
              <=> (\E r \in Enforced : bans[r].ip = u)
    PROVE  BansInv'
<1>1. /\ caller'[c] = [at |-> change, ip |-> t]
      /\ \A d \in Caller \ {c} : caller'[d] = caller[d]
      /\ caller' \in [Caller -> CallOfBan]
      /\ UNCHANGED <<auto, banCache, hits, banQueue, unknown, losses>>
  BY DEF Written, BansInv, BansTypeOK, CallOfBan
<1>2. BansTypeOK'
  BY <1>1 DEF BansInv, BansTypeOK, CallOfBan
<1>3. \A d \in Caller : caller'[d].at \in {"add", "remove"} => d = c
  BY <1>1, OnlyHead DEF BansInv
<1>4. TurnAgrees'
  <2>1. SUFFICES ASSUME NEW d \in Caller
                 PROVE  /\ caller'[d].at \in {"add", "remove"} =>
                              banQueue' # <<>> /\ Head(banQueue') = d
                        /\ caller'[d].at = "add" =>
                              \E r \in Enforced' : bans'[r].ip = caller'[d].ip
                        /\ caller'[d].at = "remove" =>
                              \A r \in Enforced' : bans'[r].ip # caller'[d].ip
                        /\ caller'[d].at = "unban" => caller'[d].row \in Kept'
                        /\ caller'[d].at = "auto" => auto' /\ caller'[d].ip \in Address
                        /\ caller'[d].at = "register" =>
                              Canonical(caller'[d].ip) = caller'[d].ip
    BY DEF TurnAgrees
  <2>2. CASE d = c
    BY <1>1, <2>2 DEF IsTurn
  <2>3. CASE d # c
    <3>1. caller'[d] = caller[d] /\ caller[d].at \notin {"add", "remove"}
      BY <1>1, <1>3, <2>3
    <3>2. QED BY <1>1, <3>1 DEF BansInv, TurnAgrees
  <2>4. QED BY <2>2, <2>3
<1>5. CacheFollowsRows'
  <2>1. SUFFICES ASSUME NEW u \in Target \ unknown',
                        \A d \in Caller :
                           caller'[d].at \in {"add", "remove"} => caller'[d].ip # u
                 PROVE  u \in banCache' <=> \E r \in Enforced' : bans'[r].ip = u
    BY DEF CacheFollowsRows
  <2>2. u # t
    BY <1>1, <2>1
  <2>3. QED BY <1>1, <2>1, <2>2, BeforeWrite
<1>6. QED BY <1>2, <1>4, <1>5 DEF BansInv

\* An active row for text t, which no enforced row stands for.
LEMMA ActiveRow ==
    ASSUME BansInv, NEW r \in BanRow, NEW t \in Target,
           NEW source \in {"AUTO", "MANUAL"},
           SetBan(r, t, "active", source), UNCHANGED auto, source = "AUTO" => auto,
           Canonical(t) = t, r \notin Enforced,
           r \in Kept => Canonical(bans[r].ip) = t,
           \A q \in Kept \ {r} : bans[q].ip # t,
           NEW L, L \subseteq lifted \ {t}, lifted' = L
    PROVE  /\ bans' \in [BanRow -> {NoBan} \cup RowOfBan]
           /\ Kept \subseteq Kept' /\ TextsUnique' /\ LiftedAgrees'
           /\ \E q \in Enforced' : bans'[q].ip = t
           /\ \A u \in Target \ {t} :
                 (\E q \in Enforced' : bans'[q].ip = u)
              <=> (\E q \in Enforced : bans[q].ip = u)
<1>1. /\ bans' \in [BanRow -> {NoBan} \cup RowOfBan]
      /\ Kept' = Kept \cup {r} /\ On' = On \cup {r}
      /\ Enforced' \ {r} = Enforced \ {r} /\ r \in Enforced'
      /\ bans'[r].ip = t /\ \A q \in BanRow \ {r} : bans'[q] = bans[q]
  BY RowSet DEF BansInv
<1>2. Kept \subseteq BanRow /\ Enforced \subseteq Kept /\ On \subseteq Kept
  BY KeptRows DEF BansInv
<1>3. Enforced' = Enforced \cup {r}
  BY <1>1
<1>4. TextsUnique'
  BY <1>1, <1>2 DEF TextsUnique, BansInv
<1>5. LiftedAgrees'
  <2>1. SUFFICES ASSUME NEW u \in lifted'
                 PROVE  FormsOf(u)' # {} /\ FormsOf(u)' \cap On' = {}
    BY DEF LiftedAgrees
  <2>2. u # t /\ u \in lifted
    OBVIOUS
  <2>3. FormsOf(u)' = FormsOf(u) /\ r \notin FormsOf(u)
    BY <1>1, <1>2, <2>2 DEF FormsOf
  <2>4. QED BY <1>1, <2>2, <2>3 DEF BansInv, LiftedAgrees
<1>6. \A u \in Target \ {t} :
        (\E q \in Enforced' : bans'[q].ip = u)
              <=> (\E q \in Enforced : bans[q].ip = u)
  BY <1>1, <1>2, <1>3
<1>7. QED BY <1>1, <1>4, <1>5, <1>6

\* A call ends, and the rows stay as they are; the cache is what it has to be.
LEMMA EndKeeps ==
    ASSUME BansInv, NEW c \in Caller, IsTurn(c), Finish(c),
           UNCHANGED <<auto, bans, lifted>>,
           hits' \in [Address -> 0 .. MaxIpHits], losses' \in 0 .. MaxLosses,
           banCache' \subseteq Target, unknown' \subseteq Target,
           \A u \in Target \ unknown' :
              u \in banCache' <=> \E r \in Enforced : bans[r].ip = u
    PROVE  BansInv'
<1>1. /\ caller' \in [Caller -> CallOfBan] /\ banQueue' \in Seq(Caller) /\ TurnAgrees'
      /\ \A d \in Caller : caller'[d].at \notin {"add", "remove"}
  BY FinishLeaves DEF BansInv
<1>2. BansTypeOK'
  BY <1>1 DEF BansInv, BansTypeOK, CallOfBan
<1>3. Kept' = Kept /\ On' = On /\ Enforced' = Enforced
  BY DEF Kept, On, Enforced
<1>4. TextsUnique' /\ LiftedAgrees'
  BY <1>3 DEF BansInv, TextsUnique, LiftedAgrees, FormsOf
<1>5. CacheFollowsRows'
  BY <1>3 DEF CacheFollowsRows
<1>6. QED BY <1>1, <1>2, <1>4, <1>5 DEF BansInv

LEMMA RefusedStep ==
    ASSUME BansInv, NEW c \in Caller, IsTurn(c), caller[c].at \notin {"add", "remove"},
           Refused(c)
    PROVE  BansInv'
<1>1. Finish(c) /\ UNCHANGED <<auto, bans, banCache, hits, lifted, unknown, losses>>
  BY DEF Refused
<1>2. \A u \in Target \ unknown' :
         u \in banCache' <=> \E r \in Enforced : bans[r].ip = u
  BY <1>1, BeforeWrite
<1>3. QED
  <2>1. hits' \in [Address -> 0 .. MaxIpHits] /\ losses' \in 0 .. MaxLosses
        /\ banCache' \subseteq Target /\ unknown' \subseteq Target
    BY <1>1 DEF BansInv, BansTypeOK
  <2>2. QED BY <1>1, <1>2, <2>1, EndKeeps

LEMMA CreateManualBanStep ==
    ASSUME BansInv, NEW c \in Caller, CreateManualBan(c) PROVE BansInv'
<1> DEFINE t == caller[c].ip
           same == {r \in FormsOf(t) : bans[r].ip = t}
<1>1. /\ IsTurn(c) /\ caller[c].at = "register" /\ t \in Target /\ Canonical(t) = t
  BY CallFields DEF CreateManualBan, BansInv, TurnAgrees
<1>2. CASE Refused(c)
  BY <1>1, <1>2, RefusedStep
<1>3. ASSUME FormsOf(t) \cap Enforced = {},
             NEW r \in BanRow,
             \/ r \in same
             \/ same = {} /\ r \in FormsOf(t)
             \/ FormsOf(t) = {} /\ NewRow(r),
             SetBan(r, t, "active", "MANUAL"), lifted' = lifted \ {t},
             Written(c, "add", t)
      PROVE  BansInv'
  <2>1. Kept \subseteq BanRow /\ Enforced \subseteq Kept
    BY KeptRows DEF BansInv
  <2>2. r \in FormsOf(t) \/ (FormsOf(t) = {} /\ r \notin Kept)
    BY <1>3 DEF NewRow
  <2>3. r \notin Enforced /\ (r \in Kept => Canonical(bans[r].ip) = t)
    BY <1>3, <2>1, <2>2 DEF FormsOf
  <2>4. \A q \in Kept \ {r} : bans[q].ip # t
    <3>1. SUFFICES ASSUME NEW q \in Kept, bans[q].ip = t PROVE q = r
      OBVIOUS
    <3>2. q \in same
      BY <1>1, <3>1 DEF FormsOf
    <3>3. r \in same
      BY <1>3, <3>2
    <3>4. QED BY <3>1, <3>2, <3>3 DEF FormsOf, BansInv, TextsUnique
  <2>5. UNCHANGED auto
    BY <1>3 DEF Written
  <2>6. /\ bans' \in [BanRow -> {NoBan} \cup RowOfBan]
        /\ Kept \subseteq Kept' /\ TextsUnique' /\ LiftedAgrees'
        /\ \E q \in Enforced' : bans'[q].ip = t
        /\ \A u \in Target \ {t} :
              (\E q \in Enforced' : bans'[q].ip = u)
              <=> (\E q \in Enforced : bans[q].ip = u)
    BY <1>1, <1>3, <2>3, <2>4, <2>5, ActiveRow
  <2>7. lifted' \subseteq Target
    BY <1>3 DEF BansInv, BansTypeOK
  <2>8. QED BY <1>1, <1>3, <2>6, <2>7, WriteKeeps
<1>4. QED BY <1>2, <1>3 DEF CreateManualBan

LEMMA UpsertBannedIpStep ==
    ASSUME BansInv, NEW c \in Caller, UpsertBannedIp(c) PROVE BansInv'
<1> DEFINE a == caller[c].ip
           same == {r \in Kept : bans[r].ip = a}
<1>1. /\ IsTurn(c) /\ caller[c].at = "auto" /\ a \in Address /\ auto
      /\ a \in Target /\ Canonical(a) = a
  BY CallFields, BanNames DEF UpsertBannedIp, BansInv, TurnAgrees
<1>2. Kept \subseteq BanRow /\ Enforced \subseteq Kept /\ On \subseteq Kept
  BY KeptRows DEF BansInv
<1>3. CASE Refused(c)
  BY <1>1, <1>3, RefusedStep
<1>4. ASSUME FormsOf(a) \subseteq On, same # {}, UNCHANGED bans, UNCHANGED lifted,
             Written(c, "add", a)
      PROVE  BansInv'
  <2>1. PICK r \in Kept : bans[r].ip = a
    BY <1>4
  <2>2. r \in Enforced
    BY <1>1, <1>4, <2>1 DEF FormsOf, Enforced
  <2>3. UNCHANGED auto
    BY <1>4 DEF Written
  <2>4. Kept' = Kept /\ On' = On /\ Enforced' = Enforced
    BY <1>4, <2>3 DEF Kept, On, Enforced
  <2>5. TextsUnique' /\ LiftedAgrees' /\ lifted' \subseteq Target
    BY <1>4, <2>4 DEF BansInv, BansTypeOK, TextsUnique, LiftedAgrees, FormsOf
  <2>6. \A u \in Target \ {a} :
          (\E q \in Enforced' : bans'[q].ip = u)
              <=> (\E q \in Enforced : bans[q].ip = u)
    BY <1>4, <2>4
  <2>7. \E q \in Enforced' : bans'[q].ip = a
    BY <1>4, <2>1, <2>2, <2>4
  <2>8. bans' \in [BanRow -> {NoBan} \cup RowOfBan]
    BY <1>4 DEF BansInv, BansTypeOK
  <2>9. QED BY <1>1, <1>4, <2>4, <2>5, <2>6, <2>7, <2>8, WriteKeeps
<1>5. ASSUME FormsOf(a) \subseteq On, same = {}, NEW r \in BanRow, NewRow(r),
             SetBan(r, a, "active", "AUTO"), UNCHANGED lifted, Written(c, "add", a)
      PROVE  BansInv'
  <2>1. r \notin Kept /\ r \notin Enforced /\ \A q \in Kept \ {r} : bans[q].ip # a
    BY <1>2, <1>5 DEF NewRow
  <2>2. a \notin lifted
    BY <1>5 DEF BansInv, LiftedAgrees
  <2>3. UNCHANGED auto
    BY <1>5 DEF Written
  <2>4. /\ bans' \in [BanRow -> {NoBan} \cup RowOfBan]
        /\ Kept \subseteq Kept' /\ TextsUnique' /\ LiftedAgrees'
        /\ \E q \in Enforced' : bans'[q].ip = a
        /\ \A u \in Target \ {a} :
              (\E q \in Enforced' : bans'[q].ip = u)
              <=> (\E q \in Enforced : bans[q].ip = u)
    BY <1>1, <1>5, <2>1, <2>2, <2>3, ActiveRow
  <2>5. lifted' \subseteq Target
    BY <1>5 DEF BansInv, BansTypeOK
  <2>6. QED BY <1>1, <1>5, <2>4, <2>5, WriteKeeps
<1>6. QED BY <1>3, <1>4, <1>5 DEF UpsertBannedIp

LEMMA DeleteBannedIpStep ==
    ASSUME BansInv, NEW c \in Caller, DeleteBannedIp(c) PROVE BansInv'
<1> DEFINE r == caller[c].row
           t == bans[r].ip
<1>1. IsTurn(c) /\ caller[c].at = "unban" /\ r \in Kept
  BY DEF DeleteBannedIp, BansInv, TurnAgrees
<1>2. /\ Kept \subseteq BanRow /\ Enforced \subseteq On /\ On \subseteq Kept
      /\ r \in BanRow /\ t \in Target /\ bans[r].source \in {"LEGACY", "AUTO", "MANUAL"}
  <2>1. Kept \subseteq BanRow /\ Enforced \subseteq On /\ On \subseteq Kept /\ t \in Target
    BY <1>1, KeptRows DEF BansInv
  <2>2. QED BY <1>1, <2>1 DEF BansInv, BansTypeOK, RowOfBan, Kept
<1>3. /\ SetBan(r, t, "disabled", bans[r].source) /\ Written(c, "remove", t)
      /\ lifted' = IF FormsOf(Canonical(t)) \cap On \subseteq {r}
                   THEN lifted \cup {Canonical(t)} ELSE lifted
  BY DEF DeleteBannedIp
<1>4. UNCHANGED auto
  BY <1>3 DEF Written
<1>5. /\ bans' \in [BanRow -> {NoBan} \cup RowOfBan]
      /\ Kept' = Kept \cup {r} /\ On' = On \ {r}
      /\ Enforced' \ {r} = Enforced \ {r} /\ r \notin Enforced'
      /\ bans'[r].ip = t /\ \A q \in BanRow \ {r} : bans'[q] = bans[q]
  BY <1>2, <1>3, <1>4, RowSet DEF BansInv
<1>6. /\ Kept' = Kept /\ Enforced' = Enforced \ {r}
      /\ \A q \in Kept : bans'[q].ip = bans[q].ip
  BY <1>1, <1>2, <1>5
<1>7. TextsUnique'
  BY <1>6 DEF BansInv, TextsUnique
<1>8. \A u : FormsOf(u)' = FormsOf(u)
  BY <1>6 DEF FormsOf
<1>9. LiftedAgrees' /\ lifted' \subseteq Target
  <2>1. r \in FormsOf(Canonical(t)) /\ Canonical(t) \in Target
    BY <1>1, <1>2, BanNames DEF FormsOf
  <2>2. QED BY <1>3, <1>5, <1>8, <2>1 DEF BansInv, BansTypeOK, LiftedAgrees
<1>10. \A q \in Enforced' : bans'[q].ip # t
  BY <1>1, <1>2, <1>6 DEF BansInv, TextsUnique
<1>11. \A u \in Target \ {t} :
         (\E q \in Enforced' : bans'[q].ip = u)
              <=> (\E q \in Enforced : bans[q].ip = u)
  BY <1>2, <1>6
<1>12. Kept \subseteq Kept' BY <1>6
<1>13. QED BY <1>1, <1>2, <1>3, <1>5, <1>12, <1>7, <1>9, <1>10, <1>11, WriteKeeps

LEMMA EnqueueStep ==
    ASSUME BansInv, NEW c \in Caller, NEW asks \in CallOfBan, Enqueue(c, asks),
           asks.at \in {"register", "unban", "auto"},
           asks.at = "unban" => asks.row \in Kept,
           asks.at = "auto" => auto /\ asks.ip \in Address,
           asks.at = "register" => Canonical(asks.ip) = asks.ip
    PROVE  BansInv'
<1>1. /\ caller'[c] = asks /\ \A d \in Caller \ {c} : caller'[d] = caller[d]
      /\ caller' \in [Caller -> CallOfBan] /\ caller[c] = NoCall
      /\ UNCHANGED <<auto, bans, banCache, hits, lifted, unknown, losses>>
  BY DEF Enqueue, BansInv, BansTypeOK, CallOfBan
<1>2. /\ banQueue' \in Seq(Caller) /\ banQueue' # <<>>
      /\ banQueue # <<>> => Head(banQueue') = Head(banQueue)
  BY AppendProperties, HeadTailAppend DEF Enqueue, BansInv, BansTypeOK
<1>3. Kept' = Kept /\ On' = On /\ Enforced' = Enforced
  BY <1>1 DEF Kept, On, Enforced
<1>4. BansTypeOK'
  BY <1>1, <1>2 DEF BansInv, BansTypeOK, CallOfBan
<1>5. TurnAgrees'
  BY <1>1, <1>2, <1>3 DEF BansInv, TurnAgrees
<1>6. TextsUnique' /\ LiftedAgrees'
  BY <1>1, <1>3 DEF BansInv, TextsUnique, LiftedAgrees, FormsOf
<1>7. CacheFollowsRows'
  <2>1. SUFFICES ASSUME NEW u \in Target \ unknown',
                        \A d \in Caller :
                           caller'[d].at \in {"add", "remove"} => caller'[d].ip # u
                 PROVE  u \in banCache' <=> \E r \in Enforced' : bans'[r].ip = u
    BY DEF CacheFollowsRows
  <2>2. \A d \in Caller : caller[d].at \in {"add", "remove"} => caller[d].ip # u
    BY <1>1, <2>1 DEF NoCall
  <2>3. QED BY <1>1, <1>3, <2>1, <2>2 DEF BansInv, CacheFollowsRows
<1>8. QED BY <1>4, <1>5, <1>6, <1>7 DEF BansInv

\* What the cache says of the texts no call is about to change.
LEMMA BeforeCache ==
    ASSUME BansInv, NEW c \in Caller, IsTurn(c), caller[c].at \in {"add", "remove"}
    PROVE  /\ caller[c].ip \in Target
           /\ \A u \in Target \ (unknown \cup {caller[c].ip}) :
                 u \in banCache <=> \E r \in Enforced : bans[r].ip = u
<1>1. caller[c].ip \in Target
  BY CallFields DEF BansInv
<1>2. SUFFICES ASSUME NEW u \in Target \ (unknown \cup {caller[c].ip})
               PROVE  u \in banCache <=> \E r \in Enforced : bans[r].ip = u
  BY <1>1
<1>3. \A d \in Caller : caller[d].at \in {"add", "remove"} => caller[d].ip # u
  BY <1>2, OnlyHead DEF BansInv
<1>4. QED BY <1>2, <1>3 DEF BansInv, CacheFollowsRows

LEMMA AddBanStep ==
    ASSUME BansInv, NEW c \in Caller, AddBan(c) PROVE BansInv'
<1>1. /\ IsTurn(c) /\ caller[c].at = "add" /\ Finish(c)
      /\ banCache' = banCache \cup {caller[c].ip}
      /\ UNCHANGED <<auto, bans, lifted, unknown, losses>>
  BY DEF AddBan
<1>2. \E r \in Enforced : bans[r].ip = caller[c].ip
  BY <1>1 DEF BansInv, TurnAgrees
<1>3. \A u \in Target \ unknown' :
         u \in banCache' <=> \E r \in Enforced : bans[r].ip = u
  BY <1>1, <1>2, BeforeCache
<1>4. hits' \in [Address -> 0 .. MaxIpHits]
  BY BanNames DEF AddBan, BansInv, BansTypeOK
<1>5. losses' \in 0 .. MaxLosses /\ banCache' \subseteq Target /\ unknown' \subseteq Target
  BY <1>1, BeforeCache DEF BansInv, BansTypeOK
<1>6. QED BY <1>1, <1>3, <1>4, <1>5, EndKeeps

LEMMA RemoveBanStep ==
    ASSUME BansInv, NEW c \in Caller, RemoveBan(c) PROVE BansInv'
<1>1. /\ IsTurn(c) /\ caller[c].at = "remove" /\ Finish(c)
      /\ banCache' = banCache \ {caller[c].ip}
      /\ UNCHANGED <<auto, bans, hits, lifted, unknown, losses>>
  BY DEF RemoveBan
<1>2. \A r \in Enforced : bans[r].ip # caller[c].ip
  BY <1>1 DEF BansInv, TurnAgrees
<1>3. \A u \in Target \ unknown' :
         u \in banCache' <=> \E r \in Enforced : bans[r].ip = u
  BY <1>1, <1>2, BeforeCache
<1>4. /\ hits' \in [Address -> 0 .. MaxIpHits] /\ losses' \in 0 .. MaxLosses
      /\ banCache' \subseteq Target /\ unknown' \subseteq Target
  BY <1>1 DEF BansInv, BansTypeOK
<1>5. QED BY <1>1, <1>3, <1>4, EndKeeps

LEMMA LossCounted == ASSUME BansTypeOK, Loss PROVE losses' \in 0 .. MaxLosses
BY BanNames DEF Loss, BansTypeOK

LEMMA WriteFailsStep ==
    ASSUME BansInv, NEW c \in Caller, WriteFails(c) PROVE BansInv'
<1>1. /\ IsTurn(c) /\ caller[c].at \notin {"add", "remove"} /\ Finish(c) /\ Loss
      /\ UNCHANGED <<auto, bans, banCache, hits, lifted, unknown>>
  BY DEF WriteFails
<1>2. \A u \in Target \ unknown' :
         u \in banCache' <=> \E r \in Enforced : bans[r].ip = u
  BY <1>1, BeforeWrite
<1>3. /\ hits' \in [Address -> 0 .. MaxIpHits] /\ losses' \in 0 .. MaxLosses
      /\ banCache' \subseteq Target /\ unknown' \subseteq Target
  BY <1>1, LossCounted DEF BansInv, BansTypeOK
<1>4. QED BY <1>1, <1>2, <1>3, EndKeeps

LEMMA AnswerLostStep ==
    ASSUME BansInv, NEW c \in Caller, AnswerLost(c) PROVE BansInv'
<1>1. /\ IsTurn(c) /\ caller[c].at \in {"add", "remove"} /\ Finish(c) /\ Loss
      /\ unknown' = unknown \cup {caller[c].ip}
      /\ UNCHANGED <<auto, bans, banCache, hits, lifted>>
  BY DEF AnswerLost
<1>2. \A u \in Target \ unknown' :
         u \in banCache' <=> \E r \in Enforced : bans[r].ip = u
  BY <1>1, BeforeCache
<1>3. /\ hits' \in [Address -> 0 .. MaxIpHits] /\ losses' \in 0 .. MaxLosses
      /\ banCache' \subseteq Target /\ unknown' \subseteq Target
  BY <1>1, BeforeCache, LossCounted DEF BansInv, BansTypeOK
<1>4. QED BY <1>1, <1>2, <1>3, EndKeeps

LEMMA RestartStep == ASSUME BansInv, ProcessRestarts PROVE BansInv'
<1>1. /\ auto' \in BOOLEAN
      /\ banCache' = {bans[r].ip : r \in {q \in On : bans[q].source # "AUTO" \/ auto'}}
      /\ hits' = [a \in Address |-> 0] /\ caller' = [d \in Caller |-> NoCall]
      /\ banQueue' = <<>> /\ unknown' = {} /\ Loss
      /\ UNCHANGED <<bans, lifted>>
  BY DEF ProcessRestarts
<1>2. Kept' = Kept /\ On' = On
  BY <1>1 DEF Kept, On
<1>3. Enforced' = {q \in On : bans[q].source # "AUTO" \/ auto'}
  BY <1>1, <1>2 DEF Enforced
<1>4. BansTypeOK'
  <2>1. banCache' \subseteq Target
    BY <1>1, KeptRows DEF BansInv
  <2>2. hits' \in [Address -> 0 .. MaxIpHits] /\ losses' \in 0 .. MaxLosses
    BY <1>1, BanNames, LossCounted DEF BansInv
  <2>3. caller' \in [Caller -> CallOfBan] /\ banQueue' \in Seq(Caller)
    BY <1>1 DEF CallOfBan
  <2>4. QED BY <1>1, <2>1, <2>2, <2>3 DEF BansInv, BansTypeOK, CallOfBan
<1>5. TurnAgrees'
  BY <1>1 DEF TurnAgrees, NoCall
<1>6. TextsUnique' /\ LiftedAgrees'
  BY <1>1, <1>2 DEF BansInv, TextsUnique, LiftedAgrees, FormsOf
<1>7. CacheFollowsRows'
  BY <1>1, <1>3 DEF CacheFollowsRows
<1>8. QED BY <1>4, <1>5, <1>6, <1>7 DEF BansInv

\* Downloads change the hits of an address, and nothing else.
LEMMA HitsStep ==
    ASSUME BansInv, hits' \in [Address -> 0 .. MaxIpHits],
           UNCHANGED <<auto, bans, banCache, caller, banQueue, lifted, unknown, losses>>
    PROVE  BansInv'
BY DEF BansInv, BansTypeOK, TextsUnique, TurnAgrees, LiftedAgrees,
   CacheFollowsRows, FormsOf, Kept, On, Enforced

LEMMA BansStep == BansInv /\ [BansNext]_bansVars => BansInv'
<1> SUFFICES ASSUME BansInv, [BansNext]_bansVars PROVE BansInv'
  OBVIOUS
<1>1. ASSUME NEW a \in Address, Hit(a) \/ LeavesWindow(a) PROVE BansInv'
  <2>1. hits' \in [Address -> 0 .. MaxIpHits]
    BY <1>1, BanNames, SMTT(30) DEF Hit, LeavesWindow, BansInv, BansTypeOK
  <2>2. QED BY <1>1, <2>1, HitsStep DEF Hit, LeavesWindow
<1>2. ASSUME NEW a \in Address, NEW c \in Caller, AbuseCeiling(c, a) PROVE BansInv'
  <2>1. a \in Target
    BY BanNames
  <2>2. [at |-> "auto", ip |-> a] \in CallOfBan
    BY <2>1 DEF CallOfBan
  <2>3. QED BY <1>2, <2>2, EnqueueStep DEF AbuseCeiling
<1>3. ASSUME NEW u \in Target, NEW c \in Caller, RequestBan(c, Canonical(u))
      PROVE  BansInv'
  <2>1. Canonical(u) \in Target /\ Canonical(Canonical(u)) = Canonical(u)
    BY BanNames
  <2>2. [at |-> "register", ip |-> Canonical(u)] \in CallOfBan
    BY <2>1 DEF CallOfBan
  <2>3. QED BY <1>3, <2>1, <2>2, EnqueueStep DEF RequestBan
<1>4. ASSUME NEW r \in BanRow, NEW c \in Caller, RequestUnban(c, r) PROVE BansInv'
  <2>1. [at |-> "unban", row |-> r] \in CallOfBan
    BY DEF CallOfBan
  <2>2. QED BY <1>4, <2>1, EnqueueStep DEF RequestUnban
<1>5. ASSUME NEW c \in Caller,
             \/ CreateManualBan(c) \/ DeleteBannedIp(c) \/ UpsertBannedIp(c)
             \/ AddBan(c) \/ RemoveBan(c) \/ WriteFails(c) \/ AnswerLost(c)
      PROVE  BansInv'
  BY <1>5, CreateManualBanStep, DeleteBannedIpStep, UpsertBannedIpStep, AddBanStep,
     RemoveBanStep, WriteFailsStep, AnswerLostStep
<1>6. CASE ProcessRestarts
  BY <1>6, RestartStep
<1>7. CASE UNCHANGED bansVars
  <2>1. hits' \in [Address -> 0 .. MaxIpHits]
    BY <1>7 DEF bansVars, BansInv, BansTypeOK
  <2>2. QED BY <1>7, <2>1, HitsStep DEF bansVars
<1>8. QED BY <1>1, <1>2, <1>3, <1>4, <1>5, <1>6, <1>7 DEF BansNext

LEMMA BansInvAlways == BansSpec => []BansInv
BY BansInitially, BansStep, PTL DEF BansSpec

\* Rows, cache, queue and hits keep their types.
THEOREM BansTypeCorrect == BansSpec => []BansTypeOK
<1>1. BansInv => BansTypeOK
  BY DEF BansInv
<1>2. QED BY BansInvAlways, <1>1, PTL

\* However bans, unbans, automatic bans, failures and restarts follow each
\* other, downloads are checked against what the rows say, and what an operator
\* has lifted stays lifted.
THEOREM BansAlwaysHonoured == BansSpec => []BansHonoured
BY BansInvAlways, BansReady, PTL

-----------------------------------------------------------------------------
(* Play sessions.                                                          *)

\* The snapshot a request took is the policy as it is.
Current(s) ==
    /\ Project \in s.holds /\ s.version = policy
    /\ \A o \in s.origins : grant[o] = "APPROVED"

\* What a request needs where it stands.
Sound(s) ==
    /\ s.at \in {"count", "insert"} => Current(s)
    /\ s.at = "login" => s.login \in Login
    /\ s.kind \in {"issue", "renew", "serve"} => s.play \in Play

CallsSound == \A c \in Call : Sound(call[c])

\* No play remembers a version that is still to come.
VersionsPast == \A p \in Play : play[p].state = "OPEN" => play[p].version <= policy

PlayInv == PlayTypeOK /\ CallsSound /\ VersionsPast /\ RevocationReaches

-----------------------------------------------------------------------------
LEMMA Blank == Unissued \in PlayState /\ Nothing \in CallState
BY PlayNames DEF Unissued, Nothing, PlayState, CallState, Version

LEMMA PlayInitially == PlayInit => PlayInv
<1> SUFFICES ASSUME PlayInit PROVE PlayInv
  OBVIOUS
<1>1. PlayTypeOK
  BY Blank, PlayNames DEF PlayInit, PlayTypeOK, Version
<1>2. CallsSound
  BY DEF PlayInit, CallsSound, Sound, Nothing
<1>3. VersionsPast /\ RevocationReaches
  BY DEF PlayInit, VersionsPast, RevocationReaches, Unissued
<1>4. QED BY <1>1, <1>2, <1>3 DEF PlayInv

\* A request takes a step of its own.
LEMMA CallMoves ==
    ASSUME PlayInv, NEW c \in Call, NEW s \in CallState,
           call' = [call EXCEPT ![c] = s], UNCHANGED <<policy, grant>>,
           Sound(s)
    PROVE  call' \in [Call -> CallState] /\ CallsSound'
BY DEF PlayInv, PlayTypeOK, CallsSound, Sound, Current

LEMMA CallEnds ==
    ASSUME PlayInv, NEW c \in Call, End(c), UNCHANGED <<policy, grant>>
    PROVE  call' \in [Call -> CallState] /\ CallsSound'
BY Blank, CallMoves DEF End, Nothing, Sound

\* A request moves on, with more locks, to a place before the snapshot or
\* after the insert.
LEMMA CallGoesOn ==
    ASSUME PlayInv, NEW c \in Call, NEW ks \in SUBSET PlayLocks,
           NEW l \in {"login", "project", "policy", "play", "served"},
           TakeLock(c, ks, l) \/ CallTo(c, l), UNCHANGED <<policy, grant>>,
           l = "login" => call[c].login \in Login
    PROVE  call' \in [Call -> CallState] /\ CallsSound'
<1> DEFINE s == [call[c] EXCEPT !.at = l, !.holds = @ \cup ks]
           t == [call[c] EXCEPT !.at = l]
<1>1. call[c] \in CallState
  BY DEF PlayInv, PlayTypeOK
<1>2. s \in CallState /\ s.at = l /\ s.login = call[c].login
      /\ s.kind = call[c].kind /\ s.play = call[c].play
  BY <1>1 DEF CallState
<1>3. t \in CallState /\ t.at = l /\ t.login = call[c].login
      /\ t.kind = call[c].kind /\ t.play = call[c].play
  BY <1>1 DEF CallState
<1>4. call' = [call EXCEPT ![c] = s] \/ call' = [call EXCEPT ![c] = t]
  BY DEF TakeLock, CallTo
<1> HIDE DEF s, t
<1>5. Sound(s) /\ Sound(t)
  BY <1>2, <1>3 DEF PlayInv, CallsSound, Sound
<1>6. QED BY <1>2, <1>3, <1>4, <1>5, CallMoves

\* Plays are closed, expire, are extended or deleted.
LEMMA PlaysKept ==
    ASSUME PlayInv, UNCHANGED <<policy, revoked, grant>>,
           \A p \in Play : play'[p].state = "OPEN" =>
               /\ play[p].state = "OPEN"
               /\ play'[p].origins = play[p].origins
               /\ play'[p].version = play[p].version
    PROVE  VersionsPast' /\ RevocationReaches'
BY DEF PlayInv, VersionsPast, RevocationReaches

LEMMA PlaysDeleted ==
    ASSUME PlayInv, NEW ps, Deleted(ps), UNCHANGED <<policy, revoked, grant>>
    PROVE  play' \in [Play -> PlayState] /\ VersionsPast' /\ RevocationReaches'
<1> DEFINE d == [Unissued EXCEPT !.state = "DELETED"]
<1>1. d \in PlayState /\ d.state = "DELETED"
  BY Blank DEF PlayState, Unissued
<1>2. play' = [p \in Play |-> IF p \in ps THEN d ELSE play[p]]
  BY DEF Deleted
<1> HIDE DEF d
<1>3. play' \in [Play -> PlayState]
  BY <1>1, <1>2 DEF PlayInv, PlayTypeOK
<1>4. QED BY <1>1, <1>2, <1>3, PlaysKept

-----------------------------------------------------------------------------
LEMMA PlayStep == PlayInv /\ [PlayNext]_playVars => PlayInv'
<1> SUFFICES ASSUME PlayInv, [PlayNext]_playVars PROVE PlayInv'
  OBVIOUS
<1> USE DEF PlayInv
\* A step of a request that leaves the tables alone.
<1>1. ASSUME NEW c \in Call, UNCHANGED tables,
             call' \in [Call -> CallState], CallsSound'
      PROVE  PlayInv'
  <2>1. PlayTypeOK'
    BY <1>1 DEF PlayTypeOK, tables
  <2>2. VersionsPast' /\ RevocationReaches'
    BY <1>1, PlaysKept DEF tables
  <2>3. QED BY <1>1, <2>1, <2>2
\* A step that changes the plays, and perhaps a request and its login.
<1>2. ASSUME UNCHANGED <<grant, policy, revoked, build, external>>,
             play' \in [Play -> PlayState],
             login' \in [Login -> {"live", "expired", "gone"}],
             call' \in [Call -> CallState],
             CallsSound', VersionsPast', RevocationReaches'
      PROVE  PlayInv'
  BY <1>2 DEF PlayTypeOK
<1>3. UNCHANGED <<policy, grant, call>>
          => call' \in [Call -> CallState] /\ CallsSound'
  BY DEF PlayTypeOK, CallsSound, Sound, Current
<1>4. ASSUME NEW c \in Call, NEW p \in Play, NEW l \in Login \cup {Nobody},
             StartIssue(c, p, l)
      PROVE  PlayInv'
  <2> DEFINE s == [Nothing EXCEPT !.kind = "issue", !.at = "advisory", !.play = p,
                                  !.login = l, !.build = build]
  <2>1. s \in CallState /\ Sound(s)
    BY Blank DEF PlayTypeOK, CallState, Nothing, Sound
  <2>2. call' = [call EXCEPT ![c] = s] /\ UNCHANGED tables
    BY <1>4 DEF StartIssue
  <2> HIDE DEF s
  <2>3. QED BY <1>1, <2>1, <2>2, CallMoves DEF tables
<1>5. ASSUME NEW c \in Call, NEW p \in Play, StartRenew(c, p) \/ StartServe(c, p)
      PROVE  PlayInv'
  <2>1. PICK k \in {"renew", "serve"}, a \in {"policy", "deployment"}, b \in BOOLEAN :
           Begin(c, k, a, p, b) /\ UNCHANGED tables
    <3>1. Barred(p) \in BOOLEAN
      BY DEF Barred
    <3>2. QED BY <1>5, <3>1 DEF StartRenew, StartServe
  <2> DEFINE s == [Nothing EXCEPT
          !.kind = k, !.at = a, !.play = p, !.login = play[p].login,
          !.build = play[p].build, !.origins = play[p].origins,
          !.version = play[p].version, !.barred = b]
  <2>2. play[p] \in PlayState
    BY DEF PlayTypeOK
  <2>3. s \in CallState /\ Sound(s)
    BY <2>2, Blank DEF PlayState, CallState, Nothing, Sound
  <2>4. call' = [call EXCEPT ![c] = s] /\ UNCHANGED tables
    BY <2>1 DEF Begin
  <2> HIDE DEF s
  <2>5. QED BY <1>1, <2>3, <2>4, CallMoves DEF tables
<1>6. ASSUME NEW c \in Call, CallFails(c) \/ Answer(c) PROVE PlayInv'
  BY <1>1, <1>6, CallEnds DEF CallFails, Answer, tables
<1>7. ASSUME NEW c \in Call, IssueAdvisory(c) PROVE PlayInv'
  <2>1. {Advisory} \in SUBSET PlayLocks
    BY DEF PlayLocks
  <2>2. (IF call[c].login = Nobody THEN "project" ELSE "login")
            \in {"login", "project", "policy", "play", "served"}
    OBVIOUS
  <2>3. QED
    BY <1>1, <1>7, <2>1, <2>2, CallGoesOn DEF IssueAdvisory, tables, PlayTypeOK, CallState
<1>8. ASSUME NEW c \in Call, IssueLogin(c) \/ RenewLogin(c) PROVE PlayInv'
  <2>1. CASE End(c) /\ UNCHANGED tables
    BY <1>1, <2>1, CallEnds DEF tables
  <2>2. CASE /\ call[c].login \in Login
             /\ TakeLock(c, {call[c].login}, "project") \/ TakeLock(c, {call[c].login}, "play")
             /\ UNCHANGED tables
    <3>1. {call[c].login} \in SUBSET PlayLocks
      BY <2>2 DEF PlayLocks
    <3>2. QED BY <1>1, <2>2, <3>1, CallGoesOn DEF tables
  <2>3. QED BY <1>8, <2>1, <2>2 DEF IssueLogin, RenewLogin, CallsSound, Sound
<1>9. ASSUME NEW c \in Call, IssueSnapshot(c) PROVE PlayInv'
  <2>1. CASE End(c) /\ UNCHANGED tables
    BY <1>1, <2>1, CallEnds DEF tables
  <2>2. CASE ~End(c)
    <3> DEFINE os == IF external THEN Approved ELSE {}
               s == [call[c] EXCEPT !.at = "count", !.holds = @ \cup {Project},
                                    !.version = policy, !.origins = os]
    <3>1. call' = [call EXCEPT ![c] = s] /\ UNCHANGED tables
      BY <1>9, <2>2 DEF IssueSnapshot
    <3>2. os \in SUBSET Origin /\ \A o \in os : grant[o] = "APPROVED"
      BY DEF Approved
    <3> HIDE DEF os
    <3>3. call[c] \in CallState /\ policy \in Version /\ Project \in PlayLocks
      BY DEF PlayTypeOK, PlayLocks
    <3>4. s \in CallState /\ s.at = "count" /\ s.version = policy /\ s.origins = os
          /\ Project \in s.holds /\ s.kind = call[c].kind /\ s.play = call[c].play
      BY <3>2, <3>3 DEF CallState
    <3> HIDE DEF s
    <3>5. Sound(s)
      BY <3>2, <3>4 DEF Current, CallsSound, Sound
    <3>6. QED BY <1>1, <3>1, <3>4, <3>5, CallMoves DEF tables
  <2>3. QED BY <1>9, <2>1, <2>2 DEF IssueSnapshot
<1>10. ASSUME NEW c \in Call, CountPlays(c) PROVE PlayInv'
  <2> DEFINE gone == {p \in Play : play[p].expired}
  <2>1. CASE UNCHANGED play /\ TakeLock(c, gone, "insert")
    <3> DEFINE s == [call[c] EXCEPT !.at = "insert", !.holds = @ \cup gone]
    <3>1. call' = [call EXCEPT ![c] = s] /\ UNCHANGED tables
      BY <1>10, <2>1 DEF CountPlays, TakeLock, tables
    <3>2. gone \in SUBSET PlayLocks
      BY DEF PlayLocks
    <3>3. call[c] \in CallState /\ Current(call[c])
      BY <1>10 DEF CountPlays, PlayTypeOK, CallsSound, Sound
    <3> HIDE DEF gone
    <3>4. s \in CallState /\ s.at = "insert" /\ s.version = call[c].version
          /\ s.origins = call[c].origins /\ s.holds = call[c].holds \cup gone
          /\ s.kind = call[c].kind /\ s.play = call[c].play
      BY <3>2, <3>3 DEF CallState
    <3> HIDE DEF s
    <3>5. Sound(s)
      BY <3>3, <3>4 DEF Current, CallsSound, Sound
    <3>6. QED BY <1>1, <3>1, <3>4, <3>5, CallMoves DEF tables
  <2>2. CASE Deleted(gone) /\ End(c)
    BY <1>2, <1>10, <2>2, PlaysDeleted, CallEnds DEF CountPlays, PlayTypeOK
  <2>3. QED BY <1>10, <2>1, <2>2 DEF CountPlays
<1>11. ASSUME NEW c \in Call, InsertPlay(c) PROVE PlayInv'
  <2> DEFINE d == [Unissued EXCEPT !.state = "DELETED"]
             n == [Unissued EXCEPT !.state = "OPEN", !.login = call[c].login,
                     !.origins = call[c].origins, !.version = call[c].version,
                     !.build = call[c].build]
  <2>1. call[c] \in CallState /\ Current(call[c])
    BY <1>11 DEF InsertPlay, PlayTypeOK, CallsSound, Sound
  <2>2. d \in PlayState /\ d.state = "DELETED"
    BY Blank DEF PlayState, Unissued
  <2>3. n \in PlayState /\ n.origins = call[c].origins /\ n.version = call[c].version
    BY <2>1, Blank DEF PlayState, CallState, Unissued
  <2>4. play' = [p \in Play |-> IF p = call[c].play THEN n
                                ELSE IF p \in call[c].holds THEN d ELSE play[p]]
    BY <1>11 DEF InsertPlay
  <2> HIDE DEF d, n
  <2>5. play' \in [Play -> PlayState]
    BY <2>2, <2>3, <2>4 DEF PlayTypeOK
  <2>6. UNCHANGED <<policy, revoked, grant>> /\ policy \in Nat
    BY <1>11 DEF InsertPlay, PlayTypeOK, Version
  <2>7. VersionsPast'
    BY <2>1, <2>2, <2>3, <2>4, <2>6 DEF VersionsPast, Current
  <2>8. RevocationReaches'
    BY <2>1, <2>2, <2>3, <2>4, <2>6 DEF RevocationReaches, Current
  <2>9. call' \in [Call -> CallState] /\ CallsSound'
    BY <1>11, CallEnds DEF InsertPlay
  <2>10. QED BY <1>2, <1>11, <2>5, <2>7, <2>8, <2>9 DEF InsertPlay, PlayTypeOK
\* A play is closed, expires or is extended: the rest of its row stays.
<1>12. ASSUME NEW p \in Play, NEW cl \in BOOLEAN, NEW ex \in BOOLEAN,
              play' = [play EXCEPT ![p] = [play[p] EXCEPT !.closed = cl, !.expired = ex]],
              UNCHANGED <<login, grant, policy, revoked, build, external>>,
              call' \in [Call -> CallState], CallsSound'
       PROVE  PlayInv'
  <2> DEFINE s == [play[p] EXCEPT !.closed = cl, !.expired = ex]
  <2>1. play[p] \in PlayState
    BY DEF PlayTypeOK
  <2>2. s \in PlayState /\ s.state = play[p].state /\ s.origins = play[p].origins
        /\ s.version = play[p].version
    BY <2>1 DEF PlayState
  <2>3. play' = [play EXCEPT ![p] = s]
    BY <1>12
  <2> HIDE DEF s
  <2>4. play' \in [Play -> PlayState]
    BY <2>2, <2>3 DEF PlayTypeOK
  <2>5. VersionsPast' /\ RevocationReaches'
    BY <1>12, <2>2, <2>3, PlaysKept DEF PlayTypeOK
  <2>6. QED BY <1>2, <1>12, <2>4, <2>5 DEF PlayTypeOK
\* What each field of a row is set to, as a step of the kind above.
<1>13. ASSUME NEW p \in Play, NEW b \in BOOLEAN,
              \/ play' = [play EXCEPT ![p].closed = b]
              \/ play' = [play EXCEPT ![p].expired = b]
       PROVE  \E cl \in BOOLEAN, ex \in BOOLEAN :
                 play' = [play EXCEPT ![p] = [play[p] EXCEPT !.closed = cl, !.expired = ex]]
  <2>1. play[p] \in PlayState /\ play \in [Play -> PlayState]
    BY DEF PlayTypeOK
  <2>2. play[p].closed \in BOOLEAN /\ play[p].expired \in BOOLEAN
    BY <2>1 DEF PlayState
  <2>3. CASE play' = [play EXCEPT ![p].closed = b]
    <3>1. [play[p] EXCEPT !.closed = b]
             = [play[p] EXCEPT !.closed = b, !.expired = play[p].expired]
      BY <2>1 DEF PlayState
    <3>2. QED BY <2>2, <2>3, <3>1
  <2>4. CASE play' = [play EXCEPT ![p].expired = b]
    <3>1. [play[p] EXCEPT !.expired = b]
             = [play[p] EXCEPT !.closed = play[p].closed, !.expired = b]
      BY <2>1 DEF PlayState
    <3>2. QED BY <2>2, <2>4, <3>1
  <2>5. QED BY <1>13, <2>3, <2>4
<1>14. ASSUME NEW c \in Call, CloseDisabled(c) PROVE PlayInv'
  <2>1. call[c].play \in Play \/ call[c].play \notin Play
    OBVIOUS
  <2> DEFINE p == call[c].play
             b == play[p].closed \/ play[p].state = "OPEN"
  <2>2. play' = [play EXCEPT ![p].closed = b] /\ b \in BOOLEAN
    BY <1>14 DEF CloseDisabled
  <2>3. call' \in [Call -> CallState] /\ CallsSound'
    BY <1>14, CallEnds DEF CloseDisabled
  <2>4. CASE p \in Play
    BY <1>12, <1>13, <1>14, <2>2, <2>3, <2>4 DEF CloseDisabled
  <2>5. CASE p \notin Play
    <3>1. play' = play
      BY <2>2, <2>5 DEF PlayTypeOK
    <3>2. QED BY <1>1, <1>14, <2>3, <3>1 DEF CloseDisabled, tables
  <2>6. QED BY <2>4, <2>5
<1>15. ASSUME NEW c \in Call, CheckPolicy(c) PROVE PlayInv'
  <2>1. CASE End(c) /\ UNCHANGED tables
    BY <1>1, <2>1, CallEnds DEF tables
  <2>2. CASE ~End(c)
    <3> DEFINE l == IF call[c].kind = "serve" THEN "served"
                    ELSE IF call[c].login = Nobody THEN "play" ELSE "login"
               s == [call[c] EXCEPT !.origins = {}, !.version = 0, !.build = 0, !.at = l]
    <3>1. call' = [call EXCEPT ![c] = s] /\ UNCHANGED tables
      BY <1>15, <2>2 DEF CheckPolicy
    <3>2. call[c] \in CallState /\ 0 \in Version
      BY PlayNames DEF PlayTypeOK, Version
    <3>3. l \in {"served", "play", "login"} /\ (l = "login" => call[c].login \in Login)
      BY <3>2 DEF CallState
    <3> HIDE DEF l
    <3>4. s \in CallState /\ s.at = l /\ s.login = call[c].login
          /\ s.kind = call[c].kind /\ s.play = call[c].play
      BY <3>2, <3>3 DEF CallState
    <3> HIDE DEF s
    <3>5. Sound(s)
      BY <3>3, <3>4 DEF CallsSound, Sound
    <3>6. QED BY <1>1, <3>1, <3>4, <3>5, CallMoves DEF tables
  <2>3. QED BY <1>15, <2>1, <2>2 DEF CheckPolicy
<1>16. ASSUME NEW c \in Call, RenewPlay(c) PROVE PlayInv'
  <2>1. CASE End(c) /\ UNCHANGED tables
    BY <1>1, <2>1, CallEnds DEF tables
  <2>2. CASE ~End(c)
    <3>1. TakeLock(c, {call[c].play}, "project") /\ UNCHANGED tables
      BY <1>16, <2>2 DEF RenewPlay
    <3>2. call[c].play \in Play
      BY <1>16 DEF RenewPlay, CallsSound, Sound
    <3>3. {call[c].play} \in SUBSET PlayLocks
      BY <3>2 DEF PlayLocks
    <3>4. QED BY <1>1, <3>1, <3>3, CallGoesOn DEF tables
  <2>3. QED BY <1>16, <2>1, <2>2 DEF RenewPlay
<1>17. ASSUME NEW c \in Call, ExtendPlay(c) PROVE PlayInv'
  <2> DEFINE p == call[c].play
  <2>1. CASE End(c) /\ UNCHANGED tables
    BY <1>1, <2>1, CallEnds DEF tables
  <2>2. CASE ~(End(c) /\ UNCHANGED play)
    <3> DEFINE s == [call[c] EXCEPT !.at = "served", !.holds = {}]
    <3>1. /\ play' = [play EXCEPT ![p].expired = FALSE]
          /\ call' = [call EXCEPT ![c] = s]
      BY <1>17, <2>2 DEF ExtendPlay
    <3>2. call[c] \in CallState /\ p \in Play
      BY <1>17 DEF ExtendPlay, PlayTypeOK, CallsSound, Sound
    <3>3. s \in CallState /\ s.at = "served" /\ s.kind = call[c].kind /\ s.play = p
      BY <3>2 DEF CallState
    <3> HIDE DEF s
    <3>4. Sound(s)
      BY <3>2, <3>3 DEF Sound
    <3>5. call' \in [Call -> CallState] /\ CallsSound'
      BY <1>17, <3>1, <3>3, <3>4, CallMoves DEF ExtendPlay
    <3>6. QED BY <1>12, <1>13, <1>17, <3>1, <3>2, <3>5 DEF ExtendPlay
  <2>3. QED BY <1>17, <2>1, <2>2 DEF ExtendPlay, tables
<1>18. ASSUME NEW c \in Call, ServeDeployment(c) PROVE PlayInv'
  <2>1. CASE End(c)
    BY <1>1, <1>18, <2>1, CallEnds DEF ServeDeployment, tables
  <2>2. CASE CallTo(c, "policy")
    <3>1. {} \in SUBSET PlayLocks
      OBVIOUS
    <3>2. QED BY <1>1, <1>18, <2>2, <3>1, CallGoesOn DEF ServeDeployment, tables
  <2>3. QED BY <1>18, <2>1, <2>2 DEF ServeDeployment
<1>19. ASSUME NEW c \in Call, NEW p \in Play, ClosePlay(c, p) PROVE PlayInv'
  BY <1>3, <1>12, <1>13, <1>19 DEF ClosePlay
<1>20. ASSUME NEW p \in Play, PlayExpires(p) PROVE PlayInv'
  BY <1>3, <1>12, <1>13, <1>20 DEF PlayExpires
<1>21. ASSUME NEW c \in Call, NEW l \in Login, StartLogout(c, l) PROVE PlayInv'
  <2> DEFINE s == [Nothing EXCEPT !.kind = "logout", !.at = "cascade", !.login = l,
                                  !.holds = {l}]
  <2>1. s \in CallState /\ Sound(s)
    BY Blank DEF CallState, Nothing, Sound, PlayLocks
  <2>2. call' = [call EXCEPT ![c] = s] /\ UNCHANGED tables
    BY <1>21 DEF StartLogout
  <2> HIDE DEF s
  <2>3. QED BY <1>1, <2>1, <2>2, CallMoves DEF tables
<1>22. ASSUME NEW c \in Call, Cascade(c) PROVE PlayInv'
  <2>1. login' \in [Login -> {"live", "expired", "gone"}]
    BY <1>22 DEF Cascade, PlayTypeOK
  <2>2. call' \in [Call -> CallState] /\ CallsSound'
    BY <1>22, CallEnds DEF Cascade
  <2>3. play' \in [Play -> PlayState] /\ VersionsPast' /\ RevocationReaches'
    BY <1>22, PlaysDeleted DEF Cascade
  <2>4. QED BY <1>2, <1>22, <2>1, <2>2, <2>3 DEF Cascade
\* While a review changes the policy, no request stands behind its snapshot.
<1>23. ProjectFree => \A c \in Call : call[c].at \notin {"count", "insert"}
  BY DEF ProjectFree, CallsSound, Sound, Current
<1>24. ASSUME NEW o \in Origin, Approve(o) PROVE PlayInv'
  <2>1. CallsSound'
    BY <1>23, <1>24 DEF Approve, CallsSound, Sound
  <2>2. policy \in Nat /\ policy' \in Version /\ policy' > policy
    BY <1>24, PlayNames DEF Approve, PlayTypeOK, Version
  <2>3. PlayTypeOK'
    BY <1>24, <2>2 DEF Approve, PlayTypeOK
  <2>4. \A p \in Play : play[p].version \in Nat
    BY DEF PlayTypeOK, PlayState, Version
  <2>5. VersionsPast'
    BY <1>24, <2>2, <2>4 DEF Approve, VersionsPast
  <2>6. RevocationReaches'
    BY <1>24 DEF Approve, RevocationReaches, PlayTypeOK
  <2>7. QED BY <2>1, <2>3, <2>5, <2>6
<1>25. ASSUME NEW o \in Origin, Revoke(o) PROVE PlayInv'
  <2>1. CallsSound'
    BY <1>23, <1>25 DEF Revoke, CallsSound, Sound
  <2>2. policy \in Nat /\ policy + 1 \in Version /\ policy' = policy + 1
    BY <1>25, PlayNames DEF Revoke, PlayTypeOK, Version
  <2>3. PlayTypeOK'
    BY <1>25, <2>2 DEF Revoke, PlayTypeOK
  <2>4. \A p \in Play : play[p].version \in Nat /\ play[p].origins \subseteq Origin
    BY DEF PlayTypeOK, PlayState, Version
  <2>5. VersionsPast'
    BY <1>25, <2>2, <2>4 DEF Revoke, VersionsPast
  <2>6. RevocationReaches'
    <3> SUFFICES ASSUME NEW p \in Play, play[p].state = "OPEN", NEW q \in play[p].origins
                 PROVE  grant'[q] = "APPROVED" \/ revoked'[q] > play[p].version
      BY <1>25 DEF Revoke, RevocationReaches
    <3>1. CASE q = o
      <4>1. revoked'[q] = policy + 1 /\ play[p].version <= policy
        BY <1>25, <3>1 DEF Revoke, PlayTypeOK, VersionsPast
      <4>2. QED BY <2>2, <2>4, <4>1
    <3>2. CASE q # o
      BY <1>25, <2>4, <3>2 DEF Revoke, PlayTypeOK, RevocationReaches
    <3>3. QED BY <3>1, <3>2
  <2>7. QED BY <2>1, <2>3, <2>5, <2>6
<1>26. ASSUME NEW l \in Login, LoginExpires(l) PROVE PlayInv'
  BY <1>26 DEF LoginExpires, PlayTypeOK, CallsSound, Sound, Current, VersionsPast,
               RevocationReaches
<1>27. CASE ReplaceBuild
  BY <1>27 DEF ReplaceBuild, PlayTypeOK, CallsSound, Sound, Current, VersionsPast,
               RevocationReaches
<1>28. CASE Restart
  <2>1. CallsSound'
    BY <1>28 DEF Restart, CallsSound, Sound, Nothing
  <2>2. PlayTypeOK'
    BY <1>28, Blank DEF Restart, PlayTypeOK
  <2>3. QED BY <1>28, <2>1, <2>2 DEF Restart, VersionsPast, RevocationReaches
<1>29. CASE UNCHANGED playVars
  BY <1>29 DEF playVars, tables, PlayTypeOK, CallsSound, Sound, Current, VersionsPast,
               RevocationReaches
<1>30. QED
  BY <1>4, <1>5, <1>6, <1>7, <1>8, <1>9, <1>10, <1>11, <1>14, <1>15, <1>16, <1>17, <1>18,
     <1>19, <1>20, <1>21, <1>22, <1>24, <1>25, <1>26, <1>27, <1>28, <1>29
  DEF PlayNext

-----------------------------------------------------------------------------
(* The locks.                                                              *)

\* The lock a request has on its own login.
Mine(s) == {s.login} \ {Nobody}

\* What a request of each kind holds where it stands.
Placed(s) ==
    \/ s.kind = "none" /\ s.at = "free" /\ s.holds = {}
    \/ /\ s.kind = "issue"
       /\ \/ s.at = "advisory" /\ s.holds = {}
          \/ s.at = "login" /\ s.holds = {Advisory}
          \/ s.at = "project" /\ s.holds = {Advisory} \cup Mine(s)
          \/ s.at = "count" /\ s.holds = {Advisory, Project} \cup Mine(s)
          \/ s.at = "insert" /\ {Advisory, Project} \cup Mine(s) \subseteq s.holds
    \/ /\ s.kind = "renew"
       /\ \/ s.at \in {"policy", "login", "served"} /\ s.holds = {}
          \/ s.at = "play" /\ s.holds = Mine(s)
          \/ s.at = "project" /\ s.holds = Mine(s) \cup {s.play}
    \/ s.kind = "serve" /\ s.at \in {"deployment", "policy", "served"} /\ s.holds = {}
    \/ s.kind = "logout" /\ s.at = "cascade" /\ s.holds = Mine(s)

\* No two requests hold one lock, but that of the project.
Exclusive ==
    \A c, d \in Call : c # d => call[c].holds \cap call[d].holds \subseteq {Project}

LocksInv == Exclusive /\ \A c \in Call : Placed(call[c])

\* What a request takes besides the lock of the project, nobody has.
LEMMA RequestLocks ==
    ASSUME PlayInv, LocksInv, NEW c \in Call, NEW s \in CallState,
           call' = [call EXCEPT ![c] = s], Placed(s),
           \A k \in s.holds \ (call[c].holds \cup {Project}) : CanLock(c, k)
    PROVE  LocksInv'
<1>1. \A d \in Call : call'[d] = IF d = c THEN s ELSE call[d]
  BY DEF PlayInv, PlayTypeOK
<1>2. \A d \in Call : Placed(call'[d])
  BY <1>1 DEF LocksInv
<1>3. \A d \in Call \ {c} : s.holds \cap call[d].holds \subseteq {Project}
  BY DEF LocksInv, Exclusive, CanLock
<1>4. Exclusive'
  BY <1>1, <1>3 DEF LocksInv, Exclusive
<1>5. QED BY <1>2, <1>4 DEF LocksInv

LEMMA RequestOver ==
    ASSUME PlayInv, LocksInv, NEW c \in Call, End(c)
    PROVE  LocksInv'
BY Blank, RequestLocks DEF End, Nothing, Placed

\* A request waits at another place, with more locks.
LEMMA RequestAdvances ==
    ASSUME PlayInv, LocksInv, NEW c \in Call, NEW l, NEW ks \in SUBSET PlayLocks,
           TakeLock(c, ks, l), PlayInv',
           \A k \in ks \ {Project} : CanLock(c, k),
           \A s \in CallState :
               /\ s.kind = call[c].kind /\ s.play = call[c].play /\ s.login = call[c].login
               /\ s.at = l /\ s.holds = call[c].holds \cup ks
               => Placed(s)
    PROVE  LocksInv'
<1> DEFINE s == [call[c] EXCEPT !.at = l, !.holds = call[c].holds \cup ks]
<1>1. call[c] \in CallState /\ call'[c] \in CallState /\ call \in [Call -> CallState]
  BY DEF PlayInv, PlayTypeOK
<1>2. call' = [call EXCEPT ![c] = s]
  BY DEF TakeLock
<1>3. s.holds = call[c].holds \cup ks /\ s.at = l /\ s.login = call[c].login
      /\ s.kind = call[c].kind /\ s.play = call[c].play
  BY <1>1 DEF CallState
<1> HIDE DEF s
<1>4. call'[c] = s
  BY <1>1, <1>2
<1>5. s \in CallState /\ Placed(s)
  BY <1>1, <1>3, <1>4
<1>6. QED BY <1>2, <1>3, <1>5, RequestLocks

LEMMA LocksInitially == PlayInit => LocksInv
BY DEF PlayInit, LocksInv, Exclusive, Placed, Nothing

LEMMA LocksStep == PlayInv /\ PlayInv' /\ LocksInv /\ [PlayNext]_playVars => LocksInv'
<1> SUFFICES ASSUME PlayInv, PlayInv', LocksInv, [PlayNext]_playVars PROVE LocksInv'
  OBVIOUS
<1>1. \A c \in Call : /\ call[c] \in CallState /\ Placed(call[c])
                      /\ (call[c].at = "login" => call[c].login \in Login)
                      /\ call[c].kind \in {"issue", "renew", "serve"} => call[c].play \in Play
  BY DEF PlayInv, PlayTypeOK, LocksInv, CallsSound, Sound
<1>2. CASE UNCHANGED call
  BY <1>2 DEF LocksInv, Exclusive
<1>3. ASSUME NEW c \in Call, End(c) PROVE LocksInv'
  BY <1>3, RequestOver
<1>4. ASSUME NEW c \in Call, NEW p \in Play, NEW l \in Login \cup {Nobody},
             StartIssue(c, p, l)
      PROVE  LocksInv'
  <2> DEFINE s == [Nothing EXCEPT !.kind = "issue", !.at = "advisory", !.play = p,
                                  !.login = l, !.build = build]
  <2>1. s \in CallState /\ Placed(s) /\ s.holds = {}
    BY Blank DEF PlayInv, PlayTypeOK, CallState, Nothing, Placed
  <2>2. call' = [call EXCEPT ![c] = s]
    BY <1>4 DEF StartIssue
  <2> HIDE DEF s
  <2>3. QED BY <2>1, <2>2, RequestLocks
<1>5. ASSUME NEW c \in Call, NEW p \in Play, StartRenew(c, p) \/ StartServe(c, p)
      PROVE  LocksInv'
  <2>1. PICK k \in {"renew", "serve"}, a \in {"policy", "deployment"}, b \in BOOLEAN :
           Begin(c, k, a, p, b) /\ (k = "renew" => a = "policy")
    <3>1. Barred(p) \in BOOLEAN
      BY DEF Barred
    <3>2. QED BY <1>5, <3>1 DEF StartRenew, StartServe
  <2> DEFINE s == [Nothing EXCEPT
          !.kind = k, !.at = a, !.play = p, !.login = play[p].login,
          !.build = play[p].build, !.origins = play[p].origins,
          !.version = play[p].version, !.barred = b]
  <2>2. play[p] \in PlayState
    BY DEF PlayInv, PlayTypeOK
  <2>3. s \in CallState /\ Placed(s) /\ s.holds = {}
    BY <2>1, <2>2, Blank DEF PlayState, CallState, Nothing, Placed
  <2>4. call' = [call EXCEPT ![c] = s]
    BY <2>1 DEF Begin
  <2> HIDE DEF s
  <2>5. QED BY <2>3, <2>4, RequestLocks
<1>6. ASSUME NEW c \in Call, IssueAdvisory(c) PROVE LocksInv'
  <2> DEFINE l == IF call[c].login = Nobody THEN "project" ELSE "login"
  <2>1. \A s \in CallState :
           /\ s.kind = call[c].kind /\ s.login = call[c].login
           /\ s.at = l /\ s.holds = call[c].holds \cup {Advisory}
           => Placed(s)
    BY <1>1, <1>6 DEF IssueAdvisory, Placed, Mine
  <2>2. TakeLock(c, {Advisory}, l) /\ CanLock(c, Advisory) /\ {Advisory} \in SUBSET PlayLocks
    BY <1>6 DEF IssueAdvisory, PlayLocks
  <2> HIDE DEF l
  <2>3. QED BY <2>1, <2>2, RequestAdvances
<1>7. ASSUME NEW c \in Call, IssueLogin(c) \/ RenewLogin(c) PROVE LocksInv'
  <2>1. CASE End(c)
    BY <2>1, <1>3
  <2>2. ASSUME NEW l \in {"project", "play"}, TakeLock(c, {call[c].login}, l),
               l = "project" <=> call[c].kind = "issue"
        PROVE LocksInv'
    <3>1. \A s \in CallState :
             /\ s.kind = call[c].kind /\ s.login = call[c].login
             /\ s.at = l /\ s.holds = call[c].holds \cup {call[c].login}
             => Placed(s)
      BY <1>1, <1>7, <2>2, PlayNames DEF IssueLogin, RenewLogin, Placed, Mine
    <3>2. CanLock(c, call[c].login) /\ {call[c].login} \in SUBSET PlayLocks
      BY <1>1, <1>7 DEF IssueLogin, RenewLogin, PlayLocks
    <3>3. QED BY <2>2, <3>1, <3>2, RequestAdvances
  <2>3. QED BY <1>7, <2>1, <2>2 DEF IssueLogin, RenewLogin
<1>8. ASSUME NEW c \in Call, IssueSnapshot(c) PROVE LocksInv'
  <2>1. CASE End(c)
    BY <2>1, <1>3
  <2>2. CASE ~End(c)
    <3> DEFINE os == IF external THEN Approved ELSE {}
               s == [call[c] EXCEPT !.at = "count", !.holds = @ \cup {Project},
                                    !.version = policy, !.origins = os]
    <3>1. call' = [call EXCEPT ![c] = s]
      BY <1>8, <2>2 DEF IssueSnapshot
    <3> HIDE DEF os
    <3>2. s.at = "count" /\ s.holds = call[c].holds \cup {Project}
          /\ s.kind = call[c].kind /\ s.login = call[c].login
      BY <1>1 DEF CallState
    <3> HIDE DEF s
    <3>3. call'[c] = s /\ call'[c] \in CallState
      BY <3>1 DEF PlayInv, PlayTypeOK
    <3>4. Placed(s)
      BY <1>1, <1>8, <3>2 DEF IssueSnapshot, Placed, Mine
    <3>5. QED BY <3>1, <3>2, <3>3, <3>4, RequestLocks
  <2>3. QED BY <2>1, <2>2
<1>9. ASSUME NEW c \in Call, CountPlays(c) PROVE LocksInv'
  <2> DEFINE gone == {p \in Play : play[p].expired}
  <2>1. CASE End(c)
    BY <2>1, <1>3
  <2>2. CASE TakeLock(c, gone, "insert")
    <3>1. \A s \in CallState :
             /\ s.kind = call[c].kind /\ s.login = call[c].login
             /\ s.at = "insert" /\ s.holds = call[c].holds \cup gone
             => Placed(s)
      BY <1>1, <1>9 DEF CountPlays, Placed, Mine
    <3>2. gone \in SUBSET PlayLocks /\ \A k \in gone : CanLock(c, k)
      BY <1>9 DEF CountPlays, PlayLocks
    <3> HIDE DEF gone
    <3>3. QED BY <2>2, <3>1, <3>2, RequestAdvances
  <2>3. QED BY <1>9, <2>1, <2>2 DEF CountPlays
<1>10. ASSUME NEW c \in Call, CheckPolicy(c) PROVE LocksInv'
  <2>1. CASE End(c)
    BY <2>1, <1>3
  <2>2. CASE ~End(c)
    <3> DEFINE l == IF call[c].kind = "serve" THEN "served"
                    ELSE IF call[c].login = Nobody THEN "play" ELSE "login"
               s == [call[c] EXCEPT !.origins = {}, !.version = 0, !.build = 0, !.at = l]
    <3>1. call' = [call EXCEPT ![c] = s] /\ call[c].at = "policy"
      BY <1>10, <2>2 DEF CheckPolicy
    <3>2. s.at = l /\ s.login = call[c].login /\ s.kind = call[c].kind
          /\ s.holds = call[c].holds
      BY <1>1 DEF CallState
    <3>3. Placed(s)
      <4> HIDE DEF s
      <4>1. QED BY <1>1, <3>1, <3>2, PlayNames DEF Placed, Mine
    <3> HIDE DEF l, s
    <3>4. call'[c] = s /\ call'[c] \in CallState
      BY <3>1 DEF PlayInv, PlayTypeOK
    <3>5. QED BY <3>1, <3>2, <3>3, <3>4, RequestLocks
  <2>3. QED BY <2>1, <2>2
<1>11. ASSUME NEW c \in Call, RenewPlay(c) PROVE LocksInv'
  <2>1. CASE End(c)
    BY <2>1, <1>3
  <2>2. CASE TakeLock(c, {call[c].play}, "project")
    <3>1. \A s \in CallState :
             /\ s.kind = call[c].kind /\ s.play = call[c].play /\ s.login = call[c].login
             /\ s.at = "project" /\ s.holds = call[c].holds \cup {call[c].play}
             => Placed(s)
      BY <1>1, <1>11 DEF RenewPlay, Placed, Mine
    <3>2. CanLock(c, call[c].play) /\ {call[c].play} \in SUBSET PlayLocks
      BY <1>1, <1>11 DEF RenewPlay, PlayLocks
    <3>3. QED BY <2>2, <3>1, <3>2, RequestAdvances
  <2>3. QED BY <1>11, <2>1, <2>2 DEF RenewPlay
<1>12. ASSUME NEW c \in Call, ExtendPlay(c) PROVE LocksInv'
  <2>1. CASE End(c)
    BY <2>1, <1>3
  <2>2. CASE ~End(c)
    <3> DEFINE s == [call[c] EXCEPT !.at = "served", !.holds = {}]
    <3>1. call' = [call EXCEPT ![c] = s]
      BY <1>12, <2>2 DEF ExtendPlay
    <3>2. s.at = "served" /\ s.kind = call[c].kind /\ s.holds = {}
      BY <1>1 DEF CallState
    <3> HIDE DEF s
    <3>3. call'[c] = s /\ call'[c] \in CallState
      BY <3>1 DEF PlayInv, PlayTypeOK
    <3>4. Placed(s)
      BY <1>12, <3>2 DEF ExtendPlay, Placed
    <3>5. QED BY <3>1, <3>2, <3>3, <3>4, RequestLocks
  <2>3. QED BY <2>1, <2>2
<1>13. ASSUME NEW c \in Call, ServeDeployment(c) PROVE LocksInv'
  <2>1. CASE End(c)
    BY <2>1, <1>3
  <2>2. CASE CallTo(c, "policy")
    <3> DEFINE s == [call[c] EXCEPT !.at = "policy"]
    <3>1. call' = [call EXCEPT ![c] = s]
      BY <2>2 DEF CallTo
    <3>2. s.at = "policy" /\ s.kind = call[c].kind /\ s.holds = call[c].holds
      BY <1>1 DEF CallState
    <3> HIDE DEF s
    <3>3. call'[c] = s /\ call'[c] \in CallState
      BY <3>1 DEF PlayInv, PlayTypeOK
    <3>4. Placed(s)
      BY <1>1, <1>13, <3>2 DEF ServeDeployment, Placed
    <3>5. QED BY <3>1, <3>2, <3>3, <3>4, RequestLocks
  <2>3. QED BY <1>13, <2>1, <2>2 DEF ServeDeployment
<1>14. ASSUME NEW c \in Call, NEW l \in Login, StartLogout(c, l) PROVE LocksInv'
  <2> DEFINE s == [Nothing EXCEPT !.kind = "logout", !.at = "cascade", !.login = l,
                                  !.holds = {l}]
  <2>1. s \in CallState /\ Placed(s) /\ s.holds = {l}
    BY Blank, PlayNames DEF CallState, Nothing, Placed, Mine, PlayLocks
  <2>2. call' = [call EXCEPT ![c] = s] /\ CanLock(c, l)
    BY <1>14 DEF StartLogout
  <2> HIDE DEF s
  <2>3. QED BY <2>1, <2>2, RequestLocks
<1>15. ASSUME NEW c \in Call,
              CallFails(c) \/ Answer(c) \/ InsertPlay(c) \/ CloseDisabled(c) \/ Cascade(c)
       PROVE  LocksInv'
  BY <1>3, <1>15 DEF CallFails, Answer, InsertPlay, CloseDisabled, Cascade
<1>16. ASSUME NEW c \in Call, NEW p \in Play, ClosePlay(c, p) PROVE LocksInv'
  BY <1>2, <1>16 DEF ClosePlay
<1>17. CASE \/ \E o \in Origin : Approve(o) \/ Revoke(o)
            \/ \E p \in Play : PlayExpires(p)
            \/ \E l \in Login : LoginExpires(l)
            \/ ReplaceBuild
  BY <1>2, <1>17 DEF Approve, Revoke, PlayExpires, LoginExpires, ReplaceBuild
<1>18. CASE Restart
  BY <1>18 DEF Restart, LocksInv, Exclusive, Placed, Nothing
<1>19. CASE UNCHANGED playVars
  BY <1>2, <1>19 DEF playVars
<1>20. QED
  BY <1>4, <1>5, <1>6, <1>7, <1>8, <1>9, <1>10, <1>11, <1>12, <1>13, <1>14, <1>15, <1>16,
     <1>17, <1>18, <1>19
  DEF PlayNext

\* Where a request stands that holds a lock of each kind.
LEMMA Holders ==
    ASSUME PlayInv, LocksInv, NEW d \in Call
    PROVE  /\ Advisory \in call[d].holds => call[d].at \in {"login", "project", "count", "insert"}
           /\ \A l \in Login : l \in call[d].holds =>
                 call[d].at \in {"project", "count", "insert", "play", "cascade"}
           /\ \A p \in Play : p \in call[d].holds => call[d].at \in {"project", "insert"}
           /\ Nobody \notin call[d].holds
<1>1. Placed(call[d]) /\ call[d] \in CallState
  BY DEF LocksInv, PlayInv, PlayTypeOK
<1>2. /\ call[d].kind = "logout" => call[d].login \in Login \cup {Nobody}
      /\ call[d].holds \subseteq PlayLocks
      /\ call[d].login \in Login \cup {Nobody}
      /\ call[d].kind = "renew" => call[d].play \in Play
  BY <1>1 DEF CallState, PlayInv, CallsSound, Sound
<1>3. QED BY <1>1, <1>2, PlayNames DEF Placed, Mine, PlayLocks, Advisory, Project

\* The requests that have reached a place, or are past it, wait for none
\* that has not.
LEMMA WaitsAhead ==
    ASSUME PlayInv, LocksInv, NEW c \in Call, NEW d \in WaitsFor(c)
    PROVE  /\ call[c].at \in {"advisory", "login", "play", "count", "cascade"}
           /\ call[d].at # "advisory"
           /\ call[c].at # "advisory" => call[d].at # "login"
           /\ call[c].at \notin {"advisory", "login"} => call[d].at \in {"project", "insert"}
<1>1. d \in Call /\ d # c /\ Placed(call[c]) /\ call[c] \in CallState
  BY DEF WaitsFor, LocksInv, PlayInv, PlayTypeOK
<1>2. call[c].holds \cap call[d].holds \subseteq {Project}
  BY <1>1 DEF LocksInv, Exclusive
<1>3. CASE call[c].at \in {"login", "insert"} /\ call[c].login \in call[d].holds
  <2>1. call[c].login \in Login
    BY <1>1, <1>3, Holders DEF CallState
  <2>2. call[c].at = "login"
    BY <1>1, <1>2, <1>3, <2>1, PlayNames DEF Placed, Mine, Project
  <2>3. QED BY <1>1, <2>1, <2>2, <1>3, Holders
<1>4. CASE call[c].at = "play" /\ call[c].play \in call[d].holds
  <2>1. call[c].play \in Play
    BY <1>1, <1>4 DEF PlayInv, CallsSound, Sound, Placed
  <2>2. QED BY <1>1, <1>4, <2>1, Holders
<1>5. CASE call[c].at \notin {"login", "insert", "play"}
  BY <1>1, <1>5, Holders DEF WaitsFor
<1>6. QED BY <1>3, <1>4, <1>5 DEF WaitsFor

LEMMA NoCircle == PlayInv /\ LocksInv => NoWaitCircle
<1> SUFFICES ASSUME PlayInv, LocksInv, NEW S \in SUBSET Call, S # {}
             PROVE  \E c \in S : WaitsFor(c) \cap S = {}
  BY DEF NoWaitCircle
<1>1. CASE \E c \in S : call[c].at \notin {"advisory", "login", "play", "count", "cascade"}
  BY <1>1, WaitsAhead
<1>2. CASE /\ \A c \in S : call[c].at \in {"advisory", "login", "play", "count", "cascade"}
           /\ \E c \in S : call[c].at \in {"play", "count", "cascade"}
  <2>1. PICK c \in S : call[c].at \in {"play", "count", "cascade"}
    BY <1>2
  <2>2. \A d \in WaitsFor(c) : call[d].at \in {"project", "insert"}
    BY <2>1, WaitsAhead
  <2>3. QED BY <1>2, <2>1, <2>2
<1>3. CASE /\ \A c \in S : call[c].at \in {"advisory", "login"}
           /\ \E c \in S : call[c].at = "login"
  <2>1. PICK c \in S : call[c].at = "login"
    BY <1>3
  <2>2. \A d \in WaitsFor(c) : call[d].at \notin {"advisory", "login"}
    BY <2>1, WaitsAhead
  <2>3. QED BY <1>3, <2>1, <2>2
<1>4. CASE \A c \in S : call[c].at = "advisory"
  BY <1>4, WaitsAhead
<1>5. QED BY <1>1, <1>2, <1>3, <1>4

-----------------------------------------------------------------------------
(* The budgets.                                                            *)

\* A request about to insert its play has room for it among those that are
\* left when it commits.
Room(c) ==
    LET kept == Unclosed(Play \ call[c].holds)
    IN call[c].at = "insert" =>
          /\ Cardinality(kept) < InAll
          /\ Cardinality({p \in kept : play[p].login = call[c].login}) < Budget(call[c].login)

BudgetInv ==
    /\ IsFiniteSet(Unclosed(Play)) /\ PlayBudgets
    /\ \A c \in Call : Room(c)

LEMMA Fewer ==
    ASSUME NEW S, IsFiniteSet(S), NEW T \in SUBSET S
    PROVE  /\ IsFiniteSet(T) /\ Cardinality(T) \in Nat /\ Cardinality(S) \in Nat
           /\ Cardinality(T) <= Cardinality(S)
BY FS_Subset, FS_CardinalityType

LEMMA OneMore ==
    ASSUME NEW S, IsFiniteSet(S), NEW x
    PROVE  /\ IsFiniteSet(S \cup {x}) /\ Cardinality(S \cup {x}) <= Cardinality(S) + 1
           /\ Cardinality(S) \in Nat /\ Cardinality(S \cup {x}) \in Nat
BY FS_AddElement, FS_CardinalityType

LEMMA BudgetsAreNumbers ==
    InAll \in Nat /\ InAll > 0 /\ \A l : Budget(l) \in Nat /\ Budget(l) > 0
BY PlayNames DEF Budget

\* Only an insert makes a play, and no play changes hands.
LEMMA NoNewPlays ==
    ASSUME PlayInv, [PlayNext]_playVars, ~ \E c \in Call : InsertPlay(c)
    PROVE  \A p \in Play : (play'[p].state = "OPEN" /\ ~play'[p].closed) =>
               /\ play[p].state = "OPEN" /\ ~play[p].closed
               /\ play'[p].login = play[p].login
<1> DEFINE Fine == \A p \in Play : (play'[p].state = "OPEN" /\ ~play'[p].closed) =>
               /\ play[p].state = "OPEN" /\ ~play[p].closed
               /\ play'[p].login = play[p].login
<1>1. \A p \in Play : play[p] \in PlayState /\ play \in [Play -> PlayState]
  BY DEF PlayInv, PlayTypeOK
<1>2. CASE UNCHANGED play
  BY <1>2
<1>3. ASSUME NEW p, NEW b \in BOOLEAN, play' = [play EXCEPT ![p].expired = b] PROVE Fine
  BY <1>1, <1>3 DEF PlayState
<1>4. ASSUME NEW p, NEW b, play' = [play EXCEPT ![p].closed = b],
             p \in Play /\ play[p].closed => b
      PROVE  Fine
  BY <1>1, <1>4 DEF PlayState
<1>5. ASSUME NEW ps, Deleted(ps) PROVE Fine
  BY <1>5 DEF Deleted, Unissued
<1>6. ASSUME NEW c \in Call, CountPlays(c) \/ Cascade(c) PROVE Fine
  BY <1>2, <1>5, <1>6 DEF CountPlays, Cascade
<1>7. ASSUME NEW c \in Call, CloseDisabled(c) PROVE Fine
  BY <1>1, <1>7 DEF CloseDisabled, PlayState
<1>8. ASSUME NEW c \in Call, ExtendPlay(c) PROVE Fine
  BY <1>2, <1>3, <1>8 DEF ExtendPlay
<1>9. ASSUME NEW c \in Call, NEW p \in Play, ClosePlay(c, p) PROVE Fine
  BY <1>4, <1>9 DEF ClosePlay
<1>10. ASSUME NEW p \in Play, PlayExpires(p) PROVE Fine
  BY <1>3, <1>10 DEF PlayExpires
<1>11. ASSUME NEW c \in Call, NEW p \in Play,
              \/ \E l \in Login \cup {Nobody} : StartIssue(c, p, l)
              \/ StartRenew(c, p) \/ StartServe(c, p)
       PROVE  Fine
  BY <1>2, <1>11 DEF StartIssue, StartRenew, StartServe, tables
<1>12. ASSUME NEW c \in Call,
              \/ IssueAdvisory(c) \/ IssueLogin(c) \/ IssueSnapshot(c)
              \/ CheckPolicy(c) \/ RenewLogin(c) \/ RenewPlay(c)
              \/ ServeDeployment(c) \/ Answer(c) \/ CallFails(c)
              \/ \E l \in Login : StartLogout(c, l)
       PROVE  Fine
  BY <1>2, <1>12 DEF IssueAdvisory, IssueLogin, IssueSnapshot, CheckPolicy, RenewLogin,
       RenewPlay, ServeDeployment, Answer, CallFails, StartLogout, tables
<1>13. CASE \/ \E o \in Origin : Approve(o) \/ Revoke(o)
            \/ \E l \in Login : LoginExpires(l)
            \/ ReplaceBuild \/ Restart \/ UNCHANGED playVars
  BY <1>2, <1>13 DEF Approve, Revoke, LoginExpires, ReplaceBuild, Restart, playVars, tables
<1>14. QED
  BY <1>6, <1>7, <1>8, <1>9, <1>10, <1>11, <1>12, <1>13 DEF PlayNext

\* Only the count takes a request to the insert.
LEMMA NoNewInsert ==
    ASSUME PlayInv, [PlayNext]_playVars, NEW d \in Call, call'[d].at = "insert"
    PROVE  call'[d] = call[d] \/ CountPlays(d)
<1>1. call \in [Call -> CallState] /\ \A c \in Call : call[c] \in CallState
  BY DEF PlayInv, PlayTypeOK
<1>2. CASE UNCHANGED call
  BY <1>2
<1>3. ASSUME NEW c \in Call, NEW s, call' = [call EXCEPT ![c] = s], s.at # "insert"
      PROVE  call'[d] = call[d]
  BY <1>1, <1>3
<1>4. ASSUME NEW c \in Call, End(c) PROVE call'[d] = call[d]
  BY <1>3, <1>4 DEF End, Nothing
<1>5. ASSUME NEW c \in Call, NEW ks, NEW l, l # "insert", TakeLock(c, ks, l) \/ CallTo(c, l)
      PROVE  call'[d] = call[d]
  BY <1>1, <1>5 DEF TakeLock, CallTo, CallState
<1>6. ASSUME NEW c \in Call, NEW p \in Play,
             \/ \E l \in Login \cup {Nobody} : StartIssue(c, p, l)
             \/ StartRenew(c, p) \/ StartServe(c, p)
      PROVE  call'[d] = call[d]
  BY <1>1, <1>6 DEF StartIssue, StartRenew, StartServe, Begin, Nothing
<1>7. ASSUME NEW c \in Call, IssueAdvisory(c) \/ IssueLogin(c) \/ RenewLogin(c)
                \/ RenewPlay(c) \/ ServeDeployment(c)
      PROVE  call'[d] = call[d]
  BY <1>4, <1>5, <1>7 DEF IssueAdvisory, IssueLogin, RenewLogin, RenewPlay, ServeDeployment
<1>8. ASSUME NEW c \in Call, IssueSnapshot(c) \/ CheckPolicy(c) \/ ExtendPlay(c)
      PROVE  call'[d] = call[d]
  BY <1>1, <1>4, <1>8 DEF IssueSnapshot, CheckPolicy, ExtendPlay, CallState
<1>9. ASSUME NEW c \in Call, InsertPlay(c) \/ CloseDisabled(c) \/ Answer(c) \/ CallFails(c)
                \/ Cascade(c)
      PROVE  call'[d] = call[d]
  BY <1>4, <1>9 DEF InsertPlay, CloseDisabled, Answer, CallFails, Cascade
<1>10. ASSUME NEW c \in Call, NEW l \in Login, StartLogout(c, l) PROVE call'[d] = call[d]
  BY <1>1, <1>10 DEF StartLogout, Nothing
<1>11. ASSUME NEW c \in Call, CountPlays(c) PROVE call'[d] = call[d] \/ CountPlays(d)
  <2>1. CASE c = d
    BY <1>11, <2>1
  <2>2. CASE c # d
    BY <1>1, <1>11, <2>2 DEF CountPlays, TakeLock, End
  <2>3. QED BY <2>1, <2>2
<1>12. CASE \/ \E c \in Call, p \in Play : ClosePlay(c, p)
            \/ \E o \in Origin : Approve(o) \/ Revoke(o)
            \/ \E p \in Play : PlayExpires(p)
            \/ \E l \in Login : LoginExpires(l)
            \/ ReplaceBuild \/ UNCHANGED playVars
  BY <1>2, <1>12 DEF ClosePlay, Approve, Revoke, PlayExpires, LoginExpires, ReplaceBuild, playVars
<1>13. CASE Restart
  BY <1>13 DEF Restart, Nothing
<1>14. QED
  BY <1>6, <1>7, <1>8, <1>9, <1>10, <1>11, <1>12, <1>13 DEF PlayNext

LEMMA BudgetInitially == PlayInit => BudgetInv
<1> SUFFICES ASSUME PlayInit PROVE BudgetInv
  OBVIOUS
<1>1. \A ps \in SUBSET Play : Unclosed(ps) = {}
  BY DEF PlayInit, Unclosed, Unissued
<1>2. IsFiniteSet(Unclosed(Play)) /\ PlayBudgets
  BY <1>1, FS_EmptySet, BudgetsAreNumbers DEF PlayBudgets
<1>3. \A c \in Call : Room(c)
  BY DEF Room, PlayInit, Nothing
<1>4. QED BY <1>2, <1>3 DEF BudgetInv

\* Plays that close or go free room, for everyone.
LEMMA RoomStays ==
    ASSUME BudgetInv, NEW c \in Call, call[c].at = "insert", call'[c] = call[c],
           \A p \in Play : (play'[p].state = "OPEN" /\ ~play'[p].closed) =>
               /\ play[p].state = "OPEN" /\ ~play[p].closed
               /\ play'[p].login = play[p].login
    PROVE  Room(c)'
<1> DEFINE kept  == Unclosed(Play \ call[c].holds)
           kept2 == {p \in Play \ call[c].holds : play'[p].state = "OPEN" /\ ~play'[p].closed}
           own   == {p \in kept : play[p].login = call[c].login}
           own2  == {p \in kept2 : play'[p].login = call[c].login}
<1>1. kept \subseteq Unclosed(Play) /\ kept2 \subseteq kept /\ own \subseteq kept /\ own2 \subseteq own
  BY DEF Unclosed
<1>2. IsFiniteSet(kept) /\ Cardinality(kept) < InAll /\ Cardinality(own) < Budget(call[c].login)
  BY <1>1, Fewer DEF BudgetInv, Room
<1> HIDE DEF kept, own
<1>3. Cardinality(kept2) < InAll /\ Cardinality(own2) < Budget(call[c].login)
  <2>1. IsFiniteSet(own)
    BY <1>1, <1>2, Fewer
  <2>2. /\ Cardinality(kept2) <= Cardinality(kept) /\ Cardinality(kept2) \in Nat
        /\ Cardinality(kept) \in Nat
    BY <1>1, <1>2, Fewer
  <2>3. /\ Cardinality(own2) <= Cardinality(own) /\ Cardinality(own2) \in Nat
        /\ Cardinality(own) \in Nat
    BY <1>1, <2>1, Fewer
  <2>4. QED BY <1>2, <2>2, <2>3, BudgetsAreNumbers
<1>4. QED BY <1>3 DEF Room, Unclosed, Budget

LEMMA BudgetShrinks ==
    ASSUME BudgetInv,
           \A p \in Play : (play'[p].state = "OPEN" /\ ~play'[p].closed) =>
               /\ play[p].state = "OPEN" /\ ~play[p].closed
               /\ play'[p].login = play[p].login
    PROVE  IsFiniteSet(Unclosed(Play))' /\ PlayBudgets'
<1> DEFINE left == {p \in Play : play'[p].state = "OPEN" /\ ~play'[p].closed}
           own(l) == {p \in Unclosed(Play) : play[p].login = l}
           own2(l) == {p \in left : play'[p].login = l}
<1>1. left \subseteq Unclosed(Play) /\ \A l : own(l) \subseteq Unclosed(Play) /\ own2(l) \subseteq own(l)
  BY DEF Unclosed
<1>2. IsFiniteSet(left) /\ Cardinality(left) <= InAll
  <2>1. IsFiniteSet(Unclosed(Play)) /\ Cardinality(Unclosed(Play)) <= InAll
    BY DEF BudgetInv, PlayBudgets
  <2>2. QED BY <1>1, <2>1, Fewer, BudgetsAreNumbers
<1>3. ASSUME NEW l \in Login \cup {Nobody} PROVE Cardinality(own2(l)) <= Budget(l)
  <2>1. IsFiniteSet(own(l)) /\ Cardinality(own(l)) <= Budget(l)
    BY <1>1, Fewer DEF BudgetInv, PlayBudgets
  <2>2. /\ Cardinality(own2(l)) <= Cardinality(own(l)) /\ Cardinality(own2(l)) \in Nat
        /\ Cardinality(own(l)) \in Nat
    BY <1>1, <2>1, Fewer
  <2>3. QED BY <2>1, <2>2, BudgetsAreNumbers
<1>4. QED BY <1>2, <1>3 DEF PlayBudgets, Unclosed, Budget

LEMMA BudgetInsert ==
    ASSUME PlayInv, LocksInv, BudgetInv, NEW c \in Call, InsertPlay(c)
    PROVE  BudgetInv'
<1> DEFINE s == call[c]
           kept == Unclosed(Play \ s.holds)
           left == {p \in Play : play'[p].state = "OPEN" /\ ~play'[p].closed}
           old(l) == {p \in Unclosed(Play) : play[p].login = l}
           own(l) == {p \in kept : play[p].login = l}
           own2(l) == {p \in left : play'[p].login = l}
<1>1. /\ s.at = "insert" /\ s \in CallState /\ Placed(s)
      /\ Cardinality(kept) < InAll /\ Cardinality(own(s.login)) < Budget(s.login)
  BY DEF InsertPlay, PlayInv, PlayTypeOK, LocksInv, BudgetInv, Room
<1>2. /\ \A p \in Play : p # s.play /\ p \in left => p \in kept /\ play'[p] = play[p]
      /\ s.play \in Play => play'[s.play].login = s.login
  BY DEF InsertPlay, Unclosed, Unissued
<1>3. left \subseteq kept \cup {s.play} /\ kept \subseteq Unclosed(Play)
  BY <1>2 DEF Unclosed
<1>4. IsFiniteSet(kept) /\ IsFiniteSet(kept \cup {s.play})
      /\ Cardinality(kept \cup {s.play}) <= Cardinality(kept) + 1
      /\ Cardinality(kept) \in Nat /\ Cardinality(kept \cup {s.play}) \in Nat
  <2>1. IsFiniteSet(kept)
    BY <1>3, Fewer DEF BudgetInv
  <2>2. QED BY <2>1, OneMore
<1>5. IsFiniteSet(left) /\ Cardinality(left) <= InAll
  <2> HIDE DEF kept, left, s
  <2>1. IsFiniteSet(left) /\ Cardinality(left) <= Cardinality(kept \cup {s.play})
        /\ Cardinality(left) \in Nat
    BY <1>3, <1>4, Fewer
  <2>2. QED BY <1>1, <1>4, <2>1, BudgetsAreNumbers DEF own
<1>6. ASSUME NEW l \in Login \cup {Nobody} PROVE Cardinality(own2(l)) <= Budget(l)
  <2>1. CASE l = s.login
    <3>1. own2(l) \subseteq own(l) \cup {s.play} /\ own(l) \subseteq kept
      BY <1>2, <1>3
    <3>2. IsFiniteSet(own(l)) /\ Cardinality(own(l)) < Budget(l)
      BY <1>1, <1>4, <2>1, <3>1, Fewer
    <3> HIDE DEF own, own2, s
    <3>3. IsFiniteSet(own(l) \cup {s.play}) /\ Cardinality(own(l)) \in Nat
          /\ Cardinality(own(l) \cup {s.play}) <= Cardinality(own(l)) + 1
      BY <3>2, OneMore
    <3>4. Cardinality(own2(l)) <= Cardinality(own(l) \cup {s.play}) /\ Cardinality(own2(l)) \in Nat
          /\ Cardinality(own(l) \cup {s.play}) \in Nat
      BY <3>1, <3>3, Fewer
    <3>5. QED BY <3>2, <3>3, <3>4, BudgetsAreNumbers
  <2>2. CASE l # s.login
    <3>1. own2(l) \subseteq old(l) /\ old(l) \subseteq Unclosed(Play)
      BY <1>2, <1>3, <2>2
    <3>2. IsFiniteSet(old(l)) /\ Cardinality(old(l)) <= Budget(l)
      BY <3>1, Fewer DEF BudgetInv, PlayBudgets
    <3> HIDE DEF old, own2
    <3>3. Cardinality(own2(l)) <= Cardinality(old(l)) /\ Cardinality(own2(l)) \in Nat
          /\ Cardinality(old(l)) \in Nat
      BY <3>1, <3>2, Fewer
    <3>4. QED BY <3>2, <3>3, BudgetsAreNumbers
  <2>3. QED BY <2>1, <2>2
<1>7. IsFiniteSet(Unclosed(Play))' /\ PlayBudgets'
  BY <1>5, <1>6 DEF PlayBudgets, Unclosed, Budget
<1>8. ASSUME NEW d \in Call PROVE Room(d)'
  <2>1. SUFFICES ASSUME call'[d].at = "insert" PROVE FALSE
    BY DEF Room
  <2>2. d # c /\ call'[d] = call[d]
    BY <2>1 DEF InsertPlay, End, Nothing, PlayInv, PlayTypeOK
  <2>3. Advisory \in call[d].holds /\ Advisory \in s.holds
    BY <1>1, <2>1, <2>2 DEF LocksInv, Placed
  <2>4. QED BY <2>2, <2>3 DEF LocksInv, Exclusive, Advisory, Project
<1>9. QED BY <1>7, <1>8 DEF BudgetInv

LEMMA BudgetStep == PlayInv /\ LocksInv /\ BudgetInv /\ [PlayNext]_playVars => BudgetInv'
<1> SUFFICES ASSUME PlayInv, LocksInv, BudgetInv, [PlayNext]_playVars PROVE BudgetInv'
  OBVIOUS
<1>1. CASE \E c \in Call : InsertPlay(c)
  BY <1>1, BudgetInsert
<1>2. CASE ~ \E c \in Call : InsertPlay(c)
  <2>1. IsFiniteSet(Unclosed(Play))' /\ PlayBudgets'
    BY <1>2, NoNewPlays, BudgetShrinks
  <2>2. ASSUME NEW d \in Call, call'[d].at = "insert" PROVE Room(d)'
    <3>1. CASE call'[d] = call[d]
      BY <1>2, <2>2, <3>1, NoNewPlays, RoomStays
    <3>2. CASE CountPlays(d) /\ call'[d] # call[d]
      <4> DEFINE gone == {p \in Play : play[p].expired}
                 kept == Unclosed(Play \ gone)
                 own == {p \in kept : play[p].login = call[d].login}
                 kept2 == Unclosed(Play \ call'[d].holds)
                 own2 == {p \in kept2 : play[p].login = call[d].login}
      <4>1. /\ Cardinality(kept) < InAll /\ Cardinality(own) < Budget(call[d].login)
            /\ UNCHANGED play /\ TakeLock(d, gone, "insert")
        BY <2>2, <3>2 DEF CountPlays, End, Nothing, PlayInv, PlayTypeOK
      <4>2. call'[d].holds = call[d].holds \cup gone /\ call'[d].login = call[d].login
        BY <4>1 DEF TakeLock, PlayInv, PlayTypeOK, CallState
      <4>3. kept2 \subseteq kept /\ kept \subseteq Unclosed(Play) /\ own2 \subseteq own /\ own \subseteq kept
        BY <4>2 DEF Unclosed
      <4>4. IsFiniteSet(kept) /\ IsFiniteSet(own)
        BY <4>3, Fewer DEF BudgetInv
      <4> HIDE DEF kept, own, kept2, own2
      <4>5. /\ Cardinality(kept2) <= Cardinality(kept) /\ Cardinality(kept2) \in Nat
            /\ Cardinality(own2) <= Cardinality(own) /\ Cardinality(own2) \in Nat
            /\ Cardinality(kept) \in Nat /\ Cardinality(own) \in Nat
        BY <4>3, <4>4, Fewer
      <4>6. Cardinality(kept2) < InAll /\ Cardinality(own2) < Budget(call[d].login)
        BY <4>1, <4>5, BudgetsAreNumbers
      <4>7. QED BY <4>1, <4>2, <4>6 DEF Room, Unclosed, Budget, kept2, own2
    <3>3. QED BY <2>2, <3>1, <3>2, NoNewInsert
  <2>3. \A d \in Call : Room(d)'
    BY <2>2 DEF Room
  <2>4. QED BY <2>1, <2>3 DEF BudgetInv
<1>3. QED BY <1>1, <1>2

-----------------------------------------------------------------------------
(* What bars a request.                                                    *)

Revoked(s) == \E o \in s.origins : revoked[o] > s.version

\* What keeps a request that began too late from being served, where it stands.
StillBarred(s) ==
    /\ s.at # "served"
    /\ s.kind = "serve" /\ s.at = "deployment" =>
          ~IsLive(s.login) \/ s.build # build \/ Revoked(s)
    /\ s.kind = "serve" /\ s.at = "policy" => Revoked(s)
    /\ s.kind = "renew" /\ s.at = "policy" => Revoked(s) \/ play[s.play].build # build
    /\ s.kind = "renew" /\ s.at \in {"login", "play", "project"} => play[s.play].build # build

\* A request is about a play that is, or is not yet, in the table.
OfPlay(s) ==
    /\ s.build <= build
    /\ s.kind = "issue" => play[s.play].state = "NONE"
    /\ s.kind \in {"renew", "serve"} => play[s.play].state # "NONE"
    /\ \A p \in Play : p \in s.holds => play[p].state # "NONE"
    /\ s.kind = "logout" => s.login \in Login
    /\ s.barred => StillBarred(s)

\* Builds and revocations are counted upwards; a play that is not open has
\* nothing in its row.
RowsPast ==
    /\ build > 0
    /\ \A o \in Origin : revoked[o] <= policy
    /\ \A p \in Play :
          /\ play[p].build <= build
          /\ play[p].state # "OPEN" => ~play[p].expired /\ play[p].login = Nobody /\ play[p].build = 0

ServedInv ==
    /\ RowsPast
    /\ \A c \in Call : OfPlay(call[c])
    /\ \A c, d \in Call : call[c].kind = "issue" /\ call[d].kind = "issue" /\ c # d =>
          call[c].play # call[d].play

LEMMA ServedInitially == PlayInit => ServedInv
BY PlayNames DEF PlayInit, ServedInv, RowsPast, OfPlay, Unissued, Nothing

-----------------------------------------------------------------------------
\* What a step does to the tables, as far as requests under way can tell.
Aged ==
    /\ build' \in Nat /\ build <= build'
    /\ \A o \in Origin : revoked[o] <= revoked'[o] /\ revoked'[o] <= policy'
    /\ \A l \in Login : login[l] # "live" => login'[l] # "live"
    /\ \A p \in Play :
          \/ /\ play'[p].state = play[p].state /\ play'[p].build = play[p].build
             /\ play'[p].login = play[p].login
             /\ play'[p].expired => play[p].expired \/ play[p].state = "OPEN"
          \/ /\ play[p].state # "NONE" /\ play'[p].state = "DELETED" /\ play'[p].build = 0
             /\ play'[p].login = Nobody /\ ~play'[p].expired
          \/ /\ play[p].state = "NONE" /\ play'[p].state = "OPEN" /\ play'[p].build <= build
             /\ \E c \in Call : InsertPlay(c) /\ call[c].play = p

LEMMA TablesAge ==
    ASSUME PlayInv, LocksInv, ServedInv, [PlayNext]_playVars
    PROVE  Aged
<1> DEFINE Rows ==
      \A p \in Play :
          \/ /\ play'[p].state = play[p].state /\ play'[p].build = play[p].build
             /\ play'[p].login = play[p].login
             /\ play'[p].expired => play[p].expired \/ play[p].state = "OPEN"
          \/ /\ play[p].state # "NONE" /\ play'[p].state = "DELETED" /\ play'[p].build = 0
             /\ play'[p].login = Nobody /\ ~play'[p].expired
          \/ /\ play[p].state = "NONE" /\ play'[p].state = "OPEN" /\ play'[p].build <= build
             /\ \E c \in Call : InsertPlay(c) /\ call[c].play = p
<1>1. /\ play \in [Play -> PlayState] /\ call \in [Call -> CallState]
      /\ \A p \in Play : play[p] \in PlayState
      /\ build \in Nat /\ policy \in Nat /\ \A o \in Origin : revoked[o] \in Nat
      /\ login \in [Login -> {"live", "expired", "gone"}]
      /\ revoked \in [Origin -> Version]
  BY DEF PlayInv, PlayTypeOK, Version
<1>2. \A o \in Origin : revoked[o] <= policy
  BY DEF ServedInv, RowsPast
<1>3. UNCHANGED play => Rows
  OBVIOUS
<1>4. ASSUME UNCHANGED <<build, revoked, policy, login>>, Rows PROVE Aged
  BY <1>1, <1>2, <1>4 DEF Aged
<1>5. ASSUME UNCHANGED tables PROVE Aged
  BY <1>3, <1>4, <1>5 DEF tables
<1>6. ASSUME NEW p, NEW b \in BOOLEAN, play' = [play EXCEPT ![p].expired = b],
             p \in Play /\ b => play[p].expired \/ play[p].state = "OPEN"
      PROVE  Rows
  BY <1>1, <1>6 DEF PlayState
<1>7. ASSUME NEW p, NEW b, play' = [play EXCEPT ![p].closed = b] PROVE Rows
  BY <1>1, <1>7 DEF PlayState
<1>8. ASSUME NEW ps, Deleted(ps), \A p \in Play \cap ps : play[p].state # "NONE" PROVE Rows
  BY <1>8 DEF Deleted, Unissued
<1>9. ASSUME NEW c \in Call, CountPlays(c) PROVE Aged
  <2>1. Rows
    BY <1>3, <1>8, <1>9 DEF CountPlays, ServedInv, RowsPast
  <2>2. QED BY <1>4, <1>9, <2>1 DEF CountPlays
<1>10. ASSUME NEW c \in Call, InsertPlay(c) PROVE Aged
  <2>1. /\ OfPlay(call[c]) /\ call[c].kind = "issue"
    BY <1>10 DEF ServedInv, InsertPlay, LocksInv, Placed
  <2>2. /\ play[call[c].play].state = "NONE" /\ call[c].build <= build
        /\ \A p \in Play : p \in call[c].holds => play[p].state # "NONE"
    BY <2>1 DEF OfPlay
  <2>3. Rows
    BY <1>10, <2>2 DEF InsertPlay, Unissued
  <2>4. QED BY <1>4, <1>10, <2>3 DEF InsertPlay
<1>11. ASSUME NEW c \in Call, Cascade(c) PROVE Aged
  <2>1. call[c].login \in Login
    BY <1>11 DEF Cascade, ServedInv, OfPlay
  <2>2. \A p \in Play : play[p].login = call[c].login => play[p].state # "NONE"
    BY <2>1, PlayNames DEF ServedInv, RowsPast
  <2>3. Rows
    BY <1>8, <1>11, <2>2 DEF Cascade
  <2>4. QED BY <1>1, <1>2, <1>11, <2>3 DEF Cascade, Aged
<1>12. ASSUME NEW c \in Call, CloseDisabled(c) PROVE Aged
  BY <1>4, <1>7, <1>12 DEF CloseDisabled
<1>13. ASSUME NEW c \in Call, ExtendPlay(c) PROVE Aged
  BY <1>3, <1>4, <1>6, <1>13 DEF ExtendPlay
<1>14. ASSUME NEW c \in Call, NEW p \in Play, ClosePlay(c, p) PROVE Aged
  BY <1>4, <1>7, <1>14 DEF ClosePlay
<1>15. ASSUME NEW p \in Play, PlayExpires(p) PROVE Aged
  BY <1>4, <1>6, <1>15 DEF PlayExpires
<1>16. ASSUME NEW c \in Call, NEW p \in Play,
              \/ \E l \in Login \cup {Nobody} : StartIssue(c, p, l)
              \/ StartRenew(c, p) \/ StartServe(c, p)
       PROVE  Aged
  BY <1>5, <1>16 DEF StartIssue, StartRenew, StartServe
<1>17. ASSUME NEW c \in Call,
              \/ IssueAdvisory(c) \/ IssueLogin(c) \/ IssueSnapshot(c)
              \/ CheckPolicy(c) \/ RenewLogin(c) \/ RenewPlay(c)
              \/ ServeDeployment(c) \/ Answer(c) \/ CallFails(c)
              \/ \E l \in Login : StartLogout(c, l)
       PROVE  Aged
  BY <1>5, <1>17 DEF IssueAdvisory, IssueLogin, IssueSnapshot, CheckPolicy, RenewLogin,
       RenewPlay, ServeDeployment, Answer, CallFails, StartLogout
<1>18. ASSUME NEW o \in Origin, Approve(o) PROVE Aged
  BY <1>1, <1>2, <1>3, <1>18 DEF Approve, Aged
<1>19. ASSUME NEW o \in Origin, Revoke(o) PROVE Aged
  BY <1>1, <1>2, <1>3, <1>19 DEF Revoke, Aged
<1>20. ASSUME NEW l \in Login, LoginExpires(l) PROVE Aged
  BY <1>1, <1>2, <1>3, <1>20 DEF LoginExpires, Aged
<1>21. CASE ReplaceBuild
  BY <1>1, <1>2, <1>3, <1>21 DEF ReplaceBuild, Aged
<1>22. CASE Restart
  BY <1>3, <1>4, <1>22 DEF Restart
<1>23. CASE UNCHANGED playVars
  BY <1>5, <1>23 DEF playVars
<1>24. QED
  BY <1>9, <1>10, <1>11, <1>12, <1>13, <1>14, <1>15, <1>16, <1>17, <1>18, <1>19, <1>20,
     <1>21, <1>22, <1>23 DEF PlayNext

LEMMA RowsStayPast ==
    ASSUME PlayInv, PlayInv', ServedInv, Aged PROVE RowsPast'
<1>1. /\ build \in Nat /\ \A p \in Play : play[p].build \in Nat
      /\ build' \in Nat /\ \A p \in Play : play'[p].build \in Nat
  BY DEF PlayInv, PlayTypeOK, PlayState
<1>2. QED BY <1>1 DEF ServedInv, RowsPast, Aged

\* What is true of a request stays true as the tables age.
LEMMA StaysOfPlay ==
    ASSUME PlayInv, PlayInv', ServedInv, Aged, NEW s \in CallState, OfPlay(s),
           s.kind \in {"issue", "renew", "serve"} => s.play \in Play,
           \A c \in Call : InsertPlay(c) /\ s.kind = "issue" => call[c].play # s.play
    PROVE  OfPlay(s)'
<1>1. /\ build \in Nat /\ build' \in Nat /\ s.build \in Nat /\ s.version \in Nat
      /\ s.origins \subseteq Origin /\ s.login \in Login \cup {Nobody}
      /\ \A o \in Origin : revoked[o] \in Nat /\ revoked'[o] \in Nat
      /\ \A p \in Play : play[p].build \in Nat
  BY DEF PlayInv, PlayTypeOK, PlayState, CallState, Version
<1>2. /\ build <= build' /\ build > 0 /\ \A p \in Play : play[p].build <= build
      /\ \A o \in Origin : revoked[o] <= revoked'[o]
  BY DEF Aged, ServedInv, RowsPast
<1>3. s.build <= build /\ s.build <= build'
  BY <1>1, <1>2 DEF OfPlay
<1>4. s.build # build => s.build # build'
  BY <1>1, <1>2, <1>3
<1>5. \A p \in Play : play[p].state # "NONE" =>
         /\ play'[p].state # "NONE"
         /\ play[p].build # build => play'[p].build # build'
  BY <1>1, <1>2 DEF Aged
<1>6. Revoked(s) => Revoked(s)'
  <2> SUFFICES ASSUME NEW o \in s.origins, revoked[o] > s.version
               PROVE  revoked'[o] > s.version
    BY DEF Revoked
  <2>1. revoked[o] <= revoked'[o]
    BY <1>1, <1>2
  <2>2. QED BY <1>1, <2>1
<1>7. ~IsLive(s.login) => ~IsLive(s.login)'
  BY <1>1 DEF IsLive, Aged
<1>8. s.kind = "issue" => play'[s.play].state = "NONE"
  BY DEF OfPlay, Aged
<1>9. StillBarred(s) /\ (s.kind = "renew" => play[s.play].state # "NONE") => StillBarred(s)'
  BY <1>4, <1>5, <1>6, <1>7 DEF StillBarred
<1>10. QED BY <1>3, <1>5, <1>8, <1>9 DEF OfPlay

\* One request changes and the others stay.
LEMMA ServedCall ==
    ASSUME PlayInv, PlayInv', LocksInv, ServedInv, Aged, NEW c \in Call, NEW s \in CallState,
           call' = [call EXCEPT ![c] = s], OfPlay(s)',
           s.kind = "issue" =>
              \/ call[c].kind = "issue" /\ s.play = call[c].play
              \/ \A d \in Call \ {c} : call[d].kind = "issue" => call[d].play # s.play
    PROVE  ServedInv'
<1>1. \A d \in Call : call'[d] = IF d = c THEN s ELSE call[d]
  BY DEF PlayInv, PlayTypeOK
<1>2. ASSUME NEW d \in Call, d # c PROVE OfPlay(call[d])'
  <2>1. /\ call[d] \in CallState /\ OfPlay(call[d])
        /\ call[d].kind \in {"issue", "renew", "serve"} => call[d].play \in Play
    BY DEF PlayInv, PlayTypeOK, ServedInv, CallsSound, Sound
  <2>2. ASSUME NEW e \in Call, InsertPlay(e), call[d].kind = "issue"
        PROVE  call[e].play # call[d].play
    <3>1. call[e].kind = "issue" /\ call'[e].kind = "none"
      BY <2>2 DEF InsertPlay, End, Nothing, PlayInv, PlayTypeOK
    <3>2. e # d
      BY <1>1, <1>2, <3>1
    <3>3. QED BY <2>2, <3>1, <3>2 DEF ServedInv
  <2>3. \A t \in CallState : t = call[d] => OfPlay(t)'
    BY <2>1, <2>2, StaysOfPlay
  <2>4. QED BY <1>1, <1>2, <2>1, <2>3
<1>3. \A d \in Call : OfPlay(call[d])'
  BY <1>1, <1>2
<1>4. \A d, e \in Call : call'[d].kind = "issue" /\ call'[e].kind = "issue" /\ d # e =>
         call'[d].play # call'[e].play
  BY <1>1 DEF ServedInv
<1>5. QED BY <1>3, <1>4, RowsStayPast DEF ServedInv

\* The tables stay as they are.
LEMMA ServedQuiet ==
    ASSUME PlayInv, PlayInv', LocksInv, ServedInv, Aged, NEW c \in Call, NEW s \in CallState,
           call' = [call EXCEPT ![c] = s], UNCHANGED tables, OfPlay(s),
           s.kind = "issue" =>
              \/ call[c].kind = "issue" /\ s.play = call[c].play
              \/ \A d \in Call \ {c} : call[d].kind = "issue" => call[d].play # s.play
    PROVE  ServedInv'
<1>1. OfPlay(s)'
  BY DEF tables, OfPlay, StillBarred, Revoked, IsLive
<1>2. QED BY <1>1, ServedCall

LEMMA ServedStep ==
    PlayInv /\ PlayInv' /\ LocksInv /\ ServedInv /\ [PlayNext]_playVars => ServedInv'
<1> SUFFICES ASSUME PlayInv, PlayInv', LocksInv, ServedInv, [PlayNext]_playVars
             PROVE  ServedInv'
  OBVIOUS
<1>1. Aged
  BY TablesAge
<1>2. /\ \A c \in Call : /\ call[c] \in CallState /\ Placed(call[c]) /\ OfPlay(call[c])
                         /\ call[c].kind \in {"issue", "renew", "serve"} => call[c].play \in Play
      /\ \A p \in Play : play[p] \in PlayState
      /\ build' \in Nat /\ build' > 0 /\ build \in Nat
  BY <1>1, RowsStayPast DEF PlayInv, PlayTypeOK, LocksInv, ServedInv, CallsSound, Sound, RowsPast
<1>4. ASSUME UNCHANGED call PROVE ServedInv'
  <2>1. ASSUME NEW c \in Call PROVE OfPlay(call[c])'
    <3>1. \A e \in Call : ~InsertPlay(e)
      BY <1>2, <1>4 DEF InsertPlay, End, Nothing, PlayInv, PlayTypeOK
    <3>2. \A t \in CallState : t = call[c] => OfPlay(t)'
      BY <1>1, <1>2, <3>1, StaysOfPlay
    <3>3. QED BY <1>2, <1>4, <3>2
  <2>2. QED BY <1>1, <1>4, <2>1, RowsStayPast DEF ServedInv
<1>5. OfPlay(Nothing)'
  BY <1>2 DEF OfPlay, Nothing
<1>6. ASSUME NEW c \in Call, End(c) PROVE ServedInv'
  BY <1>1, <1>5, <1>6, Blank, ServedCall DEF End, Nothing
<1>7. ASSUME NEW c \in Call, NEW ks \in SUBSET PlayLocks, NEW l, TakeLock(c, ks, l),
             UNCHANGED tables, \A p \in Play \cap ks : play[p].state # "NONE",
             \/ call[c].kind = "issue" /\ l # "served"
             \/ /\ call[c].kind = "renew" /\ call[c].at \in {"login", "play"}
                /\ l \in {"play", "project"}
      PROVE  ServedInv'
  <2> DEFINE s == [call[c] EXCEPT !.at = l, !.holds = @ \cup ks]
  <2>1. call' = [call EXCEPT ![c] = s] /\ call' \in [Call -> CallState]
    BY <1>7 DEF TakeLock, PlayInv, PlayTypeOK
  <2>2. /\ s.at = l /\ s.holds = call[c].holds \cup ks /\ s.kind = call[c].kind
        /\ s.play = call[c].play /\ s.login = call[c].login /\ s.build = call[c].build
        /\ s.barred = call[c].barred
    BY <1>2 DEF CallState
  <2> HIDE DEF s
  <2>3. s \in CallState
    BY <2>1, <1>7 DEF PlayInv, PlayTypeOK
  <2>4. OfPlay(s)
    BY <1>2, <1>7, <2>2 DEF OfPlay, StillBarred
  <2>5. QED BY <1>1, <1>7, <2>1, <2>2, <2>3, <2>4, ServedQuiet
<1>8. ASSUME NEW c \in Call, NEW p \in Play, NEW l \in Login \cup {Nobody},
             StartIssue(c, p, l)
      PROVE  ServedInv'
  <2> DEFINE s == [Nothing EXCEPT !.kind = "issue", !.at = "advisory", !.play = p,
                                  !.login = l, !.build = build]
  <2>1. s \in CallState /\ s.play = p
    BY <1>2, Blank DEF CallState, Nothing
  <2>2. OfPlay(s)
    BY <1>2, <1>8 DEF StartIssue, Nothing, OfPlay
  <2>3. call' = [call EXCEPT ![c] = s] /\ UNCHANGED tables
        /\ \A d \in Call : call[d].kind = "issue" => call[d].play # p
    BY <1>8 DEF StartIssue
  <2> HIDE DEF s
  <2>4. QED BY <1>1, <2>1, <2>2, <2>3, ServedQuiet
<1>9. ASSUME NEW c \in Call, NEW p \in Play, StartRenew(c, p) \/ StartServe(c, p)
      PROVE  ServedInv'
  <2>1. PICK k \in {"renew", "serve"}, a \in {"policy", "deployment"} :
           /\ Begin(c, k, a, p, Barred(p)) /\ UNCHANGED tables
           /\ k = "renew" => a = "policy" /\ IsLive(play[p].login)
           /\ k = "serve" => a = "deployment"
           /\ IsOpen(p)
    BY <1>9 DEF StartRenew, StartServe
  <2> DEFINE s == [Nothing EXCEPT
          !.kind = k, !.at = a, !.play = p, !.login = play[p].login,
          !.build = play[p].build, !.origins = play[p].origins,
          !.version = play[p].version, !.barred = Barred(p)]
  <2>2. s \in CallState
    <3>1. Barred(p) \in BOOLEAN
      BY DEF Barred
    <3>2. QED BY <1>2, <3>1, Blank DEF PlayState, CallState, Nothing
  <2>3. /\ s.kind = k /\ s.at = a /\ s.play = p /\ s.login = play[p].login
        /\ s.build = play[p].build /\ s.origins = play[p].origins
        /\ s.version = play[p].version /\ s.barred = Barred(p) /\ s.holds = {}
    BY DEF Nothing
  <2>4. call' = [call EXCEPT ![c] = s]
    BY <2>1 DEF Begin
  <2> HIDE DEF s
  <2>5. s.barred => StillBarred(s)
    BY <2>1, <2>3 DEF Barred, IsOpen, StillBarred, Revoked, IsLive
  <2>6. OfPlay(s)
    BY <2>1, <2>3, <2>5 DEF OfPlay, IsOpen, ServedInv, RowsPast
  <2>7. QED BY <1>1, <2>1, <2>2, <2>3, <2>4, <2>6, ServedQuiet
<1>10. ASSUME NEW c \in Call, IssueAdvisory(c) PROVE ServedInv'
  <2>1. {Advisory} \in SUBSET PlayLocks /\ Play \cap {Advisory} = {}
    BY PlayNames DEF PlayLocks, Advisory
  <2>2. PICK l \in {"project", "login"} : TakeLock(c, {Advisory}, l)
    BY <1>10 DEF IssueAdvisory
  <2>3. UNCHANGED tables /\ call[c].kind = "issue" /\ l # "served"
    BY <1>10, <2>2 DEF IssueAdvisory
  <2>4. QED BY <1>7, <2>1, <2>2, <2>3
<1>11. ASSUME NEW c \in Call, IssueLogin(c) \/ RenewLogin(c) PROVE ServedInv'
  <2>1. call[c].login \in Login
    BY <1>11 DEF IssueLogin, RenewLogin, PlayInv, CallsSound, Sound
  <2>2. {call[c].login} \in SUBSET PlayLocks /\ Play \cap {call[c].login} = {}
    BY <2>1, PlayNames DEF PlayLocks
  <2>3. QED BY <1>6, <1>7, <1>11, <2>2 DEF IssueLogin, RenewLogin
<1>12. ASSUME NEW c \in Call, IssueSnapshot(c) PROVE ServedInv'
  <2>1. CASE End(c)
    BY <1>6, <2>1
  <2>2. CASE ~End(c)
    <3> DEFINE os == IF external THEN Approved ELSE {}
               s == [call[c] EXCEPT !.at = "count", !.holds = @ \cup {Project},
                                    !.version = policy, !.origins = os]
    <3>1. call' = [call EXCEPT ![c] = s] /\ UNCHANGED tables /\ call[c].kind = "issue"
      BY <1>12, <2>2 DEF IssueSnapshot
    <3> HIDE DEF os
    <3>2. s.at = "count" /\ s.holds = call[c].holds \cup {Project}
          /\ s.kind = call[c].kind /\ s.play = call[c].play
          /\ s.build = call[c].build /\ s.barred = call[c].barred
      BY <1>2 DEF CallState
    <3> HIDE DEF s
    <3>3. s \in CallState /\ Project \notin Play
      BY <3>1, PlayNames DEF PlayInv, PlayTypeOK, Project
    <3>4. OfPlay(s)
      BY <1>2, <3>1, <3>2, <3>3 DEF OfPlay, StillBarred
    <3>5. QED BY <1>1, <3>1, <3>2, <3>3, <3>4, ServedQuiet
  <2>3. QED BY <2>1, <2>2
<1>13. ASSUME NEW c \in Call, CountPlays(c) PROVE ServedInv'
  <2> DEFINE gone == {p \in Play : play[p].expired}
  <2>1. CASE End(c)
    BY <1>6, <2>1
  <2>2. CASE TakeLock(c, gone, "insert") /\ UNCHANGED play
    <3>1. gone \in SUBSET PlayLocks /\ \A p \in Play \cap gone : play[p].state # "NONE"
      BY DEF PlayLocks, ServedInv, RowsPast
    <3> HIDE DEF gone
    <3>2. UNCHANGED tables /\ call[c].kind = "issue"
      BY <1>13, <2>2 DEF CountPlays, tables
    <3>3. QED BY <1>7, <2>2, <3>1, <3>2
  <2>3. QED BY <1>13, <2>1, <2>2 DEF CountPlays
<1>14. ASSUME NEW c \in Call, CheckPolicy(c) PROVE ServedInv'
  <2>1. CASE End(c)
    BY <1>6, <2>1
  <2>2. CASE ~End(c)
    <3> DEFINE l == IF call[c].kind = "serve" THEN "served"
                    ELSE IF call[c].login = Nobody THEN "play" ELSE "login"
               s == [call[c] EXCEPT !.origins = {}, !.version = 0, !.build = 0, !.at = l]
    <3>1. /\ call' = [call EXCEPT ![c] = s] /\ UNCHANGED tables /\ call[c].at = "policy"
          /\ PolicyValid(call[c].origins, call[c].version)
      BY <1>14, <2>2 DEF CheckPolicy
    <3>2. s.at = l /\ s.holds = call[c].holds /\ s.kind = call[c].kind
          /\ s.play = call[c].play /\ s.build = 0 /\ s.barred = call[c].barred
      BY <1>2 DEF CallState
    <3>3. ~Revoked(call[c])
      <4>1. call[c].version \in Nat /\ \A o \in call[c].origins : revoked[o] \in Nat
        BY <1>2 DEF CallState, PlayInv, PlayTypeOK, Version
      <4>2. QED BY <3>1, <4>1 DEF PolicyValid, Revoked
    <3>4. call[c].kind \in {"renew", "serve"}
      BY <1>2, <3>1 DEF Placed
    <3> HIDE DEF s
    <3>5. s.barred => StillBarred(s)
      BY <1>2, <3>1, <3>2, <3>3, <3>4 DEF OfPlay, StillBarred
    <3>6. s \in CallState
      BY <3>1 DEF PlayInv, PlayTypeOK
    <3>7. OfPlay(s)
      BY <1>2, <3>2, <3>4, <3>5 DEF OfPlay
    <3>8. QED BY <1>1, <3>1, <3>2, <3>4, <3>6, <3>7, ServedQuiet
  <2>3. QED BY <2>1, <2>2
<1>15. ASSUME NEW c \in Call, RenewPlay(c) PROVE ServedInv'
  <2>1. CASE End(c)
    BY <1>6, <2>1
  <2>2. CASE TakeLock(c, {call[c].play}, "project")
    <3>1. {call[c].play} \in SUBSET PlayLocks /\ play[call[c].play].state # "NONE"
      BY <1>2, <1>15 DEF RenewPlay, PlayLocks, OfPlay
    <3>2. QED BY <1>7, <1>15, <2>2, <3>1 DEF RenewPlay
  <2>3. QED BY <1>15, <2>1, <2>2 DEF RenewPlay
<1>16. ASSUME NEW c \in Call, ExtendPlay(c) PROVE ServedInv'
  <2>1. CASE End(c)
    BY <1>6, <2>1
  <2>2. CASE ~End(c)
    <3> DEFINE s == [call[c] EXCEPT !.at = "served", !.holds = {}]
    <3>1. /\ call' = [call EXCEPT ![c] = s] /\ play[call[c].play].build = build
          /\ UNCHANGED build /\ call[c].kind = "renew" /\ call[c].at = "project"
          /\ play' = [play EXCEPT ![call[c].play].expired = FALSE]
      BY <1>16, <2>2 DEF ExtendPlay
    <3>2. s.holds = {} /\ s.kind = call[c].kind /\ s.play = call[c].play
          /\ s.build = call[c].build /\ s.barred = call[c].barred
      BY <1>2 DEF CallState
    <3> HIDE DEF s
    <3>3. s \in CallState /\ play'[s.play].state = play[s.play].state
      BY <1>2, <3>1, <3>2 DEF PlayInv, PlayTypeOK, PlayState
    <3>4. ~s.barred
      BY <1>2, <3>1, <3>2 DEF OfPlay, StillBarred
    <3>5. PICK t \in CallState : t = s
      BY <3>3
    <3>6. OfPlay(t)'
      BY <1>2, <3>1, <3>2, <3>3, <3>4, <3>5 DEF OfPlay
    <3>7. QED BY <1>1, <3>1, <3>2, <3>5, <3>6, ServedCall
  <2>3. QED BY <2>1, <2>2
<1>17. ASSUME NEW c \in Call, ServeDeployment(c) PROVE ServedInv'
  <2>1. CASE End(c)
    BY <1>6, <2>1
  <2>2. CASE ~End(c)
    <3> DEFINE s == [call[c] EXCEPT !.at = "policy"]
    <3>1. /\ call' = [call EXCEPT ![c] = s] /\ UNCHANGED tables /\ IsLive(call[c].login)
          /\ call[c].build = build /\ call[c].kind = "serve" /\ call[c].at = "deployment"
      BY <1>17, <2>2 DEF ServeDeployment, CallTo
    <3>2. s.at = "policy" /\ s.holds = call[c].holds /\ s.kind = call[c].kind
          /\ s.play = call[c].play /\ s.build = call[c].build /\ s.barred = call[c].barred
          /\ s.origins = call[c].origins /\ s.version = call[c].version
      BY <1>2 DEF CallState
    <3> HIDE DEF s
    <3>3. s \in CallState
      BY <3>1 DEF PlayInv, PlayTypeOK
    <3>4. OfPlay(s)
      BY <1>2, <3>1, <3>2 DEF OfPlay, StillBarred, Revoked
    <3>5. QED BY <1>1, <3>1, <3>2, <3>3, <3>4, ServedQuiet
  <2>3. QED BY <2>1, <2>2
<1>18. ASSUME NEW c \in Call, NEW l \in Login, StartLogout(c, l) PROVE ServedInv'
  <2> DEFINE s == [Nothing EXCEPT !.kind = "logout", !.at = "cascade", !.login = l,
                                  !.holds = {l}]
  <2>1. s \in CallState /\ s.kind = "logout"
    BY Blank DEF CallState, Nothing, PlayLocks
  <2>2. OfPlay(s)
    BY <1>2, PlayNames DEF Nothing, OfPlay
  <2>3. call' = [call EXCEPT ![c] = s] /\ UNCHANGED tables
    BY <1>18 DEF StartLogout
  <2> HIDE DEF s
  <2>4. QED BY <1>1, <2>1, <2>2, <2>3, ServedQuiet
<1>19. ASSUME NEW c \in Call,
              CallFails(c) \/ Answer(c) \/ InsertPlay(c) \/ CloseDisabled(c) \/ Cascade(c)
       PROVE  ServedInv'
  BY <1>6, <1>19 DEF CallFails, Answer, InsertPlay, CloseDisabled, Cascade
<1>20. ASSUME NEW c \in Call, NEW p \in Play, ClosePlay(c, p) PROVE ServedInv'
  BY <1>4, <1>20 DEF ClosePlay
<1>21. CASE \/ \E o \in Origin : Approve(o) \/ Revoke(o)
            \/ \E p \in Play : PlayExpires(p)
            \/ \E l \in Login : LoginExpires(l)
            \/ ReplaceBuild
  BY <1>4, <1>21 DEF Approve, Revoke, PlayExpires, LoginExpires, ReplaceBuild
<1>22. CASE Restart
  <2>1. \A c \in Call : call'[c] = Nothing
    BY <1>22 DEF Restart
  <2>2. \A c \in Call : OfPlay(call[c])'
    BY <1>2, <2>1 DEF OfPlay, Nothing
  <2>3. QED BY <1>1, <2>1, <2>2, RowsStayPast DEF ServedInv, Nothing
<1>23. CASE UNCHANGED playVars
  BY <1>4, <1>23 DEF playVars
<1>24. QED
  BY <1>8, <1>9, <1>10, <1>11, <1>12, <1>13, <1>14, <1>15, <1>16, <1>17, <1>18, <1>19,
     <1>20, <1>21, <1>22, <1>23
  DEF PlayNext

LEMMA NoneBarred == ServedInv => BarredNeverServed
BY DEF ServedInv, OfPlay, StillBarred, BarredNeverServed

-----------------------------------------------------------------------------
(* Every variable of the model has its type, however requests, reviews and *)
(* restarts interleave.                                                    *)
THEOREM PlayTypeCorrect == PlaySpec => []PlayTypeOK
<1>1. PlayInv => PlayTypeOK
  BY DEF PlayInv
<1>2. QED BY <1>1, PlayInitially, PlayStep, PTL DEF PlaySpec

(* createBounded copies the policy under the lock that reviews take: every *)
(* later revocation is newer than the snapshot, and every later check of   *)
(* the play finds it.                                                      *)
THEOREM RevocationAlwaysReaches == PlaySpec => []RevocationReaches
<1>1. PlayInv => RevocationReaches
  BY DEF PlayInv
<1>2. QED BY <1>1, PlayInitially, PlayStep, PTL DEF PlaySpec

(* No requests wait for each other in a circle: whoever waits, waits for   *)
(* one that is further on its way.                                         *)
THEOREM NoWaitCircleEver == PlaySpec => []NoWaitCircle
<1>1. PlayInit => PlayInv /\ LocksInv
  BY PlayInitially, LocksInitially
<1>2. PlayInv /\ LocksInv /\ [PlayNext]_playVars => (PlayInv /\ LocksInv)'
  BY PlayStep, LocksStep
<1>3. QED BY <1>1, <1>2, NoCircle, PTL DEF PlaySpec

(* The count and the insert of createBounded are one for the budgets,      *)
(* however many requests issue plays at a time.                            *)
THEOREM BudgetsAlwaysHold == PlaySpec => []PlayBudgets
<1>1. PlayInit => PlayInv /\ LocksInv /\ BudgetInv
  BY PlayInitially, LocksInitially, BudgetInitially
<1>2. PlayInv /\ LocksInv /\ BudgetInv /\ [PlayNext]_playVars
          => (PlayInv /\ LocksInv /\ BudgetInv)'
  BY PlayStep, LocksStep, BudgetStep
<1>3. BudgetInv => PlayBudgets
  BY DEF BudgetInv
<1>4. QED BY <1>1, <1>2, <1>3, PTL DEF PlaySpec

(* A request that begins after its play was closed, logged out, replaced   *)
(* or revoked is never served, whatever it has read before.                *)
THEOREM BarredIsNeverServed == PlaySpec => []BarredNeverServed
<1>1. PlayInit => PlayInv /\ LocksInv /\ ServedInv
  BY PlayInitially, LocksInitially, ServedInitially
<1>2. PlayInv /\ LocksInv /\ ServedInv /\ [PlayNext]_playVars
          => (PlayInv /\ LocksInv /\ ServedInv)'
  BY PlayStep, LocksStep, ServedStep
<1>3. QED BY <1>1, <1>2, NoneBarred, PTL DEF PlaySpec
=============================================================================
