---------------------------- MODULE RuntimeProofs ----------------------------
(***************************************************************************)
(* What the processes promise.  For any workers, services, batches and     *)
(* numbers of rows and failures the lifecycle runtime loses no wake, flies *)
(* one flight at a time and stays quiet once closed.  All three need to    *)
(* know that runs and flights go together: a service runs for a flight     *)
(* exactly while the promise of the flight is unsettled, and closing       *)
(* leaves no pending pass that could start one.                            *)
(*                                                                         *)
(* The process they run in starts and ends in order, for any resources and *)
(* requests.                                                               *)
(*                                                                         *)
(* Three of the workers follow, which share no variable: the WebGL worker, *)
(* whose current build can be served and whose rejected ones cannot; the   *)
(* deletion of a prefix, where a pass that reports success has missed      *)
(* nothing; the export job, where a READY export holds what its snapshot   *)
(* named.                                                                  *)
(***************************************************************************)
EXTENDS LifecycleRuntime, ServerLifecycle, WebglBuild, PrefixDeletion, ExportJob, TLAPS

\* A service runs for a flight exactly while the flight is passing, and has
\* rows in hand only once it claimed.
RunsFollowFlights ==
    \A s \in Service :
        /\ run[s].at = "idle" <=> flight[ServedBy(s)] # "passing"
        /\ run[s].at # "claimed" => run[s].took = 0

\* What is committed is waiting, in hand, or gone; a run is left behind by a
\* failure only, and never one of the drained service.
RowsCounted ==
    /\ \A s \in Service : rows[s] + run[s].took + budget <= MaxRows
    /\ \A s \in Service : stray[s] <= faults
    /\ stray[Drained] = 0

\* Flights begin with the start and are all over when close returns; nothing
\* is pending once it was called.
PhaseAgrees ==
    /\ phase = "new" => \A w \in RuntimeWorker : flight[w] = "none"
    /\ Closing => \A w \in RuntimeWorker : ~pending[w]
    /\ phase = "closed" => \A w \in RuntimeWorker : flight[w] = "none"

\* NoLostWake with other requests still on their way to their wakes.
WakeServed ==
    Accepting /\ faults = 0 /\ ServedBy(Drained) \notin owed /\ rows[Drained] > 0 =>
        LET w == ServedBy(Drained) IN
        \/ run[Drained].at = "called" \/ run[Drained].took = Batch
        \/ pending[w] /\ (flight[w] # "none" \/ queued[w])

IInv ==
    /\ RuntimeTypeOK /\ RunsFollowFlights /\ RowsCounted /\ PhaseAgrees
    /\ WakeServed

-----------------------------------------------------------------------------
(* The parameters.                                                         *)

\* Each service belongs to exactly one worker.
LEMMA ServedByOne ==
    /\ \A s \in Service : ServedBy(s) \in RuntimeWorker /\ s \in Serves(ServedBy(s))
    /\ \A w \in RuntimeWorker : \A s \in Serves(w) : s \in Service /\ ServedBy(s) = w
<1>1. ASSUME NEW s \in Service PROVE \E w \in RuntimeWorker : s \in Serves(w)
  BY RuntimeParameters
<1>2. ASSUME NEW s \in Service
      PROVE  ServedBy(s) \in RuntimeWorker /\ s \in Serves(ServedBy(s))
  BY <1>1 DEF ServedBy
<1>3. ASSUME NEW w \in RuntimeWorker, NEW s \in Serves(w)
      PROVE  s \in Service /\ ServedBy(s) = w
  <2>1. s \in Service
    BY RuntimeParameters
  <2>2. QED BY <2>1, <1>2, RuntimeParameters
<1>4. QED BY <1>2, <1>3

\* The deletion worker runs nothing but the reaper.
LEMMA DrainedAlone ==
    /\ Drained \in Service
    /\ Serves(ServedBy(Drained)) = {Drained}
    /\ \A s \in Service : ServedBy(s) = ServedBy(Drained) => s = Drained
<1>1. PICK w \in RuntimeWorker : Serves(w) = {Drained}
  BY RuntimeParameters
<1>2. Drained \in Service /\ ServedBy(Drained) = w
  BY <1>1, ServedByOne
<1>3. QED BY <1>1, <1>2, ServedByOne

\* A batch is what there is, or full.
LEMMA BatchTaken ==
    ASSUME NEW n \in Nat
    PROVE  Min({Batch, n}) \in 0 .. n /\ Min({Batch, n}) <= Batch
           /\ (Min({Batch, n}) = n \/ Min({Batch, n}) = Batch)
<1>1. Batch \in Nat
  BY RuntimeParameters
<1>2. \E x \in {Batch, n} : \A y \in {Batch, n} : x <= y
  BY <1>1
<1>3. Min({Batch, n}) \in {Batch, n} /\ \A y \in {Batch, n} : Min({Batch, n}) <= y
  BY <1>2 DEF Min
<1>4. QED BY <1>1, <1>3

-----------------------------------------------------------------------------
(* The inductive invariant.                                                *)

LEMMA InvInitially == RuntimeInit => IInv
<1>. USE RuntimeParameters, ServedByOne, DrainedAlone DEF RuntimeInit
<1>1. RuntimeInit => RuntimeTypeOK
  BY DEF RuntimeTypeOK, NotRunning
<1>2. RuntimeInit => RunsFollowFlights
  BY DEF RunsFollowFlights, NotRunning
<1>3. RuntimeInit => RowsCounted
  BY DEF RowsCounted, NotRunning
<1>4. RuntimeInit => PhaseAgrees /\ WakeServed
  BY DEF PhaseAgrees, WakeServed, Accepting, Closing
<1>5. QED BY <1>1, <1>2, <1>3, <1>4 DEF IInv

\* Joining or starting flights leaves no run behind, and gives every worker
\* asked for a pass that has not claimed yet, or a pending one.
LEMMA EnsureEffect ==
    ASSUME IInv, NEW W \in SUBSET RuntimeWorker, Ensure(W)
    PROVE  /\ pending' \in [RuntimeWorker -> BOOLEAN]
           /\ flight' \in [RuntimeWorker -> {"none", "passing", "ending"}]
           /\ run' \in [Service -> [at : {"idle", "called", "claimed"},
                                    took : 0 .. Batch]]
           /\ stray' = stray
           /\ RunsFollowFlights'
           /\ \A s \in Service : run'[s].took <= run[s].took
           /\ \A w \in RuntimeWorker : w \notin W => pending'[w] = pending[w]
                                              /\ flight'[w] = flight[w]
           /\ \A s \in Service : ServedBy(s) \notin W => run'[s] = run[s]
           /\ \A w \in W : flight'[w] # "none"
           /\ \A s \in Service : ServedBy(s) \in W =>
                 pending'[ServedBy(s)] \/ run'[s].at = "called"
<1>. DEFINE idle == {w \in W : flight[w] = "none"}
<1>. USE ServedByOne, RuntimeParameters DEF IInv, RuntimeTypeOK
<1>1. /\ pending' = [w \in RuntimeWorker |-> IF w \in W THEN w \notin idle ELSE pending[w]]
      /\ flight' = [w \in RuntimeWorker |-> IF w \in idle THEN "passing" ELSE flight[w]]
  BY DEF Ensure
<1>2. run' = [s \in Service |-> IF ServedBy(s) \in idle
                                THEN [at |-> "called", took |-> 0] ELSE run[s]]
  BY DEF Ensure, CallServices, NotRunning
<1>3. \A s \in Service : ServedBy(s) \in idle => ~Busy(s)
  BY DEF RunsFollowFlights, Busy
<1>4. stray' = stray
  <2>1. stray' = [s \in Service |->
                    IF s \in UNION {Serves(w) : w \in idle} /\ Busy(s)
                    THEN stray[s] + 1 ELSE stray[s]]
    BY DEF Ensure, LeaveBehind
  <2>2. \A s \in UNION {Serves(w) : w \in idle} : ServedBy(s) \in idle
    OBVIOUS
  <2>3. QED BY <2>1, <2>2, <1>3
<1>5. run' \in [Service -> [at : {"idle", "called", "claimed"}, took : 0 .. Batch]]
  BY <1>2
<1>6. RunsFollowFlights'
  BY <1>1, <1>2 DEF RunsFollowFlights
<1>7. \A s \in Service : run'[s].took <= run[s].took
  BY <1>2, <1>5
<1>8. \A s \in Service : ServedBy(s) \in W =>
          pending'[ServedBy(s)] \/ run'[s].at = "called"
  BY <1>1, <1>2
<1>9. QED BY <1>1, <1>2, <1>4, <1>5, <1>6, <1>7, <1>8

\* A failed pass leaves behind only services of the same worker.
LEMMA FailureEffect ==
    ASSUME IInv, NEW s \in Service, PassFails(s)
    PROVE  /\ run' \in [Service -> [at : {"idle", "called", "claimed"},
                                    took : 0 .. Batch]]
           /\ \A t \in Service : run'[t].took <= run[t].took
           /\ run'[s].took = 0
           /\ RunsFollowFlights'
           /\ stray' \in [Service -> Nat]
           /\ \A t \in Service : stray'[t] <= stray[t] + 1
           /\ stray'[Drained] = stray[Drained]
<1>. DEFINE w == ServedBy(s)
<1>. USE ServedByOne, RuntimeParameters DEF IInv, RuntimeTypeOK
<1>1. /\ flight' = [flight EXCEPT ![w] = "ending"]
      /\ run' = [t \in Service |-> IF t \in Serves(w) THEN NotRunning ELSE run[t]]
      /\ LeaveBehind(Serves(w) \ {s})
  BY DEF PassFails
<1>2. run' \in [Service -> [at : {"idle", "called", "claimed"}, took : 0 .. Batch]]
  BY <1>1 DEF NotRunning
<1>3. \A t \in Service : run'[t].took <= run[t].took
  BY <1>1, <1>2 DEF NotRunning
<1>4. RunsFollowFlights'
  BY <1>1 DEF RunsFollowFlights, NotRunning
<1>5. stray' \in [Service -> Nat] /\ \A t \in Service : stray'[t] <= stray[t] + 1
  BY <1>1 DEF LeaveBehind
<1>6. Drained \notin Serves(w) \ {s}
  BY DrainedAlone
<1>7. stray'[Drained] = stray[Drained]
  BY <1>1, <1>6, DrainedAlone DEF LeaveBehind
<1>8. QED BY <1>1, <1>2, <1>3, <1>4, <1>5, <1>7 DEF NotRunning

\* Every turn of the event loop, request, tick of the schedule and failure
\* keeps the invariant.
LEMMA InvStep ==
    ASSUME IInv, [RuntimeNext]_runtimeVars
    PROVE  IInv'
<1>. USE ServedByOne, DrainedAlone, RuntimeParameters DEF Accepting, Closing
<1>. USE DEF IInv, RuntimeTypeOK
<1>1. ASSUME NEW s \in Service, ClaimRows(s), UNCHANGED faults PROVE IInv'
  <2>1. PICK n \in 0 .. rows[s] :
           /\ run' = [run EXCEPT ![s] = [at |-> "claimed", took |-> n]]
           /\ rows' = [rows EXCEPT ![s] = @ - n]
           /\ n <= Batch
           /\ ~Closing => n = rows[s] \/ n = Batch
    <3>1. rows[s] \in Nat
      OBVIOUS
    <3>2. DEFINE least == Min({Batch, rows[s]})
    <3>3. least \in 0 .. rows[s] /\ least <= Batch /\ (least = rows[s] \/ least = Batch)
      BY <3>1, BatchTaken
    <3>4. PICK n \in {least} \cup (IF Closing THEN {0} ELSE {}) :
             /\ run' = [run EXCEPT ![s] = [at |-> "claimed", took |-> n]]
             /\ rows' = [rows EXCEPT ![s] = @ - n]
      BY <1>1 DEF ClaimRows
    <3>5. n \in 0 .. rows[s] /\ n <= Batch /\ (~Closing => n = rows[s] \/ n = Batch)
      BY <3>1, <3>3, <3>4
    <3>6. QED BY <3>4, <3>5
  <2>2. run[s].at = "called" /\ run[s].took = 0
    BY <1>1 DEF ClaimRows, RunsFollowFlights
  <2>3. UNCHANGED <<phase, pending, flight, queued, stray, budget, owed, faults>>
    BY <1>1 DEF ClaimRows
  <2>4. RuntimeTypeOK'
    BY <2>1, <2>3
  <2>5. RunsFollowFlights'
    BY <2>1, <2>2, <2>3 DEF RunsFollowFlights
  <2>6. RowsCounted'
    BY <2>1, <2>2, <2>3 DEF RowsCounted
  <2>7. PhaseAgrees'
    BY <2>3 DEF PhaseAgrees
  <2>8. WakeServed'
    BY <2>1, <2>2, <2>3 DEF WakeServed
  <2>9. QED BY <2>4, <2>5, <2>6, <2>7, <2>8
<1>2. ASSUME NEW s \in Service, StrayEnds(s), UNCHANGED faults PROVE IInv'
  BY <1>2 DEF StrayEnds, RunsFollowFlights, RowsCounted, PhaseAgrees, WakeServed
<1>3. ASSUME NEW w \in RuntimeWorker, EndPass(w), UNCHANGED faults PROVE IInv'
  <2>1. /\ flight[w] = "passing" /\ \A s \in Serves(w) : run[s].at = "claimed"
        /\ UNCHANGED <<phase, queued, rows, budget, owed, faults>>
    BY <1>3 DEF EndPass
  <2>2. CASE ~Closing /\ (pending[w] \/ (w = ServedBy(Drained)
                                         /\ run[Drained].took = Batch))
    <3>1. /\ pending' = [pending EXCEPT ![w] = FALSE]
          /\ run' = [s \in Service |-> IF ServedBy(s) = w
                                       THEN [at |-> "called", took |-> 0] ELSE run[s]]
          /\ UNCHANGED <<flight, stray>>
      BY <1>3, <2>2 DEF EndPass, CallServices, NotRunning
    <3>2. RuntimeTypeOK' /\ RunsFollowFlights' /\ PhaseAgrees'
      BY <2>1, <2>2, <3>1 DEF RunsFollowFlights, PhaseAgrees
    <3>3. RowsCounted'
      BY <2>1, <3>1 DEF RowsCounted
    <3>4. WakeServed'
      BY <2>1, <3>1 DEF WakeServed
    <3>5. QED BY <3>2, <3>3, <3>4
  <2>3. CASE ~(~Closing /\ (pending[w] \/ (w = ServedBy(Drained)
                                           /\ run[Drained].took = Batch)))
    <3>1. /\ flight' = [flight EXCEPT ![w] = "ending"]
          /\ run' = [s \in Service |-> IF ServedBy(s) = w
                                       THEN [at |-> "idle", took |-> 0] ELSE run[s]]
          /\ UNCHANGED <<pending, stray>>
      BY <1>3, <2>3 DEF EndPass, NotRunning
    <3>2. RuntimeTypeOK' /\ RunsFollowFlights'
      BY <2>1, <3>1 DEF RunsFollowFlights
    <3>3. RowsCounted'
      BY <2>1, <3>1 DEF RowsCounted
    <3>4. PhaseAgrees' /\ WakeServed'
      BY <2>1, <2>3, <3>1 DEF PhaseAgrees, WakeServed
    <3>5. QED BY <3>2, <3>3, <3>4
  <2>4. QED BY <2>2, <2>3
<1>4. ASSUME NEW w \in RuntimeWorker, Settle(w), UNCHANGED faults PROVE IInv'
  <2>1. RuntimeTypeOK' /\ RunsFollowFlights' /\ RowsCounted'
    BY <1>4 DEF Settle, RunsFollowFlights, RowsCounted
  <2>2. PhaseAgrees'
    BY <1>4 DEF Settle, PhaseAgrees
  <2>3. WakeServed'
    BY <1>4 DEF Settle, WakeServed, RunsFollowFlights
  <2>4. QED BY <2>1, <2>2, <2>3
<1>5. ASSUME NEW W \in SUBSET RuntimeWorker, phase' = "started", Ensure(W),
             phase \in {"new", "started"},
             phase = "new" => W = RuntimeWorker,
             \A w \in RuntimeWorker : queued'[w] # queued[w] => w \in W,
             queued' \in [RuntimeWorker -> BOOLEAN],
             UNCHANGED <<rows, budget, owed, faults>>
      PROVE  IInv'
  <2>1. RuntimeTypeOK' /\ RunsFollowFlights'
    BY <1>5, EnsureEffect
  <2>2. RowsCounted'
    <3>1. stray' = stray /\ \A s \in Service :
             run'[s].took \in Nat /\ run'[s].took <= run[s].took
      BY <1>5, EnsureEffect
    <3>2. \A s \in Service : rows[s] \in Nat /\ run[s].took \in Nat
      OBVIOUS
    <3>3. budget \in Nat
      OBVIOUS
    <3>4. ASSUME NEW s \in Service PROVE rows[s] + run'[s].took + budget <= MaxRows
      BY <3>1, <3>2, <3>3 DEF RowsCounted
    <3>5. QED BY <1>5, <3>1, <3>4 DEF RowsCounted
  <2>3. PhaseAgrees'
    BY <1>5 DEF PhaseAgrees
  <2>4. WakeServed'
    BY <1>5, EnsureEffect DEF WakeServed
  <2>5. QED BY <2>1, <2>2, <2>3, <2>4
<1>6. ASSUME NEW w \in RuntimeWorker, Microtask(w), UNCHANGED faults PROVE IInv'
  <2>1. CASE Accepting /\ pending[w]
    <3>1. {w} \in SUBSET RuntimeWorker /\ Ensure({w}) /\ phase' = "started"
      BY <1>6, <2>1 DEF Microtask
    <3>2. queued' \in [RuntimeWorker -> BOOLEAN]
          /\ \A v \in RuntimeWorker : queued'[v] # queued[v] => v \in {w}
      BY <1>6, ZenonT(40) DEF Microtask
    <3>3. UNCHANGED <<rows, budget, owed, faults>>
      BY <1>6 DEF Microtask
    <3>4. QED BY <2>1, <3>1, <3>2, <3>3, <1>5
  <2>2. CASE ~(Accepting /\ pending[w])
    BY <1>6, <2>2 DEF Microtask, RunsFollowFlights, RowsCounted, PhaseAgrees,
       WakeServed
  <2>3. QED BY <2>1, <2>2
<1>7. CASE CloseReturns /\ UNCHANGED faults
  BY <1>7 DEF CloseReturns, RunsFollowFlights, RowsCounted, PhaseAgrees, WakeServed
<1>8. CASE Start /\ UNCHANGED faults
  BY <1>8, <1>5 DEF Start
<1>9. CASE Recover /\ UNCHANGED faults
  BY <1>9, <1>5 DEF Recover
<1>10. CASE CloseRuntime /\ UNCHANGED faults
  BY <1>10 DEF CloseRuntime, RunsFollowFlights, RowsCounted, PhaseAgrees, WakeServed
<1>11. ASSUME NEW s \in Service, Commit(s), UNCHANGED faults PROVE IInv'
  <2>1. RuntimeTypeOK' /\ RowsCounted'
    BY <1>11 DEF Commit, RowsCounted
  <2>2. RunsFollowFlights' /\ PhaseAgrees'
    BY <1>11 DEF Commit, RunsFollowFlights, PhaseAgrees
  <2>3. WakeServed'
    BY <1>11 DEF Commit, WakeServed
  <2>4. QED BY <2>1, <2>2, <2>3
<1>12. ASSUME NEW W, Wake(W), UNCHANGED faults PROVE IInv'
  <2>1. /\ owed' = owed \ W
        /\ UNCHANGED <<phase, flight, run, stray, rows, budget, faults>>
    BY <1>12 DEF Wake
  <2>2. CASE Closing
    BY <1>12, <2>1, <2>2 DEF Wake, RunsFollowFlights, RowsCounted, PhaseAgrees,
       WakeServed
  <2>3. CASE ~Closing
    <3>1. /\ pending' = [w \in RuntimeWorker |-> w \in W \/ pending[w]]
          /\ queued' = [w \in RuntimeWorker |-> (w \in W /\ Accepting) \/ queued[w]]
      BY <1>12, <2>3 DEF Wake
    <3>2. pending' \in [RuntimeWorker -> BOOLEAN] /\ queued' \in [RuntimeWorker -> BOOLEAN]
      BY <3>1
    <3>3. RuntimeTypeOK' /\ RunsFollowFlights' /\ RowsCounted' /\ PhaseAgrees'
      BY <2>1, <2>3, <3>2 DEF RunsFollowFlights, RowsCounted, PhaseAgrees
    <3>4. WakeServed'
      <4>1. DEFINE d == ServedBy(Drained)
      <4>2. CASE d \in W
        BY <2>1, <3>1, <4>2 DEF WakeServed
      <4>3. CASE d \notin W
        BY <2>1, <3>1, <4>3 DEF WakeServed
      <4>4. QED BY <4>2, <4>3
    <3>5. QED BY <3>3, <3>4
  <2>4. QED BY <2>2, <2>3
<1>13. CASE ForgetWake /\ faults' = faults + 1 /\ faults < MaxFaults
  BY <1>13 DEF ForgetWake, RunsFollowFlights, RowsCounted, PhaseAgrees, WakeServed
<1>14. ASSUME NEW s \in Service, PassFails(s), faults' = faults + 1,
              faults < MaxFaults
       PROVE  IInv'
  <2>1. /\ flight' = [flight EXCEPT ![ServedBy(s)] = "ending"]
        /\ rows' = [rows EXCEPT ![s] = @ + run[s].took]
        /\ UNCHANGED <<phase, pending, queued, budget, owed>>
    BY <1>14 DEF PassFails
  <2>2. RowsCounted'
    BY <1>14, <2>1, FailureEffect DEF RowsCounted
  <2>3. RuntimeTypeOK'
    BY <1>14, <2>1, <2>2, FailureEffect DEF RowsCounted
  <2>4. flight[ServedBy(s)] = "passing"
    BY <1>14 DEF PassFails, Busy, RunsFollowFlights
  <2>5. PhaseAgrees' /\ WakeServed'
    BY <1>14, <2>1, <2>4 DEF PhaseAgrees, WakeServed
  <2>6. QED BY <1>14, <2>2, <2>3, <2>5, FailureEffect
<1>15. CASE UNCHANGED runtimeVars
  BY <1>15 DEF runtimeVars, RunsFollowFlights, RowsCounted, PhaseAgrees, WakeServed
<1>16. ASSUME Step, UNCHANGED faults PROVE IInv'
  BY <1>16, <1>1, <1>2, <1>3, <1>4, <1>6, <1>7, <1>8, <1>9, <1>10, <1>11, <1>12
     DEF Step, Turn
<1>17. ASSUME Fault, faults' = faults + 1, faults < MaxFaults PROVE IInv'
  BY <1>17, <1>13, <1>14 DEF Fault
<1>18. QED BY <1>15, <1>16, <1>17 DEF RuntimeNext

LEMMA InvAlways == RuntimeSpec => []IInv
BY InvInitially, InvStep, PTL DEF RuntimeSpec

\* Every variable of the runtime keeps its type, and its bounds hold.
THEOREM RuntimeTypeCorrect == RuntimeSpec => []RuntimeTypeOK
<1>1. IInv => RuntimeTypeOK
  BY DEF IInv
<1>2. QED BY InvAlways, <1>1, PTL

\* A row whose wake was called never waits for the schedule.
THEOREM NoWakeIsLost == RuntimeSpec => []NoLostWake
<1>1. IInv => NoLostWake
  BY DEF IInv, WakeServed, NoLostWake
<1>2. QED BY InvAlways, <1>1, PTL

\* The reaper never runs twice at once, and without failures no service does.
THEOREM OneFlight == RuntimeSpec => []SingleFlight
<1>1. IInv => SingleFlight
  BY RuntimeParameters DEF IInv, RowsCounted, RuntimeTypeOK, SingleFlight
<1>2. QED BY InvAlways, <1>1, PTL

\* After close has returned no flight is left and none can start.
THEOREM QuietAfterClose == RuntimeSpec => []ClosedIsQuiet
<1>1. IInv => ClosedIsQuiet
  <2>1. SUFFICES ASSUME IInv, phase = "closed", NEW s \in Service
                 PROVE  run[s] = NotRunning /\ ~pending[ServedBy(s)]
    BY DEF ClosedIsQuiet
  <2>2. run[s].at = "idle" /\ run[s].took = 0 /\ ~pending[ServedBy(s)]
    BY <2>1, ServedByOne DEF IInv, PhaseAgrees, RunsFollowFlights, Closing
  <2>3. QED BY <2>1, <2>2 DEF IInv, RuntimeTypeOK, NotRunning
<1>2. QED BY InvAlways, <1>1, PTL

-----------------------------------------------------------------------------
(* The process the runtime lives in: ServerLifecycle.                      *)

\* How far the start is tells what the resources and Fastify can be.
StartAgrees ==
    /\ startup = "none" => /\ starter.at = "none" /\ app = "built" /\ ~signals
                           /\ stopping = NotStopping
    /\ starter.at = "running" => starter.n <= Last
    /\ startup \in {"listening", "up"} \/ app = "open" \/ inFlight > 0 =>
          starter.at = "done"
    /\ ~ShutdownAsked /\ startup \in {"starting", "listening"} => app = "built"
    /\ ~ShutdownAsked /\ startup = "up" => app = "open"
    /\ app \in {"built", "hooks", "closed"} => inFlight = 0

\* Who asked for the close of the context, and what shutdown() has seen of it.
CloseAgrees ==
    /\ CloseAsked => starter.at = "failed" \/ app \in {"hooks", "closed"} \/ stopping.late
    /\ closer.at = "closing" => closer.n > 0
    /\ ~ShutdownAsked => stopping = NotStopping
    /\ stopping.at \in {"context", "over"} /\ ~stopping.failed => app = "closed"
    /\ mode = "ready" => startup = "up" /\ ~ShutdownAsked

\* OrderlyServer with what makes it inductive.
ServerInv == ServerTypeOK /\ StartAgrees /\ CloseAgrees /\ ClosedInOrder

\* What a reader of the mode and of the exit code may rely on.
LEMMA ServerReady == ServerInv => OrderlyServer
BY DEF ServerInv, ServerTypeOK, StartAgrees, CloseAgrees, OrderlyServer,
   ReadyIsServing, NotStopping, ShutdownAsked

\* A process that has not begun.
LEMMA ServerInvInit == ServerInit => ServerInv
<1> SUFFICES ASSUME ServerInit PROVE ServerInv
  OBVIOUS
<1> USE ServerParameters DEF ServerInit, NotStopping, ShutdownAsked, CloseAsked
<1>1. ServerTypeOK
  <2>1. stopping \in [at : {"none", "draining", "app", "context", "over"},
                     drained : BOOLEAN, failed : BOOLEAN, late : BOOLEAN]
    OBVIOUS
  <2>2. closer \in [at : {"none", "waiting", "closing", "ended"}, n : 0 .. Last,
                   failed : BOOLEAN]
    OBVIOUS
  <2>3. starter \in [at : {"none", "running", "done", "failed"}, n : 0 .. Last + 1]
        /\ inFlight \in 0 .. MaxRequests
    OBVIOUS
  <2>4. appFailed \in BOOLEAN /\ signals \in BOOLEAN
    OBVIOUS
  <2>5. QED BY ONLY <2>1, <2>2, <2>3, <2>4, ServerInit DEF ServerInit, ServerTypeOK
<1>2. StartAgrees
  BY DEF StartAgrees
<1>3. CloseAgrees
  BY DEF CloseAgrees
<1>4. ClosedInOrder
  BY DEF ClosedInOrder
<1>5. QED
  BY <1>1, <1>2, <1>3, <1>4 DEF ServerInv

\* No turn of the event loop disturbs the invariant.
LEMMA ServerInvNext == ServerInv /\ [ServerNext]_serverVars => ServerInv'
<1> SUFFICES ASSUME ServerInv, [ServerNext]_serverVars PROVE ServerInv'
  OBVIOUS
<1> USE ServerParameters DEF ServerInv, ServerTypeOK, StartAgrees, CloseAgrees,
      ClosedInOrder, ShutdownAsked, CloseAsked, NotStopping
<1>1. CASE Begin
  BY <1>1 DEF Begin, StartNext
<1>2. CASE ContextStarted
  BY <1>2 DEF ContextStarted
<1>3. CASE ContextFailed
  <2>1. ServerTypeOK'
    <3>1. CASE ShutdownAsked
      BY <1>3, <3>1 DEF ContextFailed, Abandon, CloseApp
    <3>2. CASE ~ShutdownAsked
      BY <1>3, <3>2 DEF ContextFailed, Abandon, CloseApp
    <3>3. QED BY <3>1, <3>2
  <2>2. StartAgrees'
    BY <1>3 DEF ContextFailed, Abandon, CloseApp
  <2>3. CloseAgrees'
    BY <1>3 DEF ContextFailed, Abandon, CloseApp
  <2>4. ClosedInOrder'
    BY <1>3 DEF ContextFailed, Abandon, CloseApp
  <2>5. QED BY <2>1, <2>2, <2>3, <2>4
<1>4. CASE Listens
  BY <1>4 DEF Listens, SetState, LifecycleClosed
<1>5. CASE ListenFails
  <2>1. ServerTypeOK'
    <3>1. CASE ShutdownAsked
      BY <1>5, <3>1 DEF ListenFails, Abandon, CloseApp
    <3>2. CASE ~ShutdownAsked
      BY <1>5, <3>2 DEF ListenFails, Abandon, CloseApp
    <3>3. QED BY <3>1, <3>2
  <2>2. StartAgrees'
    BY <1>5 DEF ListenFails, Abandon, CloseApp
  <2>3. CloseAgrees'
    BY <1>5 DEF ListenFails, Abandon, CloseApp
  <2>4. ClosedInOrder'
    BY <1>5 DEF ListenFails, Abandon, CloseApp
  <2>5. QED BY <2>1, <2>2, <2>3, <2>4
<1>6. CASE StartReturns
  BY <1>6 DEF StartReturns
<1>7. CASE StartRejects
  BY <1>7 DEF StartRejects
<1>8. CASE ResourceStarts
  BY <1>8 DEF ResourceStarts, StartNext
<1>9. CASE ResourceFails
  BY <1>9 DEF ResourceFails, CloseContext
<1>10. CASE StartAwaited
  <2>1. ServerTypeOK'
    BY <1>10 DEF StartAwaited, CloseAt
  <2>2. StartAgrees'
    BY <1>10 DEF StartAwaited, CloseAt
  <2>3. CloseAgrees'
    BY <1>10 DEF StartAwaited, CloseAt
  <2>4. ClosedInOrder'
    BY <1>10 DEF StartAwaited, CloseAt
  <2>5. QED BY <2>1, <2>2, <2>3, <2>4
<1>11. CASE ResourceCloses
  BY <1>11 DEF ResourceCloses, CloseAt
<1>12. CASE AppDrained
  BY <1>12 DEF AppDrained, CloseContext
<1>13. CASE AppCloses
  <2>1. ServerTypeOK'
    <3>1. appFailed' \in BOOLEAN
      BY <1>13 DEF AppCloses
    <3>2. QED BY <1>13, <3>1 DEF AppCloses
  <2>2. StartAgrees'
    BY <1>13 DEF AppCloses
  <2>3. CloseAgrees'
    BY <1>13 DEF AppCloses
  <2>4. ClosedInOrder'
    BY <1>13 DEF AppCloses
  <2>5. QED BY <2>1, <2>2, <2>3, <2>4
<1>14. CASE RequestStarts
  BY <1>14 DEF RequestStarts
<1>15. CASE RequestEnds
  BY <1>15 DEF RequestEnds
<1>16. CASE Signal
  <2>1. ServerTypeOK'
    BY <1>16, ZenonT(40) DEF Signal, SetState, LifecycleClosed
  <2>2. StartAgrees'
    BY <1>16 DEF Signal, SetState, LifecycleClosed
  <2>3. CloseAgrees'
    BY <1>16 DEF Signal, SetState, LifecycleClosed
  <2>4. ClosedInOrder'
    BY <1>16 DEF Signal, SetState, LifecycleClosed
  <2>5. QED BY <2>1, <2>2, <2>3, <2>4
<1>17. CASE DeadlinePasses
  <2>1. ServerTypeOK'
    <3>1. stopping' \in [at : {"none", "draining", "app", "context", "over"},
                      drained : BOOLEAN, failed : BOOLEAN, late : BOOLEAN]
      BY <1>17 DEF DeadlinePasses
    <3>2. QED BY <1>17, <3>1 DEF DeadlinePasses
  <2>2. StartAgrees'
    BY <1>17 DEF DeadlinePasses
  <2>3. CloseAgrees'
    BY <1>17 DEF DeadlinePasses
  <2>4. ClosedInOrder'
    BY <1>17 DEF DeadlinePasses
  <2>5. QED BY <2>1, <2>2, <2>3, <2>4
<1>18. CASE EndDrain
  <2>1. ServerTypeOK'
    <3>1. stopping' \in [at : {"none", "draining", "app", "context", "over"},
                      drained : BOOLEAN, failed : BOOLEAN, late : BOOLEAN]
      BY <1>18 DEF EndDrain
    <3>2. QED BY <1>18, <3>1 DEF EndDrain, CloseApp, SetState, LifecycleClosed
  <2>2. StartAgrees'
    BY <1>18 DEF EndDrain, CloseApp, SetState, LifecycleClosed
  <2>3. CloseAgrees'
    BY <1>18 DEF EndDrain, CloseApp, SetState, LifecycleClosed
  <2>4. ClosedInOrder'
    BY <1>18 DEF EndDrain, CloseApp, SetState, LifecycleClosed
  <2>5. QED BY <2>1, <2>2, <2>3, <2>4
<1>19. CASE AppAwaited
  <2>1. ServerTypeOK'
    <3>1. stopping' \in [at : {"none", "draining", "app", "context", "over"},
                      drained : BOOLEAN, failed : BOOLEAN, late : BOOLEAN]
      BY <1>19 DEF AppAwaited, ThenCloseContext
    <3>2. closer' \in [at : {"none", "waiting", "closing", "ended"}, n : 0 .. Last,
                      failed : BOOLEAN]
      BY <1>19 DEF AppAwaited, ThenCloseContext, CloseContext
    <3>3. QED BY <1>19, <3>1, <3>2 DEF AppAwaited, ThenCloseContext
  <2>2. StartAgrees'
    BY <1>19 DEF AppAwaited, ThenCloseContext, CloseContext
  <2>3. CloseAgrees'
    BY <1>19 DEF AppAwaited, ThenCloseContext, CloseContext
  <2>4. ClosedInOrder'
    BY <1>19 DEF AppAwaited, ThenCloseContext, CloseContext
  <2>5. QED BY <2>1, <2>2, <2>3, <2>4
<1>20. CASE ContextAwaited
  BY <1>20 DEF ContextAwaited
<1>21. CASE UNCHANGED serverVars
  BY <1>21 DEF serverVars
<1>22. QED
  BY <1>1, <1>2, <1>3, <1>4, <1>5, <1>6, <1>7, <1>8, <1>9, <1>10, <1>11, <1>12, <1>13,
     <1>14, <1>15, <1>16, <1>17, <1>18, <1>19, <1>20, <1>21 DEF ServerNext, ServerStep
LEMMA ServerInvAlways == ServerSpec => []ServerInv
BY ServerInvInit, ServerInvNext, PTL DEF ServerSpec

\* Every variable of the process keeps its type.
THEOREM ServerTypeCorrect == ServerSpec => []ServerTypeOK
<1>1. ServerInv => ServerTypeOK
  BY DEF ServerInv
<1>2. QED BY ServerInvAlways, <1>1, PTL

\* Wherever a signal meets start(), what is reported ready serves, and nothing
\* is closed under a request or a start that still has its time.
THEOREM ServerAlwaysOrderly == ServerSpec => []OrderlyServer
BY ServerInvAlways, ServerReady, PTL

-----------------------------------------------------------------------------
(***************************************************************************)
(* The WebGL worker.  The invariant ties each build to its session: a      *)
(* prefix is up for deletion only once the session of the build is over,   *)
(* so that a pass about to commit, whose session is not, still has every   *)
(* piece it saw.                                                           *)
(***************************************************************************)
Any == Build \cup {Change}

\* A deployment or a READY source belongs to a session that got that far.
SessionsFirst ==
    \A b \in Any :
        /\ deployment[b].state # "NONE" => upload[b].state # "NONE"
        /\ upload[b].source = "READY" => upload[b].state = "READY"

\* A prefix that is up for deletion has a session that is over.
PrefixesOver == \A b \in prefixes : upload[b].state \notin {"NONE", "VERIFYING"}

\* A pass about to commit has all pieces in storage, while it may commit.
ManifestHolds ==
    \A c \in Checker :
        /\ checker[c].at # "idle" =>
              checker[c].build \in Build /\ upload[checker[c].build].state # "NONE"
        /\ checker[c].at = "committing" /\ upload[checker[c].build].state = "VERIFYING"
              => {checker[c].build} \X Piece \subseteq pieces

\* The build of the change can be served as long as it may be applied.
ChangeServable ==
    /\ upload[Change].state = "READY"
    /\ change = "pending" =>
          /\ deployment[Change].state = "READY" /\ upload[Change].source = "READY"
          /\ {Change} \X Piece \subseteq pieces /\ Change \notin prefixes

WebglInv ==
    /\ WebglTypeOK /\ SessionsFirst /\ PrefixesOver /\ ManifestHolds
    /\ ChangeServable /\ RejectedNeverServed /\ CurrentServed

-----------------------------------------------------------------------------
LEMMA Blanks ==
    NoUpload \in UploadState /\ NoDeployment \in DeploymentState /\ NoCheck \in CheckState
BY WebglNames DEF NoUpload, NoDeployment, NoCheck, UploadState, DeploymentState, CheckState

LEMMA WebglInitially == WebglInit => WebglInv
<1> SUFFICES ASSUME WebglInit PROVE WebglInv
  OBVIOUS
<1>1. [NoUpload EXCEPT !.state = "READY", !.source = "READY"] \in UploadState
  BY Blanks DEF NoUpload, UploadState
<1>2. [NoDeployment EXCEPT !.state = "READY"] \in DeploymentState
  BY Blanks DEF NoDeployment, DeploymentState
<1>3. WebglTypeOK
  BY <1>1, <1>2, Blanks, WebglNames DEF WebglInit, WebglTypeOK
<1>4. /\ \A b \in Build : upload[b] = NoUpload /\ deployment[b] = NoDeployment
      /\ upload[Change].state = "READY" /\ upload[Change].source = "READY"
      /\ deployment[Change].state = "READY"
  BY WebglNames DEF WebglInit, NoUpload, NoDeployment
<1>5. SessionsFirst /\ RejectedNeverServed
  BY <1>4 DEF SessionsFirst, RejectedNeverServed, Any, NoUpload, NoDeployment
<1>6. PrefixesOver /\ ManifestHolds /\ CurrentServed
  BY DEF WebglInit, PrefixesOver, ManifestHolds, CurrentServed, NoCheck
<1>7. ChangeServable
  BY <1>4 DEF WebglInit, ChangeServable
<1>8. QED BY <1>3, <1>5, <1>6, <1>7 DEF WebglInv

-----------------------------------------------------------------------------
(* Steps of a pass.                                                        *)

LEMMA CheckerBusy ==
    ASSUME WebglInv, NEW c \in Checker, checker[c].at # "idle"
    PROVE  /\ checker[c].build \in Build /\ checker[c].build \in Any
           /\ checker[c] \in CheckState
           /\ upload[checker[c].build].state # "NONE"
BY DEF WebglInv, ManifestHolds, WebglTypeOK, Any

\* A pass moves on to the state s, and nothing is lost from storage.
LEMMA CheckerMoves ==
    ASSUME WebglInv, NEW c \in Checker, NEW s \in CheckState,
           checker' = [checker EXCEPT ![c] = s],
           UNCHANGED upload, pieces \subseteq pieces',
           s.at # "idle" => s.build \in Build /\ upload[s.build].state # "NONE",
           s.at = "committing" => {s.build} \X Piece \subseteq pieces
    PROVE  checker' \in [Checker -> CheckState] /\ ManifestHolds'
BY DEF WebglInv, WebglTypeOK, ManifestHolds

LEMMA CheckerGoesTo ==
    ASSUME WebglInv, NEW c \in Checker, checker[c].at # "idle",
           NEW l \in {"uploading", "fenced", "committing"}, CheckerTo(c, l),
           UNCHANGED upload, pieces \subseteq pieces',
           l = "committing" => {checker[c].build} \X Piece \subseteq pieces
    PROVE  checker' \in [Checker -> CheckState] /\ ManifestHolds'
<1> DEFINE s == [checker[c] EXCEPT !.at = l]
<1>1. s \in CheckState /\ s.at = l /\ s.build = checker[c].build
  BY CheckerBusy DEF CheckState
<1>2. checker' = [checker EXCEPT ![c] = s]
  BY DEF CheckerTo
<1> HIDE DEF s
<1>3. QED BY <1>1, <1>2, CheckerBusy, CheckerMoves

\* A pass ends, and no session starts over or becomes VERIFYING.
LEMMA CheckerEnds ==
    ASSUME WebglInv, NEW c \in Checker, CheckEnds(c), pieces \subseteq pieces',
           \A b \in Any : /\ upload[b].state # "NONE" => upload'[b].state # "NONE"
                          /\ upload'[b].state = "VERIFYING" => upload[b].state = "VERIFYING"
    PROVE  checker' \in [Checker -> CheckState] /\ ManifestHolds'
<1>1. checker' = [checker EXCEPT ![c] = NoCheck] /\ NoCheck \in CheckState
      /\ NoCheck.at = "idle"
  BY Blanks DEF CheckEnds, NoCheck
<1>2. checker' \in [Checker -> CheckState]
  BY <1>1 DEF WebglInv, WebglTypeOK
<1>3. ManifestHolds'
  BY <1>1, <1>2 DEF WebglInv, WebglTypeOK, ManifestHolds, Any
<1>4. QED BY <1>2, <1>3

\* What holds of the tables stays when they do not change.
LEMMA TablesStay ==
    ASSUME WebglInv, UNCHANGED <<upload, current, change, prefixes>>,
           pieces \subseteq pieces', pieces' \subseteq Any \X Piece,
           deployment' \in [Any -> DeploymentState],
           \A b \in Any : deployment[b].state # "NONE" => deployment'[b] = deployment[b],
           \A b \in Any : deployment'[b] # deployment[b] =>
               deployment'[b].state = "PROCESSING" /\ upload[b].state # "NONE",
           checker' \in [Checker -> CheckState], ManifestHolds'
    PROVE  WebglInv'
<1>1. WebglTypeOK'
  BY DEF WebglInv, WebglTypeOK, Any
<1>2. SessionsFirst' /\ PrefixesOver' /\ RejectedNeverServed'
  BY DEF WebglInv, SessionsFirst, PrefixesOver, RejectedNeverServed, Any
<1>3. ChangeServable'
  BY DEF WebglInv, ChangeServable, Any
<1>4. CurrentServed'
  BY DEF WebglInv, WebglTypeOK, CurrentServed, Any
<1>5. QED BY <1>1, <1>2, <1>3, <1>4 DEF WebglInv

-----------------------------------------------------------------------------
\* Only the session of b changes, and it stays what it was or begins or goes
\* on, without becoming READY or having been it.
LEMMA SessionMoves ==
    ASSUME WebglInv, NEW b \in Build, NEW u \in UploadState,
           upload' = [upload EXCEPT ![b] = u],
           UNCHANGED <<deployment, current, change, pieces, prefixes>>,
           \/ u.state = upload[b].state /\ u.source = upload[b].source
           \/ upload[b].state = "NONE" /\ u.state = "VERIFYING" /\ u.source = "VERIFYING",
           checker' \in [Checker -> CheckState], ManifestHolds'
    PROVE  WebglInv'
<1> USE WebglNames DEF WebglInv
<1>1. WebglTypeOK'
  BY DEF WebglTypeOK
<1>2. upload[b].state = "NONE" => b \notin prefixes /\ deployment[b].state = "NONE"
  BY DEF PrefixesOver, SessionsFirst, Any
<1>3. upload' \in [Any -> UploadState] /\ upload \in [Any -> UploadState] /\ b # Change
  BY <1>1 DEF WebglTypeOK, Any
<1>4. SessionsFirst'
  BY <1>2, <1>3 DEF SessionsFirst, Any
<1>5. PrefixesOver'
  BY <1>2, <1>3 DEF PrefixesOver, WebglTypeOK, Any
<1>6. ChangeServable'
  BY <1>3 DEF ChangeServable, Any
<1>7. RejectedNeverServed'
  BY <1>2, <1>3 DEF RejectedNeverServed, Any
<1>8. CurrentServed'
  <2>1. current = b => upload[b].state # "NONE"
    BY <1>2, <1>3 DEF CurrentServed
  <2>2. current # NoBuild => current \in Any
    BY DEF WebglTypeOK, Any
  <2>3. QED BY <1>3, <2>1, <2>2 DEF CurrentServed
<1>9. QED BY <1>1, <1>4, <1>5, <1>6, <1>7, <1>8

\* A session under way is neither current nor queued nor READY.
LEMMA UnderWay ==
    ASSUME WebglInv, NEW b \in Build, upload[b].state = "VERIFYING"
    PROVE  /\ current # b /\ b \notin prefixes /\ deployment[b].state # "READY"
           /\ upload[b].source # "READY"
BY WebglNames DEF WebglInv, PrefixesOver, RejectedNeverServed, CurrentServed, SessionsFirst,
    Any, WebglTypeOK

LEMMA RejectKeeps ==
    ASSUME WebglInv, NEW c \in Checker, checker[c].at # "idle", OwnsUpload(c), RejectBuild(c)
    PROVE  WebglInv'
<1> DEFINE b == checker[c].build
           u == [upload[b] EXCEPT !.state = "REJECTED", !.lease = NoChecker, !.source = "FAILED"]
           d == [deployment[b] EXCEPT !.state = "FAILED"]
<1> USE WebglNames DEF WebglInv
<1>1. b \in Build /\ b \in Any /\ b # Change /\ upload[b].state = "VERIFYING"
  BY CheckerBusy DEF OwnsUpload
<1>2. /\ upload \in [Any -> UploadState] /\ deployment \in [Any -> DeploymentState]
      /\ current \in Any \cup {NoBuild}
  BY DEF WebglTypeOK, Any
<1>3. current # b /\ b \notin prefixes /\ deployment[b].state # "READY"
  BY <1>1, UnderWay
<1>4. u \in UploadState /\ u.state = "REJECTED" /\ u.source = "FAILED"
  BY <1>1, <1>2, ZenonT(40) DEF UploadState
<1>5. d \in DeploymentState /\ d.state = "FAILED"
  BY <1>1, <1>2 DEF DeploymentState
<1>6. upload' = [upload EXCEPT ![b] = u] /\ UNCHANGED <<current, change, pieces>>
  BY DEF RejectBuild
<1>7. \/ /\ deployment[b].state \in {"PROCESSING", "FAILED"}
         /\ deployment' = [deployment EXCEPT ![b] = d] /\ prefixes' = prefixes \cup {b}
      \/ UNCHANGED <<deployment, prefixes>>
  BY DEF RejectBuild
<1> HIDE DEF b, u, d
<1>8. /\ upload' \in [Any -> UploadState] /\ upload'[b] = u
      /\ \A x \in Any : x # b => upload'[x] = upload[x]
  BY <1>1, <1>2, <1>4, <1>6
<1>9. /\ deployment' \in [Any -> DeploymentState] /\ deployment'[b].state # "READY"
      /\ \A x \in Any : x # b => deployment'[x] = deployment[x]
  BY <1>1, <1>2, <1>3, <1>5, <1>7
<1>10. prefixes' \subseteq prefixes \cup {b} /\ prefixes \subseteq Any
  BY <1>7 DEF WebglTypeOK, Any
<1>11. checker' \in [Checker -> CheckState] /\ ManifestHolds'
  <2>1. \A x \in Any :
           /\ upload[x].state # "NONE" => upload'[x].state # "NONE"
           /\ upload'[x].state = "VERIFYING" => upload[x].state = "VERIFYING"
    BY <1>4, <1>8
  <2>2. CheckEnds(c) /\ pieces \subseteq pieces'
    BY <1>6 DEF RejectBuild
  <2> HIDE DEF WebglInv
  <2>3. QED BY WebglInv, <2>1, <2>2, CheckerEnds
<1>12. WebglTypeOK'
  BY <1>1, <1>6, <1>8, <1>9, <1>10, <1>11 DEF WebglTypeOK, Any
<1>13. SessionsFirst'
  BY <1>4, <1>8, <1>9 DEF SessionsFirst
<1>14. PrefixesOver'
  BY <1>4, <1>8, <1>10 DEF PrefixesOver
<1>15. ChangeServable'
  BY <1>1, <1>6, <1>8, <1>9, <1>10 DEF ChangeServable, Any
<1>16. RejectedNeverServed'
  BY <1>8, <1>9 DEF RejectedNeverServed, Any
<1>17. CurrentServed'
  BY <1>2, <1>3, <1>6, <1>8, <1>9, <1>10 DEF CurrentServed
<1>18. QED BY <1>11, <1>12, <1>13, <1>14, <1>15, <1>16, <1>17

LEMMA CommitKeeps == ASSUME WebglInv, NEW c \in Checker, CommitBuild(c) PROVE WebglInv'
<1> DEFINE b == checker[c].build
           u == [upload[b] EXCEPT !.state = "READY", !.lease = NoChecker, !.source = "READY"]
           d == [deployment[b] EXCEPT !.state = "READY"]
<1> USE WebglNames DEF WebglInv
<1>1. /\ b \in Build /\ b \in Any /\ b # Change /\ upload[b].state = "VERIFYING"
      /\ {b} \X Piece \subseteq pieces
  BY CheckerBusy DEF CommitBuild, OwnsUpload, ManifestHolds
<1>2. upload \in [Any -> UploadState] /\ deployment \in [Any -> DeploymentState]
  BY DEF WebglTypeOK, Any
<1>3. b \notin prefixes
  BY <1>1, UnderWay
<1>4. u \in UploadState /\ u.state = "READY" /\ u.source = "READY"
  BY <1>1, <1>2, ZenonT(40) DEF UploadState
<1>5. d \in DeploymentState /\ d.state = "READY"
  BY <1>1, <1>2 DEF DeploymentState
<1>6. /\ upload' = [upload EXCEPT ![b] = u] /\ deployment' = [deployment EXCEPT ![b] = d]
      /\ current' = b /\ UNCHANGED <<pieces, prefixes>>
  BY DEF CommitBuild, Promote
<1>7. change' # "pending" /\ change' \in {"pending", "stale", "applied"}
  BY DEF CommitBuild, Promote, BumpVersion, WebglTypeOK
<1>8. CheckEnds(c)
  BY DEF CommitBuild, Promote
<1> HIDE DEF b, u, d
<1>9. /\ upload' \in [Any -> UploadState] /\ upload'[b] = u
      /\ \A x \in Any : x # b => upload'[x] = upload[x]
  BY <1>1, <1>2, <1>4, <1>6
<1>10. /\ deployment' \in [Any -> DeploymentState] /\ deployment'[b] = d
       /\ \A x \in Any : x # b => deployment'[x] = deployment[x]
  BY <1>1, <1>2, <1>5, <1>6
<1>11. checker' \in [Checker -> CheckState] /\ ManifestHolds'
  <2>1. \A x \in Any :
           /\ upload[x].state # "NONE" => upload'[x].state # "NONE"
           /\ upload'[x].state = "VERIFYING" => upload[x].state = "VERIFYING"
    BY <1>4, <1>9
  <2>2. pieces \subseteq pieces'
    BY <1>6
  <2> HIDE DEF WebglInv
  <2>3. QED BY <1>8, <2>1, <2>2, CheckerEnds
<1>12. WebglTypeOK'
  BY <1>1, <1>6, <1>7, <1>9, <1>10, <1>11 DEF WebglTypeOK, Any
<1>13. SessionsFirst'
  BY <1>4, <1>9, <1>10 DEF SessionsFirst
<1>14. PrefixesOver'
  BY <1>4, <1>6, <1>9 DEF PrefixesOver, WebglTypeOK, Any
<1>15. ChangeServable'
  BY <1>1, <1>7, <1>9 DEF ChangeServable, Any
<1>16. RejectedNeverServed'
  BY <1>4, <1>9, <1>10 DEF RejectedNeverServed, Any
<1>17. CurrentServed'
  BY <1>1, <1>3, <1>4, <1>5, <1>6, <1>9, <1>10 DEF CurrentServed
<1>18. QED BY <1>11, <1>12, <1>13, <1>14, <1>15, <1>16, <1>17

-----------------------------------------------------------------------------
(* Steps of the project.                                                   *)

\* Builds go, and with them the sources of finished sessions; sessions under
\* way may be cancelled.
LEMMA RemovalKeeps ==
    ASSUME WebglInv, NEW gone \in SUBSET Any, RemoveBuilds(gone),
           upload' \in [Any -> UploadState],
           \A b \in Any :
               \/ upload'[b] = upload[b]
               \/ upload'[b].state = upload[b].state /\ b \in gone
                      /\ upload'[b].source # "READY"
               \/ upload[b].state = "VERIFYING" /\ upload'[b].state = "CANCELLED"
                      /\ upload'[b].source = upload[b].source,
           \A b \in gone : deployment[b].state # "NONE" => upload'[b].state # "VERIFYING",
           UNCHANGED <<pieces, checker>>
    PROVE  /\ deployment' \in [Any -> DeploymentState] /\ prefixes' \subseteq Any
           /\ SessionsFirst' /\ PrefixesOver' /\ ManifestHolds' /\ RejectedNeverServed'
           /\ prefixes' \subseteq prefixes \cup gone
           /\ \A b \in Any \ gone : deployment'[b] = deployment[b]
<1> USE WebglNames DEF WebglInv
<1>1. upload \in [Any -> UploadState] /\ deployment \in [Any -> DeploymentState]
      /\ prefixes \subseteq Any
  BY DEF WebglTypeOK, Any
<1>2. deployment' = [b \in Any |-> IF b \in gone THEN NoDeployment ELSE deployment[b]]
  BY <1>1 DEF RemoveBuilds
<1>3. deployment' \in [Any -> DeploymentState]
  BY <1>1, <1>2, Blanks
<1>4. prefixes' = prefixes \cup {b \in gone : deployment[b].state # "NONE"}
  BY DEF RemoveBuilds
<1>5. SessionsFirst'
  <2> SUFFICES ASSUME NEW b \in Any
               PROVE  /\ deployment'[b].state # "NONE" => upload'[b].state # "NONE"
                      /\ upload'[b].source = "READY" => upload'[b].state = "READY"
    BY DEF SessionsFirst
  <2>1. /\ deployment[b].state # "NONE" => upload[b].state # "NONE"
        /\ upload[b].source = "READY" => upload[b].state = "READY"
    BY DEF SessionsFirst
  <2>2. deployment'[b].state # "NONE" => deployment[b].state # "NONE"
    BY <1>2 DEF NoDeployment
  <2>3. QED BY <2>1, <2>2
<1>6. PrefixesOver'
  <2> SUFFICES ASSUME NEW b \in prefixes' PROVE upload'[b].state \notin {"NONE", "VERIFYING"}
    BY DEF PrefixesOver
  <2>1. CASE b \in prefixes
    BY <1>1, <2>1 DEF PrefixesOver
  <2>2. CASE b \in gone /\ deployment[b].state # "NONE"
    <3>1. upload[b].state # "NONE"
      BY <2>2 DEF SessionsFirst
    <3>2. QED BY <2>2, <3>1
  <2>3. QED BY <1>4, <2>1, <2>2
<1>7. ManifestHolds'
  <2>1. \A b \in Any :
           /\ upload[b].state # "NONE" => upload'[b].state # "NONE"
           /\ upload'[b].state = "VERIFYING" => upload[b].state = "VERIFYING"
    OBVIOUS
  <2>2. QED BY <2>1 DEF ManifestHolds, Any
<1>8. RejectedNeverServed'
  BY <1>1, <1>2 DEF RejectedNeverServed, NoDeployment, Any
<1>9. QED BY <1>1, <1>2, <1>3, <1>4, <1>5, <1>6, <1>7, <1>8

LEMMA ClearKeeps == ASSUME WebglInv, ClearWebglDeployment PROVE WebglInv'
<1> DEFINE own == Build \cup (IF change = "applied" THEN {Change} ELSE {})
           up(b) == IF upload[b].state = "VERIFYING"
                    THEN [upload[b] EXCEPT !.state = "CANCELLED", !.lease = NoChecker]
                    ELSE IF b \in own /\ deployment[b].state # "NONE"
                         THEN [upload[b] EXCEPT !.source = "GONE"] ELSE upload[b]
<1> USE WebglNames DEF WebglInv
<1>1. upload \in [Any -> UploadState] /\ own \in SUBSET Any
  BY DEF WebglTypeOK, Any
<1>2. /\ RemoveBuilds(own) /\ upload' = [b \in Any |-> up(b)] /\ current' = NoBuild
      /\ BumpVersion /\ UNCHANGED <<pieces, checker>>
  BY <1>1 DEF ClearWebglDeployment
<1>3. ASSUME NEW b \in Any
      PROVE  /\ up(b) \in UploadState
             /\ \/ up(b) = upload[b]
                \/ up(b).state = upload[b].state /\ b \in own /\ up(b).source # "READY"
                \/ upload[b].state = "VERIFYING" /\ up(b).state = "CANCELLED"
                       /\ up(b).source = upload[b].source
             /\ up(b).state # "VERIFYING"
  <2>1. CASE upload[b].state = "VERIFYING"
    BY <1>1, <2>1 DEF UploadState
  <2>2. CASE upload[b].state # "VERIFYING" /\ b \in own /\ deployment[b].state # "NONE"
    BY <1>1, <2>2 DEF UploadState
  <2>3. CASE upload[b].state # "VERIFYING" /\ ~(b \in own /\ deployment[b].state # "NONE")
    BY <1>1, <2>3
  <2>4. QED BY <2>1, <2>2, <2>3
<1>4. change' # "pending" /\ change' \in {"pending", "stale", "applied"}
  BY <1>2 DEF BumpVersion, WebglTypeOK
<1> HIDE DEF own, up
<1>5. upload' \in [Any -> UploadState] /\ \A b \in Any : upload'[b] = up(b)
  BY <1>2, <1>3
<1>6. /\ deployment' \in [Any -> DeploymentState] /\ prefixes' \subseteq Any
      /\ SessionsFirst' /\ PrefixesOver' /\ ManifestHolds' /\ RejectedNeverServed'
  BY <1>1, <1>2, <1>3, <1>5, RemovalKeeps
<1>7. upload'[Change].state = "READY"
  BY <1>3, <1>5 DEF ChangeServable, Any
<1>8. ChangeServable' /\ CurrentServed'
  BY <1>2, <1>4, <1>7 DEF ChangeServable, CurrentServed
<1>9. WebglTypeOK'
  BY <1>2, <1>4, <1>5, <1>6 DEF WebglTypeOK, Any
<1>10. QED BY <1>6, <1>8, <1>9

LEMMA ApplyKeeps == ASSUME WebglInv, ApplyProjectChange PROVE WebglInv'
<1> DEFINE old == {b \in Build : upload[b].source = "READY"}
           up(b) == IF b \in old THEN [upload[b] EXCEPT !.source = "GONE"] ELSE upload[b]
<1> USE WebglNames DEF WebglInv
<1>1. upload \in [Any -> UploadState] /\ old \in SUBSET Any /\ Change \in Any
      /\ Change \notin old
  BY DEF WebglTypeOK, Any
<1>2. /\ RemoveBuilds(old) /\ upload' = [b \in Any |-> up(b)] /\ current' = Change
      /\ change = "pending" /\ change' = "applied" /\ UNCHANGED <<pieces, checker>>
  BY <1>1 DEF ApplyProjectChange
<1>3. ASSUME NEW b \in Any
      PROVE  /\ up(b) \in UploadState
             /\ \/ up(b) = upload[b]
                \/ up(b).state = upload[b].state /\ b \in old /\ up(b).source # "READY"
             /\ b \in old => up(b).state # "VERIFYING"
  <2>1. CASE b \in old
    <3>1. upload[b].state = "READY"
      BY <2>1 DEF SessionsFirst
    <3>2. QED BY <1>1, <2>1, <3>1 DEF UploadState
  <2>2. CASE b \notin old
    BY <1>1, <2>2
  <2>3. QED BY <2>1, <2>2
<1>4. up(Change) = upload[Change]
  BY <1>1
<1> HIDE DEF old, up
<1>5. upload' \in [Any -> UploadState] /\ \A b \in Any : upload'[b] = up(b)
  BY <1>2, <1>3
<1>6. /\ deployment' \in [Any -> DeploymentState] /\ prefixes' \subseteq Any
      /\ SessionsFirst' /\ PrefixesOver' /\ ManifestHolds' /\ RejectedNeverServed'
      /\ prefixes' \subseteq prefixes \cup old
      /\ \A b \in Any \ old : deployment'[b] = deployment[b]
  BY <1>1, <1>2, <1>3, <1>5, RemovalKeeps
<1>7. upload'[Change] = upload[Change] /\ deployment'[Change] = deployment[Change]
      /\ Change \notin prefixes'
  BY <1>1, <1>2, <1>4, <1>5, <1>6 DEF ChangeServable
<1>8. ChangeServable' /\ CurrentServed'
  BY <1>2, <1>7 DEF ChangeServable, CurrentServed
<1>9. WebglTypeOK'
  BY <1>1, <1>2, <1>5, <1>6 DEF WebglTypeOK, Any
<1>10. QED BY <1>6, <1>8, <1>9

LEMMA ReapKeeps == ASSUME WebglInv, NEW b \in Any, ReapPrefix(b) PROVE WebglInv'
<1> USE WebglNames DEF WebglInv
<1>1. /\ b \in prefixes /\ prefixes' = prefixes \ {b}
      /\ pieces' = IF current = b THEN pieces ELSE pieces \ ({b} \X Piece)
      /\ UNCHANGED <<upload, deployment, current, change, checker>>
  BY DEF ReapPrefix
<1>2. upload[b].state # "VERIFYING"
  BY <1>1 DEF PrefixesOver
<1>3. \A x : x # b /\ {x} \X Piece \subseteq pieces => {x} \X Piece \subseteq pieces'
  BY <1>1
<1>4. current # NoBuild => current # b
  BY <1>1 DEF CurrentServed
<1>5. ManifestHolds'
  BY <1>1, <1>2, <1>3 DEF ManifestHolds
<1>6. ChangeServable'
  BY <1>1, <1>3 DEF ChangeServable
<1>7. CurrentServed'
  BY <1>1, <1>3, <1>4 DEF CurrentServed
<1>8. WebglTypeOK' /\ SessionsFirst' /\ PrefixesOver' /\ RejectedNeverServed'
  BY <1>1 DEF WebglTypeOK, SessionsFirst, PrefixesOver, RejectedNeverServed
<1>9. QED BY <1>5, <1>6, <1>7, <1>8

-----------------------------------------------------------------------------
LEMMA WebglStep == WebglInv /\ [WebglNext]_webglVars => WebglInv'
<1> SUFFICES ASSUME WebglInv, [WebglNext]_webglVars PROVE WebglInv'
  OBVIOUS
<1>0. /\ upload \in [Any -> UploadState] /\ deployment \in [Any -> DeploymentState]
      /\ pieces \subseteq Any \X Piece /\ checker \in [Checker -> CheckState]
      /\ current \in Build \cup {Change, NoBuild}
  BY DEF WebglInv, WebglTypeOK, Any
<1>1. ASSUME NEW b \in Build, CompleteUpload(b) PROVE WebglInv'
  <2> DEFINE u == [upload[b] EXCEPT !.state = "VERIFYING", !.source = "VERIFYING"]
  <2>1. u \in UploadState /\ u.state = "VERIFYING" /\ u.source = "VERIFYING"
    BY <1>0 DEF UploadState, Any
  <2>2. upload' = [upload EXCEPT ![b] = u] /\ upload[b].state = "NONE"
        /\ UNCHANGED <<deployment, current, change, pieces, prefixes, checker>>
    BY <1>1 DEF CompleteUpload
  <2> HIDE DEF u
  <2>3. checker' \in [Checker -> CheckState] /\ ManifestHolds'
    BY <1>0, <2>1, <2>2 DEF WebglInv, ManifestHolds, Any
  <2>4. QED BY <2>1, <2>2, <2>3, SessionMoves
<1>2. ASSUME NEW c \in Checker, NEW b \in Build, ClaimUpload(c, b) PROVE WebglInv'
  <2> DEFINE n == IF upload[b].tries < MaxTries THEN upload[b].tries + 1 ELSE upload[b].tries
             u == [upload[b] EXCEPT !.lease = c, !.tries = n]
             s == [NoCheck EXCEPT !.at = "checking", !.build = b]
  <2>1. upload[b] \in UploadState
    BY <1>0 DEF Any
  <2>2. n \in 0 .. MaxTries
    BY <2>1, WebglNames DEF UploadState
  <2>3. upload' = [upload EXCEPT ![b] = u]
    BY <1>2 DEF ClaimUpload
  <2>4. /\ checker' = [checker EXCEPT ![c] = s] /\ upload[b].state = "VERIFYING"
        /\ UNCHANGED <<deployment, current, change, pieces, prefixes>>
    BY <1>2 DEF ClaimUpload
  <2> HIDE DEF n
  <2>5. u \in UploadState /\ u.state = upload[b].state /\ u.source = upload[b].source
    BY <2>1, <2>2 DEF UploadState
  <2>6. s \in CheckState /\ s.at = "checking" /\ s.build = b
    BY Blanks DEF CheckState, NoCheck
  <2> HIDE DEF u, s
  <2>7. checker' \in [Checker -> CheckState]
    BY <1>0, <2>4, <2>6
  <2>8. \A x \in Any : upload'[x].state = upload[x].state
    BY <1>0, <2>3, <2>5
  <2>9. ManifestHolds'
    <3> SUFFICES ASSUME NEW d \in Checker
                 PROVE  /\ checker'[d].at # "idle" => checker'[d].build \in Build
                              /\ upload'[checker'[d].build].state # "NONE"
                        /\ checker'[d].at = "committing"
                              /\ upload'[checker'[d].build].state = "VERIFYING"
                            => {checker'[d].build} \X Piece \subseteq pieces'
      BY DEF ManifestHolds
    <3>1. CASE d = c
      BY <1>0, <2>4, <2>6, <2>8, <3>1 DEF Any
    <3>2. CASE d # c
      BY <1>0, <2>4, <2>8, <3>2 DEF WebglInv, ManifestHolds, Any
    <3>3. QED BY <3>1, <3>2
  <2>10. QED BY <2>3, <2>4, <2>5, <2>7, <2>9, SessionMoves
<1>3. ASSUME NEW b \in Build, UploadLapses(b) PROVE WebglInv'
  <2> DEFINE u == [upload[b] EXCEPT !.lease = NoChecker]
  <2>1. u \in UploadState /\ u.state = upload[b].state /\ u.source = upload[b].source
    BY <1>0 DEF UploadState, Any
  <2>2. upload' = [upload EXCEPT ![b] = u]
        /\ UNCHANGED <<deployment, current, change, pieces, prefixes, checker>>
    BY <1>3 DEF UploadLapses
  <2> HIDE DEF u
  <2>3. checker' \in [Checker -> CheckState] /\ ManifestHolds'
    BY <1>0, <2>1, <2>2 DEF WebglInv, ManifestHolds, Any
  <2>4. QED BY <2>1, <2>2, <2>3, SessionMoves
<1>4. ASSUME NEW c \in Checker, ReserveDeployment(c) PROVE WebglInv'
  <2> DEFINE b == checker[c].build
             d == [state |-> "PROCESSING", expected |-> current]
  <2>1. b \in Any /\ upload[b].state # "NONE"
    BY <1>4, CheckerBusy DEF ReserveDeployment
  <2>2. d \in DeploymentState /\ d.state = "PROCESSING"
    BY <1>0 DEF DeploymentState
  <2>3. \/ UNCHANGED deployment
        \/ deployment[b].state = "NONE" /\ deployment' = [deployment EXCEPT ![b] = d]
    BY <1>4 DEF ReserveDeployment
  <2>4. UNCHANGED <<upload, current, change, pieces, prefixes>>
    BY <1>4 DEF ReserveDeployment
  <2> HIDE DEF b, d
  <2>5. /\ deployment' \in [Any -> DeploymentState]
        /\ \A x \in Any : deployment[x].state # "NONE" => deployment'[x] = deployment[x]
        /\ \A x \in Any : deployment'[x] # deployment[x] =>
               deployment'[x].state = "PROCESSING" /\ upload[x].state # "NONE"
    BY <1>0, <2>1, <2>2, <2>3
  <2>6. checker' \in [Checker -> CheckState] /\ ManifestHolds'
    BY <1>4, <2>4, CheckerGoesTo DEF ReserveDeployment
  <2>7. QED BY <1>0, <2>4, <2>5, <2>6, TablesStay
<1>5. ASSUME NEW c \in Checker, NEW x \in Piece, UploadPiece(c, x) PROVE WebglInv'
  <2>1. checker[c].build \in Any
    BY <1>5, CheckerBusy DEF UploadPiece
  <2>2. /\ pieces' = pieces \cup {<<checker[c].build, x>>}
        /\ UNCHANGED <<upload, deployment, current, change, prefixes, checker>>
    BY <1>5 DEF UploadPiece
  <2>3. checker' \in [Checker -> CheckState] /\ ManifestHolds'
    BY <1>0, <2>2 DEF WebglInv, ManifestHolds
  <2>4. QED BY <1>0, <2>1, <2>2, <2>3, TablesStay
<1>6. ASSUME NEW c \in Checker, BuildManifest(c) \/ CommitFenced(c) PROVE WebglInv'
  <2>1. UNCHANGED <<upload, deployment, current, change, pieces, prefixes>>
    BY <1>6 DEF BuildManifest, CommitFenced
  <2>2. checker' \in [Checker -> CheckState] /\ ManifestHolds'
    BY <1>6, <2>1, CheckerGoesTo DEF BuildManifest, CommitFenced
  <2>3. QED BY <1>0, <2>1, <2>2, TablesStay
<1>7. ASSUME NEW c \in Checker, CheckFails(c) PROVE WebglInv'
  <2>1. PICK bad \in BOOLEAN :
           checker' = [checker EXCEPT ![c].at = "failed", ![c].terminal = bad]
    BY <1>7 DEF CheckFails
  <2> DEFINE s == [checker[c] EXCEPT !.at = "failed", !.terminal = bad]
  <2>2. /\ checker[c] \in CheckState /\ checker[c].build \in Build
        /\ upload[checker[c].build].state # "NONE"
    BY <1>7, CheckerBusy DEF CheckFails
  <2>3. s \in CheckState /\ s.at = "failed" /\ s.build = checker[c].build
    BY <2>2 DEF CheckState
  <2>4. checker' = [checker EXCEPT ![c] = s]
    BY <2>1
  <2>5. UNCHANGED <<upload, deployment, current, change, pieces, prefixes>>
    BY <1>7 DEF CheckFails
  <2> HIDE DEF s
  <2>6. checker' \in [Checker -> CheckState] /\ ManifestHolds'
    BY <2>2, <2>3, <2>4, <2>5, CheckerMoves
  <2>7. QED BY <1>0, <2>5, <2>6, TablesStay
<1>8. ASSUME NEW c \in Checker, CheckStops(c) PROVE WebglInv'
  <2>1. UNCHANGED <<upload, deployment, current, change, pieces, prefixes>>
    BY <1>8 DEF CheckStops
  <2>2. checker' \in [Checker -> CheckState] /\ ManifestHolds'
    BY <1>8, <2>1, CheckerEnds DEF CheckStops
  <2>3. QED BY <1>0, <2>1, <2>2, TablesStay
<1>9. ASSUME NEW c \in Checker, RejectFencedAndQueueCleanup(c) \/ RejectInvalidSource(c)
      PROVE  WebglInv'
  BY <1>9, RejectKeeps DEF RejectFencedAndQueueCleanup, RejectInvalidSource
<1>10. CASE UNCHANGED webglVars
  BY <1>0, <1>10, TablesStay DEF webglVars, WebglInv, ManifestHolds
<1>11. QED
  BY <1>1, <1>2, <1>3, <1>4, <1>5, <1>6, <1>7, <1>8, <1>9, <1>10,
     CommitKeeps, ClearKeeps, ApplyKeeps, ReapKeeps
  DEF WebglNext, Any

-----------------------------------------------------------------------------
(* Every variable of the model has its type.                               *)
THEOREM WebglTypeCorrect == WebglSpec => []WebglTypeOK
<1>1. WebglInv => WebglTypeOK
  BY DEF WebglInv
<1>2. QED BY <1>1, WebglInitially, WebglStep, PTL DEF WebglSpec

(* Whatever passes commit, stall and take over, and however the build is   *)
(* cleared or replaced meanwhile, the current build is READY and complete, *)
(* and the reaper will not take it.                                        *)
THEOREM CurrentAlwaysServed == WebglSpec => []CurrentServed
<1>1. WebglInv => CurrentServed
  BY DEF WebglInv
<1>2. QED BY <1>1, WebglInitially, WebglStep, PTL DEF WebglSpec

(* No READY deployment has a session that was rejected or cancelled.       *)
THEOREM RejectedIsNeverServed == WebglSpec => []RejectedNeverServed
<1>1. WebglInv => RejectedNeverServed
  BY DEF WebglInv
<1>2. QED BY <1>1, WebglInitially, WebglStep, PTL DEF WebglSpec

-----------------------------------------------------------------------------
(***************************************************************************)
(* The deletion of a prefix.  The invariant extends the property to the    *)
(* passes that are about to report success.                                *)
(***************************************************************************)
\* Once a pass knows that it will succeed, what is left came after its LIST.
Verified ==
    \A r \in Remover :
        (removal[r].at = "done" \/ removal[r].then = "done")
            => present \subseteq removal[r].unseen

PrefixInv == PrefixTypeOK /\ Verified

-----------------------------------------------------------------------------
\* A page from the head that is empty and does not claim to go on shows that
\* the prefix is empty.
LEMMA EmptyHead ==
    ASSUME PrefixTypeOK, NEW page, NEW size, IsPage(page, 0, size, FALSE), page = {}
    PROVE  present = {}
BY PageBudget DEF PrefixTypeOK, IsPage, Following, PrefixKey

LEMMA AtRestIsPass == AtRest \in PassState
BY PageBudget DEF AtRest, PassState

\* A step that gives one pass another state keeps the invariant, when that
\* state is not one of success or misses nothing.
LEMMA RemoverMoves ==
    ASSUME PrefixInv, NEW r \in Remover, NEW s \in PassState,
           removal' = [removal EXCEPT ![r] = s], UNCHANGED present,
           s.at = "done" \/ s.then = "done" => present \subseteq s.unseen
    PROVE  removal' \in [Remover -> PassState] /\ Verified'
BY DEF PrefixInv, PrefixTypeOK, Verified

\* A pass that only moves on to a place other than success, and keeps its
\* other fields or forgets them, keeps the invariant.
LEMMA MovingOn ==
    ASSUME PrefixInv, NEW r \in Remover, NEW l \in {"listing", "verifying", "deleting", "failed"},
           RemovalTo(r, l), UNCHANGED present
    PROVE  removal' \in [Remover -> PassState] /\ Verified'
<1>1. CASE l = "failed"
  <2> DEFINE s == [AtRest EXCEPT !.at = "failed", !.unseen = {}]
  <2>1. s \in PassState /\ s.at = "failed" /\ s.then = "rest"
    BY AtRestIsPass DEF AtRest, PassState
  <2>2. removal' = [removal EXCEPT ![r] = s]
    BY <1>1 DEF RemovalTo, AtRest
  <2>3. QED BY <2>1, <2>2, RemoverMoves
<1>2. CASE l # "failed"
  <2>1. [removal[r] EXCEPT !.at = l] \in PassState
    BY <1>2 DEF PrefixInv, PrefixTypeOK, PassState
  <2>2. removal' = [removal EXCEPT ![r] = [removal[r] EXCEPT !.at = l]]
    BY <1>2 DEF RemovalTo
  <2>3. [removal[r] EXCEPT !.at = l].at # "done"
    BY <1>2 DEF PrefixInv, PrefixTypeOK, PassState
  <2>4. [removal[r] EXCEPT !.at = l].then = "done"
            => present \subseteq [removal[r] EXCEPT !.at = l].unseen
    BY DEF PrefixInv, PrefixTypeOK, PassState, Verified
  <2>5. QED BY <2>1, <2>2, <2>3, <2>4, RemoverMoves
<1>3. QED BY <1>1, <1>2

LEMMA PrefixInitially == PrefixInit => PrefixInv
BY AtRestIsPass DEF PrefixInit, PrefixInv, PrefixTypeOK, Verified, AtRest

LEMMA PrefixStep == PrefixInv /\ [PrefixNext]_prefixVars => PrefixInv'
<1> SUFFICES ASSUME PrefixInv, [PrefixNext]_prefixVars PROVE PrefixInv'
  OBVIOUS
<1> USE PageBudget DEF PrefixInv
<1>1. ASSUME NEW r \in Remover, ClaimPrefix(r) PROVE PrefixInv'
  <2>1. prefixRow' \in [state : {"PENDING", "DELETE_CLAIMED", "RESOLVED"},
                        claim : Remover \cup {NoRemover}]
    BY <1>1 DEF ClaimPrefix
  <2>2. QED BY <1>1, <2>1, MovingOn DEF ClaimPrefix, PrefixTypeOK
<1>2. ASSUME NEW r \in Remover, ListPage(r) PROVE PrefixInv'
  <2>1. PICK page \in SUBSET PrefixKey, truncated \in BOOLEAN, next \in 0..LastKey :
           /\ IsPage(page, removal[r].after, PageSize, truncated)
           /\ IsCursor(next, page, removal[r].after)
           /\ ReadPage(r, page, next, truncated)
    BY <1>2 DEF ListPage
  <2>2. PrefixTypeOK'
    BY <1>2, <2>1 DEF ListPage, ReadPage, PrefixTypeOK, PassState, AtRest
  <2>3. page = {} /\ ~truncated /\ removal[r].after = 0 => present = {}
    BY <2>1, EmptyHead
  <2>4. Verified'
    BY <1>2, <2>1, <2>3 DEF ListPage, ReadPage, PrefixTypeOK, PassState, AtRest, Verified
  <2>5. QED BY <2>2, <2>4
<1>3. ASSUME NEW r \in Remover, VerifyHead(r) PROVE PrefixInv'
  <2>1. PICK page \in SUBSET PrefixKey, truncated \in BOOLEAN :
           /\ IsPage(page, 0, 1, truncated)
           /\ removal' = [removal EXCEPT ![r] =
                 IF page # {}
                 THEN [AtRest EXCEPT !.at = "listing", !.pages = removal[r].pages + 1]
                 ELSE [AtRest EXCEPT !.at = IF truncated THEN "failed" ELSE "done"]]
    BY <1>3 DEF VerifyHead
  <2>2. page = {} /\ ~truncated => present = {}
    BY <2>1, EmptyHead
  <2>3. CASE page # {}
    <3>1. removal[r].pages \in 0..MaxPages /\ removal[r].pages < MaxPages
      BY <1>3 DEF VerifyHead, PrefixTypeOK, PassState
    <3>2. removal[r].pages + 1 \in 0..MaxPages
      BY <3>1
    <3>3. \A n \in 0..MaxPages : [AtRest EXCEPT !.at = "listing", !.pages = n] \in PassState
      BY AtRestIsPass DEF PassState, AtRest
    <3> DEFINE s == [AtRest EXCEPT !.at = "listing", !.pages = removal[r].pages + 1]
    <3>4. s.at = "listing" /\ s.then = "rest"
      BY DEF AtRest
    <3>5. removal' = [removal EXCEPT ![r] = s]
      BY <2>1, <2>3
    <3>6. s \in PassState
      BY <3>2, <3>3
    <3>7. QED BY <1>3, <3>4, <3>5, <3>6, RemoverMoves DEF VerifyHead, PrefixTypeOK
  <2>4. CASE page = {} /\ ~truncated
    <3>1. [AtRest EXCEPT !.at = "done"] \in PassState
      BY DEF PassState, AtRest
    <3>2. QED
      BY <1>3, <2>1, <2>2, <2>4, <3>1, RemoverMoves DEF VerifyHead, PrefixTypeOK, AtRest
  <2>5. CASE page = {} /\ truncated
    <3>1. [AtRest EXCEPT !.at = "failed"] \in PassState
      BY DEF PassState, AtRest
    <3>2. QED BY <1>3, <2>1, <2>5, <3>1, RemoverMoves DEF VerifyHead, PrefixTypeOK, AtRest
  <2>6. QED BY <2>3, <2>4, <2>5
<1>4. ASSUME NEW r \in Remover, ExhaustPages(r) PROVE PrefixInv'
  <2> DEFINE s == [removal[r] EXCEPT !.at = "flushing", !.then = "failed"]
  <2>1. s \in PassState /\ s.at = "flushing" /\ s.then = "failed"
    BY DEF PrefixTypeOK, PassState
  <2>2. removal' = [removal EXCEPT ![r] = s]
    BY <1>4 DEF ExhaustPages
  <2>3. QED BY <1>4, <2>1, <2>2, RemoverMoves DEF ExhaustPages, PrefixTypeOK
<1>5. ASSUME NEW r \in Remover, RenewForDelete(r) PROVE PrefixInv'
  <2>1. (IF OwnsRow(r) THEN "deleting" ELSE "failed")
            \in {"listing", "verifying", "deleting", "failed"}
    OBVIOUS
  <2>2. QED BY <1>5, <2>1, MovingOn DEF RenewForDelete, PrefixTypeOK
<1>6. ASSUME NEW r \in Remover, DeleteBatch(r) PROVE PrefixInv'
  <2>1. PICK batch \in SUBSET removal[r].pending : \E gone \in SUBSET batch, inTime \in BOOLEAN :
           /\ present' = present \ gone
           /\ removal' =
                 IF gone = batch /\ inTime
                 THEN [removal EXCEPT ![r].pending = @ \ batch, ![r].at = "flushing"]
                 ELSE [removal EXCEPT ![r] = [AtRest EXCEPT !.at = "failed"]]
    BY <1>6 DEF DeleteBatch
  <2>2. PICK gone \in SUBSET batch, inTime \in BOOLEAN :
           /\ present' = present \ gone
           /\ removal' =
                 IF gone = batch /\ inTime
                 THEN [removal EXCEPT ![r].pending = @ \ batch, ![r].at = "flushing"]
                 ELSE [removal EXCEPT ![r] = [AtRest EXCEPT !.at = "failed"]]
    BY <2>1
  <2>3. CASE gone = batch /\ inTime
    <3> DEFINE s == [removal[r] EXCEPT !.pending = removal[r].pending \ batch, !.at = "flushing"]
    <3>1. removal[r] \in PassState
      BY DEF PrefixTypeOK
    <3>2. removal[r].pending \ batch \in SUBSET PrefixKey
      BY <3>1 DEF PassState
    <3>3. s \in PassState
      BY <3>1, <3>2 DEF PassState
    <3>4. removal' = [removal EXCEPT ![r] = s]
      BY <2>2, <2>3 DEF PrefixTypeOK
    <3>5. removal' \in [Remover -> PassState]
      <4> HIDE DEF s
      <4> QED BY <3>3, <3>4 DEF PrefixTypeOK
    <3>6. s.at = "flushing" /\ s.then = removal[r].then /\ s.unseen = removal[r].unseen
      BY <3>1 DEF PassState
    <3>7. Verified'
      BY <2>2, <3>4, <3>6 DEF PrefixTypeOK, Verified
    <3>8. QED BY <1>6, <2>2, <3>5, <3>7 DEF DeleteBatch, PrefixTypeOK
  <2>4. CASE ~(gone = batch /\ inTime)
    <3> DEFINE s == [AtRest EXCEPT !.at = "failed"]
    <3>1. s \in PassState /\ s.at = "failed" /\ s.then = "rest"
      BY AtRestIsPass DEF AtRest, PassState
    <3>2. removal' = [removal EXCEPT ![r] = s]
      BY <2>2, <2>4
    <3>3. removal' \in [Remover -> PassState]
      BY <3>1, <3>2 DEF PrefixTypeOK
    <3>4. Verified'
      BY <2>2, <3>1, <3>2 DEF PrefixTypeOK, Verified
    <3>5. QED BY <1>6, <2>2, <3>3, <3>4 DEF DeleteBatch, PrefixTypeOK
  <2>5. QED BY <2>3, <2>4
<1>7. ASSUME NEW r \in Remover, FlushEnds(r) PROVE PrefixInv'
  <2>1. CASE removal[r].then = "done"
    <3> DEFINE s == [AtRest EXCEPT !.at = "done", !.unseen = removal[r].unseen]
    <3> removal[r].unseen \in SUBSET PrefixKey
      BY DEF PrefixTypeOK, PassState
    <3>1. s \in PassState
      BY AtRestIsPass DEF PassState, AtRest
    <3>2. removal' = [removal EXCEPT ![r] = s]
      BY <1>7, <2>1 DEF FlushEnds, RemovalTo, AtRest
    <3>3. present \subseteq s.unseen
      BY <2>1 DEF Verified, AtRest
    <3>4. QED BY <1>7, <3>1, <3>2, <3>3, RemoverMoves DEF FlushEnds, PrefixTypeOK
  <2>2. CASE removal[r].then = "rest"
    <3> DEFINE s == [removal[r] EXCEPT !.at = "rest"]
    <3>1. s \in PassState /\ s.at = "rest" /\ s.then = "rest"
      BY <2>2 DEF PrefixTypeOK, PassState
    <3>2. removal' = [removal EXCEPT ![r] = s]
      BY <1>7, <2>2 DEF FlushEnds, RemovalTo
    <3>3. QED BY <1>7, <3>1, <3>2, RemoverMoves DEF FlushEnds, PrefixTypeOK
  <2>3. CASE removal[r].then \in {"listing", "verifying", "failed"}
    BY <1>7, <2>3, MovingOn DEF FlushEnds, PrefixTypeOK
  <2>4. QED BY <2>1, <2>2, <2>3 DEF PrefixTypeOK, PassState
<1>8. ASSUME NEW r \in Remover, ListFails(r) PROVE PrefixInv'
  BY <1>8, MovingOn DEF ListFails, PrefixTypeOK
<1>9. ASSUME NEW r \in Remover, ResolveRow(r) \/ FailRow(r) \/ RemovalStops(r)
      PROVE  PrefixInv'
  <2>1. prefixRow' \in [state : {"PENDING", "DELETE_CLAIMED", "RESOLVED"},
                        claim : Remover \cup {NoRemover}]
    BY <1>9 DEF ResolveRow, FailRow, RemovalStops, PrefixTypeOK
  <2>2. removal' = [removal EXCEPT ![r] = AtRest] /\ UNCHANGED present
    BY <1>9 DEF ResolveRow, FailRow, RemovalStops
  <2>3. QED BY <2>1, <2>2, AtRestIsPass, RemoverMoves DEF PrefixTypeOK, AtRest
<1>10. ASSUME RemovalLapses PROVE PrefixInv'
  BY <1>10 DEF RemovalLapses, PrefixTypeOK, Verified
<1>11. ASSUME NEW k \in PrefixKey, LatePiece(k) PROVE PrefixInv'
  <2>1. PrefixTypeOK'
    BY <1>11, AtRestIsPass DEF LatePiece, PrefixTypeOK, PassState
  <2>2. Verified'
    BY <1>11 DEF LatePiece, PrefixTypeOK, PassState, AtRest, Verified
  <2>3. QED BY <2>1, <2>2
<1>12. CASE UNCHANGED prefixVars
  BY <1>12 DEF prefixVars, PrefixTypeOK, Verified
<1>13. QED
  BY <1>1, <1>2, <1>3, <1>4, <1>5, <1>6, <1>7, <1>8, <1>9, <1>10, <1>11, <1>12
  DEF PrefixNext

\* The row, the keys and the passes of the prefix deletion keep their types.
THEOREM PrefixTypesHold == PrefixSpec => []PrefixTypeOK
<1>1. PrefixInv => PrefixTypeOK
  BY DEF PrefixInv
<1>2. QED BY PrefixInitially, PrefixStep, <1>1, PTL DEF PrefixSpec

-----------------------------------------------------------------------------
(* Whatever lapses, is taken over, comes late or fails in part: when a     *)
(* pass of deletePrefixPages ends well, every key it leaves was put after  *)
(* its last LIST.                                                          *)
THEOREM PrefixEmptied == PrefixSpec => []NothingLeftBehind
<1>1. PrefixInv => NothingLeftBehind
  BY DEF PrefixInv, Verified, NothingLeftBehind
<1>2. QED BY <1>1, PrefixInitially, PrefixStep, PTL DEF PrefixSpec

-----------------------------------------------------------------------------
(***************************************************************************)
(* The export job.  The invariant says that every pass, late or not, and   *)
(* both directories work from the one snapshot, and that a pass which may  *)
(* complete the row has seen the directory it renamed.                     *)
(***************************************************************************)
\* What a row, a directory and a pass may hold.
ExportRow == [state : {"QUEUED", "RUNNING", "READY", "FAILED"},
              holder : Exporter \cup {NoExporter}, claims : 0 .. MaxClaims,
              dryRun : BOOLEAN, taken : BOOLEAN, snapshot : SUBSET Item]
Directory == [exists : BOOLEAN, files : SUBSET Item, manifest : BOOLEAN,
              saved : SUBSET Item, missing : SUBSET Item]
ExportPass == [at : {"idle", "claimed", "preparing", "saving", "writing", "renaming",
                     "found", "acknowledging", "failed", "refused"},
               taken : BOOLEAN, snapshot : SUBSET Item, saved : SUBSET Item,
               missing : SUBSET Item]

\* Every pass, late or not, and both directories work from the one snapshot.
OfSnapshot ==
    /\ ~exportJob.taken => exportJob.snapshot = {}
    /\ staging.files \subseteq exportJob.snapshot
    /\ exported.files \subseteq exportJob.snapshot
    /\ \A e \in Exporter : exporter[e].snapshot \subseteq exportJob.snapshot

\* A pass that may complete the row has seen the directory, and it stays.
SeenExported ==
    /\ exported.manifest => exported.exists
    /\ ~exportJob.dryRun =>
          /\ exportJob.state = "READY" => exported.exists
          /\ \A e \in Exporter :
                exporter[e].at \in {"found", "acknowledging"} => exported.exists

ExportInv == ExportTypeOK /\ OfSnapshot /\ SeenExported

-----------------------------------------------------------------------------
LEMMA ExportTypes ==
    ASSUME ExportTypeOK
    PROVE  /\ exportJob \in ExportRow
           /\ sources \in [Item -> {"ready", "changed", "deleted", "reaped"}]
           /\ staging \in Directory /\ exported \in Directory
           /\ exporter \in [Exporter -> ExportPass]
BY DEF ExportTypeOK, ExportRow, Directory, ExportPass

LEMMA NewDirectory == NoDirectory \in Directory
BY DEF NoDirectory, Directory

LEMMA ExportInitially == ExportInit => ExportInv
<1> SUFFICES ASSUME ExportInit PROVE ExportInv
  OBVIOUS
<1>1. exportJob \in ExportRow /\ exportJob.state = "QUEUED"
      /\ exportJob.snapshot = {}
  <2>1. exportJob.snapshot = {} /\ exportJob.state = "QUEUED" /\ exportJob.claims = 0
        /\ exportJob.holder = NoExporter /\ exportJob.dryRun \in BOOLEAN
        /\ exportJob.taken = FALSE
    BY DEF ExportInit
  <2>2. exportJob = [state |-> exportJob.state, holder |-> exportJob.holder,
                     claims |-> exportJob.claims, dryRun |-> exportJob.dryRun,
                     taken |-> exportJob.taken, snapshot |-> exportJob.snapshot]
    BY DEF ExportInit
  <2>3. 0 \in 0 .. MaxClaims /\ {} \in SUBSET Item
    BY ExportParameters
  <2>4. QED BY <2>1, <2>2, <2>3 DEF ExportRow
<1>2. NoPass \in ExportPass /\ NoPass.at = "idle" /\ NoPass.snapshot = {}
  BY DEF NoPass, ExportPass
<1>3. ExportTypeOK
  BY <1>1, <1>2, NewDirectory DEF ExportInit, ExportTypeOK, ExportRow, Directory, ExportPass
<1>4. OfSnapshot /\ SeenExported
  BY <1>1, <1>2 DEF ExportInit, OfSnapshot, SeenExported, NoDirectory
<1>5. QED BY <1>3, <1>4 DEF ExportInv

\* One pass takes a step, to a state s of its own.  The row and the directories
\* keep what the other passes rely on.
LEMMA ExporterMoves ==
    ASSUME ExportInv, NEW e \in Exporter, NEW s \in ExportPass,
           exporter' = [exporter EXCEPT ![e] = s],
           exportJob' \in ExportRow, exportJob'.dryRun = exportJob.dryRun,
           exportJob.snapshot \subseteq exportJob'.snapshot,
           ~exportJob'.taken => exportJob'.snapshot = {},
           sources' \in [Item -> {"ready", "changed", "deleted", "reaped"}],
           staging' \in Directory, exported' \in Directory,
           staging'.files \subseteq exportJob'.snapshot,
           exported'.files \subseteq exportJob'.snapshot,
           exported'.manifest => exported'.exists,
           exported.exists => exported'.exists,
           s.snapshot \subseteq exportJob'.snapshot,
           ~exportJob.dryRun /\ s.at \in {"found", "acknowledging"} => exported'.exists,
           ~exportJob.dryRun /\ exportJob'.state = "READY" => exported'.exists
    PROVE  ExportInv'
<1>1. exporter \in [Exporter -> ExportPass]
  BY ExportTypes DEF ExportInv
<1>2. exporter' \in [Exporter -> ExportPass]
  BY <1>1
<1>3. ExportTypeOK'
  BY <1>2 DEF ExportTypeOK, ExportRow, Directory, ExportPass
<1>4. \A f \in Exporter : exporter'[f] = exporter[f] \/ exporter'[f] = s
  BY <1>1
<1>5. OfSnapshot'
  BY <1>4 DEF ExportInv, OfSnapshot
<1>6. SeenExported'
  BY <1>4 DEF ExportInv, SeenExported
<1>7. QED BY <1>3, <1>5, <1>6 DEF ExportInv

\* A step of a pass that leaves the row, the objects and the published
\* directory alone.
LEMMA ExporterWorks ==
    ASSUME ExportInv, NEW e \in Exporter, NEW s \in ExportPass,
           exporter' = [exporter EXCEPT ![e] = s],
           UNCHANGED <<exportJob, sources, exported>>,
           staging' \in Directory, staging'.files \subseteq exportJob.snapshot,
           s.snapshot \subseteq exportJob.snapshot,
           ~exportJob.dryRun /\ s.at \in {"found", "acknowledging"} => exported.exists
    PROVE  ExportInv'
<1>1. /\ exportJob \in ExportRow /\ exported \in Directory
      /\ sources \in [Item -> {"ready", "changed", "deleted", "reaped"}]
  BY ExportTypes DEF ExportInv
<1>2. QED BY <1>1, ExporterMoves DEF ExportInv, OfSnapshot, SeenExported

\* The same, when only the place of the pass changes.
LEMMA ExporterGoes ==
    ASSUME ExportInv, NEW e \in Exporter,
           NEW l \in {"idle", "claimed", "preparing", "saving", "writing", "renaming",
                      "found", "acknowledging", "failed", "refused"},
           ExporterTo(e, l), UNCHANGED <<exportJob, sources, exported>>,
           staging' \in Directory, staging'.files \subseteq exportJob.snapshot,
           ~exportJob.dryRun /\ l \in {"found", "acknowledging"} => exported.exists
    PROVE  ExportInv'
<1> DEFINE s == [exporter[e] EXCEPT !.at = l]
<1>1. exporter[e] \in ExportPass /\ exporter[e].snapshot \subseteq exportJob.snapshot
  BY ExportTypes DEF ExportInv, OfSnapshot
<1>2. s \in ExportPass /\ s.snapshot = exporter[e].snapshot /\ s.at = l
  BY <1>1 DEF ExportPass
<1>3. exporter' = [exporter EXCEPT ![e] = s]
  BY DEF ExporterTo
<1> HIDE DEF s
<1>4. QED BY <1>1, <1>2, <1>3, ExporterWorks

\* The row or an object changes, and no pass.
LEMMA ExportRowMoves ==
    ASSUME ExportInv, exportJob' \in ExportRow, exportJob'.dryRun = exportJob.dryRun,
           exportJob'.taken = exportJob.taken, exportJob'.snapshot = exportJob.snapshot,
           exportJob'.state = "READY" => exportJob.state = "READY",
           sources' \in [Item -> {"ready", "changed", "deleted", "reaped"}],
           UNCHANGED <<staging, exported, exporter>>
    PROVE  ExportInv'
<1>1. ExportTypeOK'
  BY DEF ExportInv, ExportTypeOK, ExportRow
<1>2. OfSnapshot' /\ SeenExported'
  BY DEF ExportInv, OfSnapshot, SeenExported
<1>3. QED BY <1>1, <1>2 DEF ExportInv

LEMMA ExportStep == ExportInv /\ [ExportNext]_exportVars => ExportInv'
<1> SUFFICES ASSUME ExportInv, [ExportNext]_exportVars PROVE ExportInv'
  OBVIOUS
<1>0. /\ exportJob \in ExportRow /\ staging \in Directory /\ exported \in Directory
      /\ sources \in [Item -> {"ready", "changed", "deleted", "reaped"}]
      /\ exporter \in [Exporter -> ExportPass]
      /\ staging.files \subseteq exportJob.snapshot
      /\ exported.files \subseteq exportJob.snapshot
      /\ \A e \in Exporter : exporter[e].snapshot \subseteq exportJob.snapshot
      /\ ~exportJob.taken => exportJob.snapshot = {}
  BY ExportTypes DEF ExportInv, OfSnapshot
<1>1. NoPass \in ExportPass /\ NoPass.at = "idle" /\ NoPass.snapshot = {}
  BY DEF NoPass, ExportPass
<1>2. NoDirectory.files = {}
  BY DEF NoDirectory
<1>3. ASSUME NEW e \in Exporter, ClaimExport(e) PROVE ExportInv'
  <2> DEFINE s == [NoPass EXCEPT !.at = "claimed", !.taken = exportJob.taken,
                                 !.snapshot = exportJob.snapshot]
             row == [exportJob EXCEPT !.state = "RUNNING", !.holder = e,
                                      !.claims = exportJob.claims + 1]
  <2>1. exporter' = [exporter EXCEPT ![e] = s] /\ exportJob' = row
        /\ exportJob.claims < MaxClaims /\ UNCHANGED <<sources, staging, exported>>
    BY <1>3 DEF ClaimExport
  <2>2. s \in ExportPass /\ s.snapshot = exportJob.snapshot /\ s.at = "claimed"
    BY <1>0, <1>1 DEF ExportPass, ExportRow
  <2>3. exportJob.claims + 1 \in 0 .. MaxClaims
    BY <1>0, <2>1, ExportParameters DEF ExportRow
  <2>4. row \in ExportRow /\ row.state = "RUNNING" /\ row.snapshot = exportJob.snapshot
        /\ row.dryRun = exportJob.dryRun /\ row.taken = exportJob.taken
    BY <1>0, <2>3 DEF ExportRow
  <2> HIDE DEF s, row
  <2>5. QED BY <1>0, <2>1, <2>2, <2>4, ExporterMoves DEF ExportInv, SeenExported
<1>4. CASE ExhaustExport \/ ExportLapses
  <2> DEFINE failed == [exportJob EXCEPT !.state = "FAILED"]
             lapsed == [exportJob EXCEPT !.holder = NoExporter]
  <2>1. /\ failed \in ExportRow /\ failed.state = "FAILED"
        /\ failed.snapshot = exportJob.snapshot /\ failed.dryRun = exportJob.dryRun
        /\ failed.taken = exportJob.taken
    BY <1>0 DEF ExportRow
  <2>2. /\ lapsed \in ExportRow /\ lapsed.state = exportJob.state
        /\ lapsed.snapshot = exportJob.snapshot /\ lapsed.dryRun = exportJob.dryRun
        /\ lapsed.taken = exportJob.taken
    BY <1>0 DEF ExportRow
  <2>3. /\ exportJob' = failed \/ exportJob' = lapsed
        /\ UNCHANGED <<sources, staging, exported, exporter>>
    BY <1>4 DEF ExhaustExport, ExportLapses
  <2> HIDE DEF failed, lapsed
  <2>4. QED BY <1>0, <2>1, <2>2, <2>3, ExportRowMoves
<1>5. ASSUME NEW e \in Exporter, LoadSnapshot(e) PROVE ExportInv'
  <2>1. AfterSnapshot \in {"acknowledging", "preparing"}
        /\ (~exportJob.dryRun => AfterSnapshot = "preparing")
    BY DEF AfterSnapshot
  <2>2. QED BY <1>0, <1>5, <2>1, ExporterGoes DEF LoadSnapshot
<1>6. ASSUME NEW e \in Exporter, CreateSnapshot(e) PROVE ExportInv'
  <2> DEFINE ready == {i \in Item : sources[i] \in {"ready", "changed"}}
             row == [exportJob EXCEPT !.taken = TRUE, !.snapshot = ready]
             s == [exporter[e] EXCEPT !.at = AfterSnapshot, !.snapshot = ready]
  <2>1. ready \in SUBSET Item
    OBVIOUS
  <2>2. AfterSnapshot \in {"acknowledging", "preparing"}
        /\ (~exportJob.dryRun => AfterSnapshot = "preparing")
    BY DEF AfterSnapshot
  <2>3. /\ exportJob' = row /\ exporter' = [exporter EXCEPT ![e] = s]
        /\ exportJob.state = "RUNNING" /\ ~exportJob.taken
        /\ UNCHANGED <<staging, exported>>
    BY <1>6 DEF CreateSnapshot, OwnsExport
  <2>4. sources' \in [Item -> {"ready", "changed", "deleted", "reaped"}]
    BY <1>0, <1>6 DEF CreateSnapshot
  <2> HIDE DEF ready
  <2>5. row \in ExportRow /\ row.state = exportJob.state /\ row.snapshot = ready
        /\ row.taken /\ row.dryRun = exportJob.dryRun
    BY <1>0, <2>1 DEF ExportRow
  <2>6. s \in ExportPass /\ s.snapshot = ready /\ s.at = AfterSnapshot
    BY <1>0, <2>1, <2>2 DEF ExportPass
  <2> HIDE DEF row, s
  <2>7. exportJob.snapshot = {}
    BY <1>0, <2>3
  <2>8. QED BY <1>0, <2>2, <2>3, <2>4, <2>5, <2>6, <2>7, ExporterMoves
            DEF ExportInv, SeenExported
<1>7. ASSUME NEW e \in Exporter, PrepareStage(e) PROVE ExportInv'
  <2>1. CASE /\ exported.manifest /\ UNCHANGED staging
             /\ exporter' = [exporter EXCEPT ![e].at = "found",
                                ![e].saved = exported.saved,
                                ![e].missing = exported.missing]
    <3> DEFINE s == [exporter[e] EXCEPT !.at = "found", !.saved = exported.saved,
                                        !.missing = exported.missing]
    <3>1. s \in ExportPass /\ s.snapshot = exporter[e].snapshot /\ s.at = "found"
      BY <1>0 DEF ExportPass, Directory
    <3>2. exporter' = [exporter EXCEPT ![e] = s]
      BY <2>1
    <3> HIDE DEF s
    <3>3. exported.exists
      BY <2>1 DEF ExportInv, SeenExported
    <3>4. QED BY <1>0, <1>7, <2>1, <3>1, <3>2, <3>3, ExporterWorks DEF PrepareStage
  <2>2. CASE staging' = [NoDirectory EXCEPT !.exists = TRUE] /\ ExporterTo(e, "saving")
    <3>1. staging' \in Directory /\ staging'.files = {}
      BY <2>2 DEF NoDirectory, Directory
    <3>2. QED BY <1>7, <2>2, <3>1, ExporterGoes DEF PrepareStage
  <2>3. QED BY <1>7, <2>1, <2>2 DEF PrepareStage
<1>8. ASSUME NEW e \in Exporter, NEW i \in Item, SaveObject(e, i) PROVE ExportInv'
  <2> DEFINE s == [exporter[e] EXCEPT !.saved = exporter[e].saved \cup {i}]
             d == [staging EXCEPT !.exists = TRUE, !.files = staging.files \cup {i}]
  <2>1. s \in ExportPass /\ s.snapshot = exporter[e].snapshot /\ s.at = exporter[e].at
    BY <1>0 DEF ExportPass
  <2>2. d \in Directory /\ d.files = staging.files \cup {i}
    BY <1>0 DEF Directory
  <2>3. /\ exporter' = [exporter EXCEPT ![e] = s] /\ staging' = d
        /\ i \in exporter[e].snapshot /\ exporter[e].at = "saving"
        /\ UNCHANGED <<exportJob, sources, exported>>
    BY <1>8 DEF SaveObject, Unsaved
  <2> HIDE DEF s, d
  <2>4. QED BY <1>0, <2>1, <2>2, <2>3, ExporterWorks
<1>9. ASSUME NEW e \in Exporter, NEW i \in Item, MissObject(e, i) PROVE ExportInv'
  <2> DEFINE s == [exporter[e] EXCEPT !.missing = exporter[e].missing \cup {i}]
  <2>1. s \in ExportPass /\ s.snapshot = exporter[e].snapshot /\ s.at = exporter[e].at
    BY <1>0 DEF ExportPass
  <2>2. exporter' = [exporter EXCEPT ![e] = s] /\ exporter[e].at = "saving"
        /\ UNCHANGED <<exportJob, sources, staging, exported>>
    BY <1>9 DEF MissObject
  <2> HIDE DEF s
  <2>3. QED BY <1>0, <2>1, <2>2, ExporterWorks
<1>10. ASSUME NEW e \in Exporter, CheckSnapshot(e) PROVE ExportInv'
  BY <1>0, <1>10, ExporterGoes DEF CheckSnapshot
<1>11. ASSUME NEW e \in Exporter, WriteManifest(e) PROVE ExportInv'
  <2> DEFINE d == [staging EXCEPT !.manifest = TRUE, !.saved = exporter[e].saved,
                                  !.missing = exporter[e].missing]
  <2>1. d \in Directory /\ d.files = staging.files
    BY <1>0 DEF Directory, ExportPass
  <2>2. staging' = d
    BY <1>11 DEF WriteManifest
  <2> HIDE DEF d
  <2>3. QED BY <1>0, <1>11, <2>1, <2>2, ExporterGoes DEF WriteManifest
<1>12. ASSUME NEW e \in Exporter, PublishStage(e) PROVE ExportInv'
  <2> DEFINE s == [exporter[e] EXCEPT !.at = "acknowledging"]
  <2>1. s \in ExportPass /\ s.snapshot = exporter[e].snapshot
    BY <1>0 DEF ExportPass
  <2>2. exporter' = [exporter EXCEPT ![e] = s]
    BY <1>12 DEF PublishStage, ExporterTo
  <2> HIDE DEF s
  <2>3. exported' \in Directory /\ exported'.exists
        /\ exported'.files \subseteq exportJob.snapshot
    BY <1>0, <1>12 DEF PublishStage, ExportInv, SeenExported
  <2>4. staging' = NoDirectory /\ UNCHANGED <<exportJob, sources>>
    BY <1>12 DEF PublishStage
  <2>5. QED BY <1>0, <1>2, <2>1, <2>2, <2>3, <2>4, NewDirectory, ExporterMoves
<1>13. ASSUME NEW e \in Exporter, CompleteExport(e) PROVE ExportInv'
  <2> DEFINE row == [exportJob EXCEPT !.state = "READY", !.holder = NoExporter]
  <2>1. row \in ExportRow /\ row.snapshot = exportJob.snapshot
        /\ row.dryRun = exportJob.dryRun /\ row.taken = exportJob.taken
    BY <1>0 DEF ExportRow
  <2>2. /\ exportJob' = row /\ exporter' = [exporter EXCEPT ![e] = NoPass]
        /\ exporter[e].at \in {"found", "acknowledging"}
        /\ UNCHANGED <<sources, staging, exported>>
    BY <1>13 DEF CompleteExport
  <2> HIDE DEF row
  <2>3. ~exportJob.dryRun => exported.exists
    BY <2>2 DEF ExportInv, SeenExported
  <2>4. QED BY <1>0, <1>1, <2>1, <2>2, <2>3, ExporterMoves DEF ExportInv, SeenExported
<1>14. ASSUME NEW e \in Exporter, PassErrs(e) PROVE ExportInv'
  <2>1. staging' = NoDirectory \/ staging' = staging
    BY <1>14 DEF PassErrs
  <2>2. staging' \in Directory /\ staging'.files \subseteq exportJob.snapshot
    BY <1>0, <1>2, <2>1, NewDirectory
  <2>3. QED BY <1>14, <2>2, ExporterGoes DEF PassErrs
<1>15. ASSUME NEW e \in Exporter, RecordFailure(e) PROVE ExportInv'
  <2>1. PICK t \in {"FAILED", "QUEUED"} :
           exportJob' = [exportJob EXCEPT !.holder = NoExporter, !.state = t]
    BY <1>15 DEF RecordFailure
  <2> DEFINE row == [exportJob EXCEPT !.holder = NoExporter, !.state = t]
  <2>2. row \in ExportRow /\ row.snapshot = exportJob.snapshot /\ row.state = t
        /\ row.dryRun = exportJob.dryRun /\ row.taken = exportJob.taken
    BY <1>0 DEF ExportRow
  <2>3. exportJob' = row /\ exporter' = [exporter EXCEPT ![e] = NoPass]
        /\ UNCHANGED <<sources, staging, exported>>
    BY <1>15, <2>1 DEF RecordFailure
  <2> HIDE DEF row
  <2>4. QED BY <1>0, <1>1, <2>2, <2>3, ExporterMoves DEF ExportInv, SeenExported
<1>16. ASSUME NEW e \in Exporter, PassEnds(e) PROVE ExportInv'
  BY <1>0, <1>1, <1>16, ExporterWorks DEF PassEnds
<1>17. ASSUME NEW i \in Item, NEW from,
              NEW to \in {"ready", "changed", "deleted", "reaped"},
              SourceMoves(i, from, to)
       PROVE  ExportInv'
  BY <1>0, <1>17, ExportRowMoves DEF SourceMoves
<1>18. CASE UNCHANGED exportVars
  BY <1>0, <1>18, ExportRowMoves DEF exportVars
<1>19. QED
  BY <1>3, <1>4, <1>5, <1>6, <1>7, <1>8, <1>9, <1>10, <1>11, <1>12, <1>13, <1>14,
     <1>15, <1>16, <1>17, <1>18 DEF ExportNext

\* The variables of the export keep their types.
THEOREM ExportTypesHold == ExportSpec => []ExportTypeOK
<1>1. ExportInv => ExportTypeOK
  BY DEF ExportInv
<1>2. QED BY ExportInitially, ExportStep, <1>1, PTL DEF ExportSpec

\* A job that is READY has its directory, and in it nothing that the stored
\* snapshot does not name, for any number of passes and objects.
THEOREM ReadyMeansExported == ExportSpec => []ReadyIsExported
<1>1. ExportInv => ReadyIsExported
  BY DEF ExportInv, OfSnapshot, SeenExported, ReadyIsExported
<1>2. QED BY ExportInitially, ExportStep, <1>1, PTL DEF ExportSpec

-----------------------------------------------------------------------------
(* The report of an export, when no two passes are at the staging at once. *)

CompleteDirectory(d, row) ==
    /\ d.exists /\ d.manifest /\ d.files = d.saved
    /\ row.taken /\ d.saved \cup d.missing = row.snapshot

\* What a pass p, a staging directory d and the row have to do with each other.
PassAgrees(p, d, row) ==
    /\ p.at = "claimed" /\ p.taken => row.taken /\ p.snapshot = row.snapshot
    /\ p.at \in {"claimed", "preparing"} => p.saved = {} /\ p.missing = {}
    /\ p.at \in {"preparing", "saving", "writing"}
          => row.taken /\ p.snapshot = row.snapshot
    /\ p.at \in {"saving", "writing"} => d.files = p.saved
    /\ p.at = "saving" => p.saved \cup p.missing \subseteq p.snapshot
    /\ p.at = "writing" => p.saved \cup p.missing = p.snapshot
    /\ p.at = "renaming" => CompleteDirectory(d, row)

StageInv ==
    /\ \A e \in Exporter : PassAgrees(exporter[e], staging, exportJob)
    /\ exported.exists => CompleteDirectory(exported, exportJob)

\* A pass at another place does not look at the staging.
LEMMA Elsewhere ==
    ASSUME NEW p, NEW d, NEW d2, NEW row, PassAgrees(p, d, row),
           p.at \notin StagePlaces
    PROVE  PassAgrees(p, d2, row)
BY DEF PassAgrees, StagePlaces

\* Nor at more of the row than its snapshot.
LEMMA SameSnapshot ==
    ASSUME NEW p, NEW d, NEW row, NEW row2,
           row2.taken = row.taken, row2.snapshot = row.snapshot
    PROVE  /\ PassAgrees(p, d, row) => PassAgrees(p, d, row2)
           /\ CompleteDirectory(d, row) => CompleteDirectory(d, row2)
BY DEF PassAgrees, CompleteDirectory

\* One pass goes on, the row's snapshot stays, and the staging changes only
\* under a pass that is at it alone, before or after the step.
LEMMA StageMoves ==
    ASSUME StageInv, exporter \in [Exporter -> ExportPass], NEW e \in Exporter,
           NEW s, exporter' = [exporter EXCEPT ![e] = s],
           exportJob'.taken = exportJob.taken,
           exportJob'.snapshot = exportJob.snapshot,
           PassAgrees(s, staging', exportJob),
           \/ staging' = staging
           \/ \A f \in Exporter \ {e} : exporter[f].at \notin StagePlaces,
           exported'.exists => CompleteDirectory(exported', exportJob)
    PROVE  StageInv'
<1>1. ASSUME NEW f \in Exporter \ {e} PROVE PassAgrees(exporter[f], staging', exportJob)
  BY Elsewhere DEF StageInv
<1>2. \A f \in Exporter : PassAgrees(exporter'[f], staging', exportJob)
  BY <1>1
<1>3. \A f \in Exporter : PassAgrees(exporter'[f], staging', exportJob')
  BY <1>2, SameSnapshot
<1>4. exported'.exists => CompleteDirectory(exported', exportJob')
  BY SameSnapshot
<1>5. QED BY <1>3, <1>4 DEF StageInv

LEMMA StageInitially == ExportInit => StageInv
<1> SUFFICES ASSUME ExportInit PROVE StageInv
  OBVIOUS
<1>1. NoPass.at = "idle" /\ ~NoDirectory.exists
  BY DEF NoPass, NoDirectory
<1>2. \A e \in Exporter : exporter[e] = NoPass
  BY DEF ExportInit
<1>3. exported = NoDirectory
  BY DEF ExportInit
<1>4. QED BY <1>1, <1>2, <1>3 DEF StageInv, PassAgrees

LEMMA StageStep ==
    ASSUME ExportInv, StageInv, OnePassStages, OnePassStages',
           [ExportNext]_exportVars
    PROVE  StageInv'
<1>0. /\ exportJob \in ExportRow /\ staging \in Directory /\ exported \in Directory
      /\ exporter \in [Exporter -> ExportPass]
      /\ \A e \in Exporter : PassAgrees(exporter[e], staging, exportJob)
      /\ exported.exists => CompleteDirectory(exported, exportJob)
  BY ExportTypes DEF ExportInv, StageInv
<1>1. NoPass.at = "idle" /\ NoPass.saved = {} /\ NoPass.missing = {}
  BY DEF NoPass
<1>2. \* A pass at the staging is there alone.
      ASSUME NEW e \in Exporter,
             exporter[e].at \in StagePlaces
               \/ (exporter'[e].at \in StagePlaces
                      /\ \A f \in Exporter \ {e} : exporter'[f] = exporter[f])
      PROVE  \A f \in Exporter \ {e} : exporter[f].at \notin StagePlaces
  BY <1>2 DEF OnePassStages
<1>3. \* A pass that only moves to a place from which it does not look back.
      ASSUME NEW e \in Exporter, NEW s, exporter' = [exporter EXCEPT ![e] = s],
             s.at \in {"idle", "acknowledging", "failed", "refused", "found"},
             exportJob'.taken = exportJob.taken,
             exportJob'.snapshot = exportJob.snapshot,
             UNCHANGED <<staging, exported>>
      PROVE  StageInv'
  <2>1. PassAgrees(s, staging', exportJob)
    BY <1>3 DEF PassAgrees
  <2>2. exported'.exists => CompleteDirectory(exported', exportJob)
    BY <1>0, <1>3
  <2>3. QED BY <1>0, <1>3, <2>1, <2>2, StageMoves
<1>4. ASSUME NEW e \in Exporter, ClaimExport(e) PROVE StageInv'
  <2> DEFINE s == [NoPass EXCEPT !.at = "claimed", !.taken = exportJob.taken,
                                 !.snapshot = exportJob.snapshot]
             row == [exportJob EXCEPT !.state = "RUNNING", !.holder = e,
                                      !.claims = exportJob.claims + 1]
  <2>1. exporter' = [exporter EXCEPT ![e] = s] /\ exportJob' = row
        /\ UNCHANGED <<staging, exported>>
    BY <1>4 DEF ClaimExport
  <2>2. s.at = "claimed" /\ s.taken = exportJob.taken
        /\ s.snapshot = exportJob.snapshot /\ s.saved = {} /\ s.missing = {}
    BY DEF NoPass
  <2>3. row.taken = exportJob.taken /\ row.snapshot = exportJob.snapshot
    BY <1>0 DEF ExportRow
  <2> HIDE DEF s, row
  <2>4. PassAgrees(s, staging', exportJob)
    BY <2>2 DEF PassAgrees
  <2>5. QED BY <1>0, <2>1, <2>3, <2>4, StageMoves
<1>5. CASE ExhaustExport \/ ExportLapses
  <2>1. /\ exportJob'.taken = exportJob.taken /\ exportJob'.snapshot = exportJob.snapshot
        /\ UNCHANGED <<staging, exported, exporter>>
    BY <1>0, <1>5 DEF ExhaustExport, ExportLapses, ExportRow
  <2>2. QED BY <1>0, <2>1, SameSnapshot DEF StageInv
<1>6. ASSUME NEW e \in Exporter, LoadSnapshot(e) PROVE StageInv'
  <2> DEFINE s == [exporter[e] EXCEPT !.at = AfterSnapshot]
  <2>1. /\ exporter' = [exporter EXCEPT ![e] = s]
        /\ exporter[e].at = "claimed" /\ exporter[e].taken
        /\ UNCHANGED <<exportJob, staging, exported>>
    BY <1>6 DEF LoadSnapshot, ExporterTo
  <2>2. /\ s.at \in {"acknowledging", "preparing"} /\ s.snapshot = exporter[e].snapshot
        /\ s.saved = exporter[e].saved /\ s.missing = exporter[e].missing
    BY <1>0 DEF ExportPass, AfterSnapshot
  <2> HIDE DEF s
  <2>3. PassAgrees(exporter[e], staging, exportJob)
    BY <1>0
  <2>4. PassAgrees(s, staging', exportJob)
    BY <2>1, <2>2, <2>3 DEF PassAgrees
  <2>5. QED BY <1>0, <2>1, <2>4, StageMoves
<1>7. ASSUME NEW e \in Exporter, CreateSnapshot(e) PROVE StageInv'
  <2> DEFINE ready == {i \in Item : sources[i] \in {"ready", "changed"}}
             row == [exportJob EXCEPT !.taken = TRUE, !.snapshot = ready]
             s == [exporter[e] EXCEPT !.at = AfterSnapshot, !.snapshot = ready]
  <2>1. /\ exportJob' = row /\ exporter' = [exporter EXCEPT ![e] = s]
        /\ ~exportJob.taken /\ exporter[e].at = "claimed"
        /\ UNCHANGED <<staging, exported>>
    BY <1>7 DEF CreateSnapshot
  <2> HIDE DEF ready
  <2>2. /\ s.at \in {"acknowledging", "preparing"} /\ s.snapshot = ready
        /\ s.saved = exporter[e].saved /\ s.missing = exporter[e].missing
    BY <1>0 DEF ExportPass, AfterSnapshot
  <2>3. row.taken /\ row.snapshot = ready
    BY <1>0 DEF ExportRow
  <2> HIDE DEF s, row
  <2>4. exporter[e].saved = {} /\ exporter[e].missing = {}
    BY <1>0, <2>1 DEF PassAgrees
  <2>5. PassAgrees(s, staging', row)
    BY <2>2, <2>3, <2>4 DEF PassAgrees
  <2>6. ASSUME NEW f \in Exporter PROVE PassAgrees(exporter[f], staging', row)
    <3>1. PassAgrees(exporter[f], staging, exportJob)
      BY <1>0
    <3>2. QED BY <2>1, <3>1 DEF PassAgrees, CompleteDirectory
  <2>7. ~exported'.exists
    BY <1>0, <2>1 DEF CompleteDirectory
  <2>8. QED BY <1>0, <2>1, <2>5, <2>6, <2>7 DEF StageInv
<1>8. ASSUME NEW e \in Exporter, PrepareStage(e) PROVE StageInv'
  <2>1. CASE /\ exported.manifest /\ UNCHANGED staging
             /\ exporter' = [exporter EXCEPT ![e].at = "found",
                                ![e].saved = exported.saved,
                                ![e].missing = exported.missing]
    <3> DEFINE s == [exporter[e] EXCEPT !.at = "found", !.saved = exported.saved,
                                        !.missing = exported.missing]
    <3>1. s.at = "found"
      BY <1>0 DEF ExportPass
    <3>2. exporter' = [exporter EXCEPT ![e] = s]
      BY <2>1
    <3> HIDE DEF s
    <3>3. QED BY <1>3, <1>8, <2>1, <3>1, <3>2 DEF PrepareStage
  <2>2. CASE staging' = [NoDirectory EXCEPT !.exists = TRUE] /\ ExporterTo(e, "saving")
    <3> DEFINE s == [exporter[e] EXCEPT !.at = "saving"]
    <3>1. /\ s.at = "saving" /\ s.snapshot = exporter[e].snapshot
          /\ s.saved = exporter[e].saved /\ s.missing = exporter[e].missing
      BY <1>0 DEF ExportPass
    <3>2. exporter' = [exporter EXCEPT ![e] = s]
      BY <2>2 DEF ExporterTo
    <3> HIDE DEF s
    <3>3. staging'.files = {}
      BY <2>2 DEF NoDirectory
    <3>4. PassAgrees(exporter[e], staging, exportJob) /\ exporter[e].at = "preparing"
          /\ UNCHANGED <<exportJob, exported>>
      BY <1>0, <1>8 DEF PrepareStage
    <3>5. PassAgrees(s, staging', exportJob)
      BY <3>1, <3>3, <3>4 DEF PassAgrees
    <3>6. exporter'[e].at \in StagePlaces /\ \A f \in Exporter \ {e} : exporter'[f] = exporter[f]
      BY <1>0, <3>1, <3>2 DEF StagePlaces
    <3>7. \A f \in Exporter \ {e} : exporter[f].at \notin StagePlaces
      BY <1>2, <3>6
    <3>8. QED BY <1>0, <3>2, <3>4, <3>5, <3>7, StageMoves
  <2>3. QED BY <1>8, <2>1, <2>2 DEF PrepareStage
<1>9. ASSUME NEW e \in Exporter, NEW i \in Item, SaveObject(e, i) PROVE StageInv'
  <2> DEFINE s == [exporter[e] EXCEPT !.saved = exporter[e].saved \cup {i}]
             d == [staging EXCEPT !.exists = TRUE, !.files = staging.files \cup {i}]
  <2>1. s.at = exporter[e].at /\ s.snapshot = exporter[e].snapshot
        /\ s.saved = exporter[e].saved \cup {i} /\ s.missing = exporter[e].missing
    BY <1>0 DEF ExportPass
  <2>2. d.files = staging.files \cup {i}
    BY <1>0 DEF Directory
  <2>3. /\ exporter' = [exporter EXCEPT ![e] = s] /\ staging' = d
        /\ exporter[e].at = "saving" /\ i \in exporter[e].snapshot
        /\ UNCHANGED <<exportJob, exported>>
    BY <1>9 DEF SaveObject, Unsaved
  <2> HIDE DEF s, d
  <2>4. PassAgrees(exporter[e], staging, exportJob)
    BY <1>0
  <2>5. PassAgrees(s, staging', exportJob)
    BY <2>1, <2>2, <2>3, <2>4 DEF PassAgrees
  <2>6. \A f \in Exporter \ {e} : exporter[f].at \notin StagePlaces
    BY <1>2, <2>3 DEF StagePlaces
  <2>7. QED BY <1>0, <2>3, <2>5, <2>6, StageMoves
<1>10. ASSUME NEW e \in Exporter, NEW i \in Item, MissObject(e, i) PROVE StageInv'
  <2> DEFINE s == [exporter[e] EXCEPT !.missing = exporter[e].missing \cup {i}]
  <2>1. s.at = exporter[e].at /\ s.snapshot = exporter[e].snapshot
        /\ s.saved = exporter[e].saved /\ s.missing = exporter[e].missing \cup {i}
    BY <1>0 DEF ExportPass
  <2>2. exporter' = [exporter EXCEPT ![e] = s] /\ exporter[e].at = "saving"
        /\ i \in exporter[e].snapshot
        /\ UNCHANGED <<exportJob, staging, exported>>
    BY <1>10 DEF MissObject, Unsaved
  <2> HIDE DEF s
  <2>3. PassAgrees(s, staging', exportJob)
    BY <1>0, <2>1, <2>2 DEF PassAgrees
  <2>4. QED BY <1>0, <2>2, <2>3, StageMoves
<1>11. ASSUME NEW e \in Exporter, CheckSnapshot(e) PROVE StageInv'
  <2> DEFINE s == [exporter[e] EXCEPT !.at = "writing"]
  <2>1. /\ s.at = "writing" /\ s.snapshot = exporter[e].snapshot
        /\ s.saved = exporter[e].saved /\ s.missing = exporter[e].missing
    BY <1>0 DEF ExportPass
  <2>2. exporter' = [exporter EXCEPT ![e] = s] /\ exporter[e].at = "saving"
        /\ exporter[e].snapshot \subseteq exporter[e].saved \cup exporter[e].missing
        /\ UNCHANGED <<exportJob, staging, exported>>
    BY <1>11 DEF CheckSnapshot, ExporterTo, Unsaved
  <2> HIDE DEF s
  <2>3. exporter[e].saved \cup exporter[e].missing \subseteq exporter[e].snapshot
    BY <1>0, <2>2 DEF PassAgrees
  <2>4. PassAgrees(s, staging', exportJob)
    BY <1>0, <2>1, <2>2, <2>3 DEF PassAgrees
  <2>5. QED BY <1>0, <2>2, <2>4, StageMoves
<1>12. ASSUME NEW e \in Exporter, WriteManifest(e) PROVE StageInv'
  <2> DEFINE s == [exporter[e] EXCEPT !.at = "renaming"]
             d == [staging EXCEPT !.manifest = TRUE, !.saved = exporter[e].saved,
                                  !.missing = exporter[e].missing]
  <2>1. s.at = "renaming"
    BY <1>0 DEF ExportPass
  <2>2. /\ d.files = staging.files /\ d.exists = staging.exists /\ d.manifest
        /\ d.saved = exporter[e].saved /\ d.missing = exporter[e].missing
    BY <1>0 DEF Directory
  <2>3. /\ exporter' = [exporter EXCEPT ![e] = s] /\ staging' = d
        /\ exporter[e].at = "writing" /\ staging.exists
        /\ UNCHANGED <<exportJob, exported>>
    BY <1>12 DEF WriteManifest, ExporterTo
  <2> HIDE DEF s, d
  <2>4. PassAgrees(exporter[e], staging, exportJob)
    BY <1>0
  <2>5. CompleteDirectory(d, exportJob)
    BY <2>2, <2>3, <2>4 DEF PassAgrees, CompleteDirectory
  <2>6. PassAgrees(s, staging', exportJob)
    BY <2>1, <2>3, <2>5 DEF PassAgrees
  <2>7. \A f \in Exporter \ {e} : exporter[f].at \notin StagePlaces
    BY <1>2, <2>3 DEF StagePlaces
  <2>8. QED BY <1>0, <2>3, <2>6, <2>7, StageMoves
<1>13. ASSUME NEW e \in Exporter, PublishStage(e) PROVE StageInv'
  <2> DEFINE s == [exporter[e] EXCEPT !.at = "acknowledging"]
  <2>1. s.at = "acknowledging"
    BY <1>0 DEF ExportPass
  <2>2. exporter' = [exporter EXCEPT ![e] = s] /\ exporter[e].at = "renaming"
        /\ UNCHANGED exportJob
    BY <1>13 DEF PublishStage, ExporterTo
  <2> HIDE DEF s
  <2>3. CompleteDirectory(staging, exportJob)
    BY <1>0, <2>2 DEF PassAgrees
  <2>4. exported' = staging \/ exported' = exported
    BY <1>13 DEF PublishStage
  <2>5. exported'.exists => CompleteDirectory(exported', exportJob)
    BY <1>0, <2>3, <2>4
  <2>6. PassAgrees(s, staging', exportJob)
    BY <2>1 DEF PassAgrees
  <2>7. \A f \in Exporter \ {e} : exporter[f].at \notin StagePlaces
    BY <1>2, <2>2 DEF StagePlaces
  <2>8. QED BY <1>0, <2>2, <2>5, <2>6, <2>7, StageMoves
<1>14. ASSUME NEW e \in Exporter, CompleteExport(e) \/ RecordFailure(e) \/ PassEnds(e)
       PROVE  StageInv'
  <2>1. exportJob'.taken = exportJob.taken /\ exportJob'.snapshot = exportJob.snapshot
    BY <1>0, <1>14 DEF CompleteExport, RecordFailure, PassEnds, ExportRow
  <2>2. exporter' = [exporter EXCEPT ![e] = NoPass] /\ UNCHANGED <<staging, exported>>
    BY <1>14 DEF CompleteExport, RecordFailure, PassEnds
  <2>3. QED BY <1>1, <1>3, <2>1, <2>2
<1>15. ASSUME NEW e \in Exporter, PassErrs(e) PROVE StageInv'
  <2>1. PICK l \in {"failed", "refused"} : ExporterTo(e, l)
    BY <1>15 DEF PassErrs
  <2> DEFINE s == [exporter[e] EXCEPT !.at = l]
  <2>2. s.at = l
    BY <1>0 DEF ExportPass
  <2>3. exporter' = [exporter EXCEPT ![e] = s] /\ UNCHANGED <<exportJob, exported>>
    BY <1>15, <2>1 DEF PassErrs, ExporterTo
  <2> HIDE DEF s
  <2>4. PassAgrees(s, staging', exportJob)
    BY <2>2 DEF PassAgrees
  <2>5. staging' = staging \/ exporter[e].at \in StagePlaces
    BY <1>15 DEF PassErrs, StagePlaces
  <2>6. staging' = staging \/ \A f \in Exporter \ {e} : exporter[f].at \notin StagePlaces
    BY <1>2, <2>5
  <2>7. QED BY <1>0, <2>3, <2>4, <2>6, StageMoves
<1>16. ASSUME NEW i \in Item, NEW from, NEW to, SourceMoves(i, from, to)
       PROVE  StageInv'
  BY <1>0, <1>16 DEF SourceMoves, StageInv
<1>17. CASE UNCHANGED exportVars
  BY <1>0, <1>17 DEF exportVars, StageInv
<1>18. QED
  BY <1>4, <1>5, <1>6, <1>7, <1>8, <1>9, <1>10, <1>11, <1>12, <1>13, <1>14,
     <1>15, <1>16, <1>17 DEF ExportNext

\* As long as no two passes are at the staging at once, which only a claim
\* that lapses under a working pass makes possible, the published report is
\* exact, whatever passes fail, die and start anew between.
THEOREM AloneReportsExactly == ExportSpec /\ []OnePassStages => []ReportExact
<1>1. StageInv => ReportExact
  BY DEF StageInv, ReportExact, CompleteDirectory
<1>2. QED BY ExportInitially, ExportStep, StageInitially, StageStep, <1>1, PTL
          DEF ExportSpec
==============================================================================
