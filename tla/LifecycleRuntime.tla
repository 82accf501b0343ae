-------------------------- MODULE LifecycleRuntime --------------------------
(***************************************************************************)
(* How the background work of an API process is kept running.  A request   *)
(* commits outbox rows and then wakes a worker; wakes are coalesced into   *)
(* one flight of passes and one pending pass, and a 60 s schedule joins or *)
(* starts a flight in any case.  Closing the runtime drains the flights.   *)
(*                                                                         *)
(* An action is one turn of the event loop: code between two awaits.       *)
(*                                                                         *)
(* Abstractions:                                                           *)
(*  - A service takes a batch of the rows that are due and is done with    *)
(*    them; a row that fails on its own and waits for its back-off is as   *)
(*    good as taken.  A service fails as a whole when it cannot claim.     *)
(*  - A run that has claimed its rows may be over at any time.             *)
(*  - Microtasks a worker queues while one is queued already do nothing    *)
(*    the first does not, so there is one or none.                         *)
(*  - The requests that committed rows and have not called their wake yet  *)
(*    count as one: a wake serves every row committed before it.           *)
(***************************************************************************)
EXTENDS Naturals, FiniteSets, FiniteSetsExt

CONSTANTS RuntimeWorker,      \* "deletion", "maintenance"
          Service,     \* what their passes run
          Serves(_),   \* the services of each worker
          Drained,     \* the service whose full batches ask for another pass
          Batch,       \* rows a service takes at once
          MaxRows,     \* bound: rows committed
          MaxFaults    \* bound: failed passes and forgotten wakes

ASSUME RuntimeParameters ==
    /\ \A v, w \in RuntimeWorker : v # w => Serves(v) \cap Serves(w) = {}
    /\ UNION {Serves(w) : w \in RuntimeWorker} = Service
    /\ \E w \in RuntimeWorker : Serves(w) = {Drained}
    /\ Batch \in Nat \ {0} /\ MaxRows \in Nat /\ MaxFaults \in Nat

VARIABLES
    phase,     \* of the runtime
    pending,   \* deletionPending, maintenancePending
    flight,    \* deletionFlight, maintenanceFlight
    queued,    \* whether a worker has a microtask queued
    run,       \* what each service is doing for the flight of its worker
    stray,     \* how many runs of it an earlier flight left behind
    rows,      \* rows waiting for each service
    budget,    \* rows that may still be committed
    owed,      \* workers that a request still has to wake
    faults     \* how much has gone wrong

runtimeVars == <<phase, pending, flight, queued, run, stray, rows, budget, owed, faults>>

NotRunning == [at |-> "idle", took |-> 0]

RuntimeInit ==
    /\ phase = "new"
    /\ pending = [w \in RuntimeWorker |-> FALSE]
    /\ flight = [w \in RuntimeWorker |-> "none"]
    /\ queued = [w \in RuntimeWorker |-> FALSE]
    /\ run = [s \in Service |-> NotRunning]
    /\ stray = [s \in Service |-> 0]
    /\ rows = [s \in Service |-> 0]
    /\ budget = MaxRows
    /\ owed = {} /\ faults = 0

Accepting == phase = "started"
Closing   == phase \in {"closing", "closed"}
Busy(s) == run[s].at \in {"called", "claimed"}

ServedBy(s) == CHOOSE w \in RuntimeWorker : s \in Serves(w)

-----------------------------------------------------------------------------
(* The flights.                                                            *)

\* A pass calls every service of its worker in one turn.
CallServices(W) ==
    run' = [s \in Service |-> IF ServedBy(s) \in W
                              THEN [NotRunning EXCEPT !.at = "called"] ELSE run[s]]

\* Runs that are under way when their worker is given something new to do.
LeaveBehind(S) ==
    stray' = [s \in Service |-> IF s \in S /\ Busy(s) THEN stray[s] + 1 ELSE stray[s]]

\* Planted bug: a new flight whether or not one is under way.
EnsureAlways(W) ==
    /\ pending' = [w \in RuntimeWorker |-> w \notin W /\ pending[w]]
    /\ flight' = [w \in RuntimeWorker |-> IF w \in W THEN "passing" ELSE flight[w]]
    /\ CallServices(W) /\ LeaveBehind(UNION {Serves(w) : w \in W})

\* ensureDeletionWorker, ensureMaintenance: a flight that is under way, or
\* over but for its finally callback, is joined and gets a pending pass.
Ensure(W) ==
    LET idle == {w \in W : flight[w] = "none"} IN
    /\ pending' = [w \in RuntimeWorker |-> IF w \in W THEN w \notin idle ELSE pending[w]]
    /\ flight' = [w \in RuntimeWorker |-> IF w \in idle THEN "passing" ELSE flight[w]]
    /\ CallServices(idle) /\ LeaveBehind(UNION {Serves(w) : w \in idle})

ClaimRows(s) ==
    /\ run[s].at = "called"
    /\ \E n \in {Min({Batch, rows[s]})} \cup (IF Closing THEN {0} ELSE {}) :
          /\ run' = [run EXCEPT ![s] = [at |-> "claimed", took |-> n]]
          /\ rows' = [rows EXCEPT ![s] = @ - n]
    /\ UNCHANGED <<phase, pending, flight, queued, stray, budget, owed>>

\* Another pass when one is pending or the batch was full; otherwise the
\* promise of the flight settles.
EndPass(w) ==
    /\ flight[w] = "passing" /\ \A s \in Serves(w) : run[s].at = "claimed"
    /\ LET full  == Drained \in Serves(w) /\ run[Drained].took = Batch
           again == (pending[w] \/ full) /\ ~Closing IN
       IF again
       THEN /\ pending' = [pending EXCEPT ![w] = FALSE]
            /\ CallServices({w}) /\ UNCHANGED <<flight, stray>>
       ELSE /\ flight' = [flight EXCEPT ![w] = "ending"]
            /\ run' = [s \in Service |-> IF s \in Serves(w) THEN NotRunning
                                         ELSE run[s]]
            /\ UNCHANGED <<pending, stray>>
    /\ UNCHANGED <<phase, queued, rows, budget, owed>>

\* Planted bug: the flight is only given up when its passes succeed.
PassFailsForGood(s) ==
    /\ Busy(s)
    /\ LET w == ServedBy(s) IN
       /\ run' = [t \in Service |-> IF t \in Serves(w) THEN NotRunning ELSE run[t]]
       /\ LeaveBehind(Serves(w) \ {s})
    /\ rows' = [rows EXCEPT ![s] = @ + run[s].took]
    /\ UNCHANGED <<phase, pending, flight, queued, budget, owed>>

\* The first service that throws settles the promise of the flight; the
\* others run on.  Rows it had claimed become due again.
PassFails(s) ==
    /\ Busy(s)
    /\ LET w == ServedBy(s) IN
       /\ flight' = [flight EXCEPT ![w] = "ending"]
       /\ run' = [t \in Service |-> IF t \in Serves(w) THEN NotRunning ELSE run[t]]
       /\ LeaveBehind(Serves(w) \ {s})
    /\ rows' = [rows EXCEPT ![s] = @ + run[s].took]
    /\ UNCHANGED <<phase, pending, queued, budget, owed>>

StrayEnds(s) ==
    /\ stray[s] > 0
    /\ stray' = [stray EXCEPT ![s] = @ - 1]
    /\ UNCHANGED <<phase, pending, flight, queued, run, rows, budget, owed>>

\* Planted bug: a pass asked for while the promise settled is not scheduled.
SettleOnly(w) ==
    /\ flight[w] = "ending"
    /\ flight' = [flight EXCEPT ![w] = "none"]
    /\ UNCHANGED <<phase, pending, queued, run, stray, rows, budget, owed>>

\* The finally callback.
Settle(w) ==
    /\ flight[w] = "ending"
    /\ flight' = [flight EXCEPT ![w] = "none"]
    /\ queued' = [queued EXCEPT ![w] = @ \/ (pending[w] /\ Accepting)]
    /\ UNCHANGED <<phase, pending, run, stray, rows, budget, owed>>

\* scheduleDeletionWorker, scheduleMaintenance: the queued callback.
Microtask(w) ==
    /\ queued[w]
    /\ queued' = [queued EXCEPT ![w] = FALSE]
    /\ IF Accepting /\ pending[w] THEN Ensure({w})
       ELSE UNCHANGED <<pending, flight, run, stray>>
    /\ UNCHANGED <<phase, rows, budget, owed>>

-----------------------------------------------------------------------------
(* Requests, the schedule, and the owner of the runtime.                   *)

Commit(s) ==
    /\ budget > 0 /\ budget' = budget - 1
    /\ rows' = [rows EXCEPT ![s] = @ + 1]
    /\ owed' = owed \cup {ServedBy(s)}
    /\ UNCHANGED <<phase, pending, flight, queued, run, stray>>

\* wakeDeletionWorker wakes one worker, wakeMaintenance both.
Wake(W) ==
    /\ owed # {} /\ owed' = owed \ W
    /\ IF Closing THEN UNCHANGED <<pending, queued>>
       ELSE /\ pending' = [w \in RuntimeWorker |-> w \in W \/ pending[w]]
            /\ queued' = [w \in RuntimeWorker |-> (w \in W /\ Accepting) \/ queued[w]]
    /\ UNCHANGED <<phase, flight, run, stray, rows, budget>>

\* The request, or its process, ends between its commit and its wake.
ForgetWake ==
    /\ owed # {} /\ owed' = {}
    /\ UNCHANGED <<phase, pending, flight, queued, run, stray, rows, budget>>

\* recover: at the start, and every 60 seconds.
Start ==
    /\ phase = "new" /\ phase' = "started"
    /\ Ensure(RuntimeWorker)
    /\ UNCHANGED <<queued, rows, budget, owed>>

Recover ==
    /\ Accepting
    /\ Ensure(RuntimeWorker)
    /\ UNCHANGED <<phase, queued, rows, budget, owed>>

CloseRuntime ==
    /\ ~Closing /\ phase' = "closing"
    /\ pending' = [w \in RuntimeWorker |-> FALSE]
    /\ UNCHANGED <<flight, queued, run, stray, rows, budget, owed>>

\* Planted bug: close does not wait for the flights.
CloseAtOnce ==
    /\ phase = "closing" /\ phase' = "closed"
    /\ UNCHANGED <<pending, flight, queued, run, stray, rows, budget, owed>>

\* close waits for the flights that were under way.
CloseReturns ==
    /\ phase = "closing" /\ \A w \in RuntimeWorker : flight[w] = "none"
    /\ phase' = "closed"
    /\ UNCHANGED <<pending, flight, queued, run, stray, rows, budget, owed>>

-----------------------------------------------------------------------------
\* What the event loop runs of its own accord.
Turn ==
    \/ \E s \in Service : ClaimRows(s) \/ StrayEnds(s)
    \/ \E w \in RuntimeWorker : EndPass(w) \/ Settle(w) \/ Microtask(w)
    \/ CloseReturns

Step ==
    \/ Turn \/ Start \/ Recover \/ CloseRuntime
    \/ \E s \in Service : Commit(s)
    \/ Wake({"deletion"}) \/ Wake(RuntimeWorker)

Fault == ForgetWake \/ \E s \in Service : PassFails(s)

RuntimeNext ==
    \/ Step /\ UNCHANGED faults
    \/ faults < MaxFaults /\ Fault /\ faults' = faults + 1

RuntimeSpec == RuntimeInit /\ [][RuntimeNext]_runtimeVars

\* The event loop runs what is ready, storage and database answer, and the
\* schedule fires until the runtime closes.  The properties need no wake and
\* no microtask to be fair.
RuntimeFairness ==
    /\ \A s \in Service : WF_runtimeVars(ClaimRows(s) /\ UNCHANGED faults)
    /\ \A w \in RuntimeWorker : WF_runtimeVars(EndPass(w) /\ UNCHANGED faults)
                         /\ WF_runtimeVars(Settle(w) /\ UNCHANGED faults)
    /\ WF_runtimeVars(CloseReturns /\ UNCHANGED faults)
    /\ WF_runtimeVars(Recover /\ UNCHANGED faults)

FairRuntimeSpec == RuntimeSpec /\ RuntimeFairness

-----------------------------------------------------------------------------
(* Properties.                                                             *)

\* Every variable has its type, and the bounds are respected.
RuntimeTypeOK ==
    /\ phase \in {"new", "started", "closing", "closed"}
    /\ pending \in [RuntimeWorker -> BOOLEAN] /\ queued \in [RuntimeWorker -> BOOLEAN]
    /\ flight \in [RuntimeWorker -> {"none", "passing", "ending"}]
    /\ run \in [Service -> [at : {"idle", "called", "claimed"},
                            took : 0 .. Batch]]
    /\ stray \in [Service -> 0 .. MaxFaults]
    /\ rows \in [Service -> 0 .. MaxRows] /\ budget \in 0 .. MaxRows
    /\ owed \subseteq RuntimeWorker /\ faults \in 0 .. MaxFaults

\* As long as nothing fails, a row whose wake was called never waits for the
\* schedule: a run of its service that has not claimed yet, a full batch, a
\* pending pass of a flight, or a microtask is going to take it.
NoLostWake ==
    Accepting /\ faults = 0 /\ owed = {} /\ rows[Drained] > 0 =>
        LET w == ServedBy(Drained) IN
        \/ run[Drained].at = "called" \/ run[Drained].took = Batch
        \/ pending[w] /\ (flight[w] # "none" \/ queued[w])

\* One active worker: a service runs twice at once only behind a service of
\* the same worker that failed, so the orphan reaper never does.
SingleFlight ==
    /\ stray[Drained] = 0
    /\ faults = 0 => \A s \in Service : stray[s] = 0

\* Once close has returned no flight is left, none starts again, and no pass
\* is running but what a failed flight left behind.
ClosedIsQuiet ==
    phase = "closed" => \A s \in Service : run[s] = NotRunning /\ ~pending[ServedBy(s)]

\* Every row is taken, whatever failed and whichever wake was forgotten,
\* unless the runtime closes; the outbox then keeps it for the next process.
EveryRowTaken ==
    \A s \in Service : Accepting /\ rows[s] > 0 ~> rows[s] = 0 \/ Closing

\* Closing ends: it waits for no pass that could start another.
CloseEnds == phase = "closing" ~> phase = "closed"

\* The runtime never gets stuck, in its work or in its end.
RuntimeProgress == EveryRowTaken /\ CloseEnds
=============================================================================
