--------------------------- MODULE ServerLifecycle ---------------------------
(***************************************************************************)
(* The life of the API process: start() of the server, a shutdown asked    *)
(* for by a signal at any moment of it, the requests in flight, and the    *)
(* owner of the resources, which starts them in the order of registration  *)
(* and closes them in the reverse order.                                   *)
(*                                                                         *)
(* An action is one turn of the event loop: code between two awaits.       *)
(*                                                                         *)
(* Abstractions:                                                           *)
(*  - A timer may run out at any moment; what it waits for may hang.       *)
(*  - A resource is started and closed by the owner; borrowed resources    *)
(*    and the construction of the context are left out.                    *)
(*  - Fastify is external: close() lets a listen under way settle, then    *)
(*    the requests in flight, then runs onClose, which closes the context. *)
(*    Whether it passes on an error of that hook is left open.             *)
(*  - A signal that arrives when no handler is registered ends the process *)
(*    and is left out.                                                     *)
(***************************************************************************)
EXTENDS Naturals

CONSTANTS Last,         \* resources are 1..Last, in the order of registration
          Lifecycle,    \* the one that holds the state of the process
          MaxRequests   \* bound: requests in flight at once

ASSUME ServerParameters ==
    /\ Last \in Nat /\ Lifecycle \in 1 .. Last /\ MaxRequests \in Nat

VARIABLES
    mode,        \* state of the process, as health checks report it
    startup,     \* where start() of the server is
    starter,     \* startWork of the resource owner, at resource n
    closer,      \* its closePromise, at resource n; has anything failed?
    app,         \* the Fastify instance
    appFailed,   \* its close() rejected
    stopping,    \* where shutdown() is, and what it has seen
    signals,     \* the handlers of SIGTERM and SIGINT are registered
    inFlight,    \* requests being served
    exitCode     \* of the process, once it is decided

serverVars == <<mode, startup, starter, closer, app, appFailed, stopping, signals,
                inFlight, exitCode>>

NotStopping == [at |-> "none", drained |-> FALSE, failed |-> FALSE, late |-> FALSE]

ServerInit ==
    /\ mode = "starting" /\ startup = "none"
    /\ starter = [at |-> "none", n |-> 0]
    /\ closer = [at |-> "none", n |-> Last, failed |-> FALSE]
    /\ app = "built" /\ appFailed = FALSE
    /\ stopping = NotStopping /\ signals = FALSE
    /\ inFlight = 0 /\ exitCode = "none"

ShutdownAsked == stopping.at # "none"
CloseAsked    == closer.at # "none"

\* A closed lifecycle keeps its state.
LifecycleClosed ==
    closer.at = "ended" \/ (closer.at = "closing" /\ closer.n <= Lifecycle)

SetState(next) == mode' = IF LifecycleClosed THEN mode ELSE next

-----------------------------------------------------------------------------
(* The owner of the resources.                                             *)

\* Resource n is started unless close() was called meanwhile.
StartNext(n) ==
    starter' = [at |-> CASE CloseAsked -> "failed"
                         [] ~CloseAsked /\ n > Last -> "done"
                         [] OTHER -> "running",
                n |-> n]

ResourceStarts ==
    /\ starter.at = "running" /\ StartNext(starter.n + 1)
    /\ UNCHANGED <<mode, startup, closer, app, appFailed, stopping, signals,
                   inFlight, exitCode>>

\* close() is called many times and runs once.
CloseContext == IF CloseAsked THEN closer ELSE [closer EXCEPT !.at = "waiting"]

ResourceFails ==
    /\ starter.at = "running"
    /\ starter' = [starter EXCEPT !.at = "failed"] /\ closer' = CloseContext
    /\ UNCHANGED <<mode, startup, app, appFailed, stopping, signals, inFlight,
                   exitCode>>

CloseAt(n, failed) ==
    /\ closer' = [at |-> IF n = 0 THEN "ended" ELSE "closing", n |-> n, failed |-> failed]
    /\ mode' = IF n = Lifecycle THEN "shutting_down" ELSE mode
    /\ UNCHANGED <<startup, starter, app, appFailed, stopping, signals, inFlight,
                   exitCode>>

\* A start under way is waited for, but not for ever.
StartAwaited ==
    /\ closer.at = "waiting"
    /\ CloseAt(Last, starter.at = "running")

\* A resource that is closed, cannot be, or takes too long is left behind.
ResourceCloses ==
    /\ closer.at = "closing"
    /\ \E failed \in BOOLEAN : CloseAt(closer.n - 1, closer.failed \/ failed)

-----------------------------------------------------------------------------
(* Fastify and its requests.                                               *)

CloseApp == IF app \in {"built", "open"} THEN "closing" ELSE app

AppDrained ==
    /\ app = "closing" /\ startup # "listening" /\ inFlight = 0
    /\ app' = "hooks" /\ closer' = CloseContext
    /\ UNCHANGED <<mode, startup, starter, appFailed, stopping, signals, inFlight,
                   exitCode>>

AppCloses ==
    /\ app = "hooks" /\ closer.at = "ended"
    /\ app' = "closed" /\ appFailed' \in {FALSE, closer.failed}
    /\ UNCHANGED <<mode, startup, starter, closer, stopping, signals, inFlight,
                   exitCode>>

\* Nothing refuses a request while the process drains.
RequestStarts ==
    /\ app = "open" /\ inFlight < MaxRequests
    /\ inFlight' = inFlight + 1
    /\ UNCHANGED <<mode, startup, starter, closer, app, appFailed, stopping, signals,
                   exitCode>>

RequestEnds ==
    /\ inFlight > 0 /\ inFlight' = inFlight - 1
    /\ UNCHANGED <<mode, startup, starter, closer, app, appFailed, stopping, signals,
                   exitCode>>

-----------------------------------------------------------------------------
(* start() of the server.  After every await it looks for a shutdown, and  *)
(* waits for its end if there is one.                                      *)

Begin ==
    /\ startup = "none" /\ startup' = "starting"
    /\ signals' = TRUE /\ StartNext(1)
    /\ UNCHANGED <<mode, closer, app, appFailed, stopping, inFlight, exitCode>>

ContextStarted ==
    /\ startup = "starting" /\ starter.at = "done"
    /\ startup' = IF ShutdownAsked THEN "parked" ELSE "listening"
    /\ UNCHANGED <<mode, starter, closer, app, appFailed, stopping, signals,
                   inFlight, exitCode>>

\* closePreserving().
Abandon ==
    IF ShutdownAsked
    THEN startup' = "parked" /\ UNCHANGED <<signals, app>>
    ELSE startup' = "abandoned" /\ signals' = FALSE /\ app' = CloseApp

ContextFailed ==
    /\ startup = "starting" /\ starter.at = "failed" /\ closer.at = "ended"
    /\ Abandon
    /\ UNCHANGED <<mode, starter, closer, appFailed, stopping, inFlight, exitCode>>

\* Planted bug: a signal that arrived while listen() was under way is not
\* looked for.
ListensUnasked ==
    /\ startup = "listening" /\ startup' = "up"
    /\ app' = IF app = "built" THEN "open" ELSE app
    /\ SetState("ready")
    /\ UNCHANGED <<starter, closer, appFailed, stopping, signals, inFlight, exitCode>>

Listens ==
    /\ startup = "listening"
    /\ app' = IF app = "built" THEN "open" ELSE app
    /\ \/ ShutdownAsked /\ startup' = "parked" /\ UNCHANGED mode
       \/ ~ShutdownAsked /\ startup' = "up" /\ SetState("ready")
    /\ UNCHANGED <<starter, closer, appFailed, stopping, signals, inFlight, exitCode>>

ListenFails ==
    /\ startup = "listening" /\ Abandon
    /\ UNCHANGED <<mode, starter, closer, appFailed, stopping, inFlight, exitCode>>

StartReturns ==
    /\ startup = "parked" /\ stopping.at = "over" /\ startup' = "ended"
    /\ UNCHANGED <<mode, starter, closer, app, appFailed, stopping, signals,
                   inFlight, exitCode>>

StartRejects ==
    /\ startup = "abandoned" /\ app = "closed" /\ closer.at = "ended"
    /\ startup' = "failed" /\ exitCode' = "1"
    /\ UNCHANGED <<mode, starter, closer, app, appFailed, stopping, signals, inFlight>>

-----------------------------------------------------------------------------
(* shutdown().                                                             *)

Signal ==
    /\ signals /\ ~ShutdownAsked
    /\ signals' = FALSE /\ stopping' = [stopping EXCEPT !.at = "draining"]
    /\ SetState("draining")
    /\ UNCHANGED <<startup, starter, closer, app, appFailed, inFlight, exitCode>>

DeadlinePasses ==
    /\ stopping.at \in {"draining", "app", "context"} /\ ~stopping.late
    /\ stopping' = [stopping EXCEPT !.late = TRUE]
    /\ UNCHANGED <<mode, startup, starter, closer, app, appFailed, signals, inFlight,
                   exitCode>>

\* Nothing is in flight at a poll, or the budget for that is used up.
EndDrain ==
    /\ stopping.at = "draining"
    /\ stopping' = [stopping EXCEPT !.at = "app", !.drained = inFlight = 0]
    /\ app' = CloseApp /\ SetState("shutting_down")
    /\ UNCHANGED <<startup, starter, closer, appFailed, signals, inFlight, exitCode>>

\* close() of the context is called whether or not the deadline has passed.
ThenCloseContext ==
    /\ stopping' = [stopping EXCEPT !.at = "context", !.failed = app # "closed" \/ appFailed]
    /\ closer' = CloseContext
    /\ UNCHANGED <<mode, startup, starter, app, appFailed, signals, inFlight, exitCode>>

\* Planted bug: the close of Fastify has no deadline.
AppAwaitedForever ==
    /\ stopping.at = "app" /\ app = "closed"
    /\ ThenCloseContext

AppAwaited ==
    /\ stopping.at = "app" /\ (app = "closed" \/ stopping.late)
    /\ ThenCloseContext

ContextAwaited ==
    /\ stopping.at = "context" /\ (closer.at = "ended" \/ stopping.late)
    /\ stopping' = [stopping EXCEPT !.at = "over"]
    /\ exitCode' = CASE stopping.late -> "forced"
                     [] ~stopping.late /\ stopping.drained /\ ~stopping.failed
                        /\ ~closer.failed -> "0"
                     [] OTHER -> "1"
    /\ UNCHANGED <<mode, startup, starter, closer, app, appFailed, signals, inFlight>>

-----------------------------------------------------------------------------
ServerStep ==
    \/ Begin \/ ContextStarted \/ ContextFailed \/ Listens \/ ListenFails
    \/ StartReturns \/ StartRejects
    \/ ResourceStarts \/ ResourceFails \/ StartAwaited \/ ResourceCloses
    \/ AppDrained \/ AppCloses \/ RequestStarts \/ RequestEnds
    \/ Signal \/ DeadlinePasses \/ EndDrain \/ AppAwaited \/ ContextAwaited

\* A forced exit ends everything.
ServerNext == exitCode # "forced" /\ ServerStep

\* Timers run out, and the event loop runs what is due.  No start or close of
\* a resource, no request and no signal is assumed to come or to end.
ServerFairness ==
    /\ WF_serverVars(EndDrain) /\ WF_serverVars(DeadlinePasses)
    /\ WF_serverVars(AppAwaited) /\ WF_serverVars(ContextAwaited)
    /\ WF_serverVars(exitCode # "forced" /\ StartAwaited)
    /\ WF_serverVars(exitCode # "forced" /\ ResourceCloses)

ServerSpec == ServerInit /\ [][ServerNext]_serverVars /\ ServerFairness

-----------------------------------------------------------------------------
\* Every variable has its type.
ServerTypeOK ==
    /\ mode \in {"starting", "ready", "draining", "shutting_down"}
    /\ startup \in {"none", "starting", "listening", "up", "parked", "ended",
                    "abandoned", "failed"}
    /\ starter \in [at : {"none", "running", "done", "failed"}, n : 0 .. Last + 1]
    /\ closer \in [at : {"none", "waiting", "closing", "ended"}, n : 0 .. Last,
                   failed : BOOLEAN]
    /\ app \in {"built", "open", "closing", "hooks", "closed"} /\ appFailed \in BOOLEAN
    /\ stopping \in [at : {"none", "draining", "app", "context", "over"},
                     drained : BOOLEAN, failed : BOOLEAN, late : BOOLEAN]
    /\ signals \in BOOLEAN /\ inFlight \in 0 .. MaxRequests
    /\ exitCode \in {"none", "0", "1", "forced"}

\* A process that reports ready listens, with every resource started and none
\* being closed, whenever the signal to stop it came.
ReadyIsServing ==
    mode = "ready" => /\ app = "open" /\ starter.at = "done"
                      /\ ~ShutdownAsked /\ ~CloseAsked

\* No resource is closed under a request before the deadline, nor under its
\* own start before the wait for that has run out; and exit code 0 means that
\* nothing was cut short.
ClosedInOrder ==
    /\ inFlight > 0 /\ CloseAsked => stopping.late
    /\ starter.at = "running" /\ closer.at \in {"closing", "ended"} => closer.failed
    /\ exitCode = "0" => /\ inFlight = 0 /\ app = "closed"
                         /\ closer.at = "ended" /\ ~closer.failed

\* What shutdown() overlaps with start(), requests and resources never breaks.
OrderlyServer == ReadyIsServing /\ ClosedInOrder

\* A process that is told to stop ends, and a context that is closed comes to
\* the end of its resources, whatever hangs.
ServerStops ==
    /\ ShutdownAsked ~> exitCode # "none"
    /\ CloseAsked ~> closer.at = "ended" \/ exitCode = "forced"
=============================================================================
