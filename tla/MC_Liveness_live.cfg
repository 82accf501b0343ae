\* One session with three failures anywhere; two rows with one failure; three
\* resources.
SPECIFICATION LivenessSpec
CONSTANTS
    s1 = s1  c1 = c1  r1 = r1  v1 = v1  a1 = a1
    \* AssetUploadLive
    Session = {s1}
    Published = {}
    Completer = {c1}
    Recoverer = {r1}
    Validator = {v1}
    Aborter = {a1}
    NoOne = NoOne
    NoSession = NoSession
    MaxAttempts = 2
    MaxFailures = 3
    \* LifecycleRuntime
    RuntimeWorker = {"deletion", "maintenance"}
    Service = {"reaper", "aborts", "intents"}
    Serves <- ServesOf
    Drained = "reaper"
    Batch = 1
    MaxRows = 2
    MaxFaults = 1
    \* ServerLifecycle
    Last = 3
    Lifecycle = 2
    MaxRequests = 1
\* A session that ended leaves nothing to do; a runtime that closed and
\* a process that exits stop.
CHECK_DEADLOCK FALSE
INVARIANTS
    TypesOK
     SingleFlight ClosedIsQuiet
    OrderlyServer
PROPERTIES
    EveryUploadEnds
    RuntimeProgress
    ServerStops
