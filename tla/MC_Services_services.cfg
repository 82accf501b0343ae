\* Two of every process that may race; see MC_Services for the names.
SPECIFICATION ServicesSpec
CONSTANTS
    m1 = m1  m2 = m2  n1 = n1  n2 = n2
    \* ProjectSubmit
    Request = {m1, m2, q1}
    Payload = {p1, p2}
    Duplicates = {p1}
    NoRequest = NoRequest
    \* PlaySessions
    Play = {m1, m2}
    Login = {l1}
    Nobody = Nobody
    Origin = {o1}
    Call = {n1, n2}
    MaxVersion = 2
    PerLogin = 1
    PerNobody = 1
    InAll = 2
    \* ObjectDeletion
    Key <- Objects
    Table <- Tables
    Reaper = {r1}
    None = None
    \* ImageOutputs
    Output = {"card"}
    Source = "source"
    Worker = {m1, m2}
    Sweeper = {t1}
    MaxAttempts = 2
    MaxFaults = 2
    \* ExportJob
    Item = {m1, m2}
    Exporter = {n1, n2}
    NoExporter = NoExporter
    MaxClaims = 2
    \* WebglBuild
    Build = {m1, m2}
    Change = Change
    Piece = {x1, x2}
    Checker = {n1, n2}
    NoBuild = NoBuild
    NoChecker = NoChecker
    MaxTries = 2
    \* PrefixDeletion
    LastKey = 2
    Remover = {n1, n2}
    NoRemover = NoRemover
    PageSize = 2
    MaxPages = 3
    \* VideoCommit, which shares the reaper and the tables with ImageOutputs
    Original = "video"
    Generated = "playback"
    Elsewhere = "elsewhere"
    Maker = {m1, m2}
    IntentSweep = {t1}
    MaxMakes = 2
    MaxCommitFaults = 1
    \* DownloadBans
    Target = {"a", "old a", "net"}
    Canonical <- CanonicalText
    Address = {"a"}
    Covers <- CoversOf
    BanRow = {m1, m2}
    Caller = {n1, n2}
    MaxIpHits = 1
    MaxLosses = 2
SYMMETRY Interchangeable
\* Every component may come to an end.
CHECK_DEADLOCK FALSE
INVARIANTS
    TypesOK
    KeyHonoured
    RevocationReaches BarredNeverServed PlayBudgets 
    ImagesKept
    ReadyIsExported
    CurrentServed
    NothingLeftBehind
    OneWholeVideo
    BansHonoured
