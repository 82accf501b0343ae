\* See MC_Uploads for what races in each of the instances.
SPECIFICATION UploadsSpec
CONSTANTS
    s1 = s1  s2 = s2  m1 = m1  m2 = m2  n1 = n1  n2 = n2
    v1 = v1  v2 = v2  a1 = a1
    \* AssetUpload
    Session = {s1, s2}
    Published = {s1}
    Completer = {m1, m2}
    Recoverer = {n1, n2}
    Validator = {v1, v2}
    Aborter = {a1}
    NoOne = NoOne
    NoSession = NoSession
    MaxAttempts = 2
    \* VideoPlayback
    Attempt = {m1, m2}
    Job = {n1, n2}
    Original = "original"
    First = "first"
    Key <- Files
    Table <- VideoTables
    Reaper = {r1}
    None = None
    RetryBudget = 2
    MaxVideoFaults = 1
    \* FileUpload
    Upload = {m1, m2}
    NoFile = NoFile
    \* Voting: the references of posters are read as those of renditions are
    Vote = {x1}
    Voter = {m1, m2}
    Item = {i1}
    NoItem = NoItem
    NoVote = NoVote
    PosterKey = "poster"
    AssetTable = "assets"
    PosterTable = "renditions"
    MaxVoteEdits = 2
    MaxSaves = 3
    MaxStock = 1
    MaxLost = 1
    \* CanonicalBackfill, which shares the reaper with VideoPlayback
    LastRow = 2
    LegacyOf <- LegacyObject
    CopiesOf <- CopiesOfRow
    Relocated = {"image copy", "video copy"}
    MaxMigrationFaults = 2
SYMMETRY Interchangeable
\* A session that ended leaves nothing to do, nor does a deleted video.
CHECK_DEADLOCK FALSE
INVARIANTS
    TypesOK
    NeededBytesKept  
    OneGame OnlyDeadObjectsQueued
    GeneratedKept BackfillKept
    CreationsRemembered
    VotesHonoured
PROPERTIES FinalStatesKept PromiseKept CancelledWhenOver
