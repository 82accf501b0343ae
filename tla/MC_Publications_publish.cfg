\* One image published twice by two passes; two change requests of one author;
\* three references with keys of up to two characters.
SPECIFICATION PublicationsSpec
CONSTANTS
    w1 = w1  w2 = w2  r1 = r1  r2 = r2
    \* ProjectPublication
    Image = {"image"}
    Build = {}
    Key <- ImageOnly
    Table <- ReaderTables
    Worker = {w1, w2}
    Reaper = {d1}
    None = None
    MaxJobs = 2
    MaxFaults = 2
    \* ProjectChange
    ChangeRequest = {r1, r2}
    Author = {u1}
    Draft = {c1}
    Operator = {o1}
    Publisher = {w1, w2}
    Nil = Nil
    MaxEdits = 1
    \* ReferenceIndex
    Character = {"a", "b"}
    RefSource = {"s", "t"}
    MaxLength = 2
    MaxRefs = 3
SYMMETRY Interchangeable
\* A deleted project has nothing left to do.
CHECK_DEADLOCK FALSE
INVARIANTS
    TypesOK
    AggregateAgrees StagedImagesKept FirstPublicationKept
    AppliedAsSubmitted IndexAgrees
PROPERTIES OnlyClaimantDecides
