SPECIFICATION Spec
CONSTANTS
    Client = {c1}
    Caller = {w1}
    Path = {p1}
    StorageRoot = {}
    Size = {0, 2}
    ChunkSize = {0, 1}
    MaxSessions = 2
    MaxUploads = 1
    MaxJobs = 2
    Idle = Idle
    c1 = c1
    id1 = id1
    d1 = d1
    Owner = {c1}
    Key = {id1}
    OwnerOf <- OneOwner
    Channel = {d1}
    KeyOf <- OneLabel
    Reader = Reader
    Callback = Callback
    Outside = Outside
    MaxShells = 3
INVARIANTS
    FileInv
    TerminalInv
PROPERTIES
    GoneClientIsCancelled
    EndsForItsOwnReason
    GoneClientHasNoShell
CHECK_DEADLOCK FALSE
