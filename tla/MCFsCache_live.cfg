\* Fair runs with a crash, which may be a power cut, and a cap that one upload
\* can exceed.
SPECIFICATION FairSpec
CONSTANTS
    h1 = h1
    u1 = u1
    u2 = u2
    NoFile = NoFile
    NoLimit = NoLimit
    Hash = {h1}
    Upload = {u1, u2}
    Download = {}
    MaxClock = 0
    MaxUploadBytes = 2
    MaxChunk = 1
    TtlMs = NoLimit
    MaxBytes = 1
    MaxCrashes = 1
    Faults = {"rm", "power"}
CHECK_DEADLOCK FALSE
INVARIANTS CommittedUnmixed
PROPERTIES PutAnswered CapReached
