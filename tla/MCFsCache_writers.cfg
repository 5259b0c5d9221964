\* Three racing uploads of one hash, every fault of the write path, one
\* crash, no eviction.
SPECIFICATION Spec
CONSTANTS
    h1 = h1
    u1 = u1
    u2 = u2
    u3 = u3
    NoFile = NoFile
    NoLimit = NoLimit
    Hash = {h1}
    Upload = {u1, u2, u3}
    Download = {}
    MaxClock = 0
    MaxUploadBytes = 2
    MaxChunk = 2
    TtlMs = NoLimit
    MaxBytes = NoLimit
    MaxCrashes = 1
    Faults = {"exists", "open", "write", "link", "client"}
SYMMETRY Symmetry
CHECK_DEADLOCK FALSE
INVARIANTS BufferSafe OneWinner NoOrphanBuffers
PROPERTIES NeverReplaced
