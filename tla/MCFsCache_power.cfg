\* A power cut after the answer: nothing was synced.
SPECIFICATION Spec
CONSTANTS
    h1 = h1
    u1 = u1
    NoFile = NoFile
    NoLimit = NoLimit
    Hash = {h1}
    Upload = {u1}
    Download = {}
    MaxClock = 0
    MaxUploadBytes = 1
    MaxChunk = 1
    TtlMs = NoLimit
    MaxBytes = NoLimit
    MaxCrashes = 1
    Faults = {"power"}
SYMMETRY Symmetry
CHECK_DEADLOCK FALSE
INVARIANTS CommittedIntact
