\* A scan that fails: the gauge.
SPECIFICATION Spec
CONSTANTS
    h1 = h1
    u1 = u1
    NoFile = NoFile
    NoLimit = NoLimit
    Hash = {h1}
    Upload = {u1}
    Download = {}
    MaxClock = 0
    MaxUploadBytes = 1
    MaxChunk = 1
    TtlMs = NoLimit
    MaxBytes = 1
    MaxCrashes = 0
    Faults = {"scan"}
SYMMETRY Symmetry
CHECK_DEADLOCK FALSE
PROPERTIES GaugeCountsEntries
