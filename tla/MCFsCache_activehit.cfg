\* A hit between the stat and the rm of a sweep.
SPECIFICATION Spec
CONSTANTS
    h1 = h1
    u1 = u1
    d1 = d1
    NoFile = NoFile
    NoLimit = NoLimit
    Hash = {h1}
    Upload = {u1}
    Download = {d1}
    MaxClock = 2
    MaxUploadBytes = 1
    MaxChunk = 1
    TtlMs = 0
    MaxBytes = NoLimit
    MaxCrashes = 0
    Faults = {}
SYMMETRY Symmetry
CHECK_DEADLOCK FALSE
PROPERTIES ActiveSurvivesTtl
