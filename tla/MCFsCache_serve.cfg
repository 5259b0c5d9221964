\* Two uploads and a download of one hash while entries expire and the cron
\* job prunes them; a sweep whose calls fail.
SPECIFICATION Spec
CONSTANTS
    h1 = h1
    u1 = u1
    u2 = u2
    d1 = d1
    NoFile = NoFile
    NoLimit = NoLimit
    Hash = {h1}
    Upload = {u1, u2}
    Download = {d1}
    MaxClock = 1
    MaxUploadBytes = 1
    MaxChunk = 1
    TtlMs = 0
    MaxBytes = NoLimit
    MaxCrashes = 0
    Faults = {"scan", "stat", "sweeprm", "prune", "utimes"}
SYMMETRY Symmetry
CHECK_DEADLOCK FALSE
INVARIANTS TypeOK CommittedIntact ServedIntact ConflictHasWinner NoSpurious500
PROPERTIES ImplementsAppendOnlyCache
