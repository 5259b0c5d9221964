\* Two uploads under two hashes, a cap below what they add up to, and a
\* download that stamps entries during the sweep.
SPECIFICATION Spec
CONSTANTS
    h1 = h1
    h2 = h2
    u1 = u1
    u2 = u2
    d1 = d1
    NoFile = NoFile
    NoLimit = NoLimit
    Hash = {h1, h2}
    Upload = {u1, u2}
    Download = {d1}
    MaxClock = 1
    MaxUploadBytes = 2
    MaxChunk = 2
    TtlMs = 0
    MaxBytes = 2
    MaxCrashes = 0
    Faults = {}
SYMMETRY Symmetry
CHECK_DEADLOCK FALSE
INVARIANTS SweepSeesCurrent
PROPERTIES GaugeCountsEntries SweepEnforcesLimits EvictsOnlyOverCap
