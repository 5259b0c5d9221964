\* Five buckets spraying a tracker of three slots, across two windows.
SPECIFICATION Spec
CONSTANTS
    c1 = c1
    c2 = c2
    c3 = c3
    c4 = c4
    c5 = c5
    Client = {c1, c2, c3, c4, c5}
    MaxTracked = 3
    maxFailures = 2
    windowMs = 3
    Horizon = 6
SYMMETRY Symmetry
CHECK_DEADLOCK FALSE
INVARIANTS TrackerBounded AttemptsMatchMaps ReleaseNotMissed RefusedOnlyWhenFull
PROPERTIES BlockLasts ForgetsInOrder
