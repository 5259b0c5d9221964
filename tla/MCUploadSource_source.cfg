\* Bodies shorter and longer than Content-Length, a client that may go away,
\* a reader whose releaseLock may throw.
SPECIFICATION FairSpec
CONSTANTS
    MaxLength = 3
    Faults = {"client", "release"}
CHECK_DEADLOCK FALSE
INVARIANTS ReleasedOnce NoReadAborted StoredWhole
PROPERTIES SourceLetGo
