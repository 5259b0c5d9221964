\* Every old database of up to two tokens, one possibly the digest of the
\* other; two POST requests, two deaths of the process.
SPECIFICATION FairSpec
CONSTANTS
    i1 = i1
    i2 = i2
    l1 = l1
    a1 = a1
    a2 = a2
    c1 = c1
    AdminToken = AdminToken
    NoToken = NoToken
    Id = {i1, i2}
    Legacy = {l1}
    Add = {a1, a2}
    Client = {c1}
    Faults = {"db", "body"}
    MaxCrashes = 2
INVARIANTS LookupMatchesIssued MarkerTellsFormat
PROPERTIES FailuresAreGuesses ServesInTheEnd
