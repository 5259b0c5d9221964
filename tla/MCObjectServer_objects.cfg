\* Every environment; two uploads, a download and a readiness probe of one
\* key over two lifetimes of credentials, one crash, everything may fail.
SPECIFICATION FairSpec
CONSTANTS
    h1 = h1
    u1 = u1
    u2 = u2
    d1 = d1
    p1 = p1
    NoObject = NoObject
    NoExpiration = NoExpiration
    Hash = {h1}
    Upload = {u1, u2}
    Download = {d1}
    Probe = {p1}
    REFRESH_WINDOW = 1
    Lifetime = {2}
    MaxNow = 1
    MaxCrashes = 1
    Faults = {"net", "provider", "client"}
CHECK_DEADLOCK FALSE
INVARIANTS RefreshIsShared NoUnintendedCredentials
PROPERTIES CredentialsAreFresh RequestsSettle ImplementsAppendOnlyCache
