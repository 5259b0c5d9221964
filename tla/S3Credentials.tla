---------------------------- MODULE S3Credentials ----------------------------
(***************************************************************************)
(* The client of S3Strategy and the credentials in it.  With the provider  *)
(* chain every storage call first awaits getClient, which refreshes the    *)
(* credentials shortly before they expire; concurrent calls share one      *)
(* refresh.  A client with static credentials is built once.               *)
(*                                                                         *)
(* External: the provider, whose credentials outlive REFRESH_WINDOW (its   *)
(* own memoize renews earlier) or never expire, and which may fail.        *)
(***************************************************************************)
EXTENDS Naturals, StorageConfig

CONSTANTS
    REFRESH_WINDOW,  \* REFRESH_WINDOW_MS, in clock units
    Lifetime,        \* how long credentials live when they are handed out
    NoExpiration,    \* null
    MaxNow           \* bound on the clock

ASSUME WindowAssumption == REFRESH_WINDOW \in Nat
ASSUME LifetimeAssumption ==
    Lifetime \subseteq {t \in Nat : t > REFRESH_WINDOW}
ASSUME NowAssumption == MaxNow \in Nat
ASSUME ExpirationAssumption == NoExpiration \notin Nat

VARIABLES
    mode,          \* "chain": #provider is set; "fixed": credentials this
                   \* code never refreshes (static, or GCS); else no server
    client,        \* #client is not null
    expiration,    \* #expiration
    refreshing,    \* #refreshPromise is not null
    calls,         \* history: calls of the provider that have not settled
    waiting,       \* requests that await #refreshPromise
    now            \* Date.now()

credentialVars == <<client, expiration, refreshing, calls, waiting>>

CredentialsTypeOK ==
    /\ mode \in {"off", "refused", "filesystem", "fixed", "chain"}
    /\ client \in BOOLEAN
    /\ expiration \in Nat \cup {NoExpiration}
    /\ refreshing \in BOOLEAN
    /\ calls \in Nat
    /\ now \in 0..MaxNow

(* Only the credentials of the provider chain change while the server runs. *)
Refreshing(storage) ==
    IF storage \in {"static"} \cup GcsModes THEN "fixed" ELSE storage

(* The constructor: fixed credentials make a client at once, a provider    *)
(* makes none before the first call.                                       *)
Constructed(newMode) ==
    /\ client' = (newMode = "fixed")
    /\ expiration' = NoExpiration
    /\ refreshing' = FALSE /\ calls' = 0 /\ waiting' = {}

(* Mutant: the credentials are refreshed only when they have expired.      *)
shouldRefreshCredentials_Late(at) == at # NoExpiration /\ now >= at

shouldRefreshCredentials(at) ==
    at # NoExpiration /\ now + REFRESH_WINDOW >= at

mustRefresh == mode = "chain" /\ (~client \/ shouldRefreshCredentials(expiration))

(* Mutant: no `??=`, every call starts a refresh of its own.               *)
getClient_Uncoalesced(r) ==
    /\ waiting' = IF mustRefresh THEN waiting \cup {r} ELSE waiting
    /\ refreshing' = (refreshing \/ mustRefresh)
    /\ calls' = IF mustRefresh THEN calls + 1 ELSE calls
    /\ UNCHANGED <<client, expiration>>

(* A storage call of request r asks for the client: it has it at once, or  *)
(* awaits the refresh under way, which it starts if there is none.         *)
getClient(r) ==
    /\ IF mustRefresh
         THEN /\ waiting' = waiting \cup {r}
              /\ refreshing' = TRUE
              /\ calls' = IF refreshing THEN calls ELSE calls + 1
         ELSE UNCHANGED <<waiting, refreshing, calls>>
    /\ UNCHANGED <<client, expiration>>

(* The provider resolves: a new client, and every waiting call goes on.    *)
Refreshed ==
    /\ calls > 0
    /\ client' = TRUE
    /\ expiration' \in {now + t : t \in Lifetime} \cup {NoExpiration}
    /\ refreshing' = FALSE /\ calls' = calls - 1 /\ waiting' = {}

(* Mutant: the promise is cleared in then, not in finally: the rejected    *)
(* one is kept, and every later call would fail on it at once.             *)
RefreshFailed_Kept ==
    /\ calls > 0
    /\ calls' = calls - 1 /\ waiting' = {}
    /\ UNCHANGED <<client, expiration, refreshing>>

(* The provider rejects: the old client stays, every waiting call rejects. *)
RefreshFailed ==
    /\ calls > 0
    /\ refreshing' = FALSE /\ calls' = calls - 1 /\ waiting' = {}
    /\ UNCHANGED <<client, expiration>>

(* Time matters to the provider chain only.                                *)
TimePasses ==
    /\ mode = "chain" /\ now < MaxNow
    /\ now' = now + 1
    /\ UNCHANGED <<mode, credentialVars>>
=============================================================================
