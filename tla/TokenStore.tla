----------------------------- MODULE TokenStore -----------------------------
(***************************************************************************)
(* TokenStorage and the handlers around it: the SQLite table of tokens,    *)
(* its migration to hashed values when the server opens a database of an   *)
(* older version, POST and DELETE of the admin API, and the resolution of  *)
(* the bearer token of every request.                                      *)
(*                                                                         *)
(* Statements run without an await, so each is one step; what a            *)
(* transaction wrote is lost if the process dies before its commit.        *)
(* The text of a token is named by what it is a digest of: <<r, n>> is     *)
(* the n-fold SHA-256 of the random string r, and collides with no other.  *)
(***************************************************************************)
EXTENDS Naturals, FiniteSets

CONSTANTS
    Id,           \* ids an administrator gives
    Legacy,       \* token strings of a database of the older version
    Add,          \* POST requests; each stands for the string it draws
    Client,       \* addresses that requests come from
    AdminToken,   \* ADMIN_TOKEN
    NoToken,      \* no Authorization header, or none that parses
    Faults,       \* which calls may fail: "db", "body"
    MaxCrashes    \* bound on the number of crashes

ASSUME CrashesAssumption == MaxCrashes \in Nat

VARIABLES
    tokens,       \* rows committed to the table
    userVersion,  \* PRAGMA user_version, committed
    server,       \* "down", "migrating" or "serving"
    rebuilt,      \* rows the open migration has inserted
    remaining,    \* rows it has still to insert
    add,          \* POST request -> where it is, or its answer
    auth,         \* client -> what its latest request resolved to
    crashes,      \* how often the server has died
    issued        \* history: tokens handed out and not deleted

vars == <<tokens, userVersion, server, rebuilt, remaining, add, auth, crashes,
          issued>>

Permission == {"readonly", "full"}
Text == (Legacy \cup Add) \X Nat
TokenRecord == [id : Id, value : Text, permission : Permission]

hashToken(v) == <<v[1], v[2] + 1>>

Hashed(t) == [t EXCEPT !.value = hashToken(@)]

HashedAll(T) == {Hashed(t) : t \in T}

(* The UNIQUE and PRIMARY KEY constraints of the table.                    *)
Fits(row, T) == \A t \in T : t.id # row.id /\ t.value # row.value

findToken(v) == {t \in tokens : t.value = hashToken(v)}

(* Plaintexts, digests and digests of digests: what a token, or a value    *)
(* read in an old or in a leaked database, may look like.                  *)
Presented == (Legacy \cup Add) \X (0..2)

(* No token equals ADMIN_TOKEN: tokens are 256 random bits.                *)
ASSUME SecretsAssumption ==
    /\ AdminToken # NoToken
    /\ \A v \in Presented : v # AdminToken /\ v # NoToken

AddStates == {"idle", "body", "digest", "lost", "200", "400", "403", "409", "500"}

NoAuth == [token |-> NoToken, permission |-> {}, authFailed |-> FALSE]

TypeOK ==
    /\ tokens \subseteq TokenRecord /\ issued \subseteq TokenRecord
    /\ rebuilt \subseteq TokenRecord /\ remaining \subseteq TokenRecord
    /\ userVersion \in {0, 1}
    /\ server \in {"down", "migrating", "serving"}
    /\ add \in [Add -> AddStates]
    /\ auth \in [Client -> [token : {AdminToken, NoToken} \cup Presented,
                            permission : SUBSET Permission, authFailed : BOOLEAN]]
    /\ crashes \in 0..MaxCrashes

(* What an older version may have left: no table, or a table of plaintext  *)
(* tokens, one of which may be the digest of another.                      *)
LegacyRow == [id : Id, value : Legacy \X {0, 1}, permission : Permission]

Init ==
    /\ \E T \in SUBSET LegacyRow :
        /\ \A t \in T : Fits(t, T \ {t})
        /\ tokens = T /\ issued = T
    /\ userVersion = 0
    /\ server = "down"
    /\ rebuilt = {} /\ remaining = {}
    /\ add = [a \in Add |-> "idle"]
    /\ auth = [c \in Client |-> NoAuth]
    /\ crashes = 0

-----------------------------------------------------------------------------
(* The constructor, which runs before the server listens.                  *)

(* Mutant: the rows are rehashed beside the old ones.                      *)
Opened_Kept ==
    /\ server = "down"
    /\ IF userVersion >= 1
          THEN server' = "serving" /\ UNCHANGED <<rebuilt, remaining>>
          ELSE server' = "migrating" /\ rebuilt' = tokens /\ remaining' = tokens
    /\ UNCHANGED <<tokens, userVersion, add, auth, crashes, issued>>

(* The table exists now.  A database of an older version is migrated in a  *)
(* transaction that begins by reading and deleting all rows.               *)
Opened ==
    /\ server = "down"
    /\ IF userVersion >= 1
          THEN server' = "serving" /\ UNCHANGED <<rebuilt, remaining>>
          ELSE server' = "migrating" /\ rebuilt' = {} /\ remaining' = tokens
    /\ UNCHANGED <<tokens, userVersion, add, auth, crashes, issued>>

(* An INSERT of the migration.  One that violates a constraint throws: the *)
(* transaction is rolled back and the process exits.                       *)
RowRehashed ==
    /\ server = "migrating"
    /\ \E t \in remaining :
          IF Fits(Hashed(t), rebuilt)
             THEN /\ rebuilt' = rebuilt \cup {Hashed(t)}
                  /\ remaining' = remaining \ {t}
                  /\ UNCHANGED server
             ELSE server' = "down" /\ rebuilt' = {} /\ remaining' = {}
    /\ UNCHANGED <<tokens, userVersion, add, auth, crashes, issued>>

(* Mutant: the marker is not written with the rows.                        *)
MigrationCommitted_Unmarked ==
    /\ server = "migrating"
    /\ remaining = {}
    /\ tokens' = rebuilt
    /\ server' = "serving"
    /\ rebuilt' = {}
    /\ UNCHANGED <<userVersion, remaining, add, auth, crashes, issued>>

MigrationCommitted ==
    /\ server = "migrating"
    /\ remaining = {}
    /\ tokens' = rebuilt
    /\ userVersion' = 1
    /\ server' = "serving"
    /\ rebuilt' = {}
    /\ UNCHANGED <<remaining, add, auth, crashes, issued>>

(* The process dies, or a failing statement of the migration ends it: what *)
(* was not committed is gone, and the requests in flight with it.          *)
Crash ==
    /\ server # "down" /\ crashes < MaxCrashes
    /\ server' = "down"
    /\ crashes' = crashes + 1
    /\ rebuilt' = {} /\ remaining' = {}
    /\ add' = [a \in Add |-> IF add[a] \in {"body", "digest"} THEN "lost" ELSE add[a]]
    /\ UNCHANGED <<tokens, userVersion, auth, issued>>

-----------------------------------------------------------------------------
(* The admin API.                                                          *)

Answer(a, status) ==
    /\ add' = [add EXCEPT ![a] = status]
    /\ UNCHANGED <<tokens, userVersion, server, rebuilt, remaining, auth, crashes,
                   issued>>

(* POST: the caller is resolved before the body is awaited.                *)
AddArrives(a) ==
    /\ server = "serving"
    /\ add[a] = "idle"
    /\ Answer(a, "403") \/ Answer(a, "body")

(* The body is read and validated; randomToken awaits the digest.          *)
BodyParsed(a) ==
    /\ server = "serving"
    /\ add[a] = "body"
    /\ ("body" \in Faults /\ Answer(a, "400")) \/ Answer(a, "digest")

(* Mutant: INSERT OR REPLACE.                                              *)
TokenInserted_Replaces(a) ==
    /\ server = "serving"
    /\ add[a] = "digest"
    /\ \E id \in Id, p \in Permission :
          LET new == [id |-> id, value |-> <<a, 0>>, permission |-> p] IN
          /\ tokens' = {t \in tokens : t.id # id} \cup {Hashed(new)}
          /\ issued' = issued \cup {new}
          /\ add' = [add EXCEPT ![a] = "200"]
    /\ UNCHANGED <<userVersion, server, rebuilt, remaining, auth, crashes>>

(* The row is inserted and the value answered, once.  A taken id answers   *)
(* 409, any other failure of the database 500; getAddTokenError does not   *)
(* recognise a taken value, a conflict of the primary key, as one.         *)
TokenInserted(a) ==
    /\ server = "serving"
    /\ add[a] = "digest"
    /\ \/ \E id \in Id, p \in Permission :
             LET new == [id |-> id, value |-> <<a, 0>>, permission |-> p] IN
             IF Fits(Hashed(new), tokens)
                THEN /\ tokens' = tokens \cup {Hashed(new)}
                     /\ issued' = issued \cup {new}
                     /\ add' = [add EXCEPT ![a] = "200"]
                     /\ UNCHANGED <<userVersion, server, rebuilt, remaining, auth,
                                    crashes>>
                ELSE Answer(a, IF \E t \in tokens : t.id = id THEN "409" ELSE "500")
       \/ "db" \in Faults /\ Answer(a, "500")

(* DELETE: answered 204 for a row that is gone now.  The answers 400, 403, *)
(* 404 and 500 change nothing.                                             *)
TokenDeleted(id) ==
    /\ server = "serving"
    /\ \E t \in tokens : t.id = id
    /\ tokens' = {t \in tokens : t.id # id}
    /\ issued' = {t \in issued : t.id # id}
    /\ UNCHANGED <<userVersion, server, rebuilt, remaining, add, auth, crashes>>

-----------------------------------------------------------------------------
Unauthenticated(v) ==
    [token |-> v, permission |-> {}, authFailed |-> TRUE]

Admitted(v, permissions) ==
    [token |-> v, permission |-> permissions, authFailed |-> FALSE]

(* Mutant: a fault of the database is an authentication failure.           *)
Resolved_CountsFaults(v) ==
    CASE v = NoToken -> {Unauthenticated(v)}
      [] v = AdminToken -> {Admitted(v, {"full"})}
      [] v \in Presented ->
           {IF findToken(v) = {} THEN Unauthenticated(v)
               ELSE Admitted(v, {t.permission : t \in findToken(v)})}
           \cup {Unauthenticated(v) : f \in Faults \cap {"db"}}

(* What resolveToken may return; the permission null is the empty set.     *)
Resolved(v) ==
    CASE v = NoToken -> {Unauthenticated(v)}
      [] v = AdminToken -> {Admitted(v, {"full"})}
      [] v \in Presented ->
           {IF findToken(v) = {} THEN Unauthenticated(v)
               ELSE Admitted(v, {t.permission : t \in findToken(v)})}
           \cup {Admitted(v, {}) : f \in Faults \cap {"db"}}

(* A request is resolved before the first await of its handler.            *)
Authenticated(c) ==
    /\ server = "serving"
    /\ \E v \in Presented \cup {AdminToken, NoToken} :
          \E resolved \in Resolved(v) : auth' = [auth EXCEPT ![c] = resolved]
    /\ UNCHANGED <<tokens, userVersion, server, rebuilt, remaining, add, crashes,
                   issued>>

Next ==
    \/ Opened \/ RowRehashed \/ MigrationCommitted \/ Crash
    \/ \E a \in Add : AddArrives(a) \/ BodyParsed(a) \/ TokenInserted(a)
    \/ \E id \in Id : TokenDeleted(id)
    \/ \E c \in Client : Authenticated(c)

Spec == Init /\ [][Next]_vars

(* The process is started again and its constructor runs.                  *)
FairSpec ==
    Spec /\ WF_vars(Opened) /\ WF_vars(RowRehashed) /\ WF_vars(MigrationCommitted)

-----------------------------------------------------------------------------
Summaries(T) == {[id |-> t.id, permission |-> t.permission] : t \in T}

(***************************************************************************)
(* A text authenticates exactly when it is a token that was handed out and *)
(* not deleted, and then with the id and permission it was given: whatever *)
(* the older version left behind, wherever the migration was interrupted,  *)
(* however requests interleave.  In particular a value read in the         *)
(* database opens nothing, a deleted token stays deleted, and no token is  *)
(* lost (token-storage.ts:45-76, hash-token.ts:8).                         *)
(***************************************************************************)
LookupMatchesIssued ==
    server = "serving" =>
        \A v \in Presented :
            Summaries(findToken(v)) = Summaries({t \in issued : t.value = v})

(***************************************************************************)
(* The committed table is never half migrated: under the old version it    *)
(* holds every token as it was handed out, under the new one the digest of *)
(* each, also while the process is down (token-storage.ts:48-53).          *)
(***************************************************************************)
MarkerTellsFormat ==
    tokens = IF userVersion = 0 THEN issued ELSE HashedAll(issued)

(***************************************************************************)
(* Only a guess counts as an authentication failure: a request that        *)
(* carries the admin token or a token in force is not counted, whatever    *)
(* the database does ("a request with a valid token is never throttled",   *)
(* security.md:26-28; resolve-token.ts:13-18).                             *)
(***************************************************************************)
FailuresAreGuesses ==
    [][\A c \in Client : auth'[c] # auth[c] /\ auth'[c].authFailed =>
         /\ auth'[c].token # AdminToken
         /\ \A t \in issued : t.value # auth'[c].token]_vars

(***************************************************************************)
(* Unless crashes go on, the server comes to serve: no content of an old   *)
(* database makes the migration fail at every start (token-storage.ts:     *)
(* 51-53).                                                                 *)
(***************************************************************************)
ServesInTheEnd == <>[](server = "serving")
=============================================================================
