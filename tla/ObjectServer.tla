---------------------------- MODULE ObjectServer ----------------------------
(***************************************************************************)
(* The server with an object-store strategy, from the environment it is    *)
(* started with: uploads, downloads and readiness probes over S3Strategy   *)
(* or GcsStrategy, the death of the process and its restart.               *)
(*                                                                         *)
(* External: the bucket.  A conditional write (If-None-Match of S3,        *)
(* ifGenerationMatch of GCS) is decided by the bucket, atomically, once it *)
(* has the whole body; the answer may be lost, or come after the handler   *)
(* or the whole process has given up on it.  Lifecycle rules delete        *)
(* entries.  Objects are atomic, so an entry is the upload that wrote it,  *)
(* to its announced length.                                                *)
(***************************************************************************)
EXTENDS S3Credentials, FiniteSets

CONSTANTS
    Hash,            \* keys that isValidHash accepts
    Upload, Download, Probe,  \* requests: PUT, GET and /ready
    NoObject,        \* nothing under a key, nothing read, no key yet
    MaxCrashes,      \* bound on the number of crashes
    Faults           \* "net", "provider", "client": what may fail

Request == Upload \cup Download \cup Probe

ASSUME RequestsAssumption ==
    /\ Upload \cap Download = {} /\ Upload \cap Probe = {} /\ Download \cap Probe = {}
    /\ NoObject \notin Upload \cup Hash
ASSUME CrashesAssumption == MaxCrashes \in Nat

VARIABLES
    env,        \* Bun.env until the start has read it
    up,         \* the process serves
    crashes,    \* how often it has died
    bucket,     \* key -> the upload stored under it
    wire,       \* upload -> what became of its conditional write
    pc,         \* request -> the storage call its handler awaits
    key,        \* request -> the :hash of its URL
    opened,     \* download -> the upload its body reads
    answer      \* request -> status of its response; 400 is 403 and 413 too

requestVars == <<pc, key, opened, answer>>
vars == <<mode, credentialVars, now, env, up, crashes, bucket, wire, requestVars>>

TypeOK ==
    /\ CredentialsTypeOK
    /\ waiting \subseteq Request
    /\ env \in Env /\ up \in BOOLEAN /\ crashes \in 0..MaxCrashes
    /\ bucket \in [Hash -> Upload \cup {NoObject}]
    /\ wire \in [Upload -> {"none", "sending", "sent", "stored", "conflict"}]
    /\ pc \in [Request -> {"idle", "exists", "put", "stream", "size", "body",
                           "list", "done", "lost"}]
    /\ key \in [Request -> Hash \cup {NoObject}]
    /\ opened \in [Download -> Upload \cup {NoObject}]
    /\ answer \in [Request -> {0, 200, 400, 404, 409, 500, 503}]

(* An environment nothing depends on any more.                             *)
NoEnv == [ STORAGE_STRATEGY |-> "unset", S3_BUCKET |-> "unset",
           S3_ACCESS_KEY_ID |-> "unset", S3_SECRET_ACCESS_KEY |-> "unset",
           GCS_BUCKET |-> "unset", GCS_KEY_FILENAME |-> "unset",
           GCS_CREDENTIALS |-> "unset", CACHE_DIR |-> "usable",
           CACHE_LIMITS |-> FALSE ]

Init ==
    /\ env \in Env
    /\ mode = "off" /\ up = FALSE /\ crashes = 0 /\ now = 0
    /\ client = FALSE /\ expiration = NoExpiration
    /\ refreshing = FALSE /\ calls = 0 /\ waiting = {}
    /\ bucket = [h \in Hash |-> NoObject]
    /\ wire = [u \in Upload |-> "none"]
    /\ pc = [r \in Request |-> "idle"]
    /\ key = [r \in Request |-> NoObject]
    /\ opened = [d \in Download |-> NoObject]
    /\ answer = [r \in Request |-> 0]

(* The process starts, or exits with an error.  A server of the filesystem *)
(* strategy is FsCacheServer's subject.                                    *)
Boot ==
    /\ mode = "off"
    /\ mode' = Refreshing(Started(env))
    /\ env' = NoEnv
    /\ up' = (mode' \in {"fixed", "chain"})
    /\ Constructed(mode')
    /\ UNCHANGED <<now, crashes, bucket, wire, requestVars>>

(* SIGKILL, OOM.  A body that was not sent whole is never stored; one that *)
(* was is the bucket's to decide.                                          *)
Crash ==
    /\ up /\ crashes < MaxCrashes
    /\ up' = FALSE
    /\ crashes' = crashes + 1
    /\ client' = FALSE /\ expiration' = NoExpiration
    /\ refreshing' = FALSE /\ calls' = 0 /\ waiting' = {}
    /\ pc' = [r \in Request |-> IF pc[r] \in {"idle", "done"} THEN pc[r] ELSE "lost"]
    /\ wire' = [u \in Upload |-> IF wire[u] = "sending" THEN "none" ELSE wire[u]]
    /\ UNCHANGED <<mode, now, env, bucket, key, opened, answer>>

(* The supervisor starts it again, with the same environment.              *)
Restart ==
    /\ ~up /\ mode \in {"fixed", "chain"}
    /\ up' = TRUE
    /\ Constructed(mode)
    /\ UNCHANGED <<mode, now, env, crashes, bucket, wire, requestVars>>

-----------------------------------------------------------------------------
(* Requests.  A step runs from the settling of one storage call to the     *)
(* next call, getClient included.                                          *)

Awaits(r, call) == up /\ pc[r] = call /\ r \notin waiting

Answer(r, status) ==
    /\ pc' = [pc EXCEPT ![r] = "done"]
    /\ answer' = [answer EXCEPT ![r] = status]
    /\ UNCHANGED credentialVars

Enter(r, call) ==
    /\ pc' = [pc EXCEPT ![r] = call]
    /\ getClient(r)
    /\ UNCHANGED answer

serverVars == <<mode, now, env, up, crashes>>

(* A request arrives.  Permission and hash are judged before any call, and *)
(* /ready asks the token database first.                                   *)
PutArrives(u) ==
    /\ up /\ pc[u] = "idle"
    /\ \/ Answer(u, 400) /\ UNCHANGED key
       \/ /\ \E h \in Hash : key' = [key EXCEPT ![u] = h]
          /\ Enter(u, "exists")
    /\ UNCHANGED <<serverVars, bucket, wire, opened>>

(* exists() settles, then Content-Length is judged, then writeStream asks  *)
(* for the client and fetch starts to send.                                *)
PutChecked(u) ==
    /\ Awaits(u, "exists")
    /\ \/ "net" \in Faults /\ Answer(u, 500) /\ UNCHANGED wire
       \/ bucket[key[u]] # NoObject /\ Answer(u, 409) /\ UNCHANGED wire
       \/ bucket[key[u]] = NoObject /\ Answer(u, 400) /\ UNCHANGED wire
       \/ /\ bucket[key[u]] = NoObject
          /\ Enter(u, "put")
          /\ wire' = [wire EXCEPT ![u] = IF mustRefresh THEN @ ELSE "sending"]
    /\ UNCHANGED <<serverVars, bucket, key, opened>>

(* The last byte of the announced length has left.                         *)
BodySent(u) ==
    /\ Awaits(u, "put") /\ wire[u] = "sending"
    /\ wire' = [wire EXCEPT ![u] = "sent"]
    /\ UNCHANGED <<serverVars, credentialVars, bucket, requestVars>>

(***************************************************************************)
(* The body has the wrong length, or breaks off: countedStream errors and  *)
(* the request to the bucket is aborted with it.  A body that is too long, *)
(* or breaks off before its end is read, has let the announced length go   *)
(* first: the bucket may have all of it, decided about or not.             *)
(***************************************************************************)
BodyFails(u) ==
    /\ Awaits(u, "put")
    /\ Answer(u, 400) \/ ("client" \in Faults /\ Answer(u, 500))
    /\ \/ wire[u] \in {"sending", "sent"} /\ wire' = [wire EXCEPT ![u] = "none"]
       \/ wire[u] # "sending" /\ UNCHANGED wire
    /\ UNCHANGED <<serverVars, bucket, key, opened>>

(* The bucket commits a whole body: its condition holds.                   *)
Stored(u) ==
    /\ wire[u] = "sent" /\ bucket[key[u]] = NoObject
    /\ wire' = [wire EXCEPT ![u] = "stored"]
    /\ bucket' = [bucket EXCEPT ![key[u]] = u]
    /\ UNCHANGED <<serverVars, credentialVars, requestVars>>

(* The bucket finds the condition broken, maybe before the body is whole.  *)
Conflicts(u) ==
    /\ wire[u] \in {"sending", "sent"} /\ bucket[key[u]] # NoObject
    /\ wire' = [wire EXCEPT ![u] = "conflict"]
    /\ UNCHANGED <<serverVars, credentialVars, bucket, requestVars>>

(* The status the bucket answers a write with, as S3 and as GCS say it.    *)
S3Status == [stored |-> {200}, conflict |-> {409, 412}, refused |-> {403, 500, 501}]
GcsStatus == [stored |-> {200}, conflict |-> {412}, refused |-> {403, 500}]

(* Mutant: an answer that is not ok is a conflict, whatever its status.    *)
s3WriteStream_AnyConflict(status) == IF status = 200 THEN 200 ELSE 409

(* What writeStream makes of the status, and writeCache of that.           *)
s3WriteStream(status) ==
    CASE status = 200 -> 200
      [] status \in {409, 412} -> 409
      [] OTHER -> 500

gcsWriteStream(status) ==
    CASE status = 200 -> 200
      [] status = 412 -> 409
      [] OTHER -> 500

Outcomes(decision) ==
    {s3WriteStream(status) : status \in S3Status[decision]}
    \cup IF mode = "chain" THEN {}
         ELSE {gcsWriteStream(status) : status \in GcsStatus[decision]}

(***************************************************************************)
(* writeStream settles with the bucket's decision, or without one because  *)
(* the answer is lost: the write may yet be committed.  There is no second *)
(* attempt.                                                                *)
(***************************************************************************)
PutSettles(u) ==
    /\ Awaits(u, "put")
    /\ \/ /\ wire[u] \in {"stored", "conflict"}
          /\ \E status \in Outcomes(wire[u]) : Answer(u, status)
          /\ UNCHANGED wire
       \/ /\ "net" \in Faults /\ wire[u] \in {"sending", "sent"}
          /\ \E status \in Outcomes("refused") : Answer(u, status)
          /\ wire' = [wire EXCEPT ![u] = "none"]
       \/ /\ "net" \in Faults /\ wire[u] \in {"sent", "stored", "conflict"}
          /\ Answer(u, 500)
          /\ UNCHANGED wire
    /\ UNCHANGED <<serverVars, bucket, key, opened>>

PutStep(u) == PutChecked(u) \/ BodySent(u) \/ BodyFails(u) \/ PutSettles(u)

GetArrives(d) ==
    /\ up /\ pc[d] = "idle"
    /\ \/ Answer(d, 400) /\ UNCHANGED key
       \/ /\ \E h \in Hash : key' = [key EXCEPT ![d] = h]
          /\ Enter(d, "exists")
    /\ UNCHANGED <<serverVars, bucket, wire, opened>>

(* exists() settles.  getStream needs a client but no call: the stream it  *)
(* returns reads nothing yet, and getSize is called in the same step.      *)
GetChecked(d) ==
    /\ Awaits(d, "exists")
    /\ \/ "net" \in Faults /\ Answer(d, 500)
       \/ bucket[key[d]] = NoObject /\ Answer(d, 404)
       \/ /\ bucket[key[d]] # NoObject
          /\ Enter(d, IF mustRefresh THEN "stream" ELSE "size")
    /\ UNCHANGED <<serverVars, bucket, wire, key, opened>>

(* getSize settles: it rejects when the entry is gone, and leaves the      *)
(* stream alone.                                                           *)
SizeRead(d) ==
    /\ Awaits(d, "size")
    /\ \/ "net" \in Faults /\ Answer(d, 500)
       \/ bucket[key[d]] = NoObject /\ Answer(d, 500)
       \/ /\ bucket[key[d]] # NoObject
          /\ pc' = [pc EXCEPT ![d] = "body"]
          /\ answer' = [answer EXCEPT ![d] = 200]
          /\ UNCHANGED credentialVars
    /\ UNCHANGED <<serverVars, bucket, wire, key, opened>>

(* The stream is pulled for the first time and asks for the object.        *)
BodyOpened(d) ==
    /\ Awaits(d, "size") \/ Awaits(d, "body")
    /\ opened[d] = NoObject
    /\ bucket[key[d]] # NoObject
    /\ opened' = [opened EXCEPT ![d] = bucket[key[d]]]
    /\ UNCHANGED <<serverVars, credentialVars, bucket, wire, pc, key, answer>>

(* The response ends: sent, cut off, or failed because nothing was there   *)
(* to open.                                                                *)
BodyEnds(d) ==
    /\ Awaits(d, "body")
    /\ \/ opened[d] # NoObject
       \/ bucket[key[d]] = NoObject
       \/ "net" \in Faults
    /\ pc' = [pc EXCEPT ![d] = "done"]
    /\ UNCHANGED <<serverVars, credentialVars, bucket, wire, key, opened, answer>>

GetStep(d) == GetChecked(d) \/ SizeRead(d) \/ BodyOpened(d) \/ BodyEnds(d)

(* /ready: the token database, then checkReady of the strategy.            *)
ProbeArrives(p) ==
    /\ up /\ pc[p] = "idle"
    /\ Answer(p, 503) \/ Enter(p, "list")
    /\ UNCHANGED <<serverVars, bucket, wire, key, opened>>

ProbeSettles(p) ==
    /\ Awaits(p, "list")
    /\ Answer(p, 200) \/ ("net" \in Faults /\ Answer(p, 503))
    /\ UNCHANGED <<serverVars, bucket, wire, key, opened>>

-----------------------------------------------------------------------------
(* A refresh settles; what follows runs before any other event.            *)

(* The calls that waited are made with the new client.                     *)
RefreshSucceeds ==
    /\ up /\ Refreshed
    /\ pc' = [r \in Request |->
                IF r \in waiting /\ pc[r] = "stream" THEN "size" ELSE pc[r]]
    /\ wire' = [u \in Upload |->
                  IF u \in waiting /\ pc[u] = "put" THEN "sending" ELSE wire[u]]
    /\ UNCHANGED <<serverVars, bucket, key, opened, answer>>

(* Mutant: the provider is wrapped in new Promise(resolve => ...) and its  *)
(* rejection is not passed on, so the promise never settles.               *)
RefreshFails_Unforwarded ==
    /\ up /\ "provider" \in Faults /\ calls > 0
    /\ calls' = calls - 1
    /\ UNCHANGED <<client, expiration, refreshing, waiting>>
    /\ UNCHANGED <<serverVars, bucket, wire, requestVars>>

(* All of them fail with it, although the old client may still be good.    *)
RefreshFails ==
    /\ up /\ "provider" \in Faults /\ RefreshFailed
    /\ pc' = [r \in Request |-> IF r \in waiting THEN "done" ELSE pc[r]]
    /\ answer' = [r \in Request |->
                    IF r \notin waiting THEN answer[r]
                    ELSE IF r \in Probe THEN 503 ELSE 500]
    /\ UNCHANGED <<serverVars, bucket, wire, key, opened>>

(* A lifecycle rule of the bucket deletes the entry.                       *)
Expire(h) ==
    /\ bucket[h] # NoObject
    /\ bucket' = [bucket EXCEPT ![h] = NoObject]
    /\ UNCHANGED <<serverVars, credentialVars, wire, requestVars>>

Clock ==
    /\ TimePasses
    /\ UNCHANGED <<env, up, crashes, bucket, wire, requestVars>>

Next ==
    \/ Boot \/ Crash \/ Restart \/ Clock
    \/ \E u \in Upload : PutArrives(u) \/ PutStep(u) \/ Stored(u) \/ Conflicts(u)
    \/ \E d \in Download : GetArrives(d) \/ GetStep(d)
    \/ \E p \in Probe : ProbeArrives(p) \/ ProbeSettles(p)
    \/ RefreshSucceeds \/ RefreshFails
    \/ \E h \in Hash : Expire(h)

Spec == Init /\ [][Next]_vars

(***************************************************************************)
(* Fairness.  Every storage call settles, the provider settles, the bucket *)
(* decides about a body it has, and a body ends (Bun closes an idle        *)
(* connection).                                                            *)
(***************************************************************************)
Fairness ==
    /\ \A u \in Upload : WF_vars(PutStep(u)) /\ WF_vars(Stored(u) \/ Conflicts(u))
    /\ \A d \in Download : WF_vars(GetStep(d))
    /\ \A p \in Probe : WF_vars(ProbeSettles(p))
    /\ WF_vars(RefreshSucceeds \/ RefreshFails)

FairSpec == Spec /\ Fairness

-----------------------------------------------------------------------------
(***************************************************************************)
(* The start: ambient credentials are used only by an operator who gave    *)
(* none, static ones only when the pair is whole, and no object store is   *)
(* served with eviction limits it cannot enforce (create-cache-storage.ts: *)
(* 38-41 and 119-123; main.ts:108-114).                                    *)
(***************************************************************************)
NoUnintendedCredentials ==
    mode = "off" =>
        LET storage == Started(env)
            s3Keys == {env.S3_ACCESS_KEY_ID, env.S3_SECRET_ACCESS_KEY}
            gcsKeys == {env.GCS_KEY_FILENAME, env.GCS_CREDENTIALS}
        IN /\ storage = "static" => s3Keys = {"set"}
           /\ storage = "chain" => "set" \notin s3Keys
           /\ storage = "ambient" => gcsKeys \subseteq {"unset", "blank"}
           /\ storage \in S3Modes \cup GcsModes => ~env.CACHE_LIMITS

(***************************************************************************)
(* Concurrent requests share one call of the provider, its promise is not  *)
(* kept once it has settled, and nobody waits for a refresh that is not    *)
(* under way (s3.ts:58-69).                                                *)
(***************************************************************************)
RefreshIsShared ==
    /\ calls = IF refreshing THEN 1 ELSE 0
    /\ waiting # {} => refreshing

(***************************************************************************)
(* "refreshing them before they expire" (storage-strategies.md:36): no     *)
(* storage call is made without a client or with credentials that expire   *)
(* within REFRESH_WINDOW, whether it had the client at once or waited for  *)
(* it while other requests, failures and crashes went by.                  *)
(***************************************************************************)
OnCall(r) == pc[r] \in {"exists", "put", "size", "list"} /\ r \notin waiting

Calls(r) == OnCall(r)' /\ (~OnCall(r) \/ pc'[r] # pc[r])

CredentialsAreFresh ==
    [][\A r \in Request : Calls(r) /\ mode = "chain" =>
         /\ client'
         /\ expiration' # NoExpiration => now + REFRESH_WINDOW < expiration']_vars

(***************************************************************************)
(* Every request that arrives is answered, unless the process dies on it,  *)
(* so that in the end none is under way: no upload, download or probe      *)
(* waits for ever, failed refreshes, refused writes and lost answers       *)
(* included (s3.ts:61-69 and 90-123).                                      *)
(***************************************************************************)
RequestsSettle == <>[](\A r \in Request : pc[r] \in {"idle", "done", "lost"})

-----------------------------------------------------------------------------
(***************************************************************************)
(* Refinement.  An upload takes effect when the bucket commits it, also    *)
(* after its handler gave up, or refused a body that goes on past its      *)
(* announced length (write-cache.ts:120-124); a conflict when the bucket,  *)
(* or exists(), sees the entry; a download when its stream asks for the    *)
(* object.                                                                 *)
(***************************************************************************)
putState(u) ==
    CASE wire[u] = "stored" \/ answer[u] = 200 -> "stored"
      [] wire[u] # "stored" /\ (wire[u] = "conflict" \/ answer[u] = 409) -> "conflict"
      [] wire[u] = "sent" /\ answer[u] \in {0, 400, 500} -> "open"
      [] wire[u] \in {"none", "sending"} /\ answer[u] = 0 ->
            IF pc[u] = "lost" THEN "failed" ELSE "open"
      [] OTHER -> "failed"

getState(d) ==
    CASE opened[d] # NoObject -> "hit"
      [] opened[d] = NoObject /\ answer[d] = 404 -> "miss"
      [] opened[d] = NoObject /\ answer[d] \in {0, 200} /\ pc[d] \notin {"done", "lost"} -> "open"
      [] OTHER -> "failed"

Abstract == INSTANCE AppendOnlyCache WITH
    Put <- Upload, Get <- Download, NoEntry <- NoObject,
    store <- bucket,
    target <- [u \in Upload |-> key[u]],
    put <- [u \in Upload |-> putState(u)],
    source <- [d \in Download |-> key[d]],
    get <- [d \in Download |-> getState(d)],
    got <- opened

(* The clients of an object store see the append-only cache that those of  *)
(* the filesystem strategy see.                                            *)
ImplementsAppendOnlyCache == Abstract!Spec
=============================================================================
