------------------------- MODULE ObjectServer_proofs -------------------------
(***************************************************************************)
(* The theorems about ObjectServer: type correctness, the shared refresh,  *)
(* the freshness of the credentials, that the server implements            *)
(* AppendOnlyCache, and what that means for its clients.                   *)
(***************************************************************************)
EXTENDS ObjectServer, TLAPS

(* What an upload's program counter says of its key, its write and answer. *)
UploadOK(u) ==
    /\ pc[u] \in {"idle", "exists", "put", "done", "lost"}
    /\ pc[u] = "idle" => key[u] = NoObject
    /\ pc[u] \in {"idle", "exists"} => wire[u] = "none"
    /\ pc[u] # "done" => answer[u] = 0
    /\ pc[u] = "done" => answer[u] \in {200, 400, 409, 500}
    /\ pc[u] \in {"exists", "put", "lost"} \/ wire[u] # "none" => key[u] \in Hash
    /\ wire[u] = "sending" => pc[u] = "put"
    /\ answer[u] = 200 => wire[u] = "stored"
    /\ answer[u] = 409 => wire[u] \in {"none", "conflict"} /\ key[u] \in Hash
    /\ u \in waiting => pc[u] \in {"exists", "put"} /\ wire[u] = "none"

(* The same of a download, its stream and its answer.                      *)
DownloadOK(d) ==
    /\ pc[d] \in {"idle", "exists", "stream", "size", "body", "done", "lost"}
    /\ pc[d] = "idle" => key[d] = NoObject
    /\ pc[d] \in {"idle", "exists", "stream"} => opened[d] = NoObject
    /\ pc[d] \in {"idle", "exists", "stream", "size"} => answer[d] = 0
    /\ pc[d] = "body" => answer[d] = 200
    /\ pc[d] = "done" => answer[d] \in {200, 400, 404, 500}
    /\ pc[d] = "lost" => answer[d] \in {0, 200}
    /\ pc[d] \in {"exists", "stream", "size", "body", "lost"} => key[d] \in Hash
    /\ answer[d] = 404 => opened[d] = NoObject
    /\ d \in waiting => pc[d] \in {"exists", "stream"}

ProbeOK(p) ==
    /\ pc[p] \in {"idle", "list", "done", "lost"}
    /\ p \in waiting => pc[p] = "list"

RequestsOK ==
    /\ \A u \in Upload : UploadOK(u)
    /\ \A d \in Download : DownloadOK(d)
    /\ \A p \in Probe : ProbeOK(p)

(* A dead process has no refresh under way.                                *)
CredentialsOK ==
    /\ RefreshIsShared
    /\ ~up => waiting = {} /\ ~refreshing

IInv == TypeOK /\ CredentialsOK /\ RequestsOK

USE RequestsAssumption

-----------------------------------------------------------------------------
(* The credentials.                                                        *)

LEMMA StartedTyped == \A e : Refreshing(Started(e)) \in
                               {"refused", "filesystem", "fixed", "chain"}
<1> SUFFICES ASSUME NEW e
             PROVE  Refreshing(Started(e)) \in {"refused", "filesystem", "fixed", "chain"}
  OBVIOUS
<1>1. resolveS3Config(e) \in {"refused", "static", "chain"}
  BY DEF resolveS3Config
<1>2. resolveGcsConfig(e) \in {"refused", "keyfile", "json", "ambient"}
  BY DEF resolveGcsConfig
<1>3. createCacheStorage(e) \in Mode
  BY <1>1, <1>2 DEF createCacheStorage, Mode, S3Modes, GcsModes
<1>4. Started(e) \in Mode
  BY <1>3 DEF Started, Mode, S3Modes, GcsModes
<1> QED
  BY <1>4 DEF Refreshing, Mode, S3Modes, GcsModes

(* What getClient does for one request: it adds it to those that wait or   *)
(* leaves everything, and then the client is there and fresh.              *)
LEMMA GetClient ==
    ASSUME TypeOK, CredentialsOK, up, UNCHANGED <<mode, now, up>>,
           NEW r \in Request, r \notin waiting, getClient(r)
    PROVE  /\ CredentialsTypeOK' /\ waiting' \subseteq Request /\ CredentialsOK'
           /\ waiting' = IF mustRefresh THEN waiting \cup {r} ELSE waiting
           /\ mode = "chain" /\ r \notin waiting' =>
                 /\ client'
                 /\ expiration' # NoExpiration => now + REFRESH_WINDOW < expiration'
<1>1. CASE mustRefresh
  <2>1. waiting' = waiting \cup {r} /\ refreshing' = TRUE
    BY <1>1 DEF getClient
  <2>2. calls' = 1
    BY <1>1 DEF getClient, CredentialsOK, RefreshIsShared
  <2>3. UNCHANGED <<client, expiration>>
    BY DEF getClient
  <2> QED
    BY <1>1, <2>1, <2>2, <2>3 DEF TypeOK, CredentialsTypeOK, CredentialsOK, RefreshIsShared
<1>2. CASE ~mustRefresh
  <2>1. UNCHANGED credentialVars
    BY <1>2 DEF getClient, credentialVars
  <2>2. CredentialsTypeOK' /\ waiting' \subseteq Request /\ CredentialsOK'
    BY <2>1 DEF TypeOK, CredentialsTypeOK, CredentialsOK, RefreshIsShared, credentialVars
  <2>3. mode = "chain" => client /\
          (expiration # NoExpiration => ~(now + REFRESH_WINDOW >= expiration))
    BY <1>2 DEF mustRefresh, shouldRefreshCredentials
  <2>4. expiration # NoExpiration =>
          (~(now + REFRESH_WINDOW >= expiration) <=> now + REFRESH_WINDOW < expiration)
    BY WindowAssumption, NowAssumption DEF TypeOK, CredentialsTypeOK
  <2> QED
    BY <1>2, <2>1, <2>2, <2>3, <2>4 DEF credentialVars
<1> QED
  BY <1>1, <1>2

LEMMA CredentialsFrame ==
    ASSUME TypeOK, CredentialsOK, UNCHANGED <<mode, credentialVars, up>>, now' \in 0..MaxNow
    PROVE  CredentialsTypeOK' /\ waiting' \subseteq Request /\ CredentialsOK'
BY DEF TypeOK, CredentialsTypeOK, CredentialsOK, RefreshIsShared, credentialVars

-----------------------------------------------------------------------------
(* What an action leaves alone.                                            *)

Same(r) ==
    /\ pc'[r] = pc[r] /\ key'[r] = key[r] /\ answer'[r] = answer[r]
    /\ r \in waiting' => r \in waiting

SameUpload(u) == Same(u) /\ wire'[u] = wire[u]
SameDownload(d) == Same(d) /\ opened'[d] = opened[d]

(* Every request but r is left alone.                                      *)
Moves(r) ==
    /\ \A u \in Upload \ {r} : SameUpload(u)
    /\ \A d \in Download \ {r} : SameDownload(d)
    /\ \A p \in Probe \ {r} : Same(p)

LEMMA UploadFrame ==
    ASSUME NEW u \in Upload, UploadOK(u), SameUpload(u)
    PROVE  UploadOK(u)' /\ putState(u)' = putState(u)
<1>1. UploadOK(u)'
  BY DEF UploadOK, SameUpload, Same
<1>2. putState(u)' = putState(u)
  BY DEF putState, SameUpload, Same
<1> QED
  BY <1>1, <1>2

LEMMA DownloadFrame ==
    ASSUME NEW d \in Download, DownloadOK(d), SameDownload(d)
    PROVE  DownloadOK(d)' /\ getState(d)' = getState(d)
<1>1. DownloadOK(d)'
  BY DEF DownloadOK, SameDownload, Same
<1>2. getState(d)' = getState(d)
  BY DEF getState, SameDownload, Same
<1> QED
  BY <1>1, <1>2

LEMMA OthersOK ==
    ASSUME RequestsOK, NEW r \in Request, Moves(r),
           r \in Upload => UploadOK(r)',
           r \in Download => DownloadOK(r)',
           r \in Probe => ProbeOK(r)'
    PROVE  RequestsOK'
<1>1. \A u \in Upload \ {r} : UploadOK(u)'
  BY UploadFrame DEF Moves, RequestsOK
<1>2. \A d \in Download \ {r} : DownloadOK(d)'
  BY DownloadFrame DEF Moves, RequestsOK
<1>3. \A p \in Probe \ {r} : ProbeOK(p)'
  BY DEF Moves, RequestsOK, Same, ProbeOK
<1> QED
  BY <1>1, <1>2, <1>3 DEF RequestsOK

(* Answering or entering a call moves one request.                         *)
LEMMA AnswerMoves ==
    ASSUME TypeOK, NEW r \in Request, NEW status, Answer(r, status), UNCHANGED key
    PROVE  /\ \A q \in Request \ {r} : Same(q)
           /\ pc'[r] = "done" /\ answer'[r] = status /\ key'[r] = key[r]
           /\ UNCHANGED <<key, credentialVars>>
           /\ pc' \in [Request -> {"idle", "exists", "put", "stream", "size",
                                   "body", "list", "done", "lost"}]
           /\ status \in {200, 400, 404, 409, 500, 503} =>
                answer' \in [Request -> {0, 200, 400, 404, 409, 500, 503}]
BY DEF TypeOK, Answer, Same, credentialVars

LEMMA EnterMoves ==
    ASSUME TypeOK, CredentialsOK, up, UNCHANGED <<mode, now, up>>,
           NEW r \in Request, r \notin waiting,
           NEW call \in {"exists", "put", "stream", "size", "list"}, Enter(r, call)
    PROVE  /\ CredentialsTypeOK' /\ waiting' \subseteq Request /\ CredentialsOK'
           /\ waiting' = IF mustRefresh THEN waiting \cup {r} ELSE waiting
           /\ \A q \in Request \ {r} :
                pc'[q] = pc[q] /\ answer'[q] = answer[q] /\ (q \in waiting' => q \in waiting)
           /\ pc'[r] = call /\ answer' = answer
           /\ pc' \in [Request -> {"idle", "exists", "put", "stream", "size",
                                   "body", "list", "done", "lost"}]
<1>1. getClient(r) /\ pc' = [pc EXCEPT ![r] = call] /\ answer' = answer
  BY DEF Enter
<1>2. CredentialsTypeOK' /\ waiting' \subseteq Request /\ CredentialsOK'
  BY <1>1, GetClient
<1>3. waiting' = IF mustRefresh THEN waiting \cup {r} ELSE waiting
  BY <1>1, GetClient
<1>4. \A q \in Request \ {r} : q \in waiting' => q \in waiting
  BY <1>3
<1> QED
  BY <1>1, <1>2, <1>3, <1>4 DEF TypeOK

-----------------------------------------------------------------------------
(* The invariant holds initially and is preserved, one lemma per action.   *)

LEMMA InitIInv == Init => IInv
<1> SUFFICES ASSUME Init PROVE IInv
  OBVIOUS
<1>1. CredentialsTypeOK
  <2>1. now \in 0..MaxNow
    BY NowAssumption DEF Init
  <2>2. client \in BOOLEAN /\ refreshing \in BOOLEAN
    BY Zenon DEF Init
  <2> QED
    BY <2>1, <2>2 DEF Init, CredentialsTypeOK
<1>4. /\ waiting \subseteq Request /\ env \in Env
      /\ crashes \in 0..MaxCrashes
  BY CrashesAssumption DEF Init
<1>8. up \in BOOLEAN
  BY Zenon DEF Init
<1>5. /\ bucket \in [Hash -> Upload \cup {NoObject}]
      /\ wire \in [Upload -> {"none", "sending", "sent", "stored", "conflict"}]
      /\ key \in [Request -> Hash \cup {NoObject}]
      /\ opened \in [Download -> Upload \cup {NoObject}]
  BY DEF Init
<1>6. /\ pc \in [Request -> {"idle", "exists", "put", "stream", "size", "body",
                             "list", "done", "lost"}]
      /\ answer \in [Request -> {0, 200, 400, 404, 409, 500, 503}]
  BY DEF Init
<1>7. TypeOK
  BY <1>1, <1>4, <1>5, <1>6, <1>8 DEF TypeOK
<1>2. CredentialsOK
  BY DEF Init, CredentialsOK, RefreshIsShared
<1>3. RequestsOK
  BY DEF Init, RequestsOK, UploadOK, DownloadOK, ProbeOK, Request
<1> QED
  BY <1>2, <1>3, <1>7 DEF IInv

(* A step that leaves every request, its write and its stream alone.       *)
LEMMA IdleFrame ==
    ASSUME IInv, UNCHANGED <<bucket, wire, requestVars>>, CredentialsTypeOK',
           waiting' \subseteq waiting, CredentialsOK',
           env' \in Env, up' \in BOOLEAN, crashes' \in 0..MaxCrashes
    PROVE  IInv'
<1>1. TypeOK'
  BY DEF IInv, TypeOK, requestVars
<1>2. RequestsOK'
  BY DEF IInv, RequestsOK, UploadOK, DownloadOK, ProbeOK, requestVars
<1> QED
  BY <1>1, <1>2 DEF IInv

LEMMA BootIInv == ASSUME IInv, Boot PROVE IInv'
<1>1. mode' \in {"refused", "filesystem", "fixed", "chain"}
  BY StartedTyped DEF Boot
<1>2. CredentialsTypeOK' /\ waiting' = {} /\ CredentialsOK'
  BY <1>1 DEF Boot, Constructed, IInv, TypeOK, CredentialsTypeOK, CredentialsOK,
              RefreshIsShared
<1>3. env' \in Env
  BY DEF Boot, NoEnv, Env, Setting, GcsCredentials
<1>4. up' \in BOOLEAN
  BY DEF Boot
<1> QED
  BY <1>2, <1>3, <1>4, IdleFrame DEF Boot, IInv, TypeOK

LEMMA RestartIInv == ASSUME IInv, Restart PROVE IInv'
<1>1. CredentialsTypeOK' /\ waiting' = {} /\ CredentialsOK'
  BY DEF Restart, Constructed, IInv, TypeOK, CredentialsTypeOK, CredentialsOK,
         RefreshIsShared
<1> QED
  BY <1>1, IdleFrame DEF Restart, IInv, TypeOK

LEMMA ClockIInv == ASSUME IInv, Clock PROVE IInv'
<1>1. now' \in 0..MaxNow
  BY NowAssumption DEF Clock, TimePasses, IInv, TypeOK, CredentialsTypeOK
<1>2. TypeOK /\ CredentialsOK /\ UNCHANGED <<mode, credentialVars, up>>
  BY DEF Clock, TimePasses, IInv
<1>3. CredentialsTypeOK' /\ CredentialsOK'
  BY <1>1, <1>2, CredentialsFrame
<1> QED
  BY <1>2, <1>3, IdleFrame DEF Clock, IInv, TypeOK, credentialVars

LEMMA CrashIInv == ASSUME IInv, Crash PROVE IInv'
<1>1. CredentialsTypeOK' /\ waiting' = {} /\ CredentialsOK'
  BY DEF Crash, IInv, TypeOK, CredentialsTypeOK, CredentialsOK, RefreshIsShared
<1>2. crashes' \in 0..MaxCrashes
  BY CrashesAssumption DEF Crash, IInv, TypeOK
<1>7. pc' \in [Request -> {"idle", "exists", "put", "stream", "size", "body",
                           "list", "done", "lost"}]
  BY DEF Crash, IInv, TypeOK
<1>8. wire' \in [Upload -> {"none", "sending", "sent", "stored", "conflict"}]
  BY DEF Crash, IInv, TypeOK
<1>9. up' \in BOOLEAN
  BY Zenon DEF Crash
<1>3. TypeOK'
  BY <1>1, <1>2, <1>7, <1>8, <1>9 DEF Crash, IInv, TypeOK
<1>4. \A u \in Upload : UploadOK(u)'
  BY <1>1 DEF Crash, IInv, RequestsOK, UploadOK, Request, TypeOK
<1>5. \A d \in Download : DownloadOK(d)'
  BY <1>1 DEF Crash, IInv, RequestsOK, DownloadOK, Request, TypeOK
<1>6. \A p \in Probe : ProbeOK(p)'
  BY <1>1 DEF Crash, IInv, RequestsOK, ProbeOK, Request, TypeOK
<1> QED
  BY <1>1, <1>3, <1>4, <1>5, <1>6 DEF IInv, RequestsOK

(* A step of one request that leaves the client and the others alone.      *)
LEMMA MoveIInv ==
    ASSUME IInv, NEW r \in Request, Moves(r),
           UNCHANGED <<serverVars, bucket>>,
           CredentialsTypeOK', waiting' \subseteq Request, CredentialsOK',
           wire' \in [Upload -> {"none", "sending", "sent", "stored", "conflict"}],
           pc' \in [Request -> {"idle", "exists", "put", "stream", "size",
                                "body", "list", "done", "lost"}],
           key' \in [Request -> Hash \cup {NoObject}],
           opened' \in [Download -> Upload \cup {NoObject}],
           answer' \in [Request -> {0, 200, 400, 404, 409, 500, 503}],
           r \in Upload => UploadOK(r)',
           r \in Download => DownloadOK(r)',
           r \in Probe => ProbeOK(r)'
    PROVE  IInv'
<1>1. TypeOK'
  BY DEF IInv, TypeOK, serverVars
<1>2. RequestsOK'
  BY OthersOK DEF IInv
<1> QED
  BY <1>1, <1>2 DEF IInv

(* The two ways in which a step of a request ends.                         *)
LEMMA AnswerIInv ==
    ASSUME IInv, NEW r \in Request, NEW status \in {200, 400, 404, 409, 500, 503},
           Answer(r, status), UNCHANGED <<serverVars, bucket, key, opened>>,
           wire' \in [Upload -> {"none", "sending", "sent", "stored", "conflict"}],
           \A u \in Upload \ {r} : wire'[u] = wire[u],
           r \in Upload => UploadOK(r)',
           r \in Download => DownloadOK(r)',
           r \in Probe => ProbeOK(r)'
    PROVE  IInv'
<1>1. TypeOK /\ CredentialsOK /\ UNCHANGED <<mode, up, now>>
  BY DEF IInv, serverVars
<1>2. /\ \A q \in Request \ {r} : Same(q)
      /\ UNCHANGED credentialVars
      /\ pc' \in [Request -> {"idle", "exists", "put", "stream", "size",
                              "body", "list", "done", "lost"}]
      /\ answer' \in [Request -> {0, 200, 400, 404, 409, 500, 503}]
  BY <1>1, AnswerMoves
<1>3. now' \in 0..MaxNow
  BY <1>1 DEF TypeOK, CredentialsTypeOK
<1>4. CredentialsTypeOK' /\ waiting' \subseteq Request /\ CredentialsOK'
  BY <1>1, <1>2, <1>3, CredentialsFrame
<1>5. Moves(r)
  BY <1>2 DEF Moves, SameUpload, SameDownload, Request
<1>6. key' \in [Request -> Hash \cup {NoObject}] /\ opened' \in [Download -> Upload \cup {NoObject}]
  BY <1>1 DEF TypeOK
<1> QED
  BY <1>2, <1>4, <1>5, <1>6, MoveIInv

LEMMA EnterIInv ==
    ASSUME IInv, up, NEW r \in Request, r \notin waiting,
           NEW call \in {"exists", "put", "stream", "size", "list"}, Enter(r, call),
           UNCHANGED <<serverVars, bucket, opened>>,
           key' \in [Request -> Hash \cup {NoObject}],
           \A q \in Request \ {r} : key'[q] = key[q],
           wire' \in [Upload -> {"none", "sending", "sent", "stored", "conflict"}],
           \A u \in Upload \ {r} : wire'[u] = wire[u],
           r \in Upload => UploadOK(r)',
           r \in Download => DownloadOK(r)',
           r \in Probe => ProbeOK(r)'
    PROVE  IInv'
<1>1. TypeOK /\ CredentialsOK /\ UNCHANGED <<mode, up, now>>
  BY DEF IInv, serverVars
<1>2. /\ CredentialsTypeOK' /\ waiting' \subseteq Request /\ CredentialsOK'
      /\ \A q \in Request \ {r} :
           pc'[q] = pc[q] /\ answer'[q] = answer[q] /\ (q \in waiting' => q \in waiting)
      /\ pc' \in [Request -> {"idle", "exists", "put", "stream", "size",
                              "body", "list", "done", "lost"}]
      /\ answer' = answer
  BY <1>1, EnterMoves
<1>3. Moves(r)
  BY <1>2 DEF Moves, SameUpload, SameDownload, Same, Request
<1>4. answer' \in [Request -> {0, 200, 400, 404, 409, 500, 503}]
      /\ opened' \in [Download -> Upload \cup {NoObject}]
  BY <1>1, <1>2 DEF TypeOK
<1> QED
  BY <1>2, <1>3, <1>4, MoveIInv

LEMMA Kinds == /\ Upload \subseteq Request /\ Download \subseteq Request /\ Probe \subseteq Request
               /\ \A u \in Upload : u \notin Download /\ u \notin Probe
               /\ \A d \in Download : d \notin Upload /\ d \notin Probe
               /\ \A p \in Probe : p \notin Upload /\ p \notin Download
BY DEF Request

LEMMA PutArrivesIInv == ASSUME IInv, NEW u \in Upload, PutArrives(u) PROVE IInv'
<1>1. UploadOK(u) /\ u \notin waiting /\ UNCHANGED <<serverVars, bucket, wire, opened>> /\ up
  BY DEF PutArrives, IInv, RequestsOK, UploadOK
<1>2. CASE Answer(u, 400) /\ UNCHANGED key
  <2>1. UploadOK(u)'
    BY <1>1, <1>2, Kinds DEF PutArrives, Answer, UploadOK, IInv, TypeOK, credentialVars
  <2> QED
    BY <1>1, <1>2, <2>1, Kinds, AnswerIInv DEF IInv, TypeOK
<1>3. CASE /\ \E h \in Hash : key' = [key EXCEPT ![u] = h]
           /\ Enter(u, "exists")
  <2>1. UploadOK(u)'
    BY <1>1, <1>3, Kinds DEF PutArrives, Enter, UploadOK, IInv, TypeOK
  <2>2. /\ key' \in [Request -> Hash \cup {NoObject}]
        /\ \A q \in Request \ {u} : key'[q] = key[q]
    <3>1. PICK h \in Hash : key' = [key EXCEPT ![u] = h]
      BY <1>3
    <3>2. key \in [Request -> Hash \cup {NoObject}]
      BY DEF IInv, TypeOK
    <3> QED
      BY <3>1, <3>2
  <2> QED
    BY <1>1, <1>3, <2>1, <2>2, Kinds, EnterIInv DEF IInv, TypeOK
<1> QED
  BY <1>2, <1>3 DEF PutArrives

LEMMA PutCheckedIInv == ASSUME IInv, NEW u \in Upload, PutChecked(u) PROVE IInv'
<1>1. /\ UploadOK(u) /\ u \notin waiting /\ up /\ pc[u] = "exists"
      /\ UNCHANGED <<serverVars, bucket, key, opened>>
  BY DEF PutChecked, Awaits, IInv, RequestsOK
<1>2. ASSUME NEW status \in {400, 409, 500}, Answer(u, status), UNCHANGED wire
      PROVE  IInv'
  <2>1. UploadOK(u)'
    BY <1>1, <1>2, Kinds DEF Answer, UploadOK, IInv, TypeOK, credentialVars
  <2> QED
    BY <1>1, <1>2, <2>1, Kinds, AnswerIInv DEF IInv, TypeOK
<1>3. CASE /\ Enter(u, "put")
           /\ wire' = [wire EXCEPT ![u] = IF mustRefresh THEN @ ELSE "sending"]
  <2>1. u \in waiting' => wire'[u] = "none"
    BY <1>1, <1>3, Kinds DEF Enter, getClient, UploadOK, IInv, TypeOK
  <2>2. UploadOK(u)'
    BY <1>1, <1>3, <2>1, Kinds DEF Enter, UploadOK, IInv, TypeOK
  <2>3. /\ wire' \in [Upload -> {"none", "sending", "sent", "stored", "conflict"}]
        /\ \A q \in Upload \ {u} : wire'[q] = wire[q]
    BY <1>3 DEF IInv, TypeOK
  <2> QED
    BY <1>1, <1>3, <2>2, <2>3, Kinds, EnterIInv DEF IInv, TypeOK
<1> QED
  BY <1>2, <1>3 DEF PutChecked

(* A step of the bucket: only what became of one write.                    *)
LEMMA BucketIInv ==
    ASSUME IInv, NEW u \in Upload, UNCHANGED <<serverVars, credentialVars, requestVars>>,
           NEW w \in {"sent", "stored", "conflict"}, wire' = [wire EXCEPT ![u] = w],
           bucket' \in [Hash -> Upload \cup {NoObject}], UploadOK(u)'
    PROVE  IInv'
<1>1. TypeOK'
  BY DEF IInv, TypeOK, CredentialsTypeOK, serverVars, credentialVars, requestVars
<1>2. CredentialsOK'
  BY DEF IInv, CredentialsOK, RefreshIsShared, serverVars, credentialVars
<1>3. RequestsOK /\ Moves(u)
  BY DEF Moves, SameUpload, SameDownload, Same, IInv, TypeOK, credentialVars, requestVars
<1>4. RequestsOK'
  BY <1>3, Kinds, OthersOK
<1> QED
  BY <1>1, <1>2, <1>4 DEF IInv

LEMMA BodySentIInv == ASSUME IInv, NEW u \in Upload, BodySent(u) PROVE IInv'
<1>1. UploadOK(u)'
  BY DEF BodySent, Awaits, UploadOK, IInv, RequestsOK, TypeOK, credentialVars, requestVars
<1> QED
  BY <1>1, BucketIInv DEF BodySent, IInv, TypeOK

LEMMA StoredIInv == ASSUME IInv, NEW u \in Upload, Stored(u) PROVE IInv'
<1>1. UploadOK(u)'
  BY DEF Stored, UploadOK, IInv, RequestsOK, TypeOK, credentialVars, requestVars
<1> QED
  BY <1>1, BucketIInv DEF Stored, IInv, TypeOK

LEMMA ConflictsIInv == ASSUME IInv, NEW u \in Upload, Conflicts(u) PROVE IInv'
<1>1. UploadOK(u)'
  BY DEF Conflicts, UploadOK, IInv, RequestsOK, TypeOK, credentialVars, requestVars
<1> QED
  BY <1>1, BucketIInv DEF Conflicts, IInv, TypeOK

LEMMA BodyFailsIInv == ASSUME IInv, NEW u \in Upload, BodyFails(u) PROVE IInv'
<1>1. PICK status \in {400, 500} : Answer(u, status)
  BY DEF BodyFails
<1>2. /\ \/ wire' = [wire EXCEPT ![u] = "none"]
         \/ wire' = wire /\ wire[u] # "sending"
      /\ pc[u] = "put" /\ u \notin waiting
      /\ UNCHANGED <<serverVars, bucket, key, opened>>
  BY DEF BodyFails, Awaits
<1>3. UploadOK(u)'
  BY <1>1, <1>2, Kinds DEF Answer, UploadOK, IInv, RequestsOK, TypeOK, credentialVars
<1> QED
  BY <1>1, <1>2, <1>3, Kinds, AnswerIInv DEF IInv, TypeOK

(* What the bucket's decision can be answered with.                        *)
LEMMA OutcomesKnown ==
    /\ Outcomes("stored") = {200}
    /\ Outcomes("conflict") = {409}
    /\ Outcomes("refused") = {500}
BY DEF Outcomes, S3Status, GcsStatus, s3WriteStream, gcsWriteStream

(* The three ways in which writeStream settles.                            *)
LEMMA PutSettlesCases ==
    ASSUME NEW u \in Upload, PutSettles(u)
    PROVE  \/ wire[u] = "stored" /\ Answer(u, 200) /\ UNCHANGED wire
           \/ wire[u] = "conflict" /\ Answer(u, 409) /\ UNCHANGED wire
           \/ /\ wire[u] \in {"sending", "sent"} /\ Answer(u, 500)
              /\ wire' = [wire EXCEPT ![u] = "none"]
           \/ wire[u] \in {"sent", "stored", "conflict"} /\ Answer(u, 500) /\ UNCHANGED wire
BY OutcomesKnown DEF PutSettles

LEMMA PutSettlesIInv == ASSUME IInv, NEW u \in Upload, PutSettles(u) PROVE IInv'
<1>1. /\ UploadOK(u) /\ u \notin waiting /\ up /\ pc[u] = "put"
      /\ UNCHANGED <<serverVars, bucket, key, opened>>
  BY DEF PutSettles, Awaits, IInv, RequestsOK
<1>2. PICK status \in {200, 409, 500} :
        /\ Answer(u, status)
        /\ status = 200 => wire[u] = "stored"
        /\ status = 409 => wire[u] = "conflict"
        /\ wire' = wire \/ (status = 500 /\ wire' = [wire EXCEPT ![u] = "none"])
        /\ wire' = wire => wire[u] # "sending"
  <2>1. wire[u] = "sending" /\ wire' = [wire EXCEPT ![u] = "none"] => wire' # wire
    BY DEF IInv, TypeOK
  <2> QED
    BY <2>1, PutSettlesCases
<1>3. UploadOK(u)'
  BY <1>1, <1>2, Kinds DEF Answer, UploadOK, IInv, TypeOK, credentialVars
<1> QED
  BY <1>1, <1>2, <1>3, Kinds, AnswerIInv DEF IInv, TypeOK

LEMMA GetArrivesIInv == ASSUME IInv, NEW d \in Download, GetArrives(d) PROVE IInv'
<1>1. DownloadOK(d) /\ d \notin waiting /\ UNCHANGED <<serverVars, bucket, wire, opened>> /\ up
  BY DEF GetArrives, IInv, RequestsOK, DownloadOK
<1>2. CASE Answer(d, 400) /\ UNCHANGED key
  <2>1. DownloadOK(d)'
    BY <1>1, <1>2, Kinds DEF GetArrives, Answer, DownloadOK, IInv, TypeOK, credentialVars
  <2> QED
    BY <1>1, <1>2, <2>1, Kinds, AnswerIInv DEF IInv, TypeOK
<1>3. CASE /\ \E h \in Hash : key' = [key EXCEPT ![d] = h]
           /\ Enter(d, "exists")
  <2>1. DownloadOK(d)'
    BY <1>1, <1>3, Kinds DEF GetArrives, Enter, DownloadOK, IInv, TypeOK
  <2>2. /\ key' \in [Request -> Hash \cup {NoObject}]
        /\ \A q \in Request \ {d} : key'[q] = key[q]
    <3>1. PICK h \in Hash : key' = [key EXCEPT ![d] = h]
      BY <1>3
    <3>2. key \in [Request -> Hash \cup {NoObject}]
      BY DEF IInv, TypeOK
    <3> QED
      BY <3>1, <3>2
  <2> QED
    BY <1>1, <1>3, <2>1, <2>2, Kinds, EnterIInv DEF IInv, TypeOK
<1> QED
  BY <1>2, <1>3 DEF GetArrives

LEMMA GetCheckedIInv == ASSUME IInv, NEW d \in Download, GetChecked(d) PROVE IInv'
<1>1. /\ DownloadOK(d) /\ d \notin waiting /\ up /\ pc[d] = "exists"
      /\ UNCHANGED <<serverVars, bucket, wire, key, opened>>
  BY DEF GetChecked, Awaits, IInv, RequestsOK
<1>2. ASSUME NEW status \in {404, 500}, Answer(d, status)
      PROVE  IInv'
  <2>1. DownloadOK(d)'
    BY <1>1, <1>2, Kinds DEF Answer, DownloadOK, IInv, TypeOK, credentialVars
  <2> QED
    BY <1>1, <1>2, <2>1, Kinds, AnswerIInv DEF IInv, TypeOK
<1>3. CASE Enter(d, IF mustRefresh THEN "stream" ELSE "size")
  <2>1. d \in waiting' => mustRefresh
    BY <1>1, <1>3 DEF Enter, getClient
  <2>2. DownloadOK(d)'
    BY <1>1, <1>3, <2>1, Kinds DEF Enter, DownloadOK, IInv, TypeOK
  <2> QED
    BY <1>1, <1>3, <2>2, Kinds, EnterIInv DEF IInv, TypeOK
<1> QED
  BY <1>2, <1>3 DEF GetChecked

(* A step of a download that answers nothing and asks for no client.       *)
LEMMA StreamIInv ==
    ASSUME IInv, NEW d \in Download,
           UNCHANGED <<serverVars, credentialVars, bucket, wire, key>>,
           Moves(d), DownloadOK(d)',
           pc' \in [Request -> {"idle", "exists", "put", "stream", "size",
                                "body", "list", "done", "lost"}],
           opened' \in [Download -> Upload \cup {NoObject}],
           answer' \in [Request -> {0, 200, 400, 404, 409, 500, 503}]
    PROVE  IInv'
<1>1. TypeOK /\ CredentialsOK /\ UNCHANGED <<mode, up, now, credentialVars>>
  BY DEF IInv, serverVars
<1>2. now' \in 0..MaxNow
  BY <1>1 DEF TypeOK, CredentialsTypeOK
<1>3. CredentialsTypeOK' /\ waiting' \subseteq Request /\ CredentialsOK'
  BY <1>1, <1>2, CredentialsFrame
<1> QED
  BY <1>1, <1>3, Kinds, MoveIInv DEF TypeOK

LEMMA SizeReadIInv == ASSUME IInv, NEW d \in Download, SizeRead(d) PROVE IInv'
<1>1. /\ DownloadOK(d) /\ d \notin waiting /\ up /\ pc[d] = "size"
      /\ UNCHANGED <<serverVars, bucket, wire, key, opened>>
  BY DEF SizeRead, Awaits, IInv, RequestsOK
<1>2. CASE Answer(d, 500)
  <2>1. DownloadOK(d)'
    BY <1>1, <1>2, Kinds DEF Answer, DownloadOK, IInv, TypeOK, credentialVars
  <2> QED
    BY <1>1, <1>2, <2>1, Kinds, AnswerIInv DEF IInv, TypeOK
<1>3. CASE /\ pc' = [pc EXCEPT ![d] = "body"]
           /\ answer' = [answer EXCEPT ![d] = 200]
           /\ UNCHANGED credentialVars
  <2>1. DownloadOK(d)'
    BY <1>1, <1>3, Kinds DEF DownloadOK, IInv, TypeOK, credentialVars
  <2>2. Moves(d)
    BY <1>1, <1>3, Kinds DEF Moves, SameUpload, SameDownload, Same, IInv, TypeOK, credentialVars
  <2>3. /\ pc' \in [Request -> {"idle", "exists", "put", "stream", "size",
                                "body", "list", "done", "lost"}]
        /\ opened' \in [Download -> Upload \cup {NoObject}]
        /\ answer' \in [Request -> {0, 200, 400, 404, 409, 500, 503}]
    <3>1. d \in Request
      BY Kinds
    <3>2. /\ pc \in [Request -> {"idle", "exists", "put", "stream", "size",
                                 "body", "list", "done", "lost"}]
          /\ opened \in [Download -> Upload \cup {NoObject}]
          /\ answer \in [Request -> {0, 200, 400, 404, 409, 500, 503}]
      BY DEF IInv, TypeOK
    <3> QED  BY <1>1, <1>3, <3>1, <3>2
  <2> QED
    BY <1>1, <1>3, <2>1, <2>2, <2>3, StreamIInv
<1> QED
  BY <1>2, <1>3 DEF SizeRead

LEMMA BodyOpenedIInv == ASSUME IInv, NEW d \in Download, BodyOpened(d) PROVE IInv'
<1>1. /\ DownloadOK(d) /\ pc[d] \in {"size", "body"}
      /\ UNCHANGED <<serverVars, credentialVars, bucket, wire, pc, key, answer>>
  BY DEF BodyOpened, Awaits, IInv, RequestsOK
<1>2. DownloadOK(d)'
  BY <1>1 DEF DownloadOK, credentialVars
<1>3. Moves(d)
  BY <1>1, Kinds DEF BodyOpened, Moves, SameUpload, SameDownload, Same, IInv, TypeOK, credentialVars
<1>4. bucket[key[d]] \in Upload \cup {NoObject}
  BY <1>1 DEF DownloadOK, IInv, TypeOK
<1>5. opened' \in [Download -> Upload \cup {NoObject}]
  BY <1>4 DEF BodyOpened, IInv, TypeOK
<1> QED
  BY <1>1, <1>2, <1>3, <1>5, StreamIInv DEF IInv, TypeOK

LEMMA BodyEndsIInv == ASSUME IInv, NEW d \in Download, BodyEnds(d) PROVE IInv'
<1>1. /\ DownloadOK(d) /\ pc[d] = "body" /\ d \notin waiting
      /\ pc' = [pc EXCEPT ![d] = "done"]
      /\ UNCHANGED <<serverVars, credentialVars, bucket, wire, key, opened, answer>>
  BY DEF BodyEnds, Awaits, IInv, RequestsOK
<1>2. DownloadOK(d)'
  BY <1>1, Kinds DEF DownloadOK, IInv, TypeOK, credentialVars
<1>3. Moves(d)
  BY <1>1, Kinds DEF Moves, SameUpload, SameDownload, Same, IInv, TypeOK, credentialVars
<1> QED
  BY <1>1, <1>2, <1>3, StreamIInv DEF IInv, TypeOK

LEMMA ProbeArrivesIInv == ASSUME IInv, NEW p \in Probe, ProbeArrives(p) PROVE IInv'
<1>1. /\ ProbeOK(p) /\ p \notin waiting /\ up
      /\ UNCHANGED <<serverVars, bucket, wire, key, opened>>
  BY DEF ProbeArrives, IInv, RequestsOK, ProbeOK
<1>2. CASE Answer(p, 503)
  <2>1. ProbeOK(p)'
    BY <1>1, <1>2, Kinds DEF Answer, ProbeOK, IInv, TypeOK, credentialVars
  <2> QED
    BY <1>1, <1>2, <2>1, Kinds, AnswerIInv DEF IInv, TypeOK
<1>3. CASE Enter(p, "list")
  <2>1. ProbeOK(p)'
    BY <1>1, <1>3, Kinds DEF Enter, ProbeOK, IInv, TypeOK
  <2> QED
    BY <1>1, <1>3, <2>1, Kinds, EnterIInv DEF IInv, TypeOK
<1> QED
  BY <1>2, <1>3 DEF ProbeArrives

LEMMA ProbeSettlesIInv == ASSUME IInv, NEW p \in Probe, ProbeSettles(p) PROVE IInv'
<1>1. PICK status \in {200, 503} : Answer(p, status)
  BY DEF ProbeSettles
<1>2. p \notin waiting /\ UNCHANGED <<serverVars, bucket, wire, key, opened>>
  BY DEF ProbeSettles, Awaits
<1>3. ProbeOK(p)'
  BY <1>1, <1>2, Kinds DEF Answer, ProbeOK, IInv, TypeOK, credentialVars
<1> QED
  BY <1>1, <1>2, <1>3, Kinds, AnswerIInv DEF IInv, TypeOK

LEMMA SucceedsIInv == ASSUME IInv, RefreshSucceeds PROVE IInv'
<1>1. /\ UNCHANGED <<serverVars, bucket, key, opened, answer>>
      /\ client' = TRUE /\ refreshing' = FALSE /\ calls' = 0 /\ waiting' = {}
      /\ expiration' \in Nat \cup {NoExpiration}
  BY LifetimeAssumption, NowAssumption
     DEF RefreshSucceeds, Refreshed, IInv, TypeOK, CredentialsTypeOK, CredentialsOK, RefreshIsShared
<1>2. CredentialsTypeOK' /\ CredentialsOK'
  BY <1>1 DEF serverVars, IInv, TypeOK, CredentialsTypeOK, CredentialsOK, RefreshIsShared
<1>3. /\ pc' \in [Request -> {"idle", "exists", "put", "stream", "size", "body",
                              "list", "done", "lost"}]
      /\ wire' \in [Upload -> {"none", "sending", "sent", "stored", "conflict"}]
  BY DEF RefreshSucceeds, IInv, TypeOK
<1>4. TypeOK'
  BY <1>1, <1>2, <1>3 DEF serverVars, IInv, TypeOK
<1>5. \A u \in Upload : UploadOK(u)'
  BY <1>1, Kinds DEF RefreshSucceeds, IInv, RequestsOK, UploadOK, TypeOK
<1>6. \A d \in Download : DownloadOK(d)'
  BY <1>1, Kinds DEF RefreshSucceeds, IInv, RequestsOK, DownloadOK, TypeOK
<1>7. \A p \in Probe : ProbeOK(p)'
  BY <1>1, Kinds DEF RefreshSucceeds, IInv, RequestsOK, ProbeOK, TypeOK
<1> QED
  BY <1>2, <1>4, <1>5, <1>6, <1>7 DEF IInv, RequestsOK

LEMMA FailsIInv == ASSUME IInv, RefreshFails PROVE IInv'
<1>1. /\ UNCHANGED <<serverVars, bucket, wire, key, opened, client, expiration>>
      /\ refreshing' = FALSE /\ calls' = 0 /\ waiting' = {}
  BY DEF RefreshFails, RefreshFailed, IInv, TypeOK, CredentialsTypeOK, CredentialsOK, RefreshIsShared
<1>2. CredentialsTypeOK' /\ CredentialsOK'
  BY <1>1 DEF serverVars, IInv, TypeOK, CredentialsTypeOK, CredentialsOK, RefreshIsShared
<1>3. /\ pc' \in [Request -> {"idle", "exists", "put", "stream", "size", "body",
                              "list", "done", "lost"}]
      /\ answer' \in [Request -> {0, 200, 400, 404, 409, 500, 503}]
  BY DEF RefreshFails, IInv, TypeOK
<1>4. TypeOK'
  BY <1>1, <1>2, <1>3 DEF serverVars, IInv, TypeOK
<1>5. \A u \in Upload : UploadOK(u)'
  BY <1>1, Kinds DEF RefreshFails, IInv, RequestsOK, UploadOK, TypeOK
<1>6. \A d \in Download : DownloadOK(d)'
  BY <1>1, Kinds DEF RefreshFails, IInv, RequestsOK, DownloadOK, TypeOK
<1>7. \A p \in Probe : ProbeOK(p)'
  BY <1>1, Kinds DEF RefreshFails, IInv, RequestsOK, ProbeOK, TypeOK
<1> QED
  BY <1>2, <1>4, <1>5, <1>6, <1>7 DEF IInv, RequestsOK

LEMMA ExpireIInv == ASSUME IInv, NEW h \in Hash, Expire(h) PROVE IInv'
<1>1. UNCHANGED <<serverVars, credentialVars, wire, requestVars>>
      /\ bucket' \in [Hash -> Upload \cup {NoObject}]
  BY DEF Expire, IInv, TypeOK
<1>2. TypeOK'
  BY <1>1 DEF IInv, TypeOK, CredentialsTypeOK, serverVars, credentialVars, requestVars
<1>3. CredentialsOK' /\ RequestsOK'
  BY <1>1 DEF IInv, CredentialsOK, RefreshIsShared, RequestsOK, UploadOK, DownloadOK, ProbeOK,
              serverVars, credentialVars, requestVars
<1> QED
  BY <1>2, <1>3 DEF IInv

LEMMA StutterIInv == ASSUME IInv, UNCHANGED vars PROVE IInv'
<1>1. TypeOK'
  BY DEF IInv, TypeOK, CredentialsTypeOK, vars, credentialVars, requestVars
<1>2. CredentialsOK' /\ RequestsOK'
  BY DEF IInv, CredentialsOK, RefreshIsShared, RequestsOK, UploadOK, DownloadOK, ProbeOK,
         vars, credentialVars, requestVars
<1> QED
  BY <1>1, <1>2 DEF IInv

LEMMA StepIInv == IInv /\ [Next]_vars => IInv'
<1> SUFFICES ASSUME IInv, [Next]_vars PROVE IInv'
  OBVIOUS
<1>1. CASE Boot \/ Crash \/ Restart \/ Clock
  BY <1>1, BootIInv, CrashIInv, RestartIInv, ClockIInv
<1>2. ASSUME NEW u \in Upload, PutArrives(u) \/ PutStep(u) \/ Stored(u) \/ Conflicts(u)
      PROVE  IInv'
  BY <1>2, PutArrivesIInv, PutCheckedIInv, BodySentIInv, BodyFailsIInv, PutSettlesIInv,
     StoredIInv, ConflictsIInv DEF PutStep
<1>3. ASSUME NEW d \in Download, GetArrives(d) \/ GetStep(d)
      PROVE  IInv'
  BY <1>3, GetArrivesIInv, GetCheckedIInv, SizeReadIInv, BodyOpenedIInv, BodyEndsIInv DEF GetStep
<1>4. ASSUME NEW p \in Probe, ProbeArrives(p) \/ ProbeSettles(p)
      PROVE  IInv'
  BY <1>4, ProbeArrivesIInv, ProbeSettlesIInv
<1>5. CASE RefreshSucceeds \/ RefreshFails
  BY <1>5, SucceedsIInv, FailsIInv
<1>6. ASSUME NEW h \in Hash, Expire(h)
      PROVE  IInv'
  BY <1>6, ExpireIInv
<1>7. CASE UNCHANGED vars
  BY <1>7, StutterIInv
<1> QED
  BY <1>1, <1>2, <1>3, <1>4, <1>5, <1>6, <1>7 DEF Next

(* The inductive invariant of the server over an object store.             *)
THEOREM ObjectInvariance == Spec => []IInv
BY InitIInv, StepIInv, PTL DEF Spec

(* Type correctness of the server, its requests and its credentials.       *)
THEOREM ObjectsAreTyped == Spec => []TypeOK
<1>1. IInv => TypeOK
  BY DEF IInv
<1> QED
  BY <1>1, ObjectInvariance, PTL

(* One call of the provider at a time, shared by all who wait (s3.ts:      *)
(* 58-69), for any number of requests, failures and restarts.              *)
THEOREM RefreshesAreShared == Spec => []RefreshIsShared
<1>1. IInv => RefreshIsShared
  BY DEF IInv, CredentialsOK
<1> QED
  BY <1>1, ObjectInvariance, PTL

-----------------------------------------------------------------------------
(* The start.                                                              *)

LEMMA S3Credentialed ==
    ASSUME NEW e \in Env
    PROVE  /\ resolveS3Config(e) \in {"refused", "static", "chain"}
           /\ resolveS3Config(e) = "static" =>
                {e.S3_ACCESS_KEY_ID, e.S3_SECRET_ACCESS_KEY} = {"set"}
           /\ resolveS3Config(e) = "chain" =>
                "set" \notin {e.S3_ACCESS_KEY_ID, e.S3_SECRET_ACCESS_KEY}
<1>1. e.S3_ACCESS_KEY_ID \in Setting /\ e.S3_SECRET_ACCESS_KEY \in Setting
  BY DEF Env
<1> QED
  BY <1>1 DEF resolveS3Config, Given, Setting

LEMMA GcsCredentialed ==
    ASSUME NEW e \in Env
    PROVE  /\ resolveGcsConfig(e) \in {"refused", "keyfile", "json", "ambient"}
           /\ resolveGcsConfig(e) = "ambient" =>
                {e.GCS_KEY_FILENAME, e.GCS_CREDENTIALS} \subseteq {"unset", "blank"}
<1>1. e.GCS_KEY_FILENAME \in Setting /\ e.GCS_CREDENTIALS \in GcsCredentials
  BY DEF Env
<1> QED
  BY <1>1 DEF resolveGcsConfig, Given, Setting, GcsCredentials

(* No environment starts an object store with ambient credentials against  *)
(* the operator's word, or with limits nobody enforces (create-cache-      *)
(* storage.ts:38-41 and 119-123; main.ts:108-114).                         *)
THEOREM CredentialsAreIntended == Spec => []NoUnintendedCredentials
<1>1. ASSUME env \in Env PROVE NoUnintendedCredentials
  <2>1. createCacheStorage(env) = resolveS3Config(env)
          \/ createCacheStorage(env) = resolveGcsConfig(env)
          \/ createCacheStorage(env) \in {"filesystem", "refused"}
    BY DEF createCacheStorage
  <2>2. CASE env.CACHE_LIMITS
    <3>1. Started(env) \in {"refused", "filesystem"}
      BY <2>2 DEF Started
    <3> QED
      BY <3>1 DEF NoUnintendedCredentials, S3Modes, GcsModes
  <2>3. CASE ~env.CACHE_LIMITS
    <3>1. Started(env) = createCacheStorage(env)
      BY <2>3 DEF Started
    <3> QED
      BY <1>1, <2>1, <2>3, <3>1, S3Credentialed, GcsCredentialed DEF NoUnintendedCredentials
  <2> QED
    BY <2>2, <2>3
<1>2. IInv => NoUnintendedCredentials
  BY <1>1 DEF IInv, TypeOK
<1> QED
  BY <1>2, ObjectInvariance, PTL

-----------------------------------------------------------------------------
(* The credentials a storage call is made with.                            *)

CallFresh(r) ==
    Calls(r) /\ mode = "chain" =>
      /\ client'
      /\ expiration' # NoExpiration => now + REFRESH_WINDOW < expiration'

(* A request that neither moves nor stops waiting makes no call.           *)
LEMMA NoCall ==
    ASSUME NEW r, pc'[r] = pc[r] \/ pc'[r] \in {"body", "done", "lost", "stream"},
           r \in waiting => r \in waiting' \/ pc'[r] \in {"done", "lost"}
    PROVE  CallFresh(r)
BY DEF CallFresh, Calls, OnCall

LEMMA AnswerFresh ==
    ASSUME TypeOK, NEW r \in Request, NEW status, Answer(r, status)
    PROVE  \A q \in Request : CallFresh(q)
<1>1. \A q \in Request : pc'[q] = pc[q] \/ pc'[q] = "done"
  BY DEF Answer, TypeOK
<1>2. waiting' = waiting
  BY DEF Answer, credentialVars
<1> QED
  BY <1>1, <1>2, NoCall

LEMMA EnterFresh ==
    ASSUME TypeOK, CredentialsOK, up, UNCHANGED <<mode, now, up>>,
           NEW r \in Request, r \notin waiting,
           NEW call \in {"exists", "put", "stream", "size", "list"}, Enter(r, call)
    PROVE  \A q \in Request : CallFresh(q)
<1>1. getClient(r)
  BY DEF Enter
<1>2. /\ waiting \subseteq waiting'
      /\ mode = "chain" /\ r \notin waiting' =>
           /\ client'
           /\ expiration' # NoExpiration => now + REFRESH_WINDOW < expiration'
  BY <1>1, GetClient
<1>3. CallFresh(r)
  BY <1>2 DEF CallFresh, Calls, OnCall
<1>4. \A q \in Request \ {r} : pc'[q] = pc[q]
  BY EnterMoves
<1>5. \A q \in Request \ {r} : CallFresh(q)
  BY <1>2, <1>4, NoCall
<1> QED
  BY <1>3, <1>5

(* A step that leaves what requests await and who waits alone.             *)
LEMMA QuietFresh ==
    ASSUME UNCHANGED waiting,
           \A r \in Request : pc'[r] = pc[r] \/ pc'[r] \in {"body", "done", "lost"}
    PROVE  \A r \in Request : CallFresh(r)
BY NoCall

LEMMA StepFresh == IInv /\ [Next]_vars => \A r \in Request : CallFresh(r)
<1> SUFFICES ASSUME IInv, [Next]_vars PROVE \A r \in Request : CallFresh(r)
  OBVIOUS
<1>0. TypeOK /\ CredentialsOK
  BY DEF IInv
<1>1. CASE Boot
  BY <1>1 DEF Boot, CallFresh
<1>2. CASE Crash
  <2>1. \A r \in Request : pc'[r] \in {"idle", "done", "lost"}
    BY <1>2, <1>0 DEF Crash, TypeOK
  <2> QED
    BY <2>1 DEF CallFresh, Calls, OnCall
<1>3. CASE Restart
  <2>1. waiting = {} /\ waiting' = {} /\ pc' = pc
    BY <1>0, <1>3 DEF Restart, Constructed, CredentialsOK, requestVars
  <2> QED
    BY <2>1, QuietFresh
<1>4. CASE Clock \/ UNCHANGED vars \/ \E h \in Hash : Expire(h)
  <2>1. waiting' = waiting /\ pc' = pc
    BY <1>4 DEF Clock, TimePasses, Expire, vars, credentialVars, requestVars
  <2> QED
    BY <2>1, QuietFresh
<1>5. ASSUME NEW u \in Upload, PutArrives(u) \/ PutStep(u) \/ Stored(u) \/ Conflicts(u)
      PROVE  \A r \in Request : CallFresh(r)
  <2>0. u \in Request
    BY Kinds
  <2>1. CASE \E status : Answer(u, status)
    BY <1>0, <2>0, <2>1, AnswerFresh
  <2>2. CASE BodySent(u) \/ Stored(u) \/ Conflicts(u)
    <3>1. waiting' = waiting /\ pc' = pc
      BY <2>2 DEF BodySent, Stored, Conflicts, credentialVars, requestVars
    <3> QED
      BY <3>1, QuietFresh
  <2>3. CASE PutArrives(u) /\ Enter(u, "exists")
    <3>1. u \notin waiting /\ up /\ UNCHANGED <<mode, now, up>>
      BY <2>3 DEF PutArrives, IInv, RequestsOK, UploadOK, serverVars
    <3> QED
      BY <1>0, <2>0, <2>3, <3>1, EnterFresh
  <2>4. CASE PutChecked(u) /\ Enter(u, "put")
    <3>1. u \notin waiting /\ up /\ UNCHANGED <<mode, now, up>>
      BY <2>4 DEF PutChecked, Awaits, serverVars
    <3> QED
      BY <1>0, <2>0, <2>4, <3>1, EnterFresh
  <2> QED
    BY <1>5, <2>1, <2>2, <2>3, <2>4
       DEF PutStep, PutArrives, PutChecked, BodyFails, PutSettles
<1>6. ASSUME NEW d \in Download, GetArrives(d) \/ GetStep(d)
      PROVE  \A r \in Request : CallFresh(r)
  <2>0. d \in Request
    BY Kinds
  <2>1. CASE \E status : Answer(d, status)
    BY <1>0, <2>0, <2>1, AnswerFresh
  <2>2. CASE BodyOpened(d) \/ BodyEnds(d) \/ (SizeRead(d) /\ pc' = [pc EXCEPT ![d] = "body"]
                                                /\ UNCHANGED credentialVars)
    <3>1. waiting' = waiting
      BY <2>2 DEF BodyOpened, BodyEnds, credentialVars
    <3>2. \A r \in Request : pc'[r] = pc[r] \/ pc'[r] \in {"body", "done"}
      BY <1>0, <2>2 DEF BodyOpened, BodyEnds, TypeOK
    <3> QED
      BY <3>1, <3>2, QuietFresh
  <2>3. CASE GetArrives(d) /\ Enter(d, "exists")
    <3>1. d \notin waiting /\ up /\ UNCHANGED <<mode, now, up>>
      BY <2>3 DEF GetArrives, IInv, RequestsOK, DownloadOK, serverVars
    <3> QED
      BY <1>0, <2>0, <2>3, <3>1, EnterFresh
  <2>4. CASE GetChecked(d) /\ Enter(d, IF mustRefresh THEN "stream" ELSE "size")
    <3>1. d \notin waiting /\ up /\ UNCHANGED <<mode, now, up>>
      BY <2>4 DEF GetChecked, Awaits, serverVars
    <3> QED
      BY <1>0, <2>0, <2>4, <3>1, EnterFresh
  <2> QED
    BY <1>6, <2>1, <2>2, <2>3, <2>4 DEF GetStep, GetArrives, GetChecked, SizeRead
<1>7. ASSUME NEW p \in Probe, ProbeArrives(p) \/ ProbeSettles(p)
      PROVE  \A r \in Request : CallFresh(r)
  <2>0. p \in Request
    BY Kinds
  <2>1. CASE \E status : Answer(p, status)
    BY <1>0, <2>0, <2>1, AnswerFresh
  <2>2. CASE ProbeArrives(p) /\ Enter(p, "list")
    <3>1. p \notin waiting /\ up /\ UNCHANGED <<mode, now, up>>
      BY <2>2 DEF ProbeArrives, IInv, RequestsOK, ProbeOK, serverVars
    <3> QED
      BY <1>0, <2>0, <2>2, <3>1, EnterFresh
  <2> QED
    BY <1>7, <2>1, <2>2 DEF ProbeArrives, ProbeSettles
<1>8. CASE RefreshSucceeds
  <2>1. client' /\ UNCHANGED now
    BY <1>8 DEF RefreshSucceeds, Refreshed, serverVars
  <2>2. PICK e \in {now + t : t \in Lifetime} \cup {NoExpiration} : expiration' = e
    BY <1>8 DEF RefreshSucceeds, Refreshed
  <2>3. e # NoExpiration => now + REFRESH_WINDOW < e
    BY <1>0, LifetimeAssumption, WindowAssumption, NowAssumption DEF TypeOK, CredentialsTypeOK
  <2> QED
    BY <2>1, <2>2, <2>3 DEF CallFresh
<1>9. CASE RefreshFails
  <2>1. \A r \in Request : pc'[r] = IF r \in waiting THEN "done" ELSE pc[r]
    BY <1>9 DEF RefreshFails
  <2> QED
    BY <2>1, NoCall
<1> QED
  BY <1>1, <1>2, <1>3, <1>4, <1>5, <1>6, <1>7, <1>8, <1>9 DEF Next

(* No storage call is made without a client or with credentials about to   *)
(* expire (getClient, s3.ts:57-73), for any lifetimes, failures, restarts  *)
(* and any number of requests.                                             *)
THEOREM CallsAreFresh == Spec => CredentialsAreFresh
<1>1. IInv /\ [Next]_vars =>
        [\A r \in Request : Calls(r) /\ mode = "chain" =>
           /\ client'
           /\ expiration' # NoExpiration => now + REFRESH_WINDOW < expiration']_vars
  BY StepFresh DEF CallFresh
<1> QED
  BY <1>1, ObjectInvariance, PTL DEF Spec, CredentialsAreFresh

-----------------------------------------------------------------------------
(***************************************************************************)
(* The refinement.  Under the mapping every step of the server fails some  *)
(* requests or none, or changes the abstract state of one request or entry. *)
(***************************************************************************)

(* The keys, the bucket and what downloads read stay as they are.          *)
Still == UNCHANGED <<bucket, key, opened>>

MayFail ==
    /\ \A u \in Upload : \/ putState(u)' = putState(u)
                         \/ putState(u) = "open" /\ putState(u)' = "failed"
    /\ \A d \in Download : \/ getState(d)' = getState(d)
                           \/ getState(d) = "open" /\ getState(d)' = "failed"

LEMMA StillFails == ASSUME Still, MayFail PROVE Abstract!Fail
<1> DEFINE P == {u \in Upload : putState(u) = "open" /\ putState(u)' = "failed"}
           G == {d \in Download : getState(d) = "open" /\ getState(d)' = "failed"}
<1>1. P \in SUBSET {u \in Upload : [v \in Upload |-> putState(v)][u] = "open"}
  OBVIOUS
<1>2. G \in SUBSET {d \in Download : [e \in Download |-> getState(e)][d] = "open"}
  OBVIOUS
<1>3. [u \in Upload |-> putState(u)]' =
        [u \in Upload |-> IF u \in P THEN "failed" ELSE [v \in Upload |-> putState(v)][u]]
  BY DEF MayFail
<1>4. [d \in Download |-> getState(d)]' =
        [d \in Download |-> IF d \in G THEN "failed" ELSE [e \in Download |-> getState(e)][d]]
  BY DEF MayFail
<1>5. UNCHANGED <<bucket, [u \in Upload |-> key[u]], [d \in Download |-> key[d]], opened>>
  BY DEF Still
<1> HIDE DEF P, G
<1> QED
  BY <1>1, <1>2, <1>3, <1>4, <1>5 DEF Abstract!Fail

(* Where no request but r moves, the others look as they did.              *)
LEMMA OthersLook ==
    ASSUME RequestsOK, NEW r \in Request, Moves(r)
    PROVE  /\ \A u \in Upload \ {r} : putState(u)' = putState(u)
           /\ \A d \in Download \ {r} : getState(d)' = getState(d)
BY UploadFrame, DownloadFrame DEF Moves, RequestsOK

LEMMA AnswerLook ==
    ASSUME IInv, NEW r \in Request, NEW status, Answer(r, status),
           UNCHANGED <<bucket, key, opened>>,
           \A u \in Upload \ {r} : wire'[u] = wire[u]
    PROVE  /\ Still /\ pc'[r] = "done" /\ answer'[r] = status
           /\ \A u \in Upload \ {r} : putState(u)' = putState(u)
           /\ \A d \in Download \ {r} : getState(d)' = getState(d)
<1>1. TypeOK /\ RequestsOK
  BY DEF IInv
<1>2. /\ \A q \in Request \ {r} : Same(q)
      /\ pc'[r] = "done" /\ answer'[r] = status
  BY <1>1, AnswerMoves
<1>3. Moves(r)
  BY <1>2 DEF Moves, SameUpload, SameDownload, Request
<1> QED
  BY <1>1, <1>2, <1>3, OthersLook DEF Still

LEMMA EnterLook ==
    ASSUME IInv, up, UNCHANGED <<serverVars, opened>>, NEW r \in Request, r \notin waiting,
           NEW call \in {"exists", "put", "stream", "size", "list"}, Enter(r, call),
           \A q \in Request \ {r} : key'[q] = key[q],
           \A u \in Upload \ {r} : wire'[u] = wire[u]
    PROVE  /\ pc'[r] = call /\ answer' = answer
           /\ \A u \in Upload \ {r} : putState(u)' = putState(u)
           /\ \A d \in Download \ {r} : getState(d)' = getState(d)
<1>1. TypeOK /\ CredentialsOK /\ RequestsOK /\ UNCHANGED <<mode, now, up>>
  BY DEF IInv, serverVars
<1>2. /\ \A q \in Request \ {r} :
            pc'[q] = pc[q] /\ answer'[q] = answer[q] /\ (q \in waiting' => q \in waiting)
      /\ pc'[r] = call /\ answer' = answer
  BY <1>1, EnterMoves
<1>3. Moves(r)
  BY <1>2 DEF Moves, SameUpload, SameDownload, Same, Request
<1> QED
  BY <1>1, <1>2, <1>3, OthersLook

LEMMA InitRefines == Init => Abstract!Init
<1> SUFFICES ASSUME Init PROVE Abstract!Init
  OBVIOUS
<1>1. \A u \in Upload : putState(u) = "open" /\ key[u] = NoObject
  BY Kinds DEF Init, putState
<1>2. \A d \in Download : getState(d) = "open" /\ key[d] = NoObject
  BY Kinds DEF Init, getState
<1> QED
  BY <1>1, <1>2 DEF Init, Abstract!Init

(* A step that is none of a request's.                                     *)
LEMMA QuietRefines ==
    ASSUME UNCHANGED <<bucket, wire, requestVars>>
    PROVE  Abstract!Fail
<1>1. MayFail
  BY DEF MayFail, putState, getState, requestVars
<1> QED
  BY <1>1, StillFails DEF Still, requestVars

LEMMA CrashRefines == ASSUME IInv, Crash PROVE Abstract!Fail
<1>1. \A u \in Upload : \/ putState(u)' = putState(u)
                        \/ putState(u) = "open" /\ putState(u)' = "failed"
  BY Kinds DEF Crash, putState, IInv, RequestsOK, UploadOK, TypeOK
<1>2. \A d \in Download : \/ getState(d)' = getState(d)
                          \/ getState(d) = "open" /\ getState(d)' = "failed"
  BY Kinds DEF Crash, getState, IInv, RequestsOK, DownloadOK, TypeOK
<1> QED
  BY <1>1, <1>2, StillFails DEF Crash, Still, MayFail

LEMMA SucceedsRefines == ASSUME IInv, RefreshSucceeds PROVE Abstract!Fail
<1>1. \A u \in Upload : putState(u)' = putState(u)
  BY Kinds DEF RefreshSucceeds, putState, IInv, RequestsOK, UploadOK, TypeOK
<1>2. \A d \in Download : getState(d)' = getState(d)
  BY Kinds DEF RefreshSucceeds, getState, IInv, RequestsOK, DownloadOK, TypeOK
<1> QED
  BY <1>1, <1>2, StillFails DEF RefreshSucceeds, Still, MayFail

LEMMA FailsRefines == ASSUME IInv, RefreshFails PROVE Abstract!Fail
<1>1. \A u \in Upload : \/ putState(u)' = putState(u)
                        \/ putState(u) = "open" /\ putState(u)' = "failed"
  BY Kinds DEF RefreshFails, putState, IInv, RequestsOK, UploadOK, TypeOK
<1>2. \A d \in Download : \/ getState(d)' = getState(d)
                          \/ getState(d) = "open" /\ getState(d)' = "failed"
  BY Kinds DEF RefreshFails, getState, IInv, RequestsOK, DownloadOK, TypeOK
<1> QED
  BY <1>1, <1>2, StillFails DEF RefreshFails, Still, MayFail

LEMMA ExpireRefines == ASSUME IInv, NEW h \in Hash, Expire(h) PROVE Abstract!Drop(h)
<1>1. /\ \A u \in Upload : putState(u)' = putState(u)
      /\ \A d \in Download : getState(d)' = getState(d)
  BY DEF Expire, putState, getState, requestVars
<1>2. UNCHANGED <<[u \in Upload |-> key[u]], [u \in Upload |-> putState(u)],
                  [d \in Download |-> key[d]], [d \in Download |-> getState(d)], opened>>
  BY <1>1 DEF Expire, requestVars
<1> QED
  BY <1>2 DEF Expire, Abstract!Drop

(* One upload moves to another abstract state.                             *)
LEMMA PutMoves ==
    ASSUME NEW u \in Upload, NEW s, putState(u)' = s,
           \A v \in Upload \ {u} : putState(v)' = putState(v)
    PROVE  [v \in Upload |-> putState(v)]' =
             [[v \in Upload |-> putState(v)] EXCEPT ![u] = s]
OBVIOUS

LEMMA GetMoves ==
    ASSUME NEW d \in Download, NEW s, getState(d)' = s,
           \A e \in Download \ {d} : getState(e)' = getState(e)
    PROVE  [e \in Download |-> getState(e)]' =
             [[e \in Download |-> getState(e)] EXCEPT ![d] = s]
OBVIOUS

(* An upload that is answered but not with the bucket's decision.          *)
LEMMA PutFails ==
    ASSUME IInv, NEW u \in Upload, NEW status \in {400, 500}, Answer(u, status),
           UNCHANGED <<bucket, key, opened>>,
           \/ wire' = wire /\ wire[u] # "sending"
           \/ wire' = [wire EXCEPT ![u] = "none"] /\ wire[u] \in {"sending", "sent"},
           pc[u] \in {"idle", "exists", "put"}
    PROVE  Abstract!Fail
<1>1. \A v \in Upload \ {u} : wire'[v] = wire[v]
  BY DEF IInv, TypeOK
<1>2. /\ Still /\ pc'[u] = "done" /\ answer'[u] = status
      /\ \A v \in Upload \ {u} : putState(v)' = putState(v)
      /\ \A d \in Download : getState(d)' = getState(d)
  BY <1>1, Kinds, AnswerLook
<1>3. UploadOK(u) /\ answer[u] = 0
  BY DEF IInv, RequestsOK, UploadOK
<1>4. \/ wire'[u] = wire[u] /\ wire[u] # "sending"
      \/ wire'[u] = "none" /\ wire[u] \in {"sending", "sent"}
  BY DEF IInv, TypeOK
<1>5. CASE wire'[u] = "none"
  <2>1. putState(u) = "open"
    BY <1>3, <1>4, <1>5 DEF putState
  <2>2. putState(u)' = "failed"
    BY <1>2, <1>5 DEF putState
  <2> QED
    BY <1>2, <2>1, <2>2, StillFails DEF MayFail
<1>6. CASE wire'[u] # "none"
  <2>1. wire'[u] = wire[u] /\ wire[u] \in {"sent", "stored", "conflict"}
    BY <1>4, <1>6 DEF IInv, TypeOK
  <2>2. putState(u)' = putState(u)
    BY <1>2, <1>3, <2>1 DEF putState
  <2> QED
    BY <1>2, <2>2, StillFails DEF MayFail
<1> QED
  BY <1>5, <1>6

LEMMA PutRefines ==
    ASSUME IInv, NEW u \in Upload,
           PutArrives(u) \/ PutStep(u) \/ Stored(u) \/ Conflicts(u)
    PROVE  Abstract!Fail \/ Abstract!BeginPut(u) \/ Abstract!Store(u) \/ Abstract!Conflict(u)
<1>0. TypeOK /\ UploadOK(u) /\ u \in Request
  BY Kinds DEF IInv, RequestsOK
<1> DEFINE put == [v \in Upload |-> putState(v)]
           get == [d \in Download |-> getState(d)]
           target == [v \in Upload |-> key[v]]
           source == [d \in Download |-> key[d]]
<1>1. CASE PutArrives(u) /\ Answer(u, 400) /\ UNCHANGED key
  <2>1. UNCHANGED <<bucket, key, opened>> /\ wire' = wire /\ wire[u] = "none" /\ pc[u] = "idle"
    BY <1>0, <1>1 DEF PutArrives, UploadOK
  <2> QED
    BY <1>1, <2>1, PutFails
<1>2. CASE PutArrives(u) /\ (\E h \in Hash : key' = [key EXCEPT ![u] = h]) /\ Enter(u, "exists")
  <2>1. PICK h \in Hash : key' = [key EXCEPT ![u] = h]
    BY <1>2
  <2>2. /\ up /\ pc[u] = "idle" /\ u \notin waiting /\ wire[u] = "none" /\ answer[u] = 0
        /\ key[u] = NoObject
        /\ UNCHANGED <<serverVars, bucket, wire, opened>>
    BY <1>0, <1>2 DEF PutArrives, UploadOK
  <2>3. \A q \in Request \ {u} : key'[q] = key[q]
    BY <1>0, <2>1 DEF TypeOK
  <2>4. /\ pc'[u] = "exists" /\ answer' = answer
        /\ \A v \in Upload \ {u} : putState(v)' = putState(v)
        /\ \A d \in Download : getState(d)' = getState(d)
    BY <1>0, <1>2, <2>2, <2>3, Kinds, EnterLook
  <2>5. putState(u) = "open" /\ putState(u)' = "open"
    BY <2>2, <2>4 DEF putState
  <2>11. putState(u)' = "open" /\ \A v \in Upload \ {u} : putState(v)' = putState(v)
    BY <2>4, <2>5
  <2>6. put' = [put EXCEPT ![u] = "open"]
    BY <2>11, PutMoves
  <2>7. target' = [target EXCEPT ![u] = h]
    <3>1. key'[u] = h
      BY <1>0, <2>1 DEF TypeOK
    <3> QED
      BY <2>3, <3>1, Kinds
  <2>8. UNCHANGED <<bucket, source, get, opened>>
    BY <2>2, <2>3, <2>4, Kinds
  <2>9. put[u] = "open" /\ target[u] = NoObject
    BY <2>2, <2>5
  <2> HIDE DEF put, get, target, source
  <2>10. \E g \in Hash \cup {NoObject}, s \in {"open", "failed"} :
           target' = [target EXCEPT ![u] = g] /\ put' = [put EXCEPT ![u] = s]
    BY <2>6, <2>7
  <2> QED
    BY <2>8, <2>9, <2>10 DEF Abstract!BeginPut, put, get, target, source
<1>3. CASE PutChecked(u)
  <2>1. /\ up /\ pc[u] = "exists" /\ u \notin waiting /\ wire[u] = "none" /\ answer[u] = 0
        /\ key[u] \in Hash /\ UNCHANGED <<serverVars, bucket, key, opened>>
    BY <1>0, <1>3 DEF PutChecked, Awaits, UploadOK
  <2>2. CASE wire' = wire /\ (Answer(u, 500) \/ Answer(u, 400))
    BY <2>1, <2>2, PutFails
  <2>3. CASE wire' = wire /\ bucket[key[u]] # NoObject /\ Answer(u, 409)
    <3>1. /\ pc'[u] = "done" /\ answer'[u] = 409
          /\ \A v \in Upload \ {u} : putState(v)' = putState(v)
          /\ \A d \in Download : getState(d)' = getState(d)
      BY <1>0, <2>1, <2>3, Kinds, AnswerLook
    <3>2. putState(u) = "open" /\ putState(u)' = "conflict"
      BY <2>1, <2>3, <3>1 DEF putState
    <3>3. put' = [put EXCEPT ![u] = "conflict"]
      BY <3>1, <3>2, PutMoves
    <3>4. UNCHANGED <<bucket, target, source, get, opened>>
      BY <2>1, <3>1
    <3>5. put[u] = "open" /\ target[u] \in Hash /\ bucket[target[u]] # NoObject
      BY <2>1, <2>3, <3>2
    <3> HIDE DEF put, get, target, source
    <3> QED
      BY <3>3, <3>4, <3>5 DEF Abstract!Conflict, put, get, target, source
  <2>4. CASE /\ Enter(u, "put")
             /\ wire' = [wire EXCEPT ![u] = IF mustRefresh THEN @ ELSE "sending"]
    <3>1. /\ wire'[u] \in {"none", "sending"}
          /\ \A v \in Upload \ {u} : wire'[v] = wire[v]
      BY <1>0, <2>1, <2>4 DEF TypeOK
    <3>2. /\ pc'[u] = "put" /\ answer' = answer
          /\ \A v \in Upload \ {u} : putState(v)' = putState(v)
          /\ \A d \in Download : getState(d)' = getState(d)
      BY <1>0, <2>1, <2>4, <3>1, Kinds, EnterLook
    <3>3. putState(u)' = putState(u)
      BY <2>1, <3>1, <3>2 DEF putState
    <3> QED
      BY <2>1, <3>2, <3>3, StillFails DEF MayFail, Still
  <2> QED
    BY <1>3, <2>2, <2>3, <2>4 DEF PutChecked
<1>4. CASE BodyFails(u)
  <2>1. PICK status \in {400, 500} : Answer(u, status)
    BY <1>4 DEF BodyFails
  <2>2. /\ UNCHANGED <<bucket, key, opened>> /\ pc[u] = "put"
        /\ \/ wire' = wire /\ wire[u] # "sending"
           \/ wire' = [wire EXCEPT ![u] = "none"] /\ wire[u] \in {"sending", "sent"}
    BY <1>4 DEF BodyFails, Awaits
  <2>3. CASE status = 400
    BY <2>1, <2>2, <2>3, PutFails
  <2>4. CASE status = 500
    BY <2>1, <2>2, <2>4, PutFails
  <2> QED
    BY <2>3, <2>4
<1>5. CASE PutSettles(u)
  <2>1. UNCHANGED <<bucket, key, opened>> /\ pc[u] = "put" /\ answer[u] = 0
    BY <1>0, <1>5 DEF PutSettles, Awaits, UploadOK
  <2>2. CASE \/ wire[u] = "stored" /\ Answer(u, 200) /\ wire' = wire
             \/ wire[u] = "conflict" /\ Answer(u, 409) /\ wire' = wire
    <3>1. /\ Still /\ answer'[u] \in {200, 409} /\ wire'[u] = wire[u]
          /\ \A v \in Upload \ {u} : putState(v)' = putState(v)
          /\ \A d \in Download : getState(d)' = getState(d)
          /\ answer'[u] = 200 => wire[u] = "stored"
      BY <1>0, <2>1, <2>2, Kinds, AnswerLook
    <3>2. putState(u)' = putState(u)
      BY <2>1, <2>2, <3>1 DEF putState
    <3> QED
      BY <3>1, <3>2, StillFails DEF MayFail
  <2>3. CASE /\ wire[u] \in {"sending", "sent"} /\ Answer(u, 500)
             /\ wire' = [wire EXCEPT ![u] = "none"]
    BY <2>1, <2>3, PutFails
  <2>4. CASE wire[u] \in {"sent", "stored", "conflict"} /\ Answer(u, 500) /\ wire' = wire
    BY <2>1, <2>4, PutFails
  <2> QED
    BY <1>5, <2>2, <2>3, <2>4, PutSettlesCases
<1>6. CASE BodySent(u)
  <2>1. /\ UNCHANGED <<bucket, pc, key, opened, answer>>
        /\ wire[u] = "sending" /\ wire'[u] = "sent" /\ answer[u] = 0 /\ pc[u] = "put"
        /\ \A v \in Upload \ {u} : wire'[v] = wire[v]
    BY <1>0, <1>6 DEF BodySent, Awaits, UploadOK, TypeOK, requestVars
  <2>2. MayFail
    BY <2>1 DEF MayFail, putState, getState
  <2> QED
    BY <2>1, <2>2, StillFails DEF Still
<1>7. CASE Stored(u)
  <2>1. /\ UNCHANGED <<pc, key, opened, answer>>
        /\ wire[u] = "sent" /\ wire'[u] = "stored" /\ answer[u] \in {0, 400, 500} /\ key[u] \in Hash
        /\ bucket[key[u]] = NoObject /\ bucket' = [bucket EXCEPT ![key[u]] = u]
        /\ \A v \in Upload \ {u} : wire'[v] = wire[v]
    BY <1>0, <1>7 DEF Stored, UploadOK, TypeOK, requestVars
  <2>2. /\ \A v \in Upload \ {u} : putState(v)' = putState(v)
        /\ \A d \in Download : getState(d)' = getState(d)
    BY <2>1 DEF putState, getState
  <2>3. putState(u) = "open" /\ putState(u)' = "stored"
    BY <2>1 DEF putState
  <2>4. put' = [put EXCEPT ![u] = "stored"]
    BY <2>2, <2>3, PutMoves
  <2>5. UNCHANGED <<target, source, get, opened>>
    BY <2>1, <2>2
  <2>6. put[u] = "open" /\ target[u] = key[u]
    BY <2>3
  <2> HIDE DEF put, get, target, source
  <2> QED
    BY <2>1, <2>4, <2>5, <2>6 DEF Abstract!Store, put, get, target, source
<1>8. CASE Conflicts(u)
  <2>1. /\ UNCHANGED <<bucket, pc, key, opened, answer>>
        /\ wire[u] \in {"sending", "sent"} /\ wire'[u] = "conflict"
        /\ answer[u] \in {0, 400, 500}
        /\ wire[u] = "sending" => answer[u] = 0 /\ pc[u] = "put"
        /\ key[u] \in Hash /\ bucket[key[u]] # NoObject
        /\ \A v \in Upload \ {u} : wire'[v] = wire[v]
    BY <1>0, <1>8 DEF Conflicts, UploadOK, TypeOK, requestVars
  <2>2. /\ \A v \in Upload \ {u} : putState(v)' = putState(v)
        /\ \A d \in Download : getState(d)' = getState(d)
    BY <2>1 DEF putState, getState
  <2>3. putState(u) = "open" /\ putState(u)' = "conflict"
    BY <2>1 DEF putState
  <2>4. put' = [put EXCEPT ![u] = "conflict"]
    BY <2>2, <2>3, PutMoves
  <2>5. UNCHANGED <<bucket, target, source, get, opened>>
    BY <2>1, <2>2
  <2>6. put[u] = "open" /\ target[u] = key[u]
    BY <2>3
  <2> HIDE DEF put, get, target, source
  <2> QED
    BY <2>1, <2>4, <2>5, <2>6 DEF Abstract!Conflict, put, get, target, source
<1> QED
  BY <1>1, <1>2, <1>3, <1>4, <1>5, <1>6, <1>7, <1>8 DEF PutStep, PutArrives

(* A download that moves and is not answered with an entry or a miss.      *)
LEMMA GetFails ==
    ASSUME IInv, NEW d \in Download, NEW status \in {400, 500}, Answer(d, status),
           UNCHANGED <<bucket, wire, key, opened>>, pc[d] \in {"idle", "exists", "size"}
    PROVE  Abstract!Fail
<1>1. /\ Still /\ pc'[d] = "done" /\ answer'[d] = status
      /\ \A v \in Upload : putState(v)' = putState(v)
      /\ \A e \in Download \ {d} : getState(e)' = getState(e)
  BY Kinds, AnswerLook
<1>2. answer[d] = 0
  BY DEF IInv, RequestsOK, DownloadOK
<1>3. \/ getState(d)' = getState(d)
      \/ getState(d) = "open" /\ getState(d)' = "failed"
  BY <1>1, <1>2 DEF getState, Still
<1> QED
  BY <1>1, <1>3, StillFails DEF MayFail

LEMMA GetRefines ==
    ASSUME IInv, NEW d \in Download, GetArrives(d) \/ GetStep(d)
    PROVE  Abstract!Fail \/ Abstract!BeginGet(d) \/ Abstract!Hit(d) \/ Abstract!Miss(d)
<1>0. TypeOK /\ DownloadOK(d) /\ d \in Request
  BY Kinds DEF IInv, RequestsOK
<1> DEFINE put == [v \in Upload |-> putState(v)]
           get == [e \in Download |-> getState(e)]
           target == [v \in Upload |-> key[v]]
           source == [e \in Download |-> key[e]]
<1>1. CASE GetArrives(d) /\ Answer(d, 400) /\ UNCHANGED key
  <2>1. UNCHANGED <<bucket, wire, key, opened>> /\ pc[d] \in {"idle", "exists", "size"}
    BY <1>1 DEF GetArrives
  <2> QED
    BY <1>1, <2>1, GetFails
<1>2. CASE GetArrives(d) /\ (\E h \in Hash : key' = [key EXCEPT ![d] = h]) /\ Enter(d, "exists")
  <2>1. PICK h \in Hash : key' = [key EXCEPT ![d] = h]
    BY <1>2
  <2>2. /\ up /\ pc[d] = "idle" /\ d \notin waiting /\ answer[d] = 0
        /\ key[d] = NoObject /\ opened[d] = NoObject
        /\ UNCHANGED <<serverVars, bucket, wire, opened>>
    BY <1>0, <1>2 DEF GetArrives, DownloadOK
  <2>3. key'[d] = h /\ \A q \in Request \ {d} : key'[q] = key[q]
    BY <1>0, <2>1 DEF TypeOK
  <2>4. /\ pc'[d] = "exists" /\ answer' = answer
        /\ \A v \in Upload : putState(v)' = putState(v)
        /\ \A e \in Download \ {d} : getState(e)' = getState(e)
    BY <1>0, <1>2, <2>2, <2>3, Kinds, EnterLook
  <2>5. getState(d) = "open"
    BY <2>2 DEF getState
  <2>6. getState(d)' = "open"
    BY <2>2, <2>4 DEF getState
  <2>7. get' = [get EXCEPT ![d] = "open"]
    BY <2>4, <2>6, GetMoves
  <2>8. source' = [source EXCEPT ![d] = h]
    BY <2>3, Kinds
  <2>9. UNCHANGED <<bucket, target, put, opened>>
    BY <2>2, <2>3, <2>4, Kinds
  <2>10. get[d] = "open" /\ source[d] = NoObject
    BY <2>2, <2>5
  <2> HIDE DEF put, get, target, source
  <2>11. \E g \in Hash \cup {NoObject}, s \in {"open", "failed"} :
           source' = [source EXCEPT ![d] = g] /\ get' = [get EXCEPT ![d] = s]
    BY <2>7, <2>8
  <2> QED
    BY <2>9, <2>10, <2>11 DEF Abstract!BeginGet, put, get, target, source
<1>3. CASE GetChecked(d)
  <2>1. /\ up /\ pc[d] = "exists" /\ d \notin waiting /\ answer[d] = 0
        /\ key[d] \in Hash /\ opened[d] = NoObject
        /\ UNCHANGED <<serverVars, bucket, wire, key, opened>>
    BY <1>0, <1>3 DEF GetChecked, Awaits, DownloadOK
  <2>2. CASE Answer(d, 500)
    BY <2>1, <2>2, GetFails
  <2>3. CASE bucket[key[d]] = NoObject /\ Answer(d, 404)
    <3>1. /\ pc'[d] = "done" /\ answer'[d] = 404
          /\ \A v \in Upload : putState(v)' = putState(v)
          /\ \A e \in Download \ {d} : getState(e)' = getState(e)
      BY <1>0, <2>1, <2>3, Kinds, AnswerLook
    <3>2. getState(d) = "open"
      BY <2>1 DEF getState
    <3>3. getState(d)' = "miss"
      BY <2>1, <3>1 DEF getState
    <3>4. get' = [get EXCEPT ![d] = "miss"]
      BY <3>1, <3>3, GetMoves
    <3>5. UNCHANGED <<bucket, target, put, source, opened>>
      BY <2>1, <3>1
    <3>6. get[d] = "open" /\ source[d] \in Hash /\ bucket[source[d]] = NoObject
      BY <2>1, <2>3, <3>2
    <3> HIDE DEF put, get, target, source
    <3> QED
      BY <3>4, <3>5, <3>6 DEF Abstract!Miss, put, get, target, source
  <2>4. CASE Enter(d, IF mustRefresh THEN "stream" ELSE "size")
    <3>1. /\ pc'[d] \in {"stream", "size"} /\ answer' = answer
          /\ \A v \in Upload : putState(v)' = putState(v)
          /\ \A e \in Download \ {d} : getState(e)' = getState(e)
      BY <1>0, <2>1, <2>4, Kinds, EnterLook
    <3>2. getState(d)' = getState(d)
      BY <2>1, <3>1 DEF getState
    <3> QED
      BY <2>1, <3>1, <3>2, StillFails DEF MayFail, Still
  <2> QED
    BY <1>3, <2>2, <2>3, <2>4 DEF GetChecked
<1>4. CASE SizeRead(d)
  <2>1. /\ pc[d] = "size" /\ answer[d] = 0 /\ UNCHANGED <<bucket, wire, key, opened>>
    BY <1>0, <1>4 DEF SizeRead, Awaits, DownloadOK
  <2>2. CASE Answer(d, 500)
    BY <2>1, <2>2, GetFails
  <2>3. CASE /\ pc' = [pc EXCEPT ![d] = "body"]
             /\ answer' = [answer EXCEPT ![d] = 200]
    <3>1. /\ pc'[d] = "body" /\ answer'[d] = 200
          /\ \A q \in Request \ {d} : pc'[q] = pc[q] /\ answer'[q] = answer[q]
      BY <1>0, <2>3 DEF TypeOK
    <3>2. MayFail
      BY <2>1, <3>1, Kinds DEF MayFail, putState, getState
    <3> QED
      BY <2>1, <3>2, StillFails DEF Still
  <2> QED
    BY <1>4, <2>2, <2>3 DEF SizeRead
<1>5. CASE BodyOpened(d)
  <2>1. /\ pc[d] \in {"size", "body"} /\ key[d] \in Hash /\ answer[d] \in {0, 200}
        /\ opened[d] = NoObject /\ bucket[key[d]] # NoObject
        /\ opened' = [opened EXCEPT ![d] = bucket[key[d]]]
        /\ UNCHANGED <<bucket, wire, pc, key, answer>>
    BY <1>0, <1>5 DEF BodyOpened, Awaits, DownloadOK
  <2>2. opened'[d] # NoObject /\ \A e \in Download \ {d} : opened'[e] = opened[e]
    BY <1>0, <2>1 DEF TypeOK
  <2>3. /\ \A v \in Upload : putState(v)' = putState(v)
        /\ \A e \in Download \ {d} : getState(e)' = getState(e)
    BY <2>1, <2>2 DEF putState, getState
  <2>4. getState(d) = "open"
    BY <2>1 DEF getState
  <2>5. getState(d)' = "hit"
    BY <2>2 DEF getState
  <2>6. get' = [get EXCEPT ![d] = "hit"]
    BY <2>3, <2>5, GetMoves
  <2>7. UNCHANGED <<bucket, target, put, source>>
    BY <2>1, <2>3
  <2>8. get[d] = "open" /\ source[d] = key[d]
    BY <2>4
  <2> HIDE DEF put, get, target, source
  <2> QED
    BY <2>1, <2>6, <2>7, <2>8 DEF Abstract!Hit, put, get, target, source
<1>6. CASE BodyEnds(d)
  <2>1. /\ pc[d] = "body" /\ answer[d] = 200 /\ pc' = [pc EXCEPT ![d] = "done"]
        /\ UNCHANGED <<bucket, wire, key, opened, answer>>
    BY <1>0, <1>6 DEF BodyEnds, Awaits, DownloadOK
  <2>2. /\ pc'[d] = "done" /\ \A q \in Request \ {d} : pc'[q] = pc[q]
    BY <1>0, <2>1 DEF TypeOK
  <2>3. MayFail
    BY <2>1, <2>2, Kinds DEF MayFail, putState, getState
  <2> QED
    BY <2>1, <2>3, StillFails DEF Still
<1> QED
  BY <1>1, <1>2, <1>3, <1>4, <1>5, <1>6 DEF GetStep, GetArrives

LEMMA ProbeRefines ==
    ASSUME IInv, NEW p \in Probe, ProbeArrives(p) \/ ProbeSettles(p)
    PROVE  Abstract!Fail
<1>1. /\ UNCHANGED <<serverVars, bucket, wire, key, opened>> /\ up /\ p \notin waiting
      /\ p \in Request
  BY Kinds DEF ProbeArrives, ProbeSettles, Awaits, IInv, RequestsOK, ProbeOK
<1>2. /\ \A v \in Upload : putState(v)' = putState(v)
      /\ \A d \in Download : getState(d)' = getState(d)
  <2>1. CASE \E status : Answer(p, status)
    BY <1>1, <2>1, Kinds, AnswerLook
  <2>2. CASE Enter(p, "list")
    BY <1>1, <2>2, Kinds, EnterLook
  <2> QED
    BY <2>1, <2>2 DEF ProbeArrives, ProbeSettles
<1> QED
  BY <1>1, <1>2, StillFails DEF MayFail, Still

LEMMA StepRefines == IInv /\ [Next]_vars => [Abstract!Next]_Abstract!vars
<1> SUFFICES ASSUME IInv, [Next]_vars PROVE Abstract!Next
  OBVIOUS
<1>1. CASE Boot \/ Restart \/ Clock \/ UNCHANGED vars
  <2>1. UNCHANGED <<bucket, wire, requestVars>>
    BY <1>1 DEF Boot, Restart, Clock, vars
  <2> QED
    BY <2>1, QuietRefines DEF Abstract!Next
<1>2. CASE Crash \/ RefreshSucceeds \/ RefreshFails
  BY <1>2, CrashRefines, SucceedsRefines, FailsRefines DEF Abstract!Next
<1>3. ASSUME NEW u \in Upload, PutArrives(u) \/ PutStep(u) \/ Stored(u) \/ Conflicts(u)
      PROVE  Abstract!Next
  BY <1>3, PutRefines DEF Abstract!Next
<1>4. ASSUME NEW d \in Download, GetArrives(d) \/ GetStep(d)
      PROVE  Abstract!Next
  BY <1>4, GetRefines DEF Abstract!Next
<1>5. ASSUME NEW p \in Probe, ProbeArrives(p) \/ ProbeSettles(p)
      PROVE  Abstract!Next
  BY <1>5, ProbeRefines DEF Abstract!Next
<1>6. ASSUME NEW h \in Hash, Expire(h)
      PROVE  Abstract!Next
  BY <1>6, ExpireRefines DEF Abstract!Next
<1> QED
  BY <1>1, <1>2, <1>3, <1>4, <1>5, <1>6 DEF Next

(* The server over an object store is an append-only cache for any number  *)
(* of uploads, downloads, keys, crashes and lost answers (writeStream,     *)
(* s3.ts:96-123, gcs.ts:73-104; getStream, s3.ts:83-89).                   *)
THEOREM ObjectsAreAppendOnly == Spec => ImplementsAppendOnlyCache
BY InitRefines, StepRefines, ObjectInvariance, PTL DEF Spec, ImplementsAppendOnlyCache, Abstract!Spec

-----------------------------------------------------------------------------
(***************************************************************************)
(* What clients can rely on follows from the abstract cache.  A step of it *)
(* keeps what is stored, stores an upload under its own key, answers a     *)
(* conflict over an entry, and reads the entry of the key it was asked.    *)
(***************************************************************************)
StoredKept ==
    \A u \in Upload : putState(u) = "stored" => putState(u)' = "stored" /\ key'[u] = key[u]

EntersUnderKey ==
    \A h \in Hash : \/ bucket'[h] \in {bucket[h], NoObject}
                    \/ bucket'[h] \in Upload /\ key'[bucket'[h]] = h
                         /\ putState(bucket[h])' = "stored"

ConflictsOverEntry ==
    \A u \in Upload : putState(u)' = "conflict" =>
        /\ key'[u] = key[u]
        /\ putState(u) = "conflict" \/ (key[u] \in Hash /\ bucket[key[u]] # NoObject)

ReadsEntry ==
    \A d \in Download : opened'[d] # NoObject =>
        /\ key'[d] = key[d]
        /\ opened'[d] = opened[d] \/ (key[d] \in Hash /\ opened'[d] = bucket[key[d]])

Effects == StoredKept /\ EntersUnderKey /\ ConflictsOverEntry /\ ReadsEntry

LEMMA AbstractEffects ==
    ASSUME TypeOK, [Abstract!Next]_Abstract!vars
    PROVE  Effects
<1> DEFINE P == [u \in Upload |-> putState(u)]
           K == [u \in Upload |-> key[u]]
           D == [d \in Download |-> key[d]]
           G == [d \in Download |-> getState(d)]
<1>1. /\ bucket \in [Hash -> Upload \cup {NoObject}]
      /\ opened \in [Download -> Upload \cup {NoObject}]
  BY DEF TypeOK
<1>2. \A d \in Download : getState(d) = "open" => opened[d] = NoObject
  BY DEF getState
<1>3. CASE UNCHANGED Abstract!vars
  <2>1. UNCHANGED <<bucket, opened, K, P, D>>
    BY <1>3 DEF Abstract!vars
  <2>2. \A u \in Upload : P'[u] = P[u] /\ K'[u] = K[u]
    BY <2>1
  <2>3. \A d \in Download : D'[d] = D[d]
    BY <2>1
  <2> QED
    BY <2>1, <2>2, <2>3 DEF Effects, StoredKept, EntersUnderKey, ConflictsOverEntry, ReadsEntry
<1>4. ASSUME NEW p \in Upload, Abstract!BeginPut(p) PROVE Effects
  <2>1. /\ P[p] = "open" /\ UNCHANGED <<bucket, opened, D>>
        /\ \E h, s : s \in {"open", "failed"} /\ K' = [K EXCEPT ![p] = h]
                                                /\ P' = [P EXCEPT ![p] = s]
    BY <1>4 DEF Abstract!BeginPut
  <2>2. /\ putState(p) = "open" /\ putState(p)' \in {"open", "failed"}
        /\ \A u \in Upload \ {p} : putState(u)' = putState(u) /\ key'[u] = key[u]
    BY <2>1
  <2>3. \A d \in Download : key'[d] = key[d]
    BY <2>1
  <2> QED
    BY <2>1, <2>2, <2>3 DEF Effects, StoredKept, EntersUnderKey, ConflictsOverEntry, ReadsEntry
<1>5. ASSUME NEW p \in Upload, Abstract!Store(p) PROVE Effects
  <2>1. /\ P[p] = "open" /\ K[p] \in Hash /\ UNCHANGED <<opened, K, D>>
        /\ bucket' = [bucket EXCEPT ![K[p]] = p] /\ P' = [P EXCEPT ![p] = "stored"]
    BY <1>5 DEF Abstract!Store
  <2>2. /\ putState(p) = "open" /\ putState(p)' = "stored"
        /\ \A u \in Upload \ {p} : putState(u)' = putState(u)
        /\ \A u \in Upload : key'[u] = key[u]
    BY <2>1
  <2>3. \A d \in Download : key'[d] = key[d]
    BY <2>1
  <2>4. bucket'[key[p]] = p /\ \A h \in Hash \ {key[p]} : bucket'[h] = bucket[h]
    BY <1>1, <2>1
  <2>5. EntersUnderKey
    BY <2>2, <2>4 DEF EntersUnderKey
  <2> QED
    BY <2>1, <2>2, <2>3, <2>5 DEF Effects, StoredKept, ConflictsOverEntry, ReadsEntry
<1>6. ASSUME NEW p \in Upload, Abstract!Conflict(p) PROVE Effects
  <2>1. /\ P[p] = "open" /\ K[p] \in Hash /\ bucket[K[p]] # NoObject
        /\ UNCHANGED <<bucket, opened, K, D>> /\ P' = [P EXCEPT ![p] = "conflict"]
    BY <1>6 DEF Abstract!Conflict
  <2>2. /\ putState(p) = "open" /\ key[p] \in Hash /\ bucket[key[p]] # NoObject
        /\ \A u \in Upload \ {p} : putState(u)' = putState(u)
        /\ \A u \in Upload : key'[u] = key[u]
    BY <2>1
  <2>3. \A d \in Download : key'[d] = key[d]
    BY <2>1
  <2> QED
    BY <2>1, <2>2, <2>3 DEF Effects, StoredKept, EntersUnderKey, ConflictsOverEntry, ReadsEntry
<1>7. ASSUME NEW g \in Download, Abstract!BeginGet(g) PROVE Effects
  <2>1. /\ G[g] = "open" /\ UNCHANGED <<bucket, opened, K, P>>
        /\ \E h : D' = [D EXCEPT ![g] = h]
    BY <1>7 DEF Abstract!BeginGet
  <2>2. /\ opened[g] = NoObject
        /\ \A d \in Download \ {g} : key'[d] = key[d]
    BY <1>2, <2>1
  <2>3. \A u \in Upload : putState(u)' = putState(u) /\ key'[u] = key[u]
    BY <2>1
  <2> QED
    BY <2>1, <2>2, <2>3 DEF Effects, StoredKept, EntersUnderKey, ConflictsOverEntry, ReadsEntry
<1>8. ASSUME NEW g \in Download, Abstract!Hit(g) \/ Abstract!Miss(g) PROVE Effects
  <2>1. /\ D[g] \in Hash /\ UNCHANGED <<bucket, K, P, D>>
        /\ opened' = opened \/ opened' = [opened EXCEPT ![g] = bucket[D[g]]]
    BY <1>8 DEF Abstract!Hit, Abstract!Miss
  <2>2. \A u \in Upload : putState(u)' = putState(u) /\ key'[u] = key[u]
    BY <2>1
  <2>3. key[g] \in Hash /\ \A d \in Download : key'[d] = key[d]
    BY <2>1
  <2>4. /\ opened'[g] \in {opened[g], bucket[key[g]]}
        /\ \A d \in Download \ {g} : opened'[d] = opened[d]
    BY <1>1, <2>1
  <2> QED
    BY <2>1, <2>2, <2>3, <2>4 DEF Effects, StoredKept, EntersUnderKey, ConflictsOverEntry, ReadsEntry
<1>9. ASSUME NEW h \in Hash, Abstract!Drop(h) PROVE Effects
  <2>1. UNCHANGED <<opened, K, P, D>> /\ bucket' = [bucket EXCEPT ![h] = NoObject]
    BY <1>9 DEF Abstract!Drop
  <2>2. \A u \in Upload : putState(u)' = putState(u) /\ key'[u] = key[u]
    BY <2>1
  <2>3. \A d \in Download : key'[d] = key[d]
    BY <2>1
  <2>4. \A k \in Hash : bucket'[k] \in {bucket[k], NoObject}
    BY <1>1, <2>1
  <2> QED
    BY <2>1, <2>2, <2>3, <2>4 DEF Effects, StoredKept, EntersUnderKey, ConflictsOverEntry, ReadsEntry
<1>10. CASE Abstract!Fail
  <2>1. /\ UNCHANGED <<bucket, opened, K, D>>
        /\ \E S \in SUBSET {p \in Upload : P[p] = "open"} :
             P' = [p \in Upload |-> IF p \in S THEN "failed" ELSE P[p]]
    BY <1>10 DEF Abstract!Fail
  <2>2. \A u \in Upload : /\ key'[u] = key[u]
                          /\ \/ putState(u)' = putState(u)
                             \/ putState(u) = "open" /\ putState(u)' = "failed"
    BY <2>1
  <2>3. \A d \in Download : key'[d] = key[d]
    BY <2>1
  <2> QED
    BY <2>1, <2>2, <2>3 DEF Effects, StoredKept, EntersUnderKey, ConflictsOverEntry, ReadsEntry
<1> QED
  BY <1>3, <1>4, <1>5, <1>6, <1>7, <1>8, <1>9, <1>10 DEF Abstract!Next

(* Every entry and every read is a stored upload of its key, and every     *)
(* conflict is with one.                                                   *)
ClientsInv ==
    /\ IInv
    /\ \A h \in Hash : bucket[h] # NoObject =>
          key[bucket[h]] = h /\ putState(bucket[h]) = "stored"
    /\ \A u \in Upload : putState(u) = "conflict" =>
          \E v \in Upload : key[v] = key[u] /\ putState(v) = "stored"
    /\ \A d \in Download : opened[d] # NoObject =>
          key[opened[d]] = key[d] /\ putState(opened[d]) = "stored"

LEMMA ClientsInit == Init => ClientsInv
<1> SUFFICES ASSUME Init PROVE ClientsInv
  OBVIOUS
<1>1. IInv
  BY InitIInv
<1>2. /\ \A h \in Hash : bucket[h] = NoObject
      /\ \A d \in Download : opened[d] = NoObject
  BY DEF Init
<1>3. \A u \in Upload : putState(u) # "conflict"
  BY Kinds DEF Init, putState
<1> QED
  BY <1>1, <1>2, <1>3 DEF ClientsInv

LEMMA ClientsStep == ClientsInv /\ [Next]_vars => ClientsInv'
<1> SUFFICES ASSUME ClientsInv, [Next]_vars PROVE ClientsInv'
  OBVIOUS
<1>1. IInv /\ TypeOK
  BY DEF ClientsInv, IInv
<1>2. IInv'
  BY <1>1, StepIInv
<1>3. StoredKept /\ EntersUnderKey /\ ConflictsOverEntry /\ ReadsEntry
  BY <1>1, StepRefines, AbstractEffects DEF Effects
<1>4. /\ bucket \in [Hash -> Upload \cup {NoObject}]
      /\ opened \in [Download -> Upload \cup {NoObject}]
  BY <1>1 DEF TypeOK
<1>5. ASSUME NEW h \in Hash, bucket'[h] # NoObject
      PROVE  key'[bucket'[h]] = h /\ putState(bucket[h])' = "stored"
  <2>1. CASE bucket'[h] = bucket[h]
    <3>1. bucket[h] \in Upload /\ key[bucket[h]] = h /\ putState(bucket[h]) = "stored"
      BY <1>4, <1>5, <2>1 DEF ClientsInv
    <3>2. PICK v \in Upload : v = bucket[h]
      BY <3>1
    <3>3. putState(v)' = "stored" /\ key'[v] = key[v]
      BY <1>3, <3>1, <3>2 DEF StoredKept
    <3> QED
      BY <2>1, <3>1, <3>2, <3>3
  <2>2. CASE bucket'[h] # bucket[h]
    BY <1>3, <1>5, <2>2 DEF EntersUnderKey
  <2> QED
    BY <2>1, <2>2
<1>6. ASSUME NEW u \in Upload, putState(u)' = "conflict"
      PROVE  \E v \in Upload : key'[v] = key'[u] /\ putState(v)' = "stored"
  <2>1. key'[u] = key[u]
    BY <1>3, <1>6 DEF ConflictsOverEntry
  <2>2. \E v \in Upload : key[v] = key[u] /\ putState(v) = "stored"
    <3>1. CASE putState(u) = "conflict"
      BY <3>1 DEF ClientsInv
    <3>2. CASE putState(u) # "conflict"
      <4>1. key[u] \in Hash /\ bucket[key[u]] # NoObject
        BY <1>3, <1>6, <3>2 DEF ConflictsOverEntry
      <4> QED
        BY <1>4, <4>1 DEF ClientsInv
    <3> QED
      BY <3>1, <3>2
  <2> QED
    BY <1>3, <2>1, <2>2 DEF StoredKept
<1>7. ASSUME NEW d \in Download, opened'[d] # NoObject
      PROVE  key'[opened'[d]] = key'[d] /\ putState(opened[d])' = "stored"
  <2>1. key'[d] = key[d]
    BY <1>3, <1>7 DEF ReadsEntry
  <2>2. PICK v \in Upload : v = opened'[d] /\ key[v] = key[d] /\ putState(v) = "stored"
    <3>1. CASE opened'[d] = opened[d]
      BY <1>4, <1>7, <3>1 DEF ClientsInv
    <3>2. CASE opened'[d] # opened[d]
      <4>1. key[d] \in Hash /\ opened'[d] = bucket[key[d]]
        BY <1>3, <1>7, <3>2 DEF ReadsEntry
      <4> QED
        BY <1>4, <1>7, <4>1 DEF ClientsInv
    <3> QED
      BY <3>1, <3>2
  <2>3. putState(v)' = "stored" /\ key'[v] = key[v]
    BY <1>3, <2>2 DEF StoredKept
  <2> QED
    BY <2>1, <2>2, <2>3
<1> QED
  BY <1>2, <1>5, <1>6, <1>7 DEF ClientsInv

(***************************************************************************)
(* A 409 over an object store is always for another upload of the same     *)
(* hash that the bucket committed, and what a download reads was committed *)
(* under the hash it asked for: lost answers, writes that outlive their    *)
(* handler, crashes and lifecycle rules included (write-cache.ts:63-64 and *)
(* 137-138, s3.ts:83-123).                                                 *)
(***************************************************************************)
THEOREM ClientsMeetStoredUploads ==
    Spec => [](/\ \A u \in Upload : answer[u] = 409 =>
                     \E v \in Upload \ {u} : key[v] = key[u] /\ wire[v] = "stored"
               /\ \A d \in Download : opened[d] # NoObject =>
                     key[opened[d]] = key[d] /\ wire[opened[d]] = "stored")
<1>1. ASSUME ClientsInv, NEW u \in Upload, putState(u) = "stored" PROVE wire[u] = "stored"
  BY <1>1 DEF ClientsInv, IInv, RequestsOK, UploadOK, putState
<1>2. ASSUME ClientsInv, NEW u \in Upload, answer[u] = 409
      PROVE  \E v \in Upload \ {u} : key[v] = key[u] /\ wire[v] = "stored"
  <2>1. wire[u] \in {"none", "conflict"}
    BY <1>2 DEF ClientsInv, IInv, RequestsOK, UploadOK
  <2>2. putState(u) = "conflict"
    BY <1>2, <2>1 DEF putState
  <2>3. PICK v \in Upload : key[v] = key[u] /\ putState(v) = "stored"
    BY <1>2, <2>2 DEF ClientsInv
  <2>4. wire[v] = "stored"
    BY <1>1, <1>2, <2>3
  <2> QED
    BY <2>1, <2>3, <2>4
<1>3. ASSUME ClientsInv, NEW d \in Download, opened[d] # NoObject
      PROVE  key[opened[d]] = key[d] /\ wire[opened[d]] = "stored"
  <2>1. opened[d] \in Upload
    BY <1>3 DEF ClientsInv, IInv, TypeOK
  <2>2. key[opened[d]] = key[d] /\ putState(opened[d]) = "stored"
    BY <1>3 DEF ClientsInv
  <2>3. PICK v \in Upload : v = opened[d]
    BY <2>1
  <2> QED
    BY <1>1, <1>3, <2>2, <2>3
<1>4. ClientsInv =>
        /\ \A u \in Upload : answer[u] = 409 =>
              \E v \in Upload \ {u} : key[v] = key[u] /\ wire[v] = "stored"
        /\ \A d \in Download : opened[d] # NoObject =>
              key[opened[d]] = key[d] /\ wire[opened[d]] = "stored"
  BY <1>2, <1>3
<1> QED
  BY ClientsInit, ClientsStep, <1>4, PTL DEF Spec
=============================================================================
