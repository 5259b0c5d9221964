------------------------ MODULE FsCacheServer_proofs ------------------------
(***************************************************************************)
(* Proofs about FsCacheServer for any number of uploads, downloads, hashes *)
(* and crashes, any limits and any faults.  A power cut may take bytes off *)
(* the end of a file and undo links and removals, so the theorems that     *)
(* files are whole and entries are never replaced exclude it.              *)
(*                                                                         *)
(* The inductive invariant follows an upload's inode: before its buffer is *)
(* opened and until it is linked nobody else has it, while it is written   *)
(* it holds exactly the bytes counted, and once a hash or a download leads *)
(* to it, or may do so again after a cut, it is complete and its upload    *)
(* writes no more.                                                         *)
(***************************************************************************)
EXTENDS FsCacheServer, SequenceTheorems, TLAPS

Typing == DirTypeOK /\ WriteTypeOK /\ GetTypeOK

(* Neither a hash nor a download leads to inode i, and none has: it was    *)
(* never stored.                                                           *)
Private(i) ==
    /\ \A h \in Hash : dir[h] # i
    /\ \A r \in Download : rfd[r] # i
    /\ wanswer[i] # 200

InFlight == WriteStates \ {"idle", "done", "lost"}

UploadInv(u) ==
    /\ dir[u] \in {NoFile, u}
    /\ wfd[u] \in {NoFile, u}
    /\ wpc[u] \in InFlight => wname[u] \in Hash
    /\ wpc[u] \in {"idle", "exists", "mkdir"} =>
          dir[u] = NoFile /\ Private(u) /\ wtotal[u] = 0 /\ data[u] = <<>>
    /\ wpc[u] \in {"stream", "end", "link"} =>
          dir[u] = u /\ Private(u) /\ data[u] = Bytes(u, wtotal[u])
    /\ wpc[u] = "stream" => wfd[u] = u
    /\ wpc[u] \in {"end", "link"} => wtotal[u] = wlen[u]
    /\ ~Private(u) => Intact(u) \/ ("power" \in Faults /\ Unmixed(u))

DownloadInv(r) ==
    rpc[r] \in {"exists", "utimes", "open", "size"} => rname[r] \in Hash

IInv ==
    /\ Typing
    /\ \A u \in Upload : UploadInv(u)
    /\ \A r \in Download : DownloadInv(r)
    /\ \A e \in entries \cup survivors : e.name \in Hash
    /\ ~up => \A u \in Upload : wpc[u] \notin InFlight

USE NamesAssumption, ClockAssumption, UploadBytesAssumption, ChunkAssumption

-----------------------------------------------------------------------------
(* Writing n bytes after m bytes of the same upload.                       *)
LEMMA BytesAdd ==
    ASSUME NEW u \in Upload, NEW m \in Nat, NEW n \in Nat
    PROVE  /\ Bytes(u, m) \in Seq(Upload)
           /\ Bytes(u, m) \o Bytes(u, n) = Bytes(u, m + n)
<1>1. ASSUME NEW k \in Nat
      PROVE  Bytes(u, k) \in Seq(Upload) /\ Len(Bytes(u, k)) = k
  BY IsASeq DEF Bytes
<1>2. /\ Bytes(u, m) \o Bytes(u, n) \in Seq(Upload)
      /\ Len(Bytes(u, m) \o Bytes(u, n)) = m + n
      /\ \A i \in 1..(m + n) : (Bytes(u, m) \o Bytes(u, n))[i] = u
  <2> DEFINE s == Bytes(u, m)
             t == Bytes(u, n)
  <2>1. /\ s \in Seq(Upload) /\ Len(s) = m /\ \A i \in 1..m : s[i] = u
        /\ t \in Seq(Upload) /\ Len(t) = n /\ \A i \in 1..n : t[i] = u
    BY <1>1 DEF Bytes
  <2> HIDE DEF s, t
  <2>2. s \o t \in Seq(Upload) /\ Len(s \o t) = m + n
    BY <2>1
  <2>3. ASSUME NEW i \in 1..(m + n) PROVE (s \o t)[i] = u
    BY <2>1
  <2> QED  BY <2>2, <2>3 DEF s, t
<1>3. \A i \in 1..(m + n) : Bytes(u, m + n)[i] = u
  BY DEF Bytes
<1>4. Bytes(u, m + n) \in Seq(Upload) /\ Len(Bytes(u, m + n)) = m + n
  BY <1>1
<1> QED  BY <1>1, <1>2, <1>3, <1>4, SeqEqual

(* Updating a function at one argument keeps its type.                     *)
LEMMA ExceptTyped ==
    ASSUME NEW S, NEW T, NEW f \in [S -> T], NEW x \in S, NEW y \in T
    PROVE  [f EXCEPT ![x] = y] \in [S -> T]
OBVIOUS

(* An upload's part of the invariant depends on what it names only.        *)
LEMMA UploadFrame ==
    ASSUME NEW u \in Upload, UploadInv(u),
           dir'[u] = dir[u], data'[u] = data[u],
           wpc'[u] = wpc[u], wname'[u] = wname[u], wlen'[u] = wlen[u],
           wtotal'[u] = wtotal[u], wfd'[u] = wfd[u],
           Private(u) => Private(u)'
    PROVE  UploadInv(u)'
BY DEF UploadInv, Intact, Unmixed, Bytes, InFlight

(* Every answer but a 200 leaves those not answered 200 as they are.       *)
LEMMA NoneWins ==
    ASSUME WriteTypeOK, NEW u \in Upload,
           \/ UNCHANGED wanswer
           \/ \E status \in {400, 403, 409, 413, 500} :
                 wanswer' = [wanswer EXCEPT ![u] = status]
    PROVE  \A i \in Upload : wanswer[i] # 200 => wanswer'[i] # 200
BY DEF WriteTypeOK

(* Dropping names and closing descriptors keep an inode private.           *)
LEMMA PrivateKept ==
    ASSUME NEW i \in Upload,
           \A h \in Hash : dir'[h] \in {dir[h], NoFile},
           \A r \in Download : rfd'[r] \in {rfd[r], NoFile},
           wanswer[i] # 200 => wanswer'[i] # 200
    PROVE  Private(i) => Private(i)'
BY DEF Private

(* An inode some hash or download leads to is complete.                    *)
LEMMA PublishedIntact ==
    ASSUME IInv, "power" \notin Faults
    PROVE  CommittedIntact /\ ServedIntact
<1>1. ASSUME NEW i \in Committed PROVE Intact(i)
  <2>1. PICK h \in Hash : i = dir[h] /\ i # NoFile
    BY <1>1 DEF Committed
  <2>2. i \in Upload /\ ~Private(i)
    BY <2>1 DEF IInv, Typing, DirTypeOK, Name, Private
  <2> QED  BY <2>2 DEF IInv, UploadInv
<1>2. ASSUME NEW r \in Download, rfd[r] # NoFile PROVE Intact(rfd[r])
  <2>1. rfd[r] \in Upload /\ ~Private(rfd[r])
    BY <1>2 DEF IInv, Typing, GetTypeOK, Private
  <2> QED  BY <2>1 DEF IInv, UploadInv
<1> QED  BY <1>1, <1>2 DEF CommittedIntact, ServedIntact

LEMMA BuffersOwned ==
    ASSUME IInv
    PROVE  BufferSafe
BY DEF IInv, UploadInv, BufferSafe, TempPath

-----------------------------------------------------------------------------
(* A step of one upload: the others keep their part of the invariant.      *)
LEMMA PutFrame ==
    ASSUME IInv, up, NEW u \in Upload,
           Typing', UploadInv(u)',
           \A v \in Upload \ {u} :
              /\ dir'[v] = dir[v] /\ data'[v] = data[v]
              /\ wpc'[v] = wpc[v] /\ wname'[v] = wname[v] /\ wlen'[v] = wlen[v]
              /\ wtotal'[v] = wtotal[v] /\ wfd'[v] = wfd[v]
              /\ Private(v) => Private(v)',
           UNCHANGED <<getVars, sweepVars, up>>
    PROVE  IInv'
<1>1. \A v \in Upload : UploadInv(v)'
  <2>1. ASSUME NEW v \in Upload \ {u} PROVE UploadInv(v)'
    BY UploadFrame DEF IInv
  <2> QED  BY <2>1
<1>2. \A r \in Download : DownloadInv(r)'
  BY DEF IInv, DownloadInv, getVars
<1>3. /\ \A e \in entries' \cup survivors' : e.name \in Hash
      /\ up'
  BY DEF IInv, sweepVars
<1> QED  BY <1>1, <1>2, <1>3 DEF IInv

LEMMA PutArrivesPreserves ==
    ASSUME IInv, up, NEW u \in Upload, PutArrives(u),
           UNCHANGED <<getVars, sweepVars, up>>
    PROVE  IInv'
<1>1. /\ Typing
      /\ wpc' \in [Upload -> WriteStates]
      /\ wname' \in [Upload -> Name \cup {NoFile}]
      /\ wanswer' \in [Upload -> {0, 200, 400, 403, 409, 413, 500}]
  BY DEF IInv, Typing, WriteTypeOK, PutArrives, Respond, Goto, WriteStates
<1>2. Typing'
  BY <1>1 DEF Typing, DirTypeOK, WriteTypeOK, GetTypeOK, getVars, dirVars, PutArrives
<1>3. \A i \in Upload : Private(i) => Private(i)'
  <2>1. \A i \in Upload : wanswer[i] # 200 => wanswer'[i] # 200
    BY <1>1, NoneWins DEF PutArrives, Respond, Typing
  <2> QED  BY <2>1 DEF Private, PutArrives, dirVars, getVars
<1>4. UploadInv(u)'
  <2>1. UploadInv(u) /\ wpc[u] = "idle" /\ wpc'[u] \in {"done", "exists"}
    BY <1>1 DEF IInv, PutArrives, Typing, WriteTypeOK, Respond, Goto
  <2>2. wpc'[u] = "exists" => wname'[u] \in Hash
    BY <1>1 DEF PutArrives, Respond, Goto, isValidHash, Typing, WriteTypeOK
  <2>3. Private(u)'
    BY <1>3, <2>1 DEF UploadInv
  <2> QED  BY <2>1, <2>2, <2>3 DEF UploadInv, InFlight, PutArrives, dirVars
<1>5. \A v \in Upload \ {u} :
        /\ wpc'[v] = wpc[v] /\ wname'[v] = wname[v]
        /\ UNCHANGED <<dirVars, wlen, wtotal, wfd>>
  BY <1>1 DEF PutArrives, Respond, Goto, Typing, WriteTypeOK
<1> QED  BY <1>2, <1>3, <1>4, <1>5, PutFrame DEF dirVars

LEMMA PutCheckedPreserves ==
    ASSUME IInv, up, NEW u \in Upload, PutChecked(u),
           UNCHANGED <<getVars, sweepVars, up>>
    PROVE  IInv'
<1>1. /\ Typing
      /\ wpc' \in [Upload -> WriteStates]
      /\ wlen' \in [Upload -> ContentLength]
      /\ wanswer' \in [Upload -> {0, 200, 400, 403, 409, 413, 500}]
  BY DEF IInv, Typing, WriteTypeOK, PutChecked, Respond, Goto, WriteStates, ContentLength
<1>2. Typing'
  BY <1>1 DEF Typing, DirTypeOK, WriteTypeOK, GetTypeOK, getVars, dirVars, PutChecked
<1>3. \A i \in Upload : Private(i) => Private(i)'
  <2>1. \A i \in Upload : wanswer[i] # 200 => wanswer'[i] # 200
    BY <1>1, NoneWins DEF PutChecked, Respond, Typing
  <2> QED  BY <2>1 DEF Private, PutChecked, dirVars, getVars
<1>4. UploadInv(u)'
  <2>1. UploadInv(u) /\ wpc[u] = "exists" /\ wpc'[u] \in {"done", "mkdir"}
    BY <1>1 DEF IInv, PutChecked, Typing, WriteTypeOK, Respond, Goto
  <2>2. Private(u)'
    BY <1>3, <2>1 DEF UploadInv
  <2> QED  BY <2>1, <2>2 DEF UploadInv, InFlight, WriteStates, PutChecked, dirVars
<1>5. \A v \in Upload \ {u} :
        /\ wpc'[v] = wpc[v] /\ wlen'[v] = wlen[v]
        /\ UNCHANGED <<dirVars, wname, wtotal, wfd>>
  BY <1>1 DEF PutChecked, Respond, Goto, Typing, WriteTypeOK
<1> QED  BY <1>2, <1>3, <1>4, <1>5, PutFrame DEF dirVars

LEMMA TempOpenedPreserves ==
    ASSUME IInv, up, NEW u \in Upload, TempOpened(u),
           UNCHANGED <<getVars, sweepVars, up>>
    PROVE  IInv'
<1>1. Typing /\ UploadInv(u) /\ wpc[u] = "mkdir" /\ u \in Name
  BY DEF IInv, TempOpened, Name
<1>2. CASE /\ Respond(u, 500)
           /\ UNCHANGED <<dirVars, wfd, wname, wlen, wtotal>>
  <2>1. Typing'
    BY <1>1, <1>2 DEF Typing, DirTypeOK, WriteTypeOK, GetTypeOK, getVars, dirVars,
       Respond, WriteStates
  <2>2. \A i \in Upload : Private(i) => Private(i)'
    <3>1. \A i \in Upload : wanswer[i] # 200 => wanswer'[i] # 200
      BY <1>1, <1>2, NoneWins DEF Respond, Typing
    <3> QED  BY <1>2, <3>1 DEF Private, dirVars, getVars
  <2>3. wpc' = [wpc EXCEPT ![u] = "done"] /\ wpc'[u] = "done"
    BY <1>1, <1>2 DEF Respond, Typing, WriteTypeOK
  <2>4. UploadInv(u)'
    BY <1>1, <1>2, <2>2, <2>3 DEF UploadInv, InFlight, dirVars
  <2> QED  BY <1>1, <1>2, <2>1, <2>2, <2>3, <2>4, PutFrame
           DEF dirVars, Typing, WriteTypeOK
<1>3. CASE /\ dir' = [dir EXCEPT ![u] = u]
           /\ data' = [data EXCEPT ![u] = <<>>]
           /\ mtime' = [mtime EXCEPT ![u] = clock]
           /\ wfd' = [wfd EXCEPT ![u] = u]
           /\ wpc' = [wpc EXCEPT ![u] = "stream"]
           /\ UNCHANGED <<clock, wanswer, wname, wlen, wtotal>>
  <2>1. Typing'
    <3>1. <<>> \in Seq(Upload)
      BY EmptySeq
    <3> QED  BY <1>1, <1>3, <3>1 DEF Typing, DirTypeOK, WriteTypeOK, GetTypeOK, getVars,
             WriteStates
  <2>2. \A i \in Upload : Private(i) => Private(i)'
    BY <1>1, <1>3 DEF Private, getVars, Typing, DirTypeOK, Name
  <2>3. wtotal[u] = 0
    BY <1>1 DEF UploadInv
  <2>4. UploadInv(u)'
    <3>1. Bytes(u, 0) = <<>>
      BY DEF Bytes
    <3>2. dir'[u] = u /\ data'[u] = <<>> /\ wfd'[u] = u /\ wpc'[u] = "stream"
      BY <1>1, <1>3 DEF Typing, DirTypeOK, WriteTypeOK
    <3> QED  BY <1>1, <1>3, <2>2, <2>3, <3>1, <3>2 DEF UploadInv, InFlight, WriteStates
  <2>5. \A v \in Upload \ {u} :
          /\ dir'[v] = dir[v] /\ data'[v] = data[v]
          /\ wpc'[v] = wpc[v] /\ wfd'[v] = wfd[v]
    BY <1>1, <1>3 DEF Typing, DirTypeOK, WriteTypeOK, Name
  <2> QED  BY <1>3, <2>1, <2>2, <2>4, <2>5, PutFrame
<1> QED
  <2>1. (IF Exists(TempPath(u)) THEN dir[TempPath(u)] ELSE u) = u
    BY <1>1 DEF UploadInv, TempPath, Exists
  <2> QED  BY <1>2, <1>3, <2>1 DEF TempOpened, TempPath, Goto

(* One more chunk, or the end of the stream of bytes.                      *)
LEMMA ChunkPulledPreserves ==
    ASSUME IInv, up, NEW u \in Upload, ChunkPulled(u),
           UNCHANGED <<getVars, sweepVars, up>>
    PROVE  IInv'
<1>1. /\ Typing /\ UploadInv(u) /\ wpc[u] = "stream"
      /\ wfd[u] = u /\ dir[u] = u /\ Private(u) /\ data[u] = Bytes(u, wtotal[u])
      /\ wname[u] \in Hash
      /\ UNCHANGED <<dir, clock, wname, wlen>>
  BY DEF IInv, ChunkPulled, UploadInv, InFlight, WriteStates
<1>2. \A i \in Upload : Private(i) => Private(i)'
  <2>1. \A i \in Upload : wanswer[i] # 200 => wanswer'[i] # 200
    BY <1>1, NoneWins DEF ChunkPulled, Finally, Typing
  <2> QED  BY <1>1, <2>1 DEF Private, getVars
<1>3. CASE \E status \in {400, 500} :
             Finally(u, status) /\ UNCHANGED <<data, mtime>>
  <2>1. /\ wpc' = [wpc EXCEPT ![u] = "rm"]
        /\ wtotal' = [wtotal EXCEPT ![u] = 0]
        /\ wfd' = [wfd EXCEPT ![u] = NoFile]
        /\ UNCHANGED <<data, mtime>>
    BY <1>3 DEF Finally
  <2>2. wanswer' \in [Upload -> {0, 200, 400, 403, 409, 413, 500}]
    BY <1>1, <1>3 DEF Finally, Typing, WriteTypeOK
  <2>3. Typing'
    BY <1>1, <2>1, <2>2 DEF Typing, DirTypeOK, WriteTypeOK, GetTypeOK, getVars, WriteStates
  <2>4. UploadInv(u)'
    BY <1>1, <1>2, <2>1 DEF UploadInv, Typing, WriteTypeOK
  <2>5. \A v \in Upload \ {u} :
          wpc'[v] = wpc[v] /\ wtotal'[v] = wtotal[v] /\ wfd'[v] = wfd[v]
    BY <1>1, <2>1 DEF Typing, WriteTypeOK
  <2> QED  BY <1>1, <1>2, <2>1, <2>3, <2>4, <2>5, PutFrame
<1>4. CASE \E n \in 1..MaxChunk :
             /\ wtotal' = [wtotal EXCEPT ![u] = wtotal[u] + n]
             /\ data' = [data EXCEPT ![wfd[u]] = @ \o Bytes(u, n)]
             /\ mtime' = [mtime EXCEPT ![wfd[u]] = clock]
             /\ UNCHANGED <<wpc, wanswer, wfd>>
  <2>1. PICK n \in 1..MaxChunk :
             /\ wtotal' = [wtotal EXCEPT ![u] = wtotal[u] + n]
             /\ data' = [data EXCEPT ![u] = data[u] \o Bytes(u, n)]
             /\ mtime' = [mtime EXCEPT ![u] = clock]
             /\ UNCHANGED <<wpc, wanswer, wfd>>
    BY <1>1, <1>4
  <2>2. wtotal[u] \in Nat /\ n \in Nat
    BY <1>1 DEF Typing, WriteTypeOK
  <2>3. /\ data[u] \o Bytes(u, n) = Bytes(u, wtotal[u] + n)
        /\ Bytes(u, wtotal[u] + n) \in Seq(Upload)
    <3> DEFINE m == wtotal[u]
    <3>1. m \in Nat /\ n \in Nat /\ m + n \in Nat /\ data[u] = Bytes(u, m)
      BY <1>1, <2>2
    <3> HIDE DEF m
    <3>2. Bytes(u, m) \o Bytes(u, n) = Bytes(u, m + n)
      BY <3>1, BytesAdd
    <3>3. Bytes(u, m + n) \in Seq(Upload)
      BY <3>1, BytesAdd
    <3>4. data[u] \o Bytes(u, n) = Bytes(u, m + n)
      BY <3>1, <3>2
    <3> QED  BY <3>3, <3>4 DEF m
  <2>4. Typing'
    BY <1>1, <2>1, <2>2, <2>3 DEF Typing, DirTypeOK, WriteTypeOK, GetTypeOK, getVars
  <2>5. data'[u] = Bytes(u, wtotal'[u])
    BY <1>1, <2>1, <2>3 DEF Typing, DirTypeOK, WriteTypeOK
  <2>6. UploadInv(u)'
    BY <1>1, <1>2, <2>1, <2>5 DEF UploadInv, InFlight, WriteStates
  <2>7. \A v \in Upload \ {u} :
          data'[v] = data[v] /\ wtotal'[v] = wtotal[v]
    BY <1>1, <2>1 DEF Typing, DirTypeOK, WriteTypeOK
  <2> QED  BY <1>1, <1>2, <2>1, <2>4, <2>6, <2>7, PutFrame
<1> QED  BY <1>3, <1>4 DEF ChunkPulled

(* The steps that decide an upload's outcome without touching a file.      *)
LEMMA BodyEndsPreserves ==
    ASSUME IInv, up, NEW u \in Upload,
           BodyDone(u) \/ BodyFails(u) \/ WriterEnded(u),
           UNCHANGED <<getVars, sweepVars, up>>
    PROVE  IInv'
<1>1. /\ Typing /\ UploadInv(u) /\ wpc[u] \in {"stream", "end"}
      /\ dir[u] = u /\ Private(u) /\ wname[u] \in Hash
      /\ UNCHANGED <<dirVars, wname, wlen>>
  BY DEF IInv, BodyDone, BodyFails, WriterEnded, UploadInv, InFlight, WriteStates
<1>2. \A i \in Upload : Private(i) => Private(i)'
  <2>1. \A i \in Upload : wanswer[i] # 200 => wanswer'[i] # 200
    BY <1>1, NoneWins DEF BodyDone, BodyFails, WriterEnded, Finally, Typing
  <2> QED  BY <1>1, <2>1 DEF Private, getVars, dirVars
<1>3. CASE \E status \in {400, 500} : Finally(u, status)
  <2>1. /\ wpc' = [wpc EXCEPT ![u] = "rm"]
        /\ wtotal' = [wtotal EXCEPT ![u] = 0]
        /\ wfd' = [wfd EXCEPT ![u] = NoFile]
    BY <1>3 DEF Finally
  <2>2. wanswer' \in [Upload -> {0, 200, 400, 403, 409, 413, 500}]
    BY <1>1, <1>3 DEF Finally, Typing, WriteTypeOK
  <2>3. Typing'
    BY <1>1, <2>1, <2>2
    DEF Typing, DirTypeOK, WriteTypeOK, GetTypeOK, getVars, dirVars, WriteStates
  <2>4. UploadInv(u)'
    BY <1>1, <1>2, <2>1 DEF UploadInv, Typing, WriteTypeOK, dirVars
  <2>5. \A v \in Upload \ {u} :
          wpc'[v] = wpc[v] /\ wtotal'[v] = wtotal[v] /\ wfd'[v] = wfd[v]
    BY <1>1, <2>1 DEF Typing, WriteTypeOK
  <2> QED  BY <1>1, <1>2, <2>1, <2>3, <2>4, <2>5, PutFrame DEF dirVars
<1>4. CASE /\ \/ wpc[u] = "stream" /\ wtotal[u] = wlen[u] /\ wpc' = [wpc EXCEPT ![u] = "end"]
              \/ wpc[u] = "end" /\ wpc' = [wpc EXCEPT ![u] = "link"]
           /\ wfd' \in {wfd, [wfd EXCEPT ![u] = NoFile]}
           /\ UNCHANGED <<wanswer, wtotal>>
  <2>1. Typing'
    <3>1. wpc' \in [Upload -> WriteStates]
      BY <1>1, <1>4 DEF Typing, WriteTypeOK, WriteStates
    <3>2. wfd' \in [Upload -> Upload \cup {NoFile}]
      BY <1>1, <1>4 DEF Typing, WriteTypeOK
    <3>3. WriteTypeOK'
      BY <1>1, <1>4, <3>1, <3>2 DEF Typing, WriteTypeOK
    <3> QED  BY <1>1, <3>3 DEF Typing, DirTypeOK, GetTypeOK, getVars, dirVars
  <2>2. wpc'[u] \in {"end", "link"} /\ wfd'[u] \in {wfd[u], NoFile}
    BY <1>1, <1>4 DEF Typing, WriteTypeOK
  <2>3. UploadInv(u)'
    <3>1. wtotal[u] = wlen[u] /\ data[u] = Bytes(u, wtotal[u])
      BY <1>1, <1>4 DEF UploadInv
    <3> QED  BY <1>1, <1>2, <1>4, <2>2, <3>1 DEF UploadInv, dirVars
  <2>4. \A v \in Upload \ {u} : wpc'[v] = wpc[v] /\ wfd'[v] = wfd[v]
    BY <1>1, <1>4 DEF Typing, WriteTypeOK
  <2> QED  BY <1>1, <1>2, <1>4, <2>1, <2>3, <2>4, PutFrame DEF dirVars
<1> QED  BY <1>3, <1>4 DEF BodyDone, BodyFails, WriterEnded, Goto

(* The link publishes a complete inode; every other outcome publishes      *)
(* nothing.                                                                *)
LEMMA LinkedPreserves ==
    ASSUME IInv, up, NEW u \in Upload, Linked(u),
           UNCHANGED <<getVars, sweepVars, up>>
    PROVE  IInv'
<1>1. /\ Typing /\ UploadInv(u) /\ wpc[u] = "link"
      /\ dir[u] = u /\ data[u] = Bytes(u, wlen[u]) /\ wname[u] \in Hash
      /\ UNCHANGED <<data, mtime, clock, wname, wlen>>
  BY DEF IInv, Linked, UploadInv, InFlight, WriteStates
<1>2. PICK status \in {200, 409, 500} : Finally(u, status)
  BY DEF Linked
<1>3. /\ wpc' = [wpc EXCEPT ![u] = "rm"]
      /\ wtotal' = [wtotal EXCEPT ![u] = 0]
      /\ wfd' = [wfd EXCEPT ![u] = NoFile]
      /\ wanswer' = [wanswer EXCEPT ![u] = status]
  BY <1>2 DEF Finally
<1>4. dir' = dir \/ dir' = [dir EXCEPT ![wname[u]] = u]
  BY <1>1 DEF Linked, TempPath
<1>5. /\ wname[u] \in Name /\ Upload \subseteq Name
      /\ dir' \in [Name -> Upload \cup {NoFile}]
      /\ \A n \in Name : dir'[n] \in {dir[n], u}
      /\ \A n \in Name : n # wname[u] => dir'[n] = dir[n]
  <2>1. dir \in [Name -> Upload \cup {NoFile}] /\ wname[u] \in Name /\ Upload \subseteq Name
    BY <1>1 DEF Typing, DirTypeOK, Name
  <2>2. CASE dir' = dir
    BY <2>1, <2>2
  <2>3. CASE dir' = [dir EXCEPT ![wname[u]] = u]
    BY <2>1, <2>3
  <2> QED  BY <1>4, <2>1, <2>2, <2>3
<1>6. Typing'
  <2>1. DirTypeOK'
    BY <1>1, <1>5 DEF Typing, DirTypeOK
  <2>2. /\ wpc' \in [Upload -> WriteStates]
        /\ wtotal' \in [Upload -> Nat]
        /\ wfd' \in [Upload -> Upload \cup {NoFile}]
    BY <1>1, <1>3 DEF Typing, WriteTypeOK, WriteStates
  <2>3. wanswer' \in [Upload -> {0, 200, 400, 403, 409, 413, 500}]
    BY <1>1, <1>3 DEF Typing, WriteTypeOK
  <2>4. WriteTypeOK'
    BY <1>1, <2>2, <2>3 DEF Typing, WriteTypeOK
  <2> QED  BY <1>1, <2>1, <2>4 DEF Typing, GetTypeOK, getVars
<1>7. \A v \in Upload : dir'[v] = dir[v]
  BY <1>1, <1>5
<1>8. \A v \in Upload \ {u} : Private(v) => Private(v)'
  <2>1. \A h \in Hash : dir'[h] \in {dir[h], u}
    BY <1>5 DEF Name
  <2>2. rfd' = rfd
    BY DEF getVars
  <2>3. \A v \in Upload \ {u} : wanswer'[v] = wanswer[v]
    BY <1>1, <1>3 DEF Typing, WriteTypeOK
  <2> QED  BY <2>1, <2>2, <2>3 DEF Private
<1>9. UploadInv(u)'
  BY <1>1, <1>3, <1>7 DEF UploadInv, Intact, Bytes, Typing, WriteTypeOK
<1>10. \A v \in Upload \ {u} :
          wpc'[v] = wpc[v] /\ wtotal'[v] = wtotal[v] /\ wfd'[v] = wfd[v]
  BY <1>1, <1>3 DEF Typing, WriteTypeOK
<1> QED  BY <1>1, <1>6, <1>7, <1>8, <1>9, <1>10, PutFrame

LEMMA TempRemovedPreserves ==
    ASSUME IInv, up, NEW u \in Upload, TempRemoved(u),
           UNCHANGED <<getVars, sweepVars, up>>
    PROVE  IInv'
<1>1. /\ Typing /\ UploadInv(u) /\ wpc[u] = "rm" /\ u \in Name
      /\ wpc' = [wpc EXCEPT ![u] = "done"]
      /\ dir' = dir \/ dir' = [dir EXCEPT ![u] = NoFile]
      /\ UNCHANGED <<data, mtime, clock, wname, wlen, wtotal, wfd, wanswer>>
  BY DEF IInv, TempRemoved, Goto, Unlinked, TempPath, Name
<1>2. Typing'
  BY <1>1 DEF Typing, DirTypeOK, WriteTypeOK, GetTypeOK, getVars, WriteStates
<1>3. /\ \A n \in Name : dir'[n] \in {dir[n], NoFile}
      /\ \A v \in Upload \ {u} : dir'[v] = dir[v]
  BY <1>1 DEF Typing, DirTypeOK, Name
<1>4. \A i \in Upload : Private(i) <=> Private(i)'
  BY <1>1, <1>3 DEF Private, getVars, Name, Typing, DirTypeOK
<1>5. UploadInv(u)'
  BY <1>1, <1>3, <1>4 DEF UploadInv, Intact, Unmixed, InFlight, Typing, WriteTypeOK
<1>6. \A v \in Upload \ {u} : wpc'[v] = wpc[v]
  BY <1>1 DEF Typing, WriteTypeOK
<1> QED  BY <1>1, <1>2, <1>3, <1>4, <1>5, <1>6, PutFrame
-----------------------------------------------------------------------------
(* A step that leaves every upload's files and descriptors as they are, but *)
(* for names dropped under hashes and inodes already published.             *)
LEMMA FilesFrame ==
    ASSUME IInv, Typing',
           UNCHANGED writeVars, data' = data,
           \A u \in Upload : dir'[u] = dir[u],
           \A u \in Upload : Private(u) => Private(u)'
    PROVE  \A u \in Upload : UploadInv(u)'
<1> TAKE u \in Upload
<1>1. UploadInv(u)
  BY DEF IInv
<1> QED  BY <1>1, UploadFrame DEF writeVars

(* Every step of a download: it may only open an inode a hash leads to.    *)
LEMMA GetPreserves ==
    ASSUME IInv, up, NEW r \in Download, GetArrives(r) \/ GetStep(r),
           UNCHANGED <<writeVars, sweepVars, up>>
    PROVE  IInv'
<1>1. Typing /\ DownloadInv(r)
  BY DEF IInv
<1>2. /\ UNCHANGED <<dir, data, clock>>
      /\ mtime' = mtime \/ \E i \in Upload : mtime' = [mtime EXCEPT ![i] = rnow[r]]
  <2>1. CASE AccessStamped(r)
    <3>1. rname[r] \in Name /\ (Exists(rname[r]) => dir[rname[r]] \in Upload)
      BY <1>1, <2>1 DEF AccessStamped, DownloadInv, Typing, DirTypeOK, Name, Exists
    <3> QED  BY <2>1, <3>1 DEF AccessStamped
  <2>2. CASE ~AccessStamped(r)
    BY <2>2 DEF GetArrives, GetStep, GetChecked, StreamOpened, SizeRead, BodyClosed, dirVars
  <2> QED  BY <2>1, <2>2
<1>3. rpc' \in [Download -> GetStates]
  BY <1>1 DEF Typing, GetTypeOK, GetStates, GetArrives, GetStep, GetChecked,
     AccessStamped, StreamOpened, SizeRead, BodyClosed, Answer, Proceed
<1>4. /\ rname' \in [Download -> Name \cup {NoFile}]
      /\ \A q \in Download \ {r} : rname'[q] = rname[q] /\ rpc'[q] = rpc[q]
  BY <1>1 DEF Typing, GetTypeOK, GetArrives, GetStep, GetChecked,
     AccessStamped, StreamOpened, SizeRead, BodyClosed, Answer, Proceed
<1>5. rnow' \in [Download -> 0..MaxClock]
  <2>1. rnow' = rnow \/ \E t \in {0, clock} : rnow' = [rnow EXCEPT ![r] = t]
    BY DEF GetArrives, GetStep, GetChecked, AccessStamped, StreamOpened, SizeRead,
       BodyClosed
  <2>2. rnow \in [Download -> 0..MaxClock] /\ {0, clock} \subseteq 0..MaxClock
    BY <1>1 DEF Typing, GetTypeOK, DirTypeOK
  <2> QED  BY <2>1, <2>2, ExceptTyped
<1>6. rfd' = rfd \/ \E h \in Hash : dir[h] # NoFile /\ rfd' = [rfd EXCEPT ![r] = dir[h]]
  <2>1. CASE StreamOpened(r)
    BY <1>1, <2>1 DEF StreamOpened, DownloadInv, Exists
  <2>2. CASE ~StreamOpened(r)
    BY <2>2 DEF GetArrives, GetStep, GetChecked, AccessStamped, SizeRead, BodyClosed
  <2> QED  BY <2>1, <2>2
<1>7. rfd' \in [Download -> Upload \cup {NoFile}]
  <2>1. /\ rfd \in [Download -> Upload \cup {NoFile}]
        /\ \A h \in Hash : dir[h] \in Upload \cup {NoFile}
    BY <1>1 DEF Typing, GetTypeOK, DirTypeOK, Name
  <2> QED  BY <1>6, <2>1, ExceptTyped
<1>8. rsize' \in [Download -> Nat]
  <2>1. ASSUME NEW i \in Upload PROVE Size(i) \in Nat
    BY <1>1, LenProperties DEF Typing, DirTypeOK, Size
  <2>2. CASE SizeRead(r)
    <3>1. rname[r] \in Name /\ (Exists(rname[r]) => dir[rname[r]] \in Upload)
      BY <1>1, <2>2 DEF SizeRead, DownloadInv, Typing, DirTypeOK, Name, Exists
    <3>2. (IF Exists(rname[r]) THEN Size(dir[rname[r]]) ELSE 0) \in Nat
      BY <2>1, <3>1
    <3> QED  BY <1>1, <2>2, <3>2 DEF SizeRead, Typing, GetTypeOK
  <2>3. CASE ~SizeRead(r)
    BY <1>1, <2>3 DEF Typing, GetTypeOK, GetArrives, GetStep, GetChecked,
       AccessStamped, StreamOpened, BodyClosed
  <2> QED  BY <2>2, <2>3
<1>9. ranswer' \in [Download -> {0, 200, 400, 403, 404, 500}]
  BY <1>1 DEF Typing, GetTypeOK, GetArrives, GetStep, GetChecked,
     AccessStamped, StreamOpened, SizeRead, BodyClosed, Answer, Proceed
<1>10. DirTypeOK'
  <2>1. mtime' \in [Upload -> 0..MaxClock]
    <3>1. mtime \in [Upload -> 0..MaxClock] /\ rnow[r] \in 0..MaxClock
      BY <1>1 DEF Typing, DirTypeOK, GetTypeOK
    <3> QED  BY <1>2, <3>1, ExceptTyped
  <2> QED  BY <1>1, <1>2, <2>1 DEF Typing, DirTypeOK
<1>11. Typing'
  BY <1>1, <1>3, <1>4, <1>5, <1>7, <1>8, <1>9, <1>10
  DEF Typing, WriteTypeOK, GetTypeOK, writeVars
<1>12. \A u \in Upload : Private(u) => Private(u)'
  BY <1>1, <1>2, <1>6 DEF Private, Typing, GetTypeOK, writeVars
<1>13. \A u \in Upload : UploadInv(u)'
  BY <1>2, <1>11, <1>12, FilesFrame
<1>14. DownloadInv(r)'
  BY <1>1 DEF DownloadInv, Typing, GetTypeOK, GetArrives, GetStep, GetChecked,
     AccessStamped, StreamOpened, SizeRead, BodyClosed, Answer, Proceed, isValidHash
<1>15. \A q \in Download : DownloadInv(q)'
  BY <1>4, <1>14 DEF IInv, DownloadInv
<1> QED  BY <1>11, <1>13, <1>15 DEF IInv, sweepVars

(* Dropping one name under a hash, and nothing else, keeps the files.      *)
LEMMA DropPreserves ==
    ASSUME IInv,
           dir' = dir \/ (\E h \in Hash : dir' = Unlinked(h)),
           UNCHANGED <<data, mtime, clock, writeVars, getVars>>
    PROVE  /\ Typing'
           /\ \A u \in Upload : UploadInv(u)'
           /\ \A r \in Download : DownloadInv(r)'
<1>1. Typing
  BY DEF IInv
<1>2. /\ dir' \in [Name -> Upload \cup {NoFile}]
      /\ \A n \in Name : dir'[n] \in {dir[n], NoFile}
      /\ \A u \in Upload : dir'[u] = dir[u]
  BY <1>1 DEF Typing, DirTypeOK, Unlinked, Name
<1>3. Typing'
  BY <1>1, <1>2 DEF Typing, DirTypeOK, WriteTypeOK, GetTypeOK, writeVars, getVars
<1>4. \A u \in Upload : Private(u) => Private(u)'
  BY <1>2, PrivateKept DEF getVars, writeVars, Name
<1>5. \A u \in Upload : UploadInv(u)'
  BY <1>2, <1>3, <1>4, FilesFrame
<1> QED  BY <1>3, <1>5 DEF IInv, DownloadInv, getVars

(* Every step of the sweep: it only ever deletes names that are hashes.    *)
LEMMA SweepPreserves ==
    ASSUME IInv, Sweep
    PROVE  IInv'
<1>1. dir' = dir \/ (\E h \in Hash : dir' = Unlinked(h))
  BY DEF IInv, Sweep, SweepStarts, SweepStep, EntryStatted, ScanFails, ScanEnds,
     ExpiredEvicted, TtlPassEnds, OldestEvicted, SizePassEnds, Deleted, Missing,
     Failed, dirVars
<1>2. UNCHANGED <<data, mtime, clock, writeVars, getVars>> /\ up /\ up'
  BY DEF Sweep, SweepStarts, SweepStep, EntryStatted, ScanFails, ScanEnds,
     ExpiredEvicted, TtlPassEnds, OldestEvicted, SizePassEnds, dirVars
<1>3. \A e \in entries' \cup survivors' : e.name \in Hash
  <2>1. \A e \in entries \cup survivors : e.name \in Hash
    BY DEF IInv
  <2>2. CASE EntryStatted
    <3>1. PICK n \in Name :
            \/ UNCHANGED entries
            \/ /\ ~Skipped(n)
               /\ entries' = entries \cup
                    {[name |-> n, size |-> Size(dir[n]),
                      mtimeMs |-> mtime[dir[n]], inode |-> dir[n]]}
      BY <2>2 DEF EntryStatted
    <3>2. ~Skipped(n) => n \in Hash
      BY DEF Skipped, Name
    <3> QED  BY <2>1, <2>2, <3>1, <3>2 DEF EntryStatted
  <2>3. CASE ~EntryStatted
    BY <2>1, <2>3 DEF Sweep, SweepStarts, SweepStep, ScanFails, ScanEnds,
       ExpiredEvicted, TtlPassEnds, OldestEvicted, SizePassEnds, SweepReturns
  <2> QED  BY <2>2, <2>3
<1> QED  BY <1>1, <1>2, <1>3, DropPreserves DEF IInv

LEMMA PrunePreserves ==
    ASSUME IInv, NEW h \in Hash, Prune(h)
    PROVE  IInv'
<1>1. /\ dir' = Unlinked(h)
      /\ UNCHANGED <<data, mtime, clock, writeVars, getVars, sweepVars, up>>
  BY DEF Prune
<1> QED  BY <1>1, DropPreserves DEF IInv, sweepVars, writeVars

LEMMA ClockPreserves ==
    ASSUME IInv, Clock
    PROVE  IInv'
<1>1. /\ Typing
      /\ clock < MaxClock /\ clock' = clock + 1
      /\ UNCHANGED <<dir, data, mtime, writeVars, getVars, sweepVars, up>>
  BY DEF IInv, Clock, Tick
<1>2. Typing'
  BY <1>1 DEF Typing, DirTypeOK, WriteTypeOK, GetTypeOK, writeVars, getVars
<1>3. \A u \in Upload : Private(u) => Private(u)'
  BY <1>1 DEF Private, getVars, writeVars
<1>4. \A u \in Upload : UploadInv(u)'
  BY <1>1, <1>2, <1>3, FilesFrame
<1> QED  BY <1>1, <1>2, <1>4 DEF IInv, DownloadInv, sweepVars, writeVars, getVars

(* A crash shortens a file to a beginning of what it was, or not at all,   *)
(* and puts under a name a file that name led to, or none.                 *)
LEMMA CutTyped ==
    ASSUME Typing, Crash
    PROVE  /\ DirTypeOK'
           /\ \A n \in Name : dir'[n] \in {dir[n], NoFile} \cup Earlier(n)
<1>1. CASE UNCHANGED <<dir, data, mtime>>
  BY <1>1 DEF Crash, Typing, DirTypeOK
<1>2. CASE PowerCut
  <2>1. PICK names \in [Name -> Upload \cup {NoFile}], kept \in [Upload -> 0..MaxUploadBytes] :
          /\ \A n \in Name : names[n] \in {dir[n], NoFile} \cup Earlier(n)
          /\ dir' = names
          /\ data' = [i \in Upload |-> IF kept[i] < Size(i) THEN SubSeq(data[i], 1, kept[i])
                                                         ELSE data[i]]
    BY <1>2 DEF PowerCut
  <2>2. data' \in [Upload -> Seq(Upload)]
    <3>1. ASSUME NEW i \in Upload
          PROVE  (IF kept[i] < Size(i) THEN SubSeq(data[i], 1, kept[i]) ELSE data[i])
                    \in Seq(Upload)
      <4>1. data[i] \in Seq(Upload) /\ kept[i] \in Nat
        BY DEF Typing, DirTypeOK
      <4>2. CASE kept[i] < Size(i)
        <5>1. Len(data[i]) \in Nat /\ kept[i] < Len(data[i])
          BY <4>1, <4>2, LenProperties DEF Size
        <5>2. SubSeq(data[i], 1, kept[i]) \in Seq(Upload)
          BY <4>1, <5>1, SubSeqProperties
        <5> QED  BY <4>2, <5>2
      <4> QED  BY <4>1, <4>2
    <3> QED  BY <2>1, <3>1
  <2>3. mtime' \in [Upload -> 0..MaxClock] /\ clock' = clock
    BY <1>2 DEF PowerCut, Crash, Typing, DirTypeOK
  <2> QED  BY <2>1, <2>2, <2>3 DEF Typing, DirTypeOK
<1> QED  BY <1>1, <1>2 DEF Crash

(* A power cut leaves a beginning of what one upload wrote.                *)
LEMMA CutKeepsPrefix ==
    ASSUME IInv, Crash, NEW u \in Upload, Intact(u) \/ Unmixed(u)
    PROVE  data'[u] = data[u] \/ ("power" \in Faults /\ Unmixed(u)')
<1>1. /\ data \in [Upload -> Seq(Upload)] /\ wlen[u] \in Nat
      /\ wlen' = wlen
  BY DEF IInv, Typing, DirTypeOK, WriteTypeOK, ContentLength, Crash, WritesLost
<1>2. PICK n \in 0..wlen[u] : data[u] = Bytes(u, n)
  BY <1>1 DEF Intact, Unmixed
<1>3. ASSUME NEW kept \in [Upload -> 0..MaxUploadBytes], kept[u] < Size(u),
             data'[u] = SubSeq(data[u], 1, kept[u])
      PROVE  Unmixed(u)'
  <2>1. Bytes(u, n) \in Seq(Upload) /\ Len(Bytes(u, n)) = n
    BY <1>2, BytesAdd DEF Bytes
  <2>2. kept[u] \in 0..n /\ kept[u] \in Nat
    BY <1>1, <1>2, <1>3, <2>1 DEF Size
  <2>3. SubSeq(Bytes(u, n), 1, kept[u]) = Bytes(u, kept[u])
    BY <2>2 DEF Bytes
  <2>4. kept[u] \in 0..wlen'[u] /\ data'[u] = Bytes(u, kept[u])
    BY <1>1, <1>2, <1>3, <2>2, <2>3
  <2>5. \E k \in 0..wlen'[u] : data'[u] = Bytes(u, k)
    BY <2>4, Zenon
  <2> QED  BY <2>5 DEF Unmixed
<1>4. CASE PowerCut
  <2>1. PICK kept \in [Upload -> 0..MaxUploadBytes] :
          data' = [i \in Upload |-> IF kept[i] < Size(i) THEN SubSeq(data[i], 1, kept[i])
                                                         ELSE data[i]]
    BY <1>4 DEF PowerCut
  <2>2. CASE kept[u] < Size(u)
    BY <1>3, <1>4, <2>1, <2>2 DEF PowerCut
  <2>3. CASE ~(kept[u] < Size(u))
    BY <2>1, <2>3
  <2> QED  BY <2>2, <2>3
<1> QED  BY <1>4 DEF Crash

(* A crash makes no private inode public: a name may lead again to a file  *)
(* an upload stored under it, or to the upload's own buffer.               *)
LEMMA CrashKeepsPrivate ==
    ASSUME IInv, Crash, NEW u \in Upload
    PROVE  /\ Private(u) => Private(u)'
           /\ dir'[u] \in {NoFile, u}
           /\ data[u] = <<>> => data'[u] = <<>> /\ (dir[u] = NoFile => dir'[u] = NoFile)
<1>1. /\ Typing /\ u \in Name /\ u \notin Hash /\ UploadInv(u)
      /\ \A n \in Name : dir'[n] \in {dir[n], NoFile} \cup Earlier(n)
  BY CutTyped DEF IInv, Name
<1>2. Earlier(u) \subseteq {u}
  BY <1>1 DEF Earlier, TempPath
<1>3. dir'[u] \in {NoFile, u}
  BY <1>1, <1>2 DEF UploadInv
<1>4. ASSUME Private(u) PROVE Private(u)'
  <2>1. ASSUME NEW h \in Hash PROVE dir'[h] # u
    <3>1. u \notin Earlier(h) /\ h \in Name
      BY <1>4 DEF Earlier, Private, TempPath, Name
    <3> QED  BY <1>1, <1>4, <3>1 DEF Private
  <2>2. \A r \in Download : rfd'[r] # u
    BY <1>4 DEF Private, Crash, ReadsLost
  <2>3. wanswer' = wanswer
    BY DEF Crash, WritesLost
  <2> QED  BY <1>4, <2>1, <2>2, <2>3 DEF Private
<1>5. ASSUME data[u] = <<>>
      PROVE  data'[u] = <<>> /\ (dir[u] = NoFile => dir'[u] = NoFile)
  <2>1. Size(u) = 0
    BY <1>5 DEF Size
  <2>2. Earlier(u) = {}
    BY <1>1, <1>2, <2>1 DEF Earlier
  <2>3. data'[u] = data[u]
    <3>1. CASE PowerCut
      BY <2>1, <3>1 DEF PowerCut
    <3> QED  BY <3>1 DEF Crash
  <2> QED  BY <1>1, <1>5, <2>2, <2>3
<1> QED  BY <1>3, <1>4, <1>5

(* A crash loses descriptors and handlers, and what was not on the disk.   *)
LEMMA CrashPreserves ==
    ASSUME IInv, Crash
    PROVE  IInv'
<1>1. Typing /\ ~up'
  BY DEF IInv, Crash
<1>2. Typing'
  <2>1. WriteTypeOK'
    BY <1>1 DEF Typing, WriteTypeOK, Crash, WritesLost, WriteStates
  <2>2. GetTypeOK'
    BY <1>1 DEF Typing, GetTypeOK, Crash, ReadsLost, GetStates
  <2> QED  BY <1>1, <2>1, <2>2, CutTyped DEF Typing
<1>3. \A u \in Upload : wpc'[u] \notin InFlight
  BY DEF Crash, WritesLost, InFlight
<1>4. \A u \in Upload : UploadInv(u)'
  <2> SUFFICES ASSUME NEW u \in Upload PROVE UploadInv(u)'
    OBVIOUS
  <2>1. UploadInv(u) /\ wpc'[u] \in {"idle", "done", "lost"}
    BY DEF IInv, Crash, WritesLost
  <2>2. wpc'[u] = "idle" => wpc[u] = "idle"
    BY DEF Crash, WritesLost
  <2>3. wfd'[u] = NoFile /\ wtotal'[u] = 0 /\ wlen' = wlen
    BY DEF Crash, WritesLost
  <2>4. Intact(u) \/ Unmixed(u) => data'[u] = data[u] \/ ("power" \in Faults /\ Unmixed(u)')
    BY CutKeepsPrefix
  <2>5. /\ Private(u) => Private(u)'
        /\ dir'[u] \in {NoFile, u}
        /\ data[u] = <<>> => data'[u] = <<>> /\ (dir[u] = NoFile => dir'[u] = NoFile)
    BY CrashKeepsPrivate
  <2>6. ~Private(u)' => Intact(u)' \/ ("power" \in Faults /\ Unmixed(u)')
    BY <2>1, <2>3, <2>4, <2>5 DEF UploadInv, Intact, Unmixed
  <2> QED  BY <2>1, <2>2, <2>3, <2>5, <2>6 DEF UploadInv, InFlight
<1>5. \A r \in Download : DownloadInv(r)'
  BY DEF DownloadInv, Crash, ReadsLost
<1>6. \A e \in entries' \cup survivors' : e.name \in Hash
  BY DEF Crash, SweepLost, SweepReturns
<1> QED  BY <1>2, <1>3, <1>4, <1>5, <1>6 DEF IInv, InFlight, WriteStates

(* The startup sweep takes buffers away, when no upload has one.           *)
LEMMA RestartPreserves ==
    ASSUME IInv, Restart
    PROVE  IInv'
<1>1. /\ Typing
      /\ \A u \in Upload : wpc[u] \notin InFlight
      /\ UNCHANGED <<data, mtime, clock, writeVars, getVars, sweepVars>>
  BY DEF IInv, Restart
<1>2. /\ dir' \in [Name -> Upload \cup {NoFile}]
      /\ \A u \in Upload : dir'[u] \in {dir[u], NoFile}
      /\ \A h \in Hash : dir'[h] = dir[h]
  BY <1>1 DEF Typing, DirTypeOK, Restart, Name
<1>3. Typing'
  BY <1>1, <1>2 DEF Typing, DirTypeOK, WriteTypeOK, GetTypeOK, writeVars, getVars
<1>4. \A u \in Upload : UploadInv(u)'
  <2> SUFFICES ASSUME NEW u \in Upload PROVE UploadInv(u)'
    OBVIOUS
  <2>1. UploadInv(u) /\ wpc[u] \in {"idle", "done", "lost"} /\ wpc' = wpc
    BY <1>1 DEF IInv, InFlight, Typing, WriteTypeOK, writeVars
  <2>2. Private(u) <=> Private(u)'
    BY <1>1, <1>2 DEF Private, getVars, writeVars
  <2> QED  BY <1>1, <1>2, <2>1, <2>2 DEF UploadInv, InFlight, Intact, Unmixed, writeVars
<1>5. up' = TRUE
  BY DEF Restart
<1> QED  BY <1>1, <1>3, <1>4, <1>5 DEF IInv, DownloadInv, sweepVars, getVars

-----------------------------------------------------------------------------
LEMMA InvariantInit == Init => IInv
<1> SUFFICES ASSUME Init PROVE IInv
  OBVIOUS
<1>1. DirTypeOK
  <2>1. <<>> \in Seq(Upload)
    BY EmptySeq
  <2> QED  BY <2>1 DEF Init, DirInit, DirTypeOK
<1>2. WriteTypeOK /\ GetTypeOK
  BY DEF Init, WriteInit, GetInit, WriteTypeOK, GetTypeOK, WriteStates, GetStates,
     ContentLength
<1>3. \A u \in Upload : UploadInv(u)
  BY DEF Init, DirInit, WriteInit, GetInit, UploadInv, Private, InFlight, Name
<1> QED  BY <1>1, <1>2, <1>3
         DEF IInv, Typing, DownloadInv, Init, SweepInit, GetInit

(* Mere stuttering.                                                        *)
LEMMA StutterPreserves ==
    ASSUME IInv, UNCHANGED vars
    PROVE  IInv'
<1>1. UNCHANGED <<dir, data, mtime, clock, writeVars, getVars, sweepVars, up>>
  BY DEF vars, historyVars, dirVars
<1> QED  BY <1>1, DropPreserves DEF IInv, sweepVars, writeVars

LEMMA PutPreserves ==
    ASSUME IInv, NEW u \in Upload, PutRequest(u)
    PROVE  IInv'
<1>1. up /\ UNCHANGED <<getVars, sweepVars, up>>
  BY DEF PutRequest
<1> QED  BY <1>1, PutArrivesPreserves, PutCheckedPreserves, TempOpenedPreserves,
            ChunkPulledPreserves, BodyEndsPreserves, LinkedPreserves,
            TempRemovedPreserves
         DEF PutRequest, PutStep

LEMMA InvariantStep == IInv /\ [Next]_vars => IInv'
<1> SUFFICES ASSUME IInv, [Next]_vars PROVE IInv'
  OBVIOUS
<1>1. CASE \E u \in Upload : PutRequest(u)
  BY <1>1, PutPreserves
<1>2. CASE \E r \in Download : GetRequest(r)
  BY <1>2, GetPreserves DEF GetRequest
<1>3. CASE \E h \in Hash : Prune(h)
  BY <1>3, PrunePreserves
<1>4. CASE Sweep
  BY <1>4, SweepPreserves
<1>5. CASE Clock
  BY <1>5, ClockPreserves
<1>6. CASE Crash
  BY <1>6, CrashPreserves
<1>7. CASE Restart
  BY <1>7, RestartPreserves
<1>8. CASE UNCHANGED vars
  BY <1>8, StutterPreserves
<1> QED  BY <1>1, <1>2, <1>3, <1>4, <1>5, <1>6, <1>7, <1>8 DEF Next

(***************************************************************************)
(* The inductive invariant holds in every reachable state.                 *)
(***************************************************************************)
THEOREM Invariance == Spec => []IInv
BY InvariantInit, InvariantStep, PTL DEF Spec

(***************************************************************************)
(* The variables of the directory and of every request keep their types.   *)
(***************************************************************************)
THEOREM RequestsAreTyped ==
    Spec => [](DirTypeOK /\ WriteTypeOK /\ GetTypeOK)
<1>1. IInv => DirTypeOK /\ WriteTypeOK /\ GetTypeOK
  BY DEF IInv, Typing
<1> QED  BY <1>1, Invariance, PTL

(***************************************************************************)
(* No two writers ever share a buffer, and nothing takes a buffer away     *)
(* from the upload that fills it (file-system.ts:78-82, 158-183).          *)
(***************************************************************************)
THEOREM BuffersAreSafe == Spec => []BufferSafe
BY Invariance, BuffersOwned, PTL

(***************************************************************************)
(* Every entry under a hash is one complete upload, whatever fails, dies   *)
(* or races (file-system.ts:151-194).                                      *)
(***************************************************************************)
THEOREM EntriesAreIntact ==
    ASSUME "power" \notin Faults
    PROVE  Spec => []CommittedIntact
BY Invariance, PublishedIntact, PTL

(***************************************************************************)
(* Every download reads one complete upload (file-system.ts:96-143).       *)
(***************************************************************************)
THEOREM DownloadsAreIntact ==
    ASSUME "power" \notin Faults
    PROVE  Spec => []ServedIntact
BY Invariance, PublishedIntact, PTL

(***************************************************************************)
(* Whatever else fails, a power cut included, an entry and a file that a   *)
(* download has open hold the bytes of one upload from the first on, and   *)
(* no others: what a cut can do to a cache is to shorten an entry, never   *)
(* to mix two uploads (file-system.ts:78-82, 151-194).                     *)
(***************************************************************************)
THEOREM EntriesAreUnmixed ==
    Spec => [](/\ CommittedUnmixed
               /\ \A r \in Download : rfd[r] # NoFile => Unmixed(rfd[r]))
<1>1. ASSUME IInv, NEW i \in Upload, ~Private(i) PROVE Unmixed(i)
  <2>1. wlen[i] \in Nat
    BY <1>1 DEF IInv, Typing, WriteTypeOK, ContentLength
  <2> QED  BY <1>1, <2>1 DEF IInv, UploadInv, Intact, Unmixed
<1>2. ASSUME IInv, NEW i \in Committed PROVE Unmixed(i)
  <2>1. PICK h \in Hash : i = dir[h] /\ i # NoFile
    BY <1>2 DEF Committed
  <2>2. i \in Upload /\ ~Private(i)
    BY <1>2, <2>1 DEF IInv, Typing, DirTypeOK, Name, Private
  <2> QED  BY <1>1, <1>2, <2>2
<1>3. ASSUME IInv, NEW r \in Download, rfd[r] # NoFile PROVE Unmixed(rfd[r])
  <2>1. rfd[r] \in Upload /\ ~Private(rfd[r])
    BY <1>3 DEF IInv, Typing, GetTypeOK, Private
  <2> QED  BY <1>1, <1>3, <2>1
<1>4. IInv => /\ CommittedUnmixed
              /\ \A r \in Download : rfd[r] # NoFile => Unmixed(rfd[r])
  BY <1>2, <1>3 DEF CommittedUnmixed
<1> QED  BY <1>4, Invariance, PTL

-----------------------------------------------------------------------------
(* What one step does to the names that are hashes.                        *)
LEMMA HashesOnlyGainOrLose ==
    ASSUME IInv, [Next]_vars, "power" \notin Faults
    PROVE  \A h \in Hash : dir[h] # NoFile => dir'[h] \in {dir[h], NoFile}
<1> SUFFICES ASSUME NEW h \in Hash, dir[h] # NoFile
             PROVE  dir'[h] \in {dir[h], NoFile}
  OBVIOUS
<1>1. dir \in [Name -> Upload \cup {NoFile}] /\ h \in Name /\ h \notin Upload
  BY DEF IInv, Typing, DirTypeOK, Name
<1>2. ASSUME NEW u \in Upload, PutRequest(u) PROVE dir'[h] \in {dir[h], NoFile}
  <2>1. CASE TempOpened(u) \/ TempRemoved(u)
    BY <1>1, <2>1 DEF TempOpened, TempRemoved, TempPath, Unlinked, dirVars
  <2>2. CASE Linked(u)
    BY <1>1, <2>2 DEF Linked, Exists
  <2>3. CASE ~TempOpened(u) /\ ~TempRemoved(u) /\ ~Linked(u)
    BY <1>2, <2>3 DEF PutRequest, PutStep, PutArrives, PutChecked, ChunkPulled,
       BodyDone, BodyFails, WriterEnded, dirVars
  <2> QED  BY <2>1, <2>2, <2>3
<1>3. ASSUME NEW r \in Download, GetRequest(r) PROVE dir' = dir
  BY <1>3 DEF GetRequest, GetStep, GetArrives, GetChecked, AccessStamped,
     StreamOpened, SizeRead, BodyClosed, dirVars
<1>4. CASE Sweep \/ (\E k \in Hash : Prune(k))
  <2>1. dir' = dir \/ (\E n : dir' = Unlinked(n))
    BY <1>4 DEF Prune, Sweep, SweepStarts, SweepStep, EntryStatted, ScanFails,
       ScanEnds, ExpiredEvicted, TtlPassEnds, OldestEvicted, SizePassEnds,
       Deleted, Missing, Failed, dirVars
  <2> QED  BY <1>1, <2>1 DEF Unlinked
<1>5. CASE Restart
  BY <1>1, <1>5 DEF Restart
<1>6. CASE Clock \/ Crash \/ UNCHANGED vars
  BY <1>6 DEF Clock, Tick, Crash, PowerCut, vars, historyVars, dirVars
<1> QED  BY <1>2, <1>3, <1>4, <1>5, <1>6 DEF Next

(***************************************************************************)
(* The cache is append-only: no step puts another file under a hash that   *)
(* has one, unless the power fails (file-system.ts:179-183).               *)
(***************************************************************************)
THEOREM EntriesAreNeverReplaced ==
    ASSUME "power" \notin Faults
    PROVE  Spec => NeverReplaced
<1>1. IInv /\ [Next]_vars =>
        [\A h \in Hash : dir[h] # NoFile => dir'[h] \in {dir[h], NoFile}]_vars
  BY HashesOnlyGainOrLose
<1> QED  BY <1>1, Invariance, PTL DEF Spec, NeverReplaced
=============================================================================
