------------------------ MODULE FsCacheAnswers_proofs ------------------------
(***************************************************************************)
(* What FsCacheServer answers and what its sweep decides on: first writer  *)
(* wins, a 500 has a cause, no buffer is orphaned, the sweep never acts on *)
(* a stale record, and the server implements AppendOnlyCache.  The         *)
(* invariant adds to that of FsCacheServer_proofs how answers go with      *)
(* entries and descriptors: an entry is the upload that was answered 200   *)
(* for its hash, and a request whose outcome is open has no answer yet.    *)
(***************************************************************************)
EXTENDS FsCacheServer_proofs

PutAnswerInv(u) ==
    /\ wname[u] \in Hash \cup {NoFile}
    /\ wpc[u] = "idle" => wname[u] = NoFile
    /\ wpc[u] \in {"idle", "exists", "mkdir", "stream", "end", "link"} => wanswer[u] = 0
    /\ wanswer[u] \in {200, 409} => wname[u] \in Hash

GetAnswerInv(r) ==
    /\ rname[r] \in Hash \cup {NoFile}
    /\ rpc[r] = "idle" => rname[r] = NoFile
    /\ rpc[r] \in {"idle", "exists", "utimes", "open"} => rfd[r] = NoFile /\ ranswer[r] = 0
    /\ rpc[r] = "size" => rfd[r] # NoFile /\ ranswer[r] = 0
    /\ rpc[r] = "body" => rfd[r] # NoFile /\ ranswer[r] = 200
    /\ ranswer[r] = 200 => rfd[r] # NoFile

EntryAnswered(h) ==
    dir[h] # NoFile => wname[dir[h]] = h /\ wanswer[dir[h]] = 200

AInv ==
    /\ IInv
    /\ \A u \in Upload : PutAnswerInv(u)
    /\ \A r \in Download : GetAnswerInv(r)
    /\ \A h \in Hash : EntryAnswered(h)
    /\ ConflictHasWinner

USE NamesAssumption

-----------------------------------------------------------------------------
(* What a step of an upload can come to.                                   *)

HashesKept == \A h \in Hash : dir'[h] = dir[h]

PutSame(u) ==
    wpc'[u] = wpc[u] /\ wname'[u] = wname[u] /\ wanswer'[u] = wanswer[u]

GetSame(r) ==
    /\ rpc'[r] = rpc[r] /\ rname'[r] = rname[r]
    /\ rfd'[r] = rfd[r] /\ ranswer'[r] = ranswer[r]

(* It goes on, or removes its buffer.                                      *)
PutMoves(u) ==
    /\ wname'[u] = wname[u] /\ wanswer'[u] = wanswer[u] /\ HashesKept
    /\ wpc[u] \notin {"idle", "lost"} /\ wpc'[u] \notin {"idle", "lost"}
    /\ wpc[u] = "rm" => wpc'[u] = "done"
    /\ wpc[u] # "rm" => wanswer[u] = 0

PutEnters(u) ==
    /\ wpc[u] = "idle" /\ wpc'[u] = "exists"
    /\ wname'[u] \in Hash /\ wanswer'[u] = wanswer[u] /\ HashesKept

(* It is answered; the answer is sent once the buffer is gone.             *)
PutEnds(u) ==
    /\ wpc[u] \in {"idle", "exists", "mkdir", "stream", "end", "link"}
    /\ wpc'[u] \in {"rm", "done"}
    /\ wname'[u] = wname[u]

PutFails(u) ==
    PutEnds(u) /\ wanswer'[u] \in {400, 403, 413, 500} /\ HashesKept

PutConflicts(u) ==
    /\ PutEnds(u) /\ wanswer'[u] = 409 /\ HashesKept
    /\ wname[u] \in Hash /\ dir[wname[u]] # NoFile

PutStores(u) ==
    /\ PutEnds(u) /\ wanswer'[u] = 200
    /\ wname[u] \in Hash /\ dir[wname[u]] = NoFile /\ dir'[wname[u]] = u
    /\ \A h \in Hash \ {wname[u]} : dir'[h] = dir[h]

LEMMA PutEffect ==
    ASSUME AInv, NEW u \in Upload, PutRequest(u)
    PROVE  /\ \A v \in Upload \ {u} : PutSame(v)
           /\ PutMoves(u) \/ PutEnters(u) \/ PutFails(u) \/ PutConflicts(u) \/ PutStores(u)
<1>1. /\ Typing /\ UploadInv(u) /\ PutAnswerInv(u)
      /\ dir \in [Name -> Upload \cup {NoFile}]
      /\ wpc \in [Upload -> WriteStates]
      /\ wname \in [Upload -> Name \cup {NoFile}]
      /\ wanswer \in [Upload -> {0, 200, 400, 403, 409, 413, 500}]
      /\ Hash \subseteq Name /\ Upload \subseteq Name
  BY DEF AInv, IInv, Typing, DirTypeOK, WriteTypeOK, Name
<1>2. \A h \in Hash : h # u
  OBVIOUS
<1>3. CASE PutArrives(u)
  <2>1. HashesKept
    BY <1>3 DEF PutArrives, dirVars, HashesKept
  <2>2. \A v \in Upload \ {u} : PutSame(v)
    BY <1>1, <1>3 DEF PutArrives, Respond, Goto, PutSame
  <2>3. PutEnters(u) \/ PutFails(u)
    BY <1>1, <1>3, <2>1
    DEF PutArrives, Respond, Goto, PutEnters, PutFails, PutEnds, isValidHash
  <2> QED  BY <2>2, <2>3
<1>4. CASE PutChecked(u)
  <2>1. HashesKept /\ wname' = wname /\ wname[u] \in Hash
    BY <1>1, <1>4 DEF PutChecked, dirVars, HashesKept, UploadInv, InFlight, WriteStates
  <2>2. \A v \in Upload \ {u} : PutSame(v)
    BY <1>1, <1>4 DEF PutChecked, Respond, Goto, PutSame
  <2>3. PutMoves(u) \/ PutFails(u) \/ PutConflicts(u)
    BY <1>1, <1>4, <2>1
    DEF PutChecked, Respond, Goto, PutMoves, PutFails, PutConflicts, PutEnds,
        PutAnswerInv, Exists
  <2> QED  BY <2>2, <2>3
<1>5. CASE TempOpened(u)
  <2>1. HashesKept /\ wname' = wname
    BY <1>1, <1>2, <1>5 DEF TempOpened, TempPath, dirVars, HashesKept
  <2>2. \A v \in Upload \ {u} : PutSame(v)
    BY <1>1, <1>5 DEF TempOpened, Respond, Goto, PutSame
  <2>3. PutMoves(u) \/ PutFails(u)
    BY <1>1, <1>5, <2>1
    DEF TempOpened, Respond, Goto, PutMoves, PutFails, PutEnds, PutAnswerInv
  <2> QED  BY <2>2, <2>3
<1>6. CASE ChunkPulled(u) \/ BodyDone(u) \/ BodyFails(u) \/ WriterEnded(u)
  <2>1. HashesKept /\ wname' = wname
    BY <1>6 DEF ChunkPulled, BodyDone, BodyFails, WriterEnded, dirVars, HashesKept
  <2>2. \/ \E status \in {400, 500} : Finally(u, status)
        \/ wanswer' = wanswer /\ (wpc' = wpc \/ \E s \in {"end", "link"} : Goto(u, s))
    BY <1>6 DEF ChunkPulled, BodyDone, BodyFails, WriterEnded
  <2>3. \A v \in Upload \ {u} : PutSame(v)
    BY <1>1, <2>1, <2>2 DEF Finally, Goto, PutSame
  <2>4. wpc[u] \in {"stream", "end"}
    BY <1>6 DEF ChunkPulled, BodyDone, BodyFails, WriterEnded
  <2>5. PutMoves(u) \/ PutFails(u)
    BY <1>1, <2>1, <2>2, <2>4
    DEF Finally, Goto, PutMoves, PutFails, PutEnds, PutAnswerInv
  <2> QED  BY <2>3, <2>5
<1>7. CASE Linked(u)
  <2>1. wname' = wname /\ wname[u] \in Hash /\ dir[u] = u /\ wpc[u] = "link"
    BY <1>1, <1>7 DEF Linked, UploadInv, InFlight, WriteStates
  <2>2. \A v \in Upload \ {u} : PutSame(v)
    BY <1>1, <1>7 DEF Linked, Finally, PutSame
  <2>3. CASE Finally(u, 500) /\ UNCHANGED dir
    BY <1>1, <2>1, <2>2, <2>3 DEF Finally, PutFails, PutEnds, HashesKept
  <2>4. CASE Exists(wname[u]) /\ Finally(u, 409) /\ UNCHANGED dir
    BY <1>1, <2>1, <2>2, <2>4 DEF Finally, PutConflicts, PutEnds, HashesKept, Exists
  <2>5. CASE /\ ~Exists(wname[u])
             /\ dir' = [dir EXCEPT ![wname[u]] = dir[TempPath(u)]]
             /\ Finally(u, 200)
    BY <1>1, <2>1, <2>2, <2>5 DEF Finally, PutStores, PutEnds, Exists, TempPath
  <2> QED  BY <1>7, <2>2, <2>3, <2>4, <2>5 DEF Linked
<1>8. CASE TempRemoved(u)
  <2>1. HashesKept
    BY <1>1, <1>2, <1>8 DEF TempRemoved, TempPath, Unlinked, HashesKept
  <2>2. \A v \in Upload \ {u} : PutSame(v)
    BY <1>1, <1>8 DEF TempRemoved, Goto, PutSame
  <2>3. PutMoves(u)
    BY <1>1, <1>8, <2>1 DEF TempRemoved, Goto, PutMoves
  <2> QED  BY <2>2, <2>3
<1> QED
  BY <1>3, <1>4, <1>5, <1>6, <1>7, <1>8 DEF PutRequest, PutStep

-----------------------------------------------------------------------------
(* What a step of a download can come to.                                  *)

GetMoves(r) ==
    /\ rname'[r] = rname[r] /\ rfd'[r] = rfd[r]
    /\ \/ /\ rpc[r] \in {"exists", "utimes"} /\ rpc'[r] \in {"utimes", "open"}
          /\ ranswer'[r] = ranswer[r]
       \/ rpc[r] = "size" /\ rpc'[r] = "body" /\ ranswer'[r] = 200
       \/ rpc[r] = "body" /\ rpc'[r] = "done" /\ ranswer'[r] = ranswer[r]

GetEnters(r) ==
    /\ rpc[r] = "idle" /\ rpc'[r] = "exists"
    /\ rname'[r] \in Hash /\ rfd'[r] = rfd[r] /\ ranswer'[r] = ranswer[r]

GetFails(r) ==
    /\ rpc[r] \in {"idle", "exists", "open"} /\ rpc'[r] = "done"
    /\ ranswer'[r] \in {400, 403, 500}
    /\ rname'[r] = rname[r] /\ rfd'[r] = rfd[r]

GetMisses(r) ==
    /\ rpc[r] = "exists" /\ rpc'[r] = "done" /\ ranswer'[r] = 404
    /\ rname'[r] = rname[r] /\ rfd'[r] = rfd[r]
    /\ rname[r] \in Hash /\ dir[rname[r]] = NoFile

GetHits(r) ==
    /\ rpc[r] = "open" /\ rpc'[r] = "size" /\ ranswer'[r] = ranswer[r]
    /\ rname[r] \in Hash /\ rname'[r] = rname[r]
    /\ dir[rname[r]] # NoFile /\ rfd'[r] = dir[rname[r]]

LEMMA GetEffect ==
    ASSUME AInv, NEW r \in Download, GetRequest(r)
    PROVE  /\ UNCHANGED <<dir, data, writeVars>>
           /\ \A q \in Download \ {r} : GetSame(q)
           /\ GetMoves(r) \/ GetEnters(r) \/ GetFails(r) \/ GetMisses(r) \/ GetHits(r)
<1>1. /\ DownloadInv(r) /\ GetAnswerInv(r)
      /\ rpc \in [Download -> GetStates]
      /\ rname \in [Download -> Name \cup {NoFile}]
      /\ rfd \in [Download -> Upload \cup {NoFile}]
      /\ ranswer \in [Download -> {0, 200, 400, 403, 404, 500}]
  BY DEF AInv, IInv, Typing, GetTypeOK
<1>2. UNCHANGED <<dir, data, writeVars>>
  BY DEF GetRequest, GetArrives, GetStep, GetChecked, AccessStamped, StreamOpened,
     SizeRead, BodyClosed, dirVars
<1>3. \A q \in Download \ {r} : GetSame(q)
  BY <1>1 DEF GetRequest, GetArrives, GetStep, GetChecked, AccessStamped, StreamOpened,
     SizeRead, BodyClosed, Answer, Proceed, GetSame
<1>4. CASE GetArrives(r)
  BY <1>1, <1>2, <1>3, <1>4 DEF GetArrives, Answer, Proceed, GetEnters, GetFails, isValidHash
<1>5. CASE GetChecked(r)
  BY <1>1, <1>2, <1>3, <1>5 DEF GetChecked, Answer, Proceed, GetMoves, GetFails, GetMisses,
     DownloadInv, Exists
<1>6. CASE AccessStamped(r)
  BY <1>1, <1>2, <1>3, <1>6 DEF AccessStamped, Proceed, GetMoves
<1>7. CASE StreamOpened(r)
  BY <1>1, <1>2, <1>3, <1>7 DEF StreamOpened, Answer, Proceed, GetFails, GetHits, DownloadInv, Exists
<1>8. CASE SizeRead(r) \/ BodyClosed(r)
  BY <1>1, <1>2, <1>3, <1>8 DEF SizeRead, BodyClosed, Proceed, GetMoves
<1> QED
  BY <1>2, <1>3, <1>4, <1>5, <1>6, <1>7, <1>8 DEF GetRequest, GetStep

-----------------------------------------------------------------------------
(* The invariant.                                                          *)

(* Requests keep their names and answers, entries are kept or dropped.     *)
LEMMA EntriesDrop ==
    ASSUME AInv, UNCHANGED <<wname, wanswer>>,
           \A h \in Hash : dir'[h] \in {dir[h], NoFile}
    PROVE  (\A h \in Hash : EntryAnswered(h)') /\ ConflictHasWinner'
<1>1. \A h \in Hash : EntryAnswered(h)'
  BY DEF AInv, EntryAnswered
<1>2. ConflictHasWinner'
  BY DEF AInv, ConflictHasWinner
<1> QED  BY <1>1, <1>2

(* An entry is there: the upload that made it was answered 200.            *)
LEMMA EntryWinner ==
    ASSUME AInv, NEW h \in Hash, dir[h] # NoFile
    PROVE  dir[h] \in Upload /\ wname[dir[h]] = h /\ wanswer[dir[h]] = 200
BY DEF AInv, IInv, Typing, DirTypeOK, Name, EntryAnswered

LEMMA PutAnswers ==
    ASSUME AInv, IInv', NEW u \in Upload, PutRequest(u)
    PROVE  AInv'
<1>1. \A v \in Upload \ {u} : PutSame(v)
  BY PutEffect
<1>2. PutMoves(u) \/ PutEnters(u) \/ PutFails(u) \/ PutConflicts(u) \/ PutStores(u)
  BY PutEffect
<1>3. /\ PutAnswerInv(u) /\ WriteTypeOK /\ \A v \in Upload : PutAnswerInv(v)
  BY DEF AInv, IInv, Typing
<1>4. PutAnswerInv(u)'
  BY <1>2, <1>3
  DEF PutAnswerInv, PutMoves, PutEnters, PutFails, PutConflicts, PutStores, PutEnds,
      WriteTypeOK, WriteStates
<1>5. \A v \in Upload : PutAnswerInv(v)'
  BY <1>1, <1>3, <1>4 DEF PutAnswerInv, PutSame
<1>6. \A r \in Download : GetAnswerInv(r)'
  BY DEF AInv, GetAnswerInv, PutRequest, getVars
<1>7. wanswer[u] # 0 => wanswer'[u] = wanswer[u] /\ wname'[u] = wname[u]
  BY <1>2, <1>3
  DEF PutAnswerInv, PutMoves, PutEnters, PutFails, PutConflicts, PutStores, PutEnds
<1>8. \A v \in Upload : wanswer[v] # 0 => wanswer'[v] = wanswer[v] /\ wname'[v] = wname[v]
  BY <1>1, <1>7 DEF PutSame
<1>9. \A h \in Hash : EntryAnswered(h)'
  <2>1. CASE PutStores(u)
    BY <1>8, <2>1, EntryWinner DEF PutStores, PutEnds, EntryAnswered
  <2>2. CASE HashesKept
    BY <1>8, <2>2, EntryWinner DEF HashesKept, EntryAnswered
  <2> QED
    BY <1>2, <2>1, <2>2 DEF PutMoves, PutEnters, PutFails, PutConflicts
<1>10. ConflictHasWinner'
  <2> SUFFICES ASSUME NEW v \in Upload, wanswer'[v] = 409
               PROVE  \E w \in Upload \ {v} : wname'[w] = wname'[v] /\ wanswer'[w] = 200
    BY DEF ConflictHasWinner
  <2>1. CASE wanswer[v] = 409
    <3>1. PICK w \in Upload \ {v} : wname[w] = wname[v] /\ wanswer[w] = 200
      BY <2>1 DEF AInv, ConflictHasWinner
    <3> QED
      BY <1>8, <2>1, <3>1
  <2>2. CASE wanswer[v] # 409
    <3>1. v = u /\ PutConflicts(u)
      BY <1>1, <1>2, <1>3, <2>2
      DEF PutSame, PutMoves, PutEnters, PutFails, PutStores, PutAnswerInv
    <3> DEFINE w == dir[wname[u]]
    <3>2. w \in Upload /\ wname[w] = wname[u] /\ wanswer[w] = 200
      BY <3>1, EntryWinner DEF PutConflicts
    <3>3. wname'[w] = wname[w] /\ wanswer'[w] = 200 /\ w # u
      BY <1>3, <1>8, <3>1, <3>2 DEF PutConflicts, PutEnds, PutAnswerInv
    <3> QED
      BY <3>1, <3>2, <3>3 DEF PutConflicts, PutEnds
  <2> QED  BY <2>1, <2>2
<1> QED  BY <1>5, <1>6, <1>9, <1>10 DEF AInv

LEMMA GetAnswers ==
    ASSUME AInv, IInv', NEW r \in Download, GetRequest(r)
    PROVE  AInv'
<1>1. /\ UNCHANGED <<dir, data, writeVars>>
      /\ \A q \in Download \ {r} : GetSame(q)
  BY GetEffect
<1>2. GetMoves(r) \/ GetEnters(r) \/ GetFails(r) \/ GetMisses(r) \/ GetHits(r)
  BY GetEffect
<1>3. GetAnswerInv(r) /\ \A q \in Download : GetAnswerInv(q)
  BY DEF AInv
<1>4. GetAnswerInv(r)'
  BY <1>2, <1>3
  DEF GetAnswerInv, GetMoves, GetEnters, GetFails, GetMisses, GetHits
<1>5. \A q \in Download : GetAnswerInv(q)'
  BY <1>1, <1>3, <1>4 DEF GetAnswerInv, GetSame
<1>6. \A u \in Upload : PutAnswerInv(u)'
  BY <1>1 DEF AInv, PutAnswerInv, writeVars
<1>7. (\A h \in Hash : EntryAnswered(h)') /\ ConflictHasWinner'
  BY <1>1, EntriesDrop DEF writeVars
<1> QED  BY <1>5, <1>6, <1>7 DEF AInv

(* A step that is none of a request's: entries may be dropped.             *)
LEMMA OtherAnswers ==
    ASSUME AInv, IInv', UNCHANGED <<writeVars, getVars>>,
           \A h \in Hash : dir'[h] \in {dir[h], NoFile}
    PROVE  AInv'
<1>1. \A u \in Upload : PutAnswerInv(u)'
  BY DEF AInv, PutAnswerInv, writeVars
<1>2. \A r \in Download : GetAnswerInv(r)'
  BY DEF AInv, GetAnswerInv, getVars
<1>3. (\A h \in Hash : EntryAnswered(h)') /\ ConflictHasWinner'
  BY EntriesDrop DEF writeVars
<1> QED  BY <1>1, <1>2, <1>3 DEF AInv

(* What the steps that are none of a request's do to the entries.          *)
LEMMA OtherEffect ==
    ASSUME AInv, Sweep \/ (\E h \in Hash : Prune(h)) \/ Clock \/ Restart \/ UNCHANGED vars
    PROVE  /\ UNCHANGED <<data, writeVars, getVars>>
           /\ HashesKept \/ \E h \in Hash : dir' = [dir EXCEPT ![h] = NoFile]
           /\ \A h \in Hash : dir'[h] \in {dir[h], NoFile}
<1>1. dir \in [Name -> Upload \cup {NoFile}] /\ Hash \subseteq Name
  BY DEF AInv, IInv, Typing, DirTypeOK, Name
<1>2. UNCHANGED <<data, writeVars, getVars>>
  BY DEF Sweep, SweepStarts, SweepStep, EntryStatted, ScanFails, ScanEnds,
     ExpiredEvicted, TtlPassEnds, OldestEvicted, SizePassEnds, Prune, Clock, Tick,
     Restart, vars, dirVars
<1>3. HashesKept \/ \E h \in Hash : dir' = [dir EXCEPT ![h] = NoFile]
  <2>1. CASE Sweep
    BY <2>1
    DEF AInv, IInv, Sweep, SweepStarts, SweepStep, EntryStatted, ScanFails, ScanEnds,
        ExpiredEvicted, TtlPassEnds, OldestEvicted, SizePassEnds, Deleted, Missing,
        Failed, Unlinked, dirVars, HashesKept
  <2>2. CASE Restart
    BY <1>1, <2>2 DEF Restart, HashesKept
  <2>3. CASE (\E h \in Hash : Prune(h)) \/ Clock \/ UNCHANGED vars
    BY <2>3 DEF Prune, Unlinked, Clock, Tick, vars, dirVars, HashesKept
  <2> QED  BY <2>1, <2>2, <2>3
<1>4. \A h \in Hash : dir'[h] \in {dir[h], NoFile}
  BY <1>1, <1>3 DEF HashesKept
<1> QED  BY <1>2, <1>3, <1>4

LEMMA CrashAnswers ==
    ASSUME AInv, IInv', Crash
    PROVE  AInv'
<1>1. UNCHANGED <<wname, wanswer, rname, rfd, ranswer>>
  BY DEF Crash, WritesLost, ReadsLost
<1>2. \A u \in Upload : PutAnswerInv(u)'
  BY <1>1 DEF AInv, PutAnswerInv, Crash, WritesLost
<1>3. \A r \in Download : GetAnswerInv(r)'
  BY <1>1 DEF AInv, GetAnswerInv, Crash, ReadsLost
<1>4. \A h \in Hash : EntryAnswered(h)'
  <2> SUFFICES ASSUME NEW h \in Hash PROVE EntryAnswered(h)'
    OBVIOUS
  <2>1. dir'[h] \in {dir[h], NoFile} \cup Earlier(h)
    BY CutTyped DEF AInv, IInv, Name
  <2>2. \A u \in Earlier(h) : wname[u] = h /\ wanswer[u] = 200
    BY DEF Earlier, TempPath
  <2> QED  BY <1>1, <2>1, <2>2 DEF AInv, EntryAnswered
<1>5. ConflictHasWinner'
  BY <1>1 DEF AInv, ConflictHasWinner
<1> QED  BY <1>2, <1>3, <1>4, <1>5 DEF AInv

LEMMA AnswersInit == Init => AInv
<1> SUFFICES ASSUME Init PROVE AInv
  OBVIOUS
<1>1. IInv
  BY InvariantInit
<1>2. \A u \in Upload : PutAnswerInv(u)
  BY DEF Init, WriteInit, PutAnswerInv
<1>3. \A r \in Download : GetAnswerInv(r)
  BY DEF Init, GetInit, GetAnswerInv
<1>4. (\A h \in Hash : EntryAnswered(h)) /\ ConflictHasWinner
  BY DEF Init, DirInit, WriteInit, Name, EntryAnswered, ConflictHasWinner
<1> QED  BY <1>1, <1>2, <1>3, <1>4 DEF AInv

LEMMA AnswersStep == AInv /\ [Next]_vars => AInv'
<1> SUFFICES ASSUME AInv, [Next]_vars PROVE AInv'
  OBVIOUS
<1>1. IInv'
  BY InvariantStep DEF AInv
<1>2. CASE \E u \in Upload : PutRequest(u)
  BY <1>1, <1>2, PutAnswers
<1>3. CASE \E r \in Download : GetRequest(r)
  BY <1>1, <1>3, GetAnswers
<1>4. CASE Crash
  BY <1>1, <1>4, CrashAnswers
<1>5. CASE Sweep \/ (\E h \in Hash : Prune(h)) \/ Clock \/ Restart \/ UNCHANGED vars
  BY <1>1, <1>5, OtherEffect, OtherAnswers
<1> QED  BY <1>2, <1>3, <1>4, <1>5 DEF Next

(* The answers go with the entries, in every reachable state.              *)
THEOREM AnswersInvariance == Spec => []AInv
BY AnswersInit, AnswersStep, PTL DEF Spec

(***************************************************************************)
(* An upload is answered 409 only for another one that is answered 200     *)
(* (write-cache.ts:63 and 137).                                            *)
(***************************************************************************)
THEOREM ConflictsHaveWinners == Spec => []ConflictHasWinner
<1>1. AInv => ConflictHasWinner
  BY DEF AInv
<1> QED  BY <1>1, AnswersInvariance, PTL

-----------------------------------------------------------------------------
(***************************************************************************)
(* The refinement.  What a client can look up or reads is intact, so the   *)
(* mapping shows it as it is; every step then fails some requests or none, *)
(* or changes the abstract state of one request or entry.                  *)
(***************************************************************************)
Shows ==
    /\ \A h \in Hash : entryOf(dir[h]) = dir[h]
    /\ \A r \in Download : entryOf(rfd[r]) = rfd[r]

LEMMA Shown ==
    ASSUME "power" \notin Faults
    PROVE  IInv => Shows
<1> SUFFICES ASSUME IInv PROVE Shows
  OBVIOUS
<1>1. CommittedIntact /\ ServedIntact
  BY PublishedIntact
<1>2. \A h \in Hash : dir[h] # NoFile => Intact(dir[h])
  BY <1>1 DEF CommittedIntact, Committed
<1> QED
  BY <1>1, <1>2 DEF Shows, entryOf, ServedIntact

LEMMA ShownNext ==
    ASSUME "power" \notin Faults
    PROVE  IInv' => Shows'
BY Shown, PTL

(* Entries and descriptors as they were.                                   *)
LEMMA StoreStill ==
    ASSUME "power" \notin Faults, IInv, IInv', HashesKept
    PROVE  UNCHANGED [h \in Hash |-> entryOf(dir[h])]
BY Shown, ShownNext DEF Shows, HashesKept

LEMMA GotStill ==
    ASSUME "power" \notin Faults, IInv, IInv', \A r \in Download : rfd'[r] = rfd[r]
    PROVE  UNCHANGED [r \in Download |-> entryOf(rfd[r])]
BY Shown, ShownNext DEF Shows

MayFail ==
    /\ \A u \in Upload : \/ putState(u)' = putState(u)
                         \/ putState(u) = "open" /\ putState(u)' = "failed"
    /\ \A r \in Download : \/ getState(r)' = getState(r)
                           \/ getState(r) = "open" /\ getState(r)' = "failed"

LEMMA StillFails ==
    ASSUME "power" \notin Faults, IInv, IInv', HashesKept,
           \A u \in Upload : wname'[u] = wname[u],
           \A r \in Download : rname'[r] = rname[r] /\ rfd'[r] = rfd[r], MayFail
    PROVE  Abstract!Fail
<1> DEFINE P == {u \in Upload : putState(u) = "open" /\ putState(u)' = "failed"}
           G == {r \in Download : getState(r) = "open" /\ getState(r)' = "failed"}
<1>1. P \in SUBSET {u \in Upload : [v \in Upload |-> putState(v)][u] = "open"}
  OBVIOUS
<1>2. G \in SUBSET {r \in Download : [q \in Download |-> getState(q)][r] = "open"}
  OBVIOUS
<1>3. [u \in Upload |-> putState(u)]' =
        [u \in Upload |-> IF u \in P THEN "failed" ELSE [v \in Upload |-> putState(v)][u]]
  BY DEF MayFail
<1>4. [r \in Download |-> getState(r)]' =
        [r \in Download |-> IF r \in G THEN "failed" ELSE [q \in Download |-> getState(q)][r]]
  BY DEF MayFail
<1>5. UNCHANGED <<[h \in Hash |-> entryOf(dir[h])], [r \in Download |-> entryOf(rfd[r])]>>
  BY StoreStill, GotStill
<1>6. UNCHANGED <<[u \in Upload |-> hashOf(wname[u])], [r \in Download |-> hashOf(rname[r])]>>
  OBVIOUS
<1> HIDE DEF P, G
<1> QED
  BY <1>1, <1>2, <1>3, <1>4, <1>5, <1>6 DEF Abstract!Fail

(* A request that does not move looks as it did.                           *)
LEMMA SameLook ==
    /\ \A u \in Upload : PutSame(u) => putState(u)' = putState(u)
    /\ \A r \in Download : GetSame(r) => getState(r)' = getState(r)
<1>1. ASSUME NEW u \in Upload, PutSame(u) PROVE putState(u)' = putState(u)
  BY <1>1 DEF PutSame, putState
<1>2. ASSUME NEW r \in Download, GetSame(r) PROVE getState(r)' = getState(r)
  BY <1>2 DEF GetSame, getState
<1> QED  BY <1>1, <1>2

(* One request changes its state, the others keep theirs.                  *)
LEMMA PutChanges ==
    ASSUME NEW u \in Upload, NEW s, putState(u)' = s,
           \A v \in Upload \ {u} : PutSame(v)
    PROVE  [v \in Upload |-> putState(v)]' = [[v \in Upload |-> putState(v)] EXCEPT ![u] = s]
<1>1. \A v \in Upload \ {u} : putState(v)' = putState(v)
  BY SameLook
<1> QED  BY <1>1

LEMMA GetChanges ==
    ASSUME NEW r \in Download, NEW s, getState(r)' = s,
           \A q \in Download \ {r} : GetSame(q)
    PROVE  [q \in Download |-> getState(q)]' = [[q \in Download |-> getState(q)] EXCEPT ![r] = s]
<1>1. \A q \in Download \ {r} : getState(q)' = getState(q)
  BY SameLook
<1> QED  BY <1>1

(* The parts of the abstract state a step of one side leaves alone.        *)
LEMMA GetsStill ==
    ASSUME UNCHANGED getVars
    PROVE  /\ UNCHANGED <<[r \in Download |-> hashOf(rname[r])], [r \in Download |-> getState(r)]>>
           /\ \A r \in Download : rfd'[r] = rfd[r]
BY DEF getVars, getState

LEMMA PutsStill ==
    ASSUME UNCHANGED writeVars
    PROVE  UNCHANGED <<[u \in Upload |-> hashOf(wname[u])], [u \in Upload |-> putState(u)]>>
BY DEF writeVars, putState

(* What the mapping shows of an upload before and after its step.          *)
LEMMA PutLooks ==
    ASSUME AInv, NEW u \in Upload
    PROVE  /\ PutMoves(u) => putState(u)' = putState(u)
           /\ PutEnters(u) => putState(u) = "open" /\ putState(u)' = "open"
           /\ PutFails(u) => putState(u) = "open" /\ putState(u)' = "failed"
           /\ PutConflicts(u) => putState(u) = "open" /\ putState(u)' = "conflict"
           /\ PutStores(u) => putState(u) = "open" /\ putState(u)' = "stored"
<1>1. PutAnswerInv(u)
  BY DEF AInv
<1>2. PutMoves(u) => putState(u)' = putState(u)
  BY DEF PutMoves, putState
<1>3. wpc[u] \in {"idle", "exists", "mkdir", "stream", "end", "link"} => putState(u) = "open"
  BY <1>1 DEF PutAnswerInv, putState
<1>4. PutEnters(u) => putState(u)' = "open"
  BY <1>1 DEF PutAnswerInv, PutEnters, putState
<1>5. PutFails(u) => putState(u)' = "failed"
  BY DEF PutFails, putState
<1>6. PutConflicts(u) => putState(u)' = "conflict"
  BY DEF PutConflicts, putState
<1>7. PutStores(u) => putState(u)' = "stored"
  BY DEF PutStores, putState
<1> QED
  BY <1>2, <1>3, <1>4, <1>5, <1>6, <1>7
  DEF PutEnters, PutFails, PutConflicts, PutStores, PutEnds

LEMMA GetLooks ==
    ASSUME AInv, NEW r \in Download
    PROVE  /\ GetMoves(r) => getState(r)' = getState(r)
           /\ GetEnters(r) => getState(r) = "open" /\ getState(r)' = "open"
           /\ GetFails(r) => getState(r) = "open" /\ getState(r)' = "failed"
           /\ GetMisses(r) => getState(r) = "open" /\ getState(r)' = "miss"
           /\ GetHits(r) => getState(r) = "open" /\ getState(r)' = "hit"
<1>1. GetAnswerInv(r)
  BY DEF AInv
<1>2. rpc[r] \in {"idle", "exists", "utimes", "open"} => getState(r) = "open"
  BY <1>1 DEF GetAnswerInv, getState
<1>3. rpc[r] \in {"size", "body"} => getState(r) = "hit"
  BY <1>1 DEF GetAnswerInv, getState
<1>4. GetMoves(r) => getState(r)' = getState(r)
  BY <1>1, <1>2, <1>3 DEF GetAnswerInv, GetMoves, getState
<1>5. GetEnters(r) => getState(r)' = "open"
  BY <1>1 DEF GetAnswerInv, GetEnters, getState
<1>6. GetFails(r) => getState(r)' = "failed"
  BY <1>1 DEF GetAnswerInv, GetFails, getState
<1>7. GetMisses(r) => getState(r)' = "miss"
  BY <1>1 DEF GetAnswerInv, GetMisses, getState
<1>8. GetHits(r) => getState(r)' = "hit"
  BY <1>1 DEF GetAnswerInv, GetHits, getState
<1>9. GetEnters(r) \/ GetFails(r) \/ GetMisses(r) \/ GetHits(r) => getState(r) = "open"
  BY <1>2 DEF GetEnters, GetFails, GetMisses, GetHits
<1> QED  BY <1>4, <1>5, <1>6, <1>7, <1>8, <1>9

LEMMA PutRefines ==
    ASSUME "power" \notin Faults, AInv, AInv', NEW u \in Upload, PutRequest(u)
    PROVE  Abstract!Fail \/ Abstract!BeginPut(u) \/ Abstract!Store(u) \/ Abstract!Conflict(u)
<1> DEFINE put == [v \in Upload |-> putState(v)]
           get == [r \in Download |-> getState(r)]
           target == [v \in Upload |-> hashOf(wname[v])]
           source == [r \in Download |-> hashOf(rname[r])]
           store == [h \in Hash |-> entryOf(dir[h])]
           got == [r \in Download |-> entryOf(rfd[r])]
<1>1. /\ IInv /\ IInv' /\ PutAnswerInv(u) /\ Shows /\ Shows'
      /\ wname \in [Upload -> Name \cup {NoFile}]
  BY Shown, ShownNext DEF AInv, IInv, Typing, WriteTypeOK
<1>2. /\ \A v \in Upload \ {u} : PutSame(v)
      /\ PutMoves(u) \/ PutEnters(u) \/ PutFails(u) \/ PutConflicts(u) \/ PutStores(u)
      /\ UNCHANGED getVars
  BY PutEffect DEF PutRequest
<1>3. UNCHANGED <<get, source, got>> /\ \A r \in Download : rfd'[r] = rfd[r]
  BY <1>1, <1>2, GetsStill, GotStill
<1>4. wname'[u] = wname[u] => UNCHANGED target
  BY <1>2 DEF PutSame
<1>5. HashesKept => UNCHANGED store
  BY <1>1, StoreStill
<1>6. put[u] = putState(u) /\ target[u] = hashOf(wname[u])
  OBVIOUS
<1>7. CASE PutMoves(u) \/ PutFails(u)
  <2>1. MayFail
    BY <1>2, <1>3, <1>7, SameLook, PutLooks DEF MayFail, getState, getVars
  <2>2. wname'[u] = wname[u] /\ HashesKept
    BY <1>7 DEF PutMoves, PutFails, PutEnds
  <2>3. /\ \A v \in Upload : wname'[v] = wname[v]
        /\ \A r \in Download : rname'[r] = rname[r]
    BY <1>2, <2>2 DEF PutSame, getVars
  <2> QED  BY <1>1, <1>3, <2>1, <2>2, <2>3, StillFails
<1>8. CASE PutEnters(u)
  <2>1. putState(u) = "open" /\ putState(u)' = "open" /\ wname[u] = NoFile
        /\ wname'[u] \in Hash /\ HashesKept
    BY <1>1, <1>8, PutLooks DEF PutEnters, PutAnswerInv
  <2>2. put' = [put EXCEPT ![u] = "open"]
    BY <1>2, <2>1, PutChanges
  <2>3. target' = [target EXCEPT ![u] = wname'[u]]
    BY <1>2, <2>1 DEF hashOf, PutSame
  <2>4. put[u] = "open" /\ target[u] = NoFile
    BY <1>6, <2>1 DEF hashOf
  <2>5. UNCHANGED store
    BY <1>5, <2>1
  <2> HIDE DEF put, get, target, source, store, got
  <2>6. \E h \in Hash \cup {NoFile}, s \in {"open", "failed"} :
          target' = [target EXCEPT ![u] = h] /\ put' = [put EXCEPT ![u] = s]
    BY <2>1, <2>2, <2>3
  <2> QED
    BY <1>3, <2>4, <2>5, <2>6 DEF Abstract!BeginPut, put, get, target, source, store, got
<1>9. CASE PutConflicts(u)
  <2>1. putState(u) = "open" /\ putState(u)' = "conflict" /\ wname'[u] = wname[u]
        /\ wname[u] \in Hash /\ dir[wname[u]] # NoFile /\ HashesKept
    BY <1>9, PutLooks DEF PutConflicts, PutEnds
  <2>2. put' = [put EXCEPT ![u] = "conflict"]
    BY <1>2, <2>1, PutChanges
  <2>3. put[u] = "open" /\ target[u] = wname[u] /\ target[u] \in Hash
    BY <1>6, <2>1 DEF hashOf
  <2>4. store[target[u]] # NoFile
    BY <1>1, <2>1, <2>3 DEF Shows
  <2>5. UNCHANGED <<store, target>>
    BY <1>4, <1>5, <2>1
  <2> HIDE DEF put, get, target, source, store, got
  <2> QED
    BY <1>3, <2>2, <2>3, <2>4, <2>5 DEF Abstract!Conflict, put, get, target, source, store, got
<1>10. CASE PutStores(u)
  <2>1. putState(u) = "open" /\ putState(u)' = "stored" /\ wname'[u] = wname[u]
        /\ wname[u] \in Hash /\ dir[wname[u]] = NoFile /\ dir'[wname[u]] = u
        /\ \A h \in Hash \ {wname[u]} : dir'[h] = dir[h]
    BY <1>10, PutLooks DEF PutStores, PutEnds
  <2>2. put' = [put EXCEPT ![u] = "stored"]
    BY <1>2, <2>1, PutChanges
  <2>3. put[u] = "open" /\ target[u] = wname[u] /\ target[u] \in Hash
    BY <1>6, <2>1 DEF hashOf
  <2>4. store[target[u]] = NoFile
    BY <1>1, <2>1, <2>3 DEF Shows
  <2>5. UNCHANGED target
    BY <1>4, <2>1
  <2>6. store' = [store EXCEPT ![target[u]] = u]
    <3>1. \A h \in Hash : entryOf(dir[h])' = IF h = wname[u] THEN u ELSE entryOf(dir[h])
      BY <1>1, <2>1 DEF Shows
    <3> QED  BY <2>3, <3>1
  <2> HIDE DEF put, get, target, source, store, got
  <2> QED
    BY <1>3, <2>2, <2>3, <2>4, <2>5, <2>6 DEF Abstract!Store, put, get, target, source, store, got
<1> QED  BY <1>2, <1>7, <1>8, <1>9, <1>10

LEMMA GetRefines ==
    ASSUME "power" \notin Faults, AInv, AInv', NEW r \in Download, GetRequest(r)
    PROVE  Abstract!Fail \/ Abstract!BeginGet(r) \/ Abstract!Hit(r) \/ Abstract!Miss(r)
<1> DEFINE put == [u \in Upload |-> putState(u)]
           get == [q \in Download |-> getState(q)]
           target == [u \in Upload |-> hashOf(wname[u])]
           source == [q \in Download |-> hashOf(rname[q])]
           store == [h \in Hash |-> entryOf(dir[h])]
           got == [q \in Download |-> entryOf(rfd[q])]
<1>1. /\ IInv /\ IInv' /\ GetAnswerInv(r) /\ Shows /\ Shows'
  BY Shown, ShownNext DEF AInv
<1>2. /\ UNCHANGED <<dir, writeVars>>
      /\ \A q \in Download \ {r} : GetSame(q)
      /\ GetMoves(r) \/ GetEnters(r) \/ GetFails(r) \/ GetMisses(r) \/ GetHits(r)
  BY GetEffect
<1>3. UNCHANGED <<put, target, store>> /\ HashesKept
  <2>1. HashesKept
    BY <1>2 DEF HashesKept
  <2> QED  BY <1>1, <1>2, <2>1, PutsStill, StoreStill
<1>4. rname'[r] = rname[r] => UNCHANGED source
  BY <1>2 DEF GetSame
<1>5. rfd'[r] = rfd[r] => (\A q \in Download : rfd'[q] = rfd[q]) /\ UNCHANGED got
  <2>1. rfd'[r] = rfd[r] => \A q \in Download : rfd'[q] = rfd[q]
    BY <1>2 DEF GetSame
  <2> QED  BY <1>1, <2>1, GotStill
<1>6. get[r] = getState(r) /\ source[r] = hashOf(rname[r])
  OBVIOUS
<1>7. CASE GetMoves(r) \/ GetFails(r)
  <2>1. rname'[r] = rname[r] /\ rfd'[r] = rfd[r]
    BY <1>7 DEF GetMoves, GetFails
  <2>2. \A q \in Download :
          getState(q)' = getState(q) \/ (getState(q) = "open" /\ getState(q)' = "failed")
    <3>1. getState(r)' = getState(r) \/ (getState(r) = "open" /\ getState(r)' = "failed")
      BY <1>7, GetLooks
    <3>2. \A q \in Download \ {r} : getState(q)' = getState(q)
      BY <1>2, SameLook
    <3> QED  BY <3>1, <3>2
  <2>3. \A u \in Upload : putState(u)' = putState(u)
    BY <1>2 DEF putState, writeVars
  <2>4. /\ \A u \in Upload : wname'[u] = wname[u]
        /\ \A q \in Download : rname'[q] = rname[q] /\ rfd'[q] = rfd[q]
    BY <1>2, <1>5, <2>1 DEF GetSame, writeVars
  <2>5. MayFail
    BY <2>2, <2>3 DEF MayFail
  <2> QED  BY <1>1, <1>3, <2>4, <2>5, StillFails
<1>8. CASE GetEnters(r)
  <2>1. getState(r) = "open" /\ getState(r)' = "open" /\ rname[r] = NoFile
        /\ rname'[r] \in Hash /\ rfd'[r] = rfd[r]
    BY <1>1, <1>8, GetLooks DEF GetEnters, GetAnswerInv
  <2>2. get' = [get EXCEPT ![r] = "open"]
    BY <1>2, <2>1, GetChanges
  <2>3. source' = [source EXCEPT ![r] = rname'[r]]
    BY <1>2, <2>1 DEF hashOf, GetSame
  <2>4. get[r] = "open" /\ source[r] = NoFile
    BY <1>6, <2>1 DEF hashOf
  <2>5. UNCHANGED got
    BY <1>5, <2>1
  <2> HIDE DEF put, get, target, source, store, got
  <2>6. \E h \in Hash \cup {NoFile}, s \in {"open", "failed"} :
          source' = [source EXCEPT ![r] = h] /\ get' = [get EXCEPT ![r] = s]
    BY <2>1, <2>2, <2>3
  <2> QED
    BY <1>3, <2>4, <2>5, <2>6 DEF Abstract!BeginGet, put, get, target, source, store, got
<1>9. CASE GetMisses(r)
  <2>1. getState(r) = "open" /\ getState(r)' = "miss" /\ rname'[r] = rname[r]
        /\ rname[r] \in Hash /\ dir[rname[r]] = NoFile /\ rfd'[r] = rfd[r]
    BY <1>9, GetLooks DEF GetMisses
  <2>2. get' = [get EXCEPT ![r] = "miss"]
    BY <1>2, <2>1, GetChanges
  <2>3. get[r] = "open" /\ source[r] = rname[r] /\ source[r] \in Hash
    BY <1>6, <2>1 DEF hashOf
  <2>4. store[source[r]] = NoFile
    BY <1>1, <2>1, <2>3 DEF Shows
  <2>5. UNCHANGED <<source, got>>
    BY <1>4, <1>5, <2>1
  <2> HIDE DEF put, get, target, source, store, got
  <2> QED
    BY <1>3, <2>2, <2>3, <2>4, <2>5 DEF Abstract!Miss, put, get, target, source, store, got
<1>10. CASE GetHits(r)
  <2>1. getState(r) = "open" /\ getState(r)' = "hit" /\ rname'[r] = rname[r]
        /\ rname[r] \in Hash /\ dir[rname[r]] # NoFile /\ rfd'[r] = dir[rname[r]]
    BY <1>10, GetLooks DEF GetHits
  <2>2. get' = [get EXCEPT ![r] = "hit"]
    BY <1>2, <2>1, GetChanges
  <2>3. get[r] = "open" /\ source[r] = rname[r] /\ source[r] \in Hash
    BY <1>6, <2>1 DEF hashOf
  <2>4. store[source[r]] = dir[rname[r]] /\ store[source[r]] # NoFile
    BY <1>1, <2>1, <2>3 DEF Shows
  <2>5. UNCHANGED source
    BY <1>4, <2>1
  <2>6. got' = [got EXCEPT ![r] = store[source[r]]]
    <3>1. \A q \in Download : entryOf(rfd[q])' = IF q = r THEN dir[rname[r]] ELSE entryOf(rfd[q])
      BY <1>1, <1>2, <2>1 DEF Shows, GetSame
    <3> QED  BY <2>4, <3>1
  <2> HIDE DEF put, get, target, source, store, got
  <2> QED
    BY <1>3, <2>2, <2>3, <2>4, <2>5, <2>6 DEF Abstract!Hit, put, get, target, source, store, got
<1> QED  BY <1>2, <1>7, <1>8, <1>9, <1>10

(* A step that is none of a request's drops one entry, or shows nothing.   *)
LEMMA OtherRefines ==
    ASSUME "power" \notin Faults, AInv, AInv',
           Sweep \/ (\E h \in Hash : Prune(h)) \/ Clock \/ Restart \/ UNCHANGED vars
    PROVE  Abstract!Fail \/ \E h \in Hash : Abstract!Drop(h)
<1>1. /\ IInv /\ IInv' /\ Shows /\ Shows'
      /\ dir \in [Name -> Upload \cup {NoFile}] /\ Hash \subseteq Name
  BY Shown, ShownNext DEF AInv, IInv, Typing, DirTypeOK, Name
<1>2. /\ UNCHANGED <<writeVars, getVars>>
      /\ HashesKept \/ \E h \in Hash : dir' = [dir EXCEPT ![h] = NoFile]
  BY OtherEffect
<1>3. UNCHANGED <<wname, rname, rfd>>
  BY <1>2 DEF writeVars, getVars
<1>4. UNCHANGED <<[u \in Upload |-> hashOf(wname[u])], [u \in Upload |-> putState(u)],
                  [r \in Download |-> hashOf(rname[r])], [r \in Download |-> getState(r)],
                  [r \in Download |-> entryOf(rfd[r])]>>
  BY <1>1, <1>2, PutsStill, GetsStill, GotStill
<1>5. CASE HashesKept
  <2>1. MayFail
    BY <1>2 DEF MayFail, putState, getState, writeVars, getVars
  <2> QED  BY <1>1, <1>3, <1>5, <2>1, StillFails
<1>6. CASE \E h \in Hash : dir' = [dir EXCEPT ![h] = NoFile]
  <2>1. PICK h \in Hash : dir' = [dir EXCEPT ![h] = NoFile]
    BY <1>6
  <2>2. \A g \in Hash : entryOf(dir[g])' = IF g = h THEN NoFile ELSE entryOf(dir[g])
    BY <1>1, <2>1 DEF Shows
  <2>3. [g \in Hash |-> entryOf(dir[g])]' = [[g \in Hash |-> entryOf(dir[g])] EXCEPT ![h] = NoFile]
    BY <2>2
  <2>4. Abstract!Drop(h)
    BY <1>4, <2>3 DEF Abstract!Drop
  <2> QED  BY <2>4
<1> QED  BY <1>2, <1>5, <1>6

LEMMA CrashRefines ==
    ASSUME "power" \notin Faults, AInv, AInv', Crash
    PROVE  Abstract!Fail
<1>1. IInv /\ IInv' /\ \A r \in Download : GetAnswerInv(r)
  BY DEF AInv
<1>2. UNCHANGED <<dir, wname, wanswer, rname, rfd, ranswer>> /\ HashesKept
  BY DEF Crash, PowerCut, WritesLost, ReadsLost, HashesKept
<1>3. ASSUME NEW u \in Upload
      PROVE  putState(u)' = putState(u) \/ (putState(u) = "open" /\ putState(u)' = "failed")
  <2>1. wpc'[u] = wpc[u] \/ wpc'[u] = "lost"
    BY DEF Crash, WritesLost
  <2> QED  BY <1>2, <2>1 DEF putState
<1>4. ASSUME NEW r \in Download
      PROVE  getState(r)' = getState(r) \/ (getState(r) = "open" /\ getState(r)' = "failed")
  <2>1. rpc'[r] = rpc[r] \/ rpc'[r] = "lost"
    BY DEF Crash, ReadsLost
  <2> QED  BY <1>2, <2>1 DEF getState
<1>5. MayFail
  BY <1>3, <1>4 DEF MayFail
<1> QED  BY <1>1, <1>2, <1>5, StillFails

LEMMA InitRefines == Init => Abstract!Init
<1> SUFFICES ASSUME Init PROVE Abstract!Init
  OBVIOUS
<1>1. \A u \in Upload : putState(u) = "open" /\ hashOf(wname[u]) = NoFile
  BY DEF Init, WriteInit, putState, hashOf
<1>2. \A r \in Download :
        getState(r) = "open" /\ hashOf(rname[r]) = NoFile /\ entryOf(rfd[r]) = NoFile
  BY DEF Init, GetInit, getState, hashOf, entryOf
<1>3. \A h \in Hash : entryOf(dir[h]) = NoFile
  BY DEF Init, DirInit, entryOf, Name
<1> QED  BY <1>1, <1>2, <1>3 DEF Abstract!Init

LEMMA StepRefines ==
    ASSUME "power" \notin Faults
    PROVE  AInv /\ [Next]_vars => [Abstract!Next]_Abstract!vars
<1> SUFFICES ASSUME AInv, [Next]_vars PROVE Abstract!Next
  OBVIOUS
<1>1. AInv'
  BY AnswersStep
<1>2. CASE \E u \in Upload : PutRequest(u)
  BY <1>1, <1>2, PutRefines DEF Abstract!Next
<1>3. CASE \E r \in Download : GetRequest(r)
  BY <1>1, <1>3, GetRefines DEF Abstract!Next
<1>4. CASE Crash
  BY <1>1, <1>4, CrashRefines DEF Abstract!Next
<1>5. CASE Sweep \/ (\E h \in Hash : Prune(h)) \/ Clock \/ Restart \/ UNCHANGED vars
  BY <1>1, <1>5, OtherRefines DEF Abstract!Next
<1> QED  BY <1>2, <1>3, <1>4, <1>5 DEF Next

(***************************************************************************)
(* Whatever fails but the power, and for any number of requests, sweeps    *)
(* and restarts, the server behaves as an append-only cache: a hit is the  *)
(* whole upload stored first, a miss and a conflict were true when they    *)
(* were decided (write-cache.ts, get-cache.ts, file-system.ts).            *)
(***************************************************************************)
THEOREM ServerIsAppendOnly ==
    ASSUME "power" \notin Faults
    PROVE  Spec => ImplementsAppendOnlyCache
BY InitRefines, StepRefines, AnswersInvariance, PTL
   DEF Spec, ImplementsAppendOnlyCache, Abstract!Spec

-----------------------------------------------------------------------------
(* First writer wins, while nothing deletes entries and the power is on.   *)

NoDeletion == "prune" \notin Faults /\ TtlMs = NoLimit /\ MaxBytes = NoLimit

WinnerKept == \A u \in Upload : wanswer[u] = 200 => dir[wname[u]] = u

WInv == AInv /\ epc = "idle" /\ WinnerKept

LEMMA WinnersStep ==
    ASSUME NoDeletion, "power" \notin Faults
    PROVE  WInv /\ [Next]_vars => WInv'
<1> SUFFICES ASSUME WInv, [Next]_vars PROVE WInv'
  OBVIOUS
<1>1. AInv' /\ AInv /\ \A u \in Upload : PutAnswerInv(u)
  BY AnswersStep DEF WInv, AInv
<1>2. ASSUME HashesKept, UNCHANGED <<wname, wanswer>>
      PROVE  WinnerKept'
  BY <1>1, <1>2 DEF WInv, WinnerKept, HashesKept, PutAnswerInv
<1>3. CASE \E u \in Upload : PutRequest(u)
  <2>1. PICK u \in Upload : PutRequest(u)
    BY <1>3
  <2>2. /\ \A v \in Upload \ {u} : PutSame(v)
        /\ PutMoves(u) \/ PutEnters(u) \/ PutFails(u) \/ PutConflicts(u) \/ PutStores(u)
    BY <1>1, <2>1, PutEffect
  <2>3. epc' = "idle"
    BY <2>1 DEF WInv, PutRequest, sweepVars
  <2>4. CASE PutStores(u)
    <3>1. \A v \in Upload \ {u} : wanswer[v] = 200 => wname[v] \in Hash \ {wname[u]}
      BY <1>1, <2>4 DEF WInv, WinnerKept, PutStores, PutAnswerInv
    <3>2. \A v \in Upload \ {u} : wanswer'[v] = 200 => dir'[wname'[v]] = v
      BY <2>2, <2>4, <3>1 DEF WInv, WinnerKept, PutStores, PutSame
    <3>3. dir'[wname'[u]] = u
      BY <2>4 DEF PutStores, PutEnds
    <3> QED  BY <1>1, <2>3, <3>2, <3>3 DEF WInv, WinnerKept
  <2>5. CASE PutMoves(u) \/ PutEnters(u) \/ PutFails(u) \/ PutConflicts(u)
    <3>1. HashesKept
      BY <2>5 DEF PutMoves, PutEnters, PutFails, PutConflicts
    <3>2. \A v \in Upload : wanswer'[v] = 200 => wanswer[v] = 200 /\ wname'[v] = wname[v]
      BY <1>1, <2>2, <2>5
      DEF PutSame, PutMoves, PutEnters, PutFails, PutConflicts, PutEnds, PutAnswerInv
    <3> QED
      BY <1>1, <2>3, <3>1, <3>2 DEF WInv, WinnerKept, HashesKept, PutAnswerInv
  <2> QED  BY <2>2, <2>4, <2>5
<1>4. CASE \E r \in Download : GetRequest(r)
  <2>1. HashesKept /\ UNCHANGED <<wname, wanswer, epc>>
    BY <1>1, <1>4, GetEffect DEF GetRequest, writeVars, sweepVars, HashesKept
  <2> QED  BY <1>1, <1>2, <2>1 DEF WInv
<1>5. CASE Crash
  <2>1. HashesKept /\ UNCHANGED <<wname, wanswer>> /\ epc' = "idle"
    BY <1>5 DEF Crash, PowerCut, WritesLost, SweepLost, SweepReturns, HashesKept
  <2> QED  BY <1>1, <1>2, <2>1 DEF WInv
<1>6. CASE Restart
  <2>1. HashesKept /\ UNCHANGED <<wname, wanswer, epc>>
    BY <1>6 DEF Restart, HashesKept, writeVars, sweepVars, Name
  <2> QED  BY <1>1, <1>2, <2>1 DEF WInv
<1>7. CASE Clock \/ UNCHANGED vars
  <2>1. HashesKept /\ UNCHANGED <<wname, wanswer, epc>>
    BY <1>7 DEF Clock, Tick, vars, dirVars, writeVars, sweepVars, HashesKept
  <2> QED  BY <1>1, <1>2, <2>1 DEF WInv
<1>8. ~Sweep /\ \A h \in Hash : ~Prune(h)
  BY DEF WInv, NoDeletion, Sweep, SweepStarts, evictionEnabled, SweepStep, EntryStatted,
     ScanFails, ScanEnds, ExpiredEvicted, TtlPassEnds, OldestEvicted, SizePassEnds, Prune
<1> QED  BY <1>3, <1>4, <1>5, <1>6, <1>7, <1>8 DEF Next

(***************************************************************************)
(* Without an eviction limit and without the cron job at most one upload   *)
(* of a hash is ever answered 200, over any number of deaths of the        *)
(* process (file-system.ts:179-183).  A power cut may undo the link of an  *)
(* upload that was answered 200 and so let another one win.                *)
(***************************************************************************)
THEOREM FirstWriterWins ==
    ASSUME NoDeletion, "power" \notin Faults
    PROVE  Spec => []OneWinner
<1>1. Init => WInv
  BY AnswersInit DEF Init, WriteInit, SweepInit, WInv, WinnerKept
<1>2. WInv /\ [Next]_vars => WInv'
  BY WinnersStep
<1>3. WInv => OneWinner
  BY DEF WInv, WinnerKept, OneWinner
<1> QED  BY <1>1, <1>2, <1>3, PTL DEF Spec

-----------------------------------------------------------------------------
(* No orphaned buffer.                                                     *)

Orphaned(u) == dir[u] # NoFile /\ wpc[u] \notin {"stream", "end", "link", "rm"}

OInv == IInv /\ (up => \A u \in Upload : ~Orphaned(u))

LEMMA BuffersStep ==
    ASSUME "rm" \notin Faults, "startup" \notin Faults
    PROVE  OInv /\ [Next]_vars => OInv'
<1> SUFFICES ASSUME OInv, [Next]_vars PROVE OInv'
  OBVIOUS
<1>1. /\ IInv' /\ IInv
      /\ dir \in [Name -> Upload \cup {NoFile}]
      /\ wpc \in [Upload -> WriteStates] /\ wname \in [Upload -> Name \cup {NoFile}]
      /\ \A u \in Upload : UploadInv(u)
      /\ Hash \subseteq Name /\ Upload \subseteq Name
  BY InvariantStep DEF OInv, IInv, Typing, DirTypeOK, WriteTypeOK, Name
<1>2. ASSUME \A u \in Upload : dir'[u] \in {dir[u], NoFile}, UNCHANGED <<wpc, up>>
      PROVE  OInv'
  BY <1>1, <1>2 DEF OInv, Orphaned
<1>3. CASE \E u \in Upload : PutRequest(u)
  <2>1. PICK u \in Upload : PutRequest(u)
    BY <1>3
  <2>2. up /\ \A v \in Upload : ~Orphaned(v)
    BY <2>1 DEF OInv, PutRequest
  <2>3. wpc[u] = "link" => wname[u] \in Hash /\ wname[u] \notin Upload
    BY <1>1 DEF UploadInv, InFlight, WriteStates
  <2>4. \A v \in Upload \ {u} : dir'[v] = dir[v] /\ wpc'[v] = wpc[v]
    BY <1>1, <2>1, <2>3
    DEF PutRequest, PutArrives, PutStep, PutChecked, TempOpened, ChunkPulled, BodyDone,
        BodyFails, WriterEnded, Linked, TempRemoved, Respond, Finally, Goto, Unlinked,
        TempPath, dirVars
  <2>5. ~Orphaned(u)'
    <3>1. CASE PutArrives(u) \/ PutChecked(u)
      BY <1>1, <3>1
      DEF PutArrives, PutChecked, Orphaned, UploadInv, dirVars
    <3>2. CASE TempOpened(u)
      BY <1>1, <3>2
      DEF TempOpened, Respond, Goto, Orphaned, UploadInv, dirVars
    <3>3. CASE ChunkPulled(u) \/ BodyDone(u) \/ BodyFails(u) \/ WriterEnded(u) \/ Linked(u)
      BY <1>1, <3>3
      DEF ChunkPulled, BodyDone, BodyFails, WriterEnded, Linked, Finally, Goto, Orphaned
    <3>4. CASE TempRemoved(u)
      BY <1>1, <3>4 DEF TempRemoved, Unlinked, TempPath, Orphaned
    <3> QED
      BY <2>1, <3>1, <3>2, <3>3, <3>4 DEF PutRequest, PutStep
  <2> QED  BY <1>1, <2>2, <2>4, <2>5 DEF OInv, Orphaned
<1>4. CASE \E r \in Download : GetRequest(r)
  BY <1>2, <1>4
  DEF GetRequest, GetArrives, GetStep, GetChecked, AccessStamped, StreamOpened, SizeRead,
      BodyClosed, dirVars, writeVars
<1>5. CASE Crash
  BY <1>1, <1>5 DEF Crash, OInv
<1>6. CASE Restart
  <2>1. \A u \in Upload : dir'[u] = NoFile
    BY <1>1, <1>6 DEF Restart
  <2> QED  BY <1>1, <2>1 DEF OInv, Orphaned
<1>7. CASE Sweep
  <2>1. UNCHANGED <<wpc, up>>
    BY <1>7 DEF Sweep, writeVars
  <2>2. dir' = dir \/ \E h \in Hash : dir' = [dir EXCEPT ![h] = NoFile]
    BY <1>1, <1>7
    DEF IInv, Sweep, SweepStarts, SweepStep, EntryStatted, ScanFails, ScanEnds,
        ExpiredEvicted, TtlPassEnds, OldestEvicted, SizePassEnds, Deleted, Missing,
        Failed, Unlinked, dirVars
  <2> QED  BY <1>1, <1>2, <2>1, <2>2
<1>8. CASE (\E h \in Hash : Prune(h)) \/ Clock \/ UNCHANGED vars
  BY <1>1, <1>2, <1>8 DEF Prune, Unlinked, Clock, Tick, vars, dirVars, writeVars
<1> QED  BY <1>3, <1>4, <1>5, <1>6, <1>7, <1>8 DEF Next

(***************************************************************************)
(* Where the removals of the server succeed, no buffer outlives its upload *)
(* while the server runs, nor a crash once it runs again (file-system.ts:  *)
(* 59-72 and 189-193).                                                     *)
(***************************************************************************)
THEOREM BuffersAreNotOrphaned ==
    ASSUME "rm" \notin Faults, "startup" \notin Faults
    PROVE  Spec => []NoOrphanBuffers
<1>1. Init => OInv
  BY InvariantInit DEF Init, DirInit, Name, OInv, Orphaned
<1>2. OInv /\ [Next]_vars => OInv'
  BY BuffersStep
<1>3. OInv => NoOrphanBuffers
  BY DEF OInv, Orphaned, NoOrphanBuffers, Exists, TempPath
<1> QED  BY <1>1, <1>2, <1>3, PTL DEF Spec

-----------------------------------------------------------------------------
(* No 500 without a cause.                                                 *)

CallsSucceed == Faults \cap {"exists", "open", "write", "link", "client"} = {}

(* An upload of hash h was answered 200.                                   *)
Winner(h) == \E u \in Upload : wanswer[u] = 200 /\ wname[u] = h

WasDropped(h) == \E u \in Upload : wanswer[u] = 200 /\ wname[u] = h /\ dir[h] # u

ErrorInv ==
    /\ \A u \in Upload : wanswer[u] # 500
    /\ \A r \in Download :
        /\ rpc[r] \in {"utimes", "open"} => Winner(rname[r])
        /\ ranswer[r] = 500 => WasDropped(rname[r])

EInv == AInv /\ ErrorInv

(* Uploads keep their 200; a dropped entry does not come back.             *)
LEMMA DroppedStays ==
    ASSUME AInv, NEW h \in Hash,
           \A u \in Upload : wanswer[u] = 200 => wanswer'[u] = 200 /\ wname'[u] = wname[u],
           \A u \in Upload : wanswer[u] = 200 => dir'[wname[u]] = dir[wname[u]] \/ dir'[wname[u]] # u
    PROVE  (Winner(h) => Winner(h)') /\ (WasDropped(h) => WasDropped(h)')
BY DEF Winner, WasDropped

LEMMA PutErrors ==
    ASSUME CallsSucceed, EInv, AInv', NEW u \in Upload, PutRequest(u)
    PROVE  ErrorInv'
<1>1. /\ \A v \in Upload \ {u} : PutSame(v)
      /\ PutMoves(u) \/ PutEnters(u) \/ PutFails(u) \/ PutConflicts(u) \/ PutStores(u)
      /\ AInv /\ \A v \in Upload : PutAnswerInv(v)
      /\ UNCHANGED getVars
  BY PutEffect DEF EInv, AInv, PutRequest
<1>2. \A v \in Upload : wanswer[v] = 200 => wanswer'[v] = 200 /\ wname'[v] = wname[v]
  BY <1>1 DEF PutSame, PutMoves, PutEnters, PutFails, PutConflicts, PutStores, PutEnds,
     PutAnswerInv
<1>3. \A v \in Upload : wanswer[v] = 200 =>
         dir'[wname[v]] = dir[wname[v]] \/ dir'[wname[v]] # v
  BY <1>1 DEF PutMoves, PutEnters, PutFails, PutConflicts, PutStores, PutEnds,
     PutAnswerInv, HashesKept
<1>4. wanswer'[u] # 500
  <2>1. /\ UploadInv(u) /\ wanswer[u] # 500
        /\ wanswer \in [Upload -> {0, 200, 400, 403, 409, 413, 500}]
    BY <1>1 DEF EInv, ErrorInv, AInv, IInv, Typing, WriteTypeOK
  <2> QED
    BY <2>1
    DEF CallsSucceed, PutRequest, PutArrives, PutStep, PutChecked, TempOpened, ChunkPulled,
        BodyDone, BodyFails, WriterEnded, Linked, TempRemoved, Respond, Finally, Goto,
        UploadInv, Exists, TempPath
<1>5. \A v \in Upload : wanswer'[v] # 500
  BY <1>1, <1>4 DEF EInv, ErrorInv, PutSame
<1>6. \A r \in Download :
        /\ rpc[r] \in {"utimes", "open"} => rname[r] \in Hash
        /\ ranswer[r] = 500 => WasDropped(rname[r]) /\ rname[r] \in Hash
  BY DEF EInv, ErrorInv, AInv, IInv, DownloadInv, WasDropped, PutAnswerInv
<1> QED
  BY <1>1, <1>2, <1>3, <1>5, <1>6, DroppedStays DEF EInv, ErrorInv, getVars

LEMMA GetErrors ==
    ASSUME CallsSucceed, EInv, AInv', NEW r \in Download, GetRequest(r)
    PROVE  ErrorInv'
<1>1. /\ UNCHANGED <<dir, wname, wanswer>>
      /\ \A q \in Download \ {r} : GetSame(q)
      /\ AInv /\ GetAnswerInv(r) /\ DownloadInv(r)
      /\ rpc \in [Download -> GetStates]
      /\ rname \in [Download -> Name \cup {NoFile}]
      /\ ranswer \in [Download -> {0, 200, 400, 403, 404, 500}]
  BY GetEffect DEF EInv, AInv, IInv, Typing, GetTypeOK, writeVars
<1>2. ASSUME NEW q \in Download, rname'[q] = rname[q]
      PROVE  (Winner(rname[q]) <=> Winner(rname[q])') /\ (WasDropped(rname[q]) <=> WasDropped(rname[q])')
  BY <1>1, <1>2 DEF Winner, WasDropped
<1>3. /\ rpc[r] \in {"utimes", "open"} => Winner(rname[r])
      /\ ranswer[r] = 500 => WasDropped(rname[r])
  BY DEF EInv, ErrorInv
<1>4. (rpc'[r] \in {"utimes", "open"} => Winner(rname[r])')
        /\ (ranswer'[r] = 500 => WasDropped(rname[r])')
  <2>2. CASE GetArrives(r)
    BY <1>1, <2>2 DEF GetArrives, Answer, Proceed, GetAnswerInv
  <2>3. CASE GetChecked(r)
    <3>1. rpc[r] = "exists" /\ rname[r] \in Hash /\ rname' = rname /\ ranswer[r] = 0
      BY <1>1, <2>3 DEF GetChecked, DownloadInv, GetAnswerInv
    <3>2. \/ rpc'[r] = "done" /\ ranswer'[r] = 404
          \/ dir[rname[r]] # NoFile /\ rpc'[r] = "utimes" /\ ranswer'[r] = 0
      <4>1. "exists" \notin Faults
        BY DEF CallsSucceed
      <4> QED
        BY <1>1, <2>3, <3>1, <4>1 DEF GetChecked, Answer, Proceed, Exists
    <3>3. dir[rname[r]] # NoFile => Winner(rname[r])
      BY <1>1, <3>1, EntryWinner DEF Winner
    <3> QED  BY <1>2, <3>1, <3>2, <3>3
  <2>4. CASE AccessStamped(r)
    <3>1. rpc[r] = "utimes" /\ rname' = rname /\ ranswer' = ranswer
      BY <2>4 DEF AccessStamped, Proceed
    <3> QED  BY <1>2, <1>3, <3>1
  <2>5. CASE StreamOpened(r)
    <3>1. rpc[r] = "open" /\ rname[r] \in Hash /\ rname' = rname /\ ranswer[r] = 0
      BY <1>1, <2>5 DEF StreamOpened, DownloadInv, GetAnswerInv
    <3>2. \/ rpc'[r] = "done" /\ dir[rname[r]] = NoFile
          \/ rpc'[r] = "size" /\ ranswer'[r] = 0
      <4>1. "open" \notin Faults
        BY DEF CallsSucceed
      <4> QED
        BY <1>1, <2>5, <3>1, <4>1 DEF StreamOpened, Answer, Proceed, Exists
    <3>3. dir[rname[r]] = NoFile => WasDropped(rname[r])
      BY <1>3, <3>1 DEF Winner, WasDropped
    <3> QED  BY <1>2, <3>1, <3>2, <3>3
  <2>6. CASE SizeRead(r) \/ BodyClosed(r)
    <3>1. rpc'[r] \in {"body", "done"} /\ rname' = rname /\ ranswer'[r] # 500
      BY <1>1, <2>6 DEF SizeRead, BodyClosed, Proceed, GetAnswerInv
    <3> QED  BY <3>1
  <2> QED  BY <2>2, <2>3, <2>4, <2>5, <2>6 DEF GetRequest, GetStep
<1>5. ASSUME NEW q \in Download
      PROVE  (rpc'[q] \in {"utimes", "open"} => Winner(rname[q])')
               /\ (ranswer'[q] = 500 => WasDropped(rname[q])')
  <2>1. CASE q = r
    BY <1>4, <2>1
  <2>2. CASE q # r
    <3>1. GetSame(q)
      BY <1>1, <2>2
    <3>2. /\ rpc[q] \in {"utimes", "open"} => Winner(rname[q])
          /\ ranswer[q] = 500 => WasDropped(rname[q])
      BY DEF EInv, ErrorInv
    <3> QED  BY <1>2, <3>1, <3>2 DEF GetSame
  <2> QED  BY <2>1, <2>2
<1>6. \A u \in Upload : wanswer'[u] # 500
  BY <1>1 DEF EInv, ErrorInv
<1> QED  BY <1>5, <1>6 DEF ErrorInv

LEMMA OtherErrors ==
    ASSUME EInv, UNCHANGED <<wname, wanswer, rname, ranswer>>,
           \A r \in Download : rpc'[r] \in {"utimes", "open"} => rpc'[r] = rpc[r],
           \A h \in Hash : dir'[h] \in {dir[h], NoFile}
    PROVE  ErrorInv'
<1>1. \A r \in Download :
        /\ rpc[r] \in {"utimes", "open"} => rname[r] \in Hash
        /\ ranswer[r] = 500 => rname[r] \in Hash
  BY DEF EInv, ErrorInv, AInv, IInv, DownloadInv, WasDropped, PutAnswerInv
<1>2. \A h \in Hash : (Winner(h) => Winner(h)') /\ (WasDropped(h) => WasDropped(h)')
  BY DEF Winner, WasDropped
<1> QED  BY <1>1, <1>2 DEF EInv, ErrorInv

LEMMA ErrorsStep ==
    ASSUME CallsSucceed, "power" \notin Faults
    PROVE  EInv /\ [Next]_vars => EInv'
<1> SUFFICES ASSUME EInv, [Next]_vars PROVE EInv'
  OBVIOUS
<1>1. AInv /\ AInv'
  BY AnswersStep DEF EInv, CallsSucceed
<1>2. CASE \E u \in Upload : PutRequest(u)
  BY <1>1, <1>2, PutErrors DEF EInv
<1>3. CASE \E r \in Download : GetRequest(r)
  BY <1>1, <1>3, GetErrors DEF EInv
<1>4. CASE Crash
  <2>1. \A r \in Download : rpc'[r] \in {"utimes", "open"} => rpc'[r] = rpc[r]
    BY <1>4 DEF Crash, ReadsLost
  <2> QED
    BY <1>1, <1>4, <2>1, OtherErrors
    DEF EInv, Crash, PowerCut, WritesLost, ReadsLost
<1>5. CASE Sweep \/ (\E h \in Hash : Prune(h)) \/ Clock \/ Restart \/ UNCHANGED vars
  BY <1>1, <1>5, OtherEffect, OtherErrors DEF EInv, writeVars, getVars
<1> QED  BY <1>2, <1>3, <1>4, <1>5 DEF Next

(***************************************************************************)
(* Where the calls that are not best-effort succeed and the power stays    *)
(* on, no interleaving of requests, sweeps, deletions and restarts makes   *)
(* the server answer 500, but for a download whose entry was dropped under *)
(* it (file-system.ts:81 and 174-193; get-cache.ts:28-37).                 *)
(***************************************************************************)
THEOREM ErrorsHaveCauses ==
    ASSUME CallsSucceed, "power" \notin Faults
    PROVE  Spec => []NoSpurious500
<1>1. Init => EInv
  BY AnswersInit DEF Init, WriteInit, GetInit, EInv, ErrorInv
<1>2. EInv /\ [Next]_vars => EInv'
  BY ErrorsStep
<1>3. EInv => NoSpurious500
  BY DEF EInv, ErrorInv, WasDropped, Dropped, NoSpurious500
<1> QED  BY <1>1, <1>2, <1>3, PTL DEF Spec

-----------------------------------------------------------------------------
(* What the sweep knows of an entry.                                       *)

Current(e) ==
    /\ e.name \in Hash /\ e.inode \in Upload
    /\ dir[e.name] = e.inode /\ e.size = Size(e.inode)

(* The sweep keeps one record of a name.                                   *)
NamesOnce ==
    /\ \A e, f \in entries \cup survivors : e.name = f.name => e = f
    /\ entries \cap survivors = {}
    /\ epc = "idle" => entries = {} /\ survivors = {}
    /\ epc = "scan" => \A e \in entries \cup survivors : e.name \in visited

SInv == IInv /\ NamesOnce /\ \A e \in entries \cup survivors : Current(e)

(* Entries the sweep knows are not under anybody's pen.                    *)
LEMMA CurrentKept ==
    ASSUME SInv, NEW e \in entries \cup survivors,
           dir'[e.name] = dir[e.name], data'[e.inode] = data[e.inode]
    PROVE  Current(e)'
BY DEF SInv, Current, Size

LEMMA NamesStep == SInv /\ [Next]_vars => NamesOnce'
<1> SUFFICES ASSUME SInv, [Next]_vars PROVE NamesOnce'
  OBVIOUS
<1>1. CASE UNCHANGED <<epc, entries, survivors, visited>>
  BY <1>1 DEF SInv, NamesOnce
<1>2. CASE Crash \/ ScanFails \/ SizePassEnds
  BY <1>2 DEF Crash, SweepLost, ScanFails, SizePassEnds, SweepReturns, NamesOnce
<1>3. CASE SweepStarts
  BY <1>3 DEF SweepStarts, SInv, NamesOnce
<1>4. CASE EntryStatted
  <2>1. PICK n \in Name \ visited :
          /\ visited' = visited \cup {n}
          /\ \/ UNCHANGED entries
             \/ entries' = entries \cup
                  {[name |-> n, size |-> Size(dir[n]),
                    mtimeMs |-> mtime[dir[n]], inode |-> dir[n]]}
    BY <1>4 DEF EntryStatted
  <2>2. epc = "scan" /\ epc' = "scan" /\ survivors' = survivors
    BY <1>4 DEF EntryStatted
  <2> DEFINE f == [name |-> n, size |-> Size(dir[n]),
                   mtimeMs |-> mtime[dir[n]], inode |-> dir[n]]
  <2>3. f.name = n /\ \A e \in entries \cup survivors : e.name # n
    BY <2>2 DEF SInv, NamesOnce
  <2>4. entries' = entries \/ entries' = entries \cup {f}
    BY <2>1
  <2> HIDE DEF f
  <2> QED  BY <2>1, <2>2, <2>3, <2>4 DEF SInv, NamesOnce
<1>5. CASE ScanEnds \/ ExpiredEvicted \/ TtlPassEnds \/ OldestEvicted
  <2>1. epc' \notin {"scan"} /\ entries' \cup survivors' \subseteq entries \cup survivors
    BY <1>5 DEF ScanEnds, ExpiredEvicted, TtlPassEnds, OldestEvicted, SweepReturns
  <2>2. epc' = "idle" => entries' = {} /\ survivors' = {}
    BY <1>5 DEF ScanEnds, ExpiredEvicted, TtlPassEnds, OldestEvicted, SweepReturns
  <2>3. entries' \cap survivors' = {}
    BY <1>5 DEF ScanEnds, ExpiredEvicted, TtlPassEnds, OldestEvicted, SweepReturns, SInv, NamesOnce
  <2> QED  BY <2>1, <2>2, <2>3 DEF SInv, NamesOnce
<1> QED
  BY <1>1, <1>2, <1>3, <1>4, <1>5
  DEF Next, PutRequest, GetRequest, Prune, Clock, Restart, Sweep, SweepStep, vars, sweepVars

LEMMA CurrentStep ==
    ASSUME "prune" \notin Faults
    PROVE  SInv /\ [Next]_vars => SInv'
<1> SUFFICES ASSUME SInv, [Next]_vars PROVE SInv'
  OBVIOUS
<1>1. IInv /\ IInv' /\ NamesOnce' /\ \A e \in entries \cup survivors : Current(e)
  BY InvariantStep, NamesStep DEF SInv
<1>2. /\ dir \in [Name -> Upload \cup {NoFile}] /\ Hash \subseteq Name
      /\ data \in [Upload -> Seq(Upload)]
      /\ wfd \in [Upload -> Upload \cup {NoFile}]
      /\ \A u \in Upload : UploadInv(u)
  BY <1>1 DEF IInv, Typing, DirTypeOK, WriteTypeOK, Name
<1>3. CASE \E u \in Upload : PutRequest(u)
  <2>1. PICK u \in Upload : PutRequest(u)
    BY <1>3
  <2>2. UNCHANGED <<entries, survivors>>
    BY <2>1 DEF PutRequest, sweepVars
  <2>3. ASSUME NEW e \in entries \cup survivors
        PROVE  dir'[e.name] = dir[e.name] /\ data'[e.inode] = data[e.inode]
    <3>1. Current(e) /\ e.name # u /\ ~Private(e.inode) /\ dir[e.name] # NoFile
      BY <1>1, <1>2 DEF Current, Private
    <3>2. wpc[u] \in {"mkdir", "stream", "end", "link"} => Private(u) /\ e.inode # u
      BY <1>2, <3>1 DEF UploadInv
    <3>3. CASE TempOpened(u)
      <4>1. wpc[u] = "mkdir" /\ dir[u] = NoFile
        BY <1>2, <3>3 DEF TempOpened, UploadInv
      <4>2. \/ UNCHANGED <<dir, data>>
            \/ dir' = [dir EXCEPT ![u] = u] /\ data' = [data EXCEPT ![u] = <<>>]
        BY <3>3, <4>1 DEF TempOpened, TempPath, Exists, dirVars
      <4> QED  BY <1>2, <3>1, <3>2, <4>1, <4>2 DEF Current
    <3>4. CASE ChunkPulled(u)
      BY <1>2, <3>1, <3>2, <3>4 DEF ChunkPulled, Current, UploadInv
    <3>5. CASE Linked(u)
      BY <1>2, <3>1, <3>2, <3>5 DEF Linked, TempPath, Exists, Current
    <3>6. CASE TempRemoved(u)
      BY <1>2, <3>1, <3>6 DEF TempRemoved, Unlinked, TempPath, Current
    <3>7. CASE PutArrives(u) \/ PutChecked(u) \/ BodyDone(u) \/ BodyFails(u) \/ WriterEnded(u)
      BY <3>7 DEF PutArrives, PutChecked, BodyDone, BodyFails, WriterEnded, dirVars
    <3> QED
      BY <2>1, <3>3, <3>4, <3>5, <3>6, <3>7 DEF PutRequest, PutStep
  <2> QED  BY <1>1, <2>2, <2>3, CurrentKept DEF SInv
<1>4. CASE \E r \in Download : GetRequest(r)
  <2>1. UNCHANGED <<dir, data, entries, survivors>>
    BY <1>4 DEF GetRequest, GetArrives, GetStep, GetChecked, AccessStamped, StreamOpened,
       SizeRead, BodyClosed, dirVars, sweepVars
  <2> QED  BY <1>1, <2>1, CurrentKept DEF SInv
<1>5. CASE Crash
  BY <1>1, <1>5 DEF Crash, SweepLost, SweepReturns, SInv
<1>6. CASE Restart
  <2>1. UNCHANGED <<data, entries, survivors>> /\ \A h \in Hash : dir'[h] = dir[h]
    BY <1>2, <1>6 DEF Restart, sweepVars
  <2>2. \A e \in entries \cup survivors : dir'[e.name] = dir[e.name]
    BY <1>1, <2>1 DEF Current
  <2> QED  BY <1>1, <2>1, <2>2, CurrentKept DEF SInv
<1>7. CASE Clock \/ UNCHANGED vars
  <2>1. UNCHANGED <<dir, data, entries, survivors>>
    BY <1>7 DEF Clock, Tick, vars, dirVars, sweepVars
  <2> QED  BY <1>1, <2>1, CurrentKept DEF SInv
<1>8. CASE Sweep
  <2>1. CASE SweepStarts \/ ScanEnds
    <3>1. UNCHANGED <<dir, data, entries, survivors>>
      BY <2>1 DEF SweepStarts, ScanEnds, dirVars
    <3> QED  BY <1>1, <3>1, CurrentKept DEF SInv
  <2>2. CASE ScanFails \/ SizePassEnds
    BY <1>1, <2>2 DEF ScanFails, SizePassEnds, SweepReturns, SInv
  <2>3. CASE TtlPassEnds
    <3>1. /\ UNCHANGED <<dir, data>>
          /\ entries' \cup survivors' \subseteq entries \cup survivors
      BY <2>3 DEF TtlPassEnds, SweepReturns, dirVars
    <3> QED  BY <1>1, <3>1, CurrentKept DEF SInv
  <2>4. CASE EntryStatted
    <3>1. UNCHANGED <<dir, data, survivors>>
      BY <2>4 DEF EntryStatted, dirVars
    <3>2. PICK n \in Name :
            \/ UNCHANGED entries
            \/ /\ ~Skipped(n) /\ Exists(n)
               /\ entries' = entries \cup
                    {[name |-> n, size |-> Size(dir[n]),
                      mtimeMs |-> mtime[dir[n]], inode |-> dir[n]]}
      BY <2>4 DEF EntryStatted
    <3>3. ~Skipped(n) /\ Exists(n) =>
            n \in Hash /\ dir[n] \in Upload /\ dir'[n] = dir[n] /\ data'[dir[n]] = data[dir[n]]
      BY <1>2, <3>1 DEF Skipped, Name, Exists
    <3>4. \A e \in entries \cup survivors : Current(e)'
      BY <1>1, <3>1, CurrentKept
    <3>5. PICK f : f = [name |-> n, size |-> Size(dir[n]),
                        mtimeMs |-> mtime[dir[n]], inode |-> dir[n]]
      OBVIOUS
    <3>6. ~Skipped(n) /\ Exists(n) => Current(f)'
      BY <3>1, <3>3, <3>5 DEF Current, Size
    <3>7. entries' = entries \/ (entries' = entries \cup {f} /\ Current(f)')
      BY <3>2, <3>5, <3>6
    <3>8. \A e \in entries' \cup survivors' : Current(e)'
      BY <3>1, <3>4, <3>7
    <3> QED  BY <1>1, <3>8 DEF SInv
  <2>5. CASE ExpiredEvicted \/ OldestEvicted
    <3>1. PICK e \in entries \cup survivors :
            /\ \/ Deleted(e) /\ e \notin entries' \cup survivors'
               \/ UNCHANGED dir
            /\ entries' \cup survivors' \subseteq entries \cup survivors
            /\ UNCHANGED data
      <4>1. entries \cap survivors = {}
        BY DEF SInv, NamesOnce
      <4>2. CASE ExpiredEvicted
        <5>1. PICK e \in entries :
                /\ entries' = entries \ {e}
                /\ \/ (Deleted(e) \/ Missing(e)) /\ UNCHANGED survivors
                   \/ Failed(e) /\ survivors' = survivors \cup {e}
          BY <4>2 DEF ExpiredEvicted
        <5>2. UNCHANGED data
          BY <4>2 DEF ExpiredEvicted
        <5>3. entries' \cup survivors' \subseteq entries \cup survivors
          BY <5>1
        <5>4. (Deleted(e) /\ e \notin entries' \cup survivors') \/ UNCHANGED dir
          BY <4>1, <5>1 DEF Missing, Failed
        <5> QED  BY <5>1, <5>2, <5>3, <5>4
      <4>3. CASE OldestEvicted
        <5>1. PICK e \in survivors :
                /\ survivors' = survivors \ {e}
                /\ Deleted(e) \/ Missing(e) \/ Failed(e)
          BY <4>3 DEF OldestEvicted
        <5>2. UNCHANGED <<data, entries>>
          BY <4>3 DEF OldestEvicted
        <5>3. entries' \cup survivors' \subseteq entries \cup survivors
          BY <5>1, <5>2
        <5>4. (Deleted(e) /\ e \notin entries' \cup survivors') \/ UNCHANGED dir
          BY <4>1, <5>1, <5>2 DEF Missing, Failed
        <5> QED  BY <5>1, <5>2, <5>3, <5>4
      <4> QED  BY <2>5, <4>2, <4>3
    <3>2. \A f \in entries' \cup survivors' :
            Deleted(e) /\ e \notin entries' \cup survivors' => f.name # e.name
      BY <3>1 DEF SInv, NamesOnce
    <3>3. \A f \in entries' \cup survivors' : dir'[f.name] = dir[f.name]
      BY <1>1, <1>2, <3>1, <3>2 DEF Deleted, Unlinked, Current
    <3> QED  BY <1>1, <3>1, <3>3, CurrentKept DEF SInv
  <2> QED
    BY <1>8, <2>1, <2>2, <2>3, <2>4, <2>5 DEF Sweep, SweepStep
<1>9. \A h \in Hash : ~Prune(h)
  BY DEF Prune
<1> QED  BY <1>3, <1>4, <1>5, <1>6, <1>7, <1>8, <1>9 DEF Next

(***************************************************************************)
(* While only the sweep deletes entries, what it read of an entry still    *)
(* describes the file under that name when it decides: its rm never takes  *)
(* a younger upload, and the bytes it subtracts are those it frees         *)
(* (eviction.ts:28-35).                                                    *)
(***************************************************************************)
THEOREM SweepDecidesOnTheCurrent ==
    ASSUME "prune" \notin Faults
    PROVE  Spec => []SweepSeesCurrent
<1>1. Init => SInv
  BY InvariantInit DEF Init, SweepInit, SInv, NamesOnce
<1>2. SInv /\ [Next]_vars => SInv'
  BY CurrentStep
<1>3. SInv => SweepSeesCurrent
  BY DEF SInv, Current, SweepSeesCurrent
<1> QED  BY <1>1, <1>2, <1>3, PTL DEF Spec
=============================================================================
