------------------------- MODULE UploadSource_proofs -------------------------
(***************************************************************************)
(* The theorems about UploadSource.  All of them follow from one invariant *)
(* on the states of the body, of countedStream and of the read between     *)
(* them: a read waits only on a body that nobody has cancelled or let go.  *)
(***************************************************************************)
EXTENDS UploadSource, TLAPS

(* A read waits only while the body can still answer it; a read that says  *)
(* done on an unanswered upload belongs to a cancelled countedStream.      *)
ReadsWait ==
    /\ read # "aborted"
    /\ read = "pending" => ~sourceReleased /\ source = "readable"
    /\ read = "done" => answer # 0 \/ counted # "readable"
    /\ counted \in {"closed", "badlength", "errored"} => read = "none"
    /\ read # "none" => queue = 0

(* A body that was cancelled or let go gives no more bytes.                *)
SourceStops ==
    /\ sourceReleased \/ cancellation # "none" => source # "readable"
    /\ source = "ended" => counted # "readable" /\ unsent = 0
    /\ source = "cancelled" /\ counted = "readable" => answer # 0
    /\ source = "errored" => counted # "readable"

(* The bytes counted are those the strategy has taken and those queued.    *)
BytesCounted ==
    /\ counted \in {"readable", "closed"} => written + queue = total
    /\ counted = "closed" => queue = 0 /\ total = expectedLength
    /\ counted = "closed" /\ answer = 0 => source = "ended"

IInv == TypeOK /\ ReleasedOnce /\ ReadsWait /\ SourceStops /\ BytesCounted /\ StoredWhole

LEMMA InitIInv == Init => IInv
<1> SUFFICES ASSUME Init PROVE IInv
  OBVIOUS
<1>1. TypeOK
  BY LengthAssumption DEF Init, TypeOK
<1>2. ReleasedOnce /\ StoredWhole
  BY DEF Init, ReleasedOnce, StoredWhole
<1>3. ReadsWait /\ SourceStops /\ BytesCounted
  BY LengthAssumption DEF Init, ReadsWait, SourceStops, BytesCounted
<1> QED
  BY <1>1, <1>2, <1>3 DEF IInv

(* After releaseSource the reader has been released once, and a read that  *)
(* does not wait is left as it is.                                         *)
LEMMA ReleaseSource ==
    ASSUME NEW pendingRead, pendingRead # "pending", TypeOK, ReleasedOnce,
           releaseSource(pendingRead)
    PROVE  /\ sourceReleased' = TRUE /\ releases' = 1 /\ read' = pendingRead
           /\ locked' \in BOOLEAN
<1>1. CASE sourceReleased
  BY <1>1 DEF TypeOK, ReleasedOnce, releaseSource
<1>2. CASE ~sourceReleased
  <2>1. releases = 0
    BY <1>2 DEF ReleasedOnce
  <2>2. sourceReleased' = TRUE /\ releases' = releases + 1 /\ read' = pendingRead
    BY <1>2, Zenon DEF releaseSource
  <2>3. locked' = locked \/ locked' = FALSE
    BY <1>2, Zenon DEF releaseSource
  <2>4. locked' \in BOOLEAN
    BY <2>3, Zenon DEF TypeOK
  <2> QED
    BY <2>1, <2>2, <2>4
<1> QED
  BY <1>1, <1>2

LEMMA StepIInv == IInv /\ [Next]_vars => IInv'
<1> SUFFICES ASSUME IInv, [Next]_vars PROVE IInv'
  OBVIOUS
<1> USE LengthAssumption DEF TypeOK, ReleasedOnce, ReadsWait, SourceStops,
        BytesCounted, StoredWhole, streamVars, readerVars
<1>1. CASE Pull
  BY <1>1 DEF IInv, Pull, ReadResult
<1>2. CASE EndRead
  BY <1>2 DEF IInv, EndRead, Controlled
<1>3. CASE ReadFails
  BY <1>3 DEF IInv, ReadFails, Controlled
<1>4. CASE ChunkTaken
  BY <1>4 DEF IInv, ChunkTaken
<1>5. ASSUME NEW n \in 1..unsent, ChunkRead(n) PROVE IInv'
  BY <1>5 DEF IInv, ChunkRead, Controlled
<1>6. CASE CountedCancelled
  BY <1>6 DEF IInv, CountedCancelled, cancelSource, cancelsSource, Cancelled,
     ReadAfterCancel
<1>7. CASE CancellationSettles
  <2>1. read # "pending"
    BY <1>7 DEF IInv, CancellationSettles
  <2>2. sourceReleased' = TRUE /\ releases' = 1 /\ read' = read /\ locked' \in BOOLEAN
    BY <1>7, <2>1, ReleaseSource DEF IInv, CancellationSettles
  <2>3. TypeOK'
    BY <1>7, <2>2 DEF IInv, CancellationSettles
  <2>4. ReleasedOnce'
    BY <2>2
  <2>5. ReadsWait' /\ SourceStops' /\ BytesCounted' /\ StoredWhole'
    BY <1>7, <2>1, <2>2 DEF IInv, CancellationSettles
  <2> QED
    BY <2>3, <2>4, <2>5 DEF IInv
<1>8. CASE WriteResolves
  <2>1. read = "none" /\ source = "ended"
    BY <1>8 DEF IInv, WriteResolves
  <2>2. sourceReleased' = TRUE /\ releases' = 1 /\ read' = read /\ locked' \in BOOLEAN
    <3>1. TypeOK /\ ReleasedOnce /\ releaseSource(read) /\ read # "pending"
      BY <1>8, <2>1 DEF IInv, WriteResolves
    <3> QED
      BY <3>1, ReleaseSource
  <2>3. TypeOK'
    BY <1>8, <2>2 DEF IInv, WriteResolves
  <2>4. ReleasedOnce'
    BY <2>2
  <2>5. ReadsWait' /\ SourceStops' /\ BytesCounted' /\ StoredWhole'
    BY <1>8, <2>1, <2>2 DEF IInv, WriteResolves
  <2> QED
    BY <2>3, <2>4, <2>5 DEF IInv
<1>9. CASE WriteRejects
  <2> DEFINE left == IF cancelsSource THEN ReadAfterCancel ELSE read
  <2>1. left # "pending"
    BY DEF IInv, cancelsSource, ReadAfterCancel
  <2>2. releaseSource(left)
    BY <1>9 DEF WriteRejects
  <2>3. sourceReleased' = TRUE /\ releases' = 1 /\ read' = left /\ locked' \in BOOLEAN
    <3> HIDE DEF left
    <3> QED
      BY <2>1, <2>2, ReleaseSource DEF IInv
  <2>4. /\ UNCHANGED streamVars
        /\ answer' \in {400, 409, 500}
        /\ source' \in {source, "cancelled"} /\ source' # "readable"
        /\ cancellation' \in {cancellation, "pending"}
    BY <1>9 DEF IInv, WriteRejects, Rejections, cancelsSource, Cancelled
  <2>5. TypeOK'
    BY <2>3, <2>4 DEF IInv, ReadAfterCancel
  <2>6. ReleasedOnce'
    BY <2>3
  <2>7. ReadsWait' /\ BytesCounted' /\ StoredWhole'
    BY <1>9, <2>1, <2>3, <2>4 DEF IInv, WriteRejects, ReadAfterCancel
  <2>8. SourceStops'
    BY <2>4, <1>9 DEF IInv, WriteRejects, Cancelled, cancelsSource
  <2> QED
    BY <2>5, <2>6, <2>7, <2>8 DEF IInv
<1>10. CASE UNCHANGED vars
  BY <1>10 DEF IInv, vars
<1> QED
  BY <1>1, <1>2, <1>3, <1>4, <1>5, <1>6, <1>7, <1>8, <1>9, <1>10 DEF Next

(* The invariant holds in every state, for bodies of any length, a client  *)
(* that may go away and a releaseLock that may throw.                      *)
THEOREM SourceInvariance == Spec => []IInv
  BY InitIInv, StepIInv, PTL DEF Spec

(* Type correctness.                                                       *)
THEOREM UploadIsTyped == Spec => []TypeOK
<1>1. IInv => TypeOK
  BY DEF IInv
<1> QED
  BY <1>1, SourceInvariance, PTL

(* releaseLock is called exactly once for every answered upload, and never *)
(* twice (releaseSource, write-cache.ts:86-95).                            *)
THEOREM ReaderIsReleasedOnce == Spec => []ReleasedOnce
<1>1. IInv => ReleasedOnce
  BY DEF IInv
<1> QED
  BY <1>1, SourceInvariance, PTL

(* No read that waits is aborted by the release of its reader, nor left    *)
(* waiting on a released one (cancelSource, write-cache.ts:97-108).        *)
THEOREM NoReadIsAborted == Spec => []NoReadAborted
<1>1. IInv => NoReadAborted
  BY DEF IInv, ReadsWait, NoReadAborted
<1> QED
  BY <1>1, SourceInvariance, PTL

(* The body of a rejected upload does not go on flowing (write-cache.ts:   *)
(* 136), whatever the strategy had read of it.                             *)
THEOREM RejectedSourcesStop == Spec => []RejectedSourceStops
<1>1. IInv => RejectedSourceStops
  BY DEF IInv, ReleasedOnce, SourceStops, TypeOK, RejectedSourceStops
<1> QED
  BY <1>1, SourceInvariance, PTL

(* An upload answered 200 was stored whole (write-cache.ts:110-126).       *)
THEOREM StoredUploadsAreWhole == Spec => []StoredWhole
<1>1. IInv => StoredWhole
  BY DEF IInv
<1> QED
  BY <1>1, SourceInvariance, PTL
=============================================================================
