---------------------------- MODULE UploadSource ----------------------------
(***************************************************************************)
(* The body of one upload on its way through writeCache: the reader of the *)
(* source stream, countedStream around it, the storage strategy that reads *)
(* countedStream, and the cancellation and release of the reader.  Four    *)
(* parties race: the client's bytes, the pulls of countedStream, the       *)
(* strategy, which may reject or cancel whenever it likes, and the         *)
(* handler's catch and finally.                                            *)
(*                                                                         *)
(* External: the streams (cancelling a reader resolves its pending read as *)
(* done, releasing it rejects one; a stream pulls whenever its queue of    *)
(* one chunk is empty) and the strategy, which resolves only after it has  *)
(* read countedStream to its end.                                          *)
(***************************************************************************)
EXTENDS Naturals

CONSTANTS
    MaxLength,   \* bound on Content-Length; a body may exceed it by a byte
    Faults       \* "client": it may go away; "release": releaseLock may throw

ASSUME LengthAssumption == MaxLength \in Nat \ {0}

VARIABLES
    expectedLength,  \* the validated Content-Length
    unsent,          \* bytes of the body the client has yet to send
    source,          \* state of the body stream
    locked,          \* the reader holds the lock on it
    read,            \* the reader.read() of a pull
    total,           \* bytes counted
    counted,         \* state of countedStream
    queue,           \* size of the chunk in its queue, 0 when empty
    written,         \* bytes the strategy has taken
    cancellation,    \* sourceCancellation
    sourceReleased,
    releases,        \* history: calls of reader.releaseLock
    answer           \* status of the response, 0 before it

streamVars == <<expectedLength, unsent, total, counted, queue, written>>
readerVars == <<source, locked, read, cancellation, sourceReleased, releases>>
vars == <<streamVars, readerVars, answer>>

TypeOK ==
    /\ expectedLength \in 1..MaxLength
    /\ unsent \in 0..(MaxLength + 1)
    /\ source \in {"readable", "ended", "errored", "cancelled"}
    /\ locked \in BOOLEAN
    /\ read \in {"none", "pending", "done", "rejected", "aborted"}
    /\ total \in Nat /\ queue \in Nat /\ written \in Nat
    /\ counted \in {"readable", "closed", "badlength", "errored", "cancelled"}
    /\ cancellation \in {"none", "pending", "settled"}
    /\ sourceReleased \in BOOLEAN
    /\ releases \in Nat
    /\ answer \in {0, 200, 400, 409, 500}

Init ==
    /\ expectedLength \in 1..MaxLength
    /\ unsent \in 0..(MaxLength + 1)
    /\ source = "readable" /\ locked = TRUE /\ read = "none"
    /\ total = 0 /\ counted = "readable" /\ queue = 0 /\ written = 0
    /\ cancellation = "none" /\ sourceReleased = FALSE /\ releases = 0
    /\ answer = 0

(* What reader.read() returns: it waits for bytes only on a body that can  *)
(* still give some, and rejects at once when the lock is gone.             *)
ReadResult ==
    CASE ~locked \/ source = "errored" -> "rejected"
      [] locked /\ source = "readable" -> "pending"
      [] OTHER -> "done"

(* countedStream has room for a chunk and pulls.                           *)
Pull ==
    /\ counted = "readable" /\ queue = 0 /\ read = "none"
    /\ read' = ReadResult
    /\ UNCHANGED <<streamVars, source, locked, cancellation, sourceReleased,
                   releases, answer>>

(* A controller ignores what it is told once its stream is not readable.   *)
Controlled(state) == counted' = IF counted = "readable" THEN state ELSE counted

(* The read delivers n bytes: counted, then queued unless they are too many. *)
ChunkRead(n) ==
    /\ read = "pending" /\ source = "readable"
    /\ read' = "none"
    /\ unsent' = unsent - n
    /\ total' = total + n
    /\ IF total' > expectedLength
         THEN Controlled("badlength") /\ UNCHANGED queue
         ELSE /\ queue' = IF counted = "readable" THEN n ELSE queue
              /\ UNCHANGED counted
    /\ UNCHANGED <<expectedLength, written, source, locked, cancellation,
                   sourceReleased, releases, answer>>

(* Mutant: the end of the body is not compared with Content-Length.        *)
EndRead_Unchecked ==
    /\ \/ read = "pending" /\ source = "readable" /\ unsent = 0 /\ source' = "ended"
       \/ read = "done" /\ UNCHANGED source
    /\ read' = "none"
    /\ Controlled("closed")
    /\ UNCHANGED <<expectedLength, unsent, total, queue, written, locked,
                   cancellation, sourceReleased, releases, answer>>

(* Mutant: a body of the wrong length ends without an error.               *)
EndRead_Silent ==
    /\ \/ read = "pending" /\ source = "readable" /\ unsent = 0 /\ source' = "ended"
       \/ read = "done" /\ UNCHANGED source
    /\ read' = "none"
    /\ IF total = expectedLength THEN Controlled("closed") ELSE UNCHANGED counted
    /\ UNCHANGED <<expectedLength, unsent, total, queue, written, locked,
                   cancellation, sourceReleased, releases, answer>>

(* The read says done: the body has ended, or the reader was cancelled.    *)
EndRead ==
    /\ \/ read = "pending" /\ source = "readable" /\ unsent = 0 /\ source' = "ended"
       \/ read = "done" /\ UNCHANGED source
    /\ read' = "none"
    /\ Controlled(IF total = expectedLength THEN "closed" ELSE "badlength")
    /\ UNCHANGED <<expectedLength, unsent, total, queue, written, locked,
                   cancellation, sourceReleased, releases, answer>>

(* The read rejects: the client went away, the lock is gone, or it was     *)
(* taken from the waiting read.                                            *)
ReadFails ==
    /\ \/ /\ read = "pending" /\ source = "readable" /\ "client" \in Faults
          /\ source' = "errored"
       \/ read \in {"rejected", "aborted"} /\ UNCHANGED source
    /\ read' = "none"
    /\ Controlled("errored")
    /\ UNCHANGED <<expectedLength, unsent, total, queue, written, locked,
                   cancellation, sourceReleased, releases, answer>>

(* The strategy takes the queued chunk.                                    *)
ChunkTaken ==
    /\ answer = 0 /\ queue > 0
    /\ written' = written + queue
    /\ queue' = 0
    /\ UNCHANGED <<expectedLength, unsent, total, counted, readerVars, answer>>

-----------------------------------------------------------------------------
(* Cancellation and release.  Both helpers are synchronous; reader.cancel  *)
(* ends the body and resolves a pending read before its promise settles.   *)

cancelsSource == ~sourceReleased /\ cancellation = "none"

Cancelled(state) == IF state = "readable" THEN "cancelled" ELSE state

ReadAfterCancel == IF read = "pending" THEN "done" ELSE read

cancelSource ==
    IF cancelsSource
      THEN /\ cancellation' = "pending"
           /\ source' = Cancelled(source)
           /\ read' = ReadAfterCancel
      ELSE UNCHANGED <<cancellation, source, read>>

(* Mutant: releaseSource without its early return.                         *)
releaseSource_Again(pendingRead) ==
    /\ sourceReleased' = TRUE
    /\ releases' = releases + 1
    /\ locked' = FALSE
    /\ read' = IF pendingRead = "pending" THEN "aborted" ELSE pendingRead

(* releaseSource, given what is left of the read when it is called.        *)
releaseSource(pendingRead) ==
    \/ sourceReleased /\ read' = pendingRead /\ UNCHANGED <<sourceReleased, releases, locked>>
    \/ /\ ~sourceReleased
       /\ sourceReleased' = TRUE
       /\ releases' = releases + 1
       /\ \/ /\ "release" \in Faults
             /\ UNCHANGED locked
             /\ read' = pendingRead
          \/ /\ locked' = FALSE
             /\ read' = IF pendingRead = "pending" THEN "aborted" ELSE pendingRead

(* The strategy cancels countedStream: early exit from its loop, an abort. *)
CountedCancelled ==
    /\ counted = "readable"
    /\ counted' = "cancelled"
    /\ queue' = 0
    /\ cancelSource
    /\ UNCHANGED <<expectedLength, unsent, total, written, locked,
                   sourceReleased, releases, answer>>

(* await reader.cancel() settles, one way or the other.                    *)
CancellationSettles ==
    /\ cancellation = "pending"
    /\ cancellation' = "settled"
    /\ releaseSource(read)
    /\ UNCHANGED <<streamVars, source, answer>>

(* writeStream resolves: finally releases the reader.  A strategy resolves *)
(* once it has read the stream to its end; fetch is half-duplex, it gives  *)
(* no response before the request body is over.                            *)
WriteResolves ==
    /\ answer = 0 /\ counted = "closed"
    /\ answer' = 200
    /\ releaseSource(read)
    /\ UNCHANGED <<streamVars, source, cancellation>>

(* The statuses a rejection is mapped to.                                  *)
Rejections == {409, 500} \cup (IF counted = "badlength" THEN {400} ELSE {})

(* Mutant: catch forgets to cancel the source.                             *)
WriteRejects_Uncancelled ==
    /\ answer = 0
    /\ answer' \in Rejections
    /\ releaseSource(read)
    /\ UNCHANGED <<streamVars, source, cancellation>>

(* writeStream rejects, whatever was read: catch cancels the source, which *)
(* is not awaited, and finally releases the reader at once.                *)
WriteRejects ==
    /\ answer = 0
    /\ answer' \in Rejections
    /\ IF cancelsSource
         THEN /\ cancellation' = "pending"
              /\ source' = Cancelled(source)
              /\ releaseSource(ReadAfterCancel)
         ELSE /\ UNCHANGED <<cancellation, source>>
              /\ releaseSource(read)
    /\ UNCHANGED streamVars

Next ==
    \/ Pull \/ EndRead \/ ReadFails \/ ChunkTaken
    \/ \E n \in 1..unsent : ChunkRead(n)
    \/ CountedCancelled \/ CancellationSettles
    \/ WriteResolves \/ WriteRejects

Spec == Init /\ [][Next]_vars

(***************************************************************************)
(* Fairness: the event loop runs the pulls; Bun delivers the body, its end *)
(* or an error (it closes idle connections); the strategy takes what is    *)
(* queued and settles once countedStream is over; a cancellation settles.  *)
(***************************************************************************)
Fairness ==
    /\ WF_vars(Pull)
    /\ WF_vars(EndRead \/ ReadFails \/ \E n \in 1..unsent : ChunkRead(n))
    /\ WF_vars(ChunkTaken)
    /\ WF_vars(WriteResolves \/ (counted # "readable" /\ WriteRejects))
    /\ WF_vars(CancellationSettles)

FairSpec == Spec /\ Fairness

-----------------------------------------------------------------------------
(***************************************************************************)
(* Every answered upload has released its reader, and no path releases it  *)
(* twice, although the settled cancellation and finally both do it in      *)
(* either order (write-cache.ts:86-95 and 148-150; write-cache.spec.ts:    *)
(* 251).                                                                   *)
(***************************************************************************)
ReleasedOnce == releases = (IF sourceReleased THEN 1 ELSE 0)
                /\ (answer # 0 => sourceReleased)

(***************************************************************************)
(* When a write is rejected the body does not go on flowing into a stream  *)
(* nobody reads: it has ended, failed, or been cancelled (write-cache.ts:  *)
(* 41-43 and 136).                                                         *)
(***************************************************************************)
RejectedSourceStops == answer \notin {0, 200} => source # "readable"

(***************************************************************************)
(* Releasing the lock never aborts a read that a pull still waits for, and *)
(* no read is left waiting on a released reader, not even when releaseLock *)
(* throws: the cancellation comes first (write-cache.ts:97-107).           *)
(***************************************************************************)
NoReadAborted == read # "aborted" /\ (read = "pending" => ~sourceReleased)

(***************************************************************************)
(* An upload answered 200 was stored whole: the strategy took exactly      *)
(* Content-Length bytes and the body had no more (write-cache.ts:111-125). *)
(***************************************************************************)
StoredWhole ==
    answer = 200 => written = expectedLength /\ unsent = 0 /\ source = "ended"

(***************************************************************************)
(* Every upload is answered in the end, and then its body is over and no   *)
(* cancellation is left pending.                                           *)
(***************************************************************************)
SourceLetGo ==
    <>[](answer # 0 /\ source # "readable" /\ cancellation # "pending")
=============================================================================
