----------------------------- MODULE WriteCache -----------------------------
(***************************************************************************)
(* PUT /v1/cache/:hash, from the resolved permission to the response: the  *)
(* handler writeCache and the writeStream of FileSystemStrategy under it.  *)
(* A step runs from one await of the handler to the next, so any other     *)
(* request, the eviction sweep or the clock may move between two steps.    *)
(***************************************************************************)
EXTENDS CacheDir

CONSTANTS
    MaxUploadBytes,  \* MAX_UPLOAD_BYTES, in the model's byte units
    MaxChunk         \* longest chunk a body stream delivers at once

ASSUME UploadBytesAssumption == MaxUploadBytes \in Nat \ {0}
ASSUME ChunkAssumption == MaxChunk \in Nat \ {0}

VARIABLES
    wpc,      \* upload -> where its handler is suspended
    wname,    \* upload -> the :hash of its URL
    wlen,     \* upload -> expectedLength, its validated Content-Length
    wtotal,   \* upload -> bytes counted by countedStream
    wfd,      \* upload -> inode its writer has open
    wanswer   \* upload -> status decided, sent when wpc is "done"

writeVars == <<wpc, wname, wlen, wtotal, wfd, wanswer>>

WriteStates == { "idle", "exists", "mkdir", "stream", "end", "link", "rm",
                 "done", "lost" }

Permission == {"none", "readonly", "full"}

(* The Content-Length values told apart: missing, malformed, zero or       *)
(* without a body (0), within the limit, and the first one above it.       *)
ContentLength == 0..(MaxUploadBytes + 1)

WriteTypeOK ==
    /\ wpc \in [Upload -> WriteStates]
    /\ wname \in [Upload -> Name \cup {NoFile}]
    /\ wlen \in [Upload -> ContentLength]
    /\ wtotal \in [Upload -> Nat]
    /\ wfd \in [Upload -> Upload \cup {NoFile}]
    /\ wanswer \in [Upload -> {0, 200, 400, 403, 409, 413, 500}]

WriteInit ==
    /\ wpc = [u \in Upload |-> "idle"]
    /\ wname = [u \in Upload |-> NoFile]
    /\ wlen = [u \in Upload |-> 0]
    /\ wtotal = [u \in Upload |-> 0]
    /\ wfd = [u \in Upload |-> NoFile]
    /\ wanswer = [u \in Upload |-> 0]

(* The handler returns with this status.                                   *)
Respond(u, status) ==
    /\ wpc' = [wpc EXCEPT ![u] = "done"]
    /\ wanswer' = [wanswer EXCEPT ![u] = status]

(* writeStream leaves its inner try with this outcome: the writer is       *)
(* closed, the count is over, and the finally block removes the temporary  *)
(* file next.                                                              *)
Finally(u, status) ==
    /\ wpc' = [wpc EXCEPT ![u] = "rm"]
    /\ wanswer' = [wanswer EXCEPT ![u] = status]
    /\ wfd' = [wfd EXCEPT ![u] = NoFile]
    /\ wtotal' = [wtotal EXCEPT ![u] = 0]

Goto(u, pc) == wpc' = [wpc EXCEPT ![u] = pc]

canWrite(permission) == permission = "full"

(***************************************************************************)
(* A request is routed to the handler: the permission and the hash are     *)
(* judged before the first await.                                          *)
(***************************************************************************)
PutArrives(u) ==
    /\ wpc[u] = "idle"
    /\ \E n \in Name, permission \in Permission :
        \/ ~canWrite(permission) /\ Respond(u, 403) /\ UNCHANGED wname
        \/ /\ canWrite(permission) /\ ~isValidHash(n)
           /\ Respond(u, 400)
           /\ UNCHANGED wname
        \/ /\ canWrite(permission) /\ isValidHash(n)
           /\ wname' = [wname EXCEPT ![u] = n]
           /\ Goto(u, "exists")
           /\ UNCHANGED wanswer
    /\ UNCHANGED <<dirVars, wlen, wtotal, wfd>>

(* Mutant: an upload of the same hash in flight already counts as a record. *)
PutChecked_InFlight(u) ==
    /\ wpc[u] = "exists"
    /\ \/ /\ \/ Exists(wname[u])
             \/ \E v \in Upload \ {u} : wname[v] = wname[u] /\ wpc[v] = "stream"
          /\ Respond(u, 409) /\ UNCHANGED wlen
       \/ /\ ~Exists(wname[u])
          /\ \E len \in 1..MaxUploadBytes : wlen' = [wlen EXCEPT ![u] = len]
          /\ Goto(u, "mkdir")
          /\ UNCHANGED wanswer
    /\ UNCHANGED <<dirVars, wname, wtotal, wfd>>

(***************************************************************************)
(* exists() settles; then the Content-Length header is judged, without an  *)
(* await.                                                                  *)
(***************************************************************************)
PutChecked(u) ==
    /\ wpc[u] = "exists"
    /\ \/ "exists" \in Faults /\ Respond(u, 500) /\ UNCHANGED wlen
       \/ Exists(wname[u]) /\ Respond(u, 409) /\ UNCHANGED wlen
       \/ /\ ~Exists(wname[u])
          /\ \E len \in ContentLength :
              \/ len = 0 /\ Respond(u, 400) /\ UNCHANGED wlen
              \/ len > MaxUploadBytes /\ Respond(u, 413) /\ UNCHANGED wlen
              \/ /\ len \in 1..MaxUploadBytes
                 /\ wlen' = [wlen EXCEPT ![u] = len]
                 /\ Goto(u, "mkdir")
                 /\ UNCHANGED wanswer
    /\ UNCHANGED <<dirVars, wname, wtotal, wfd>>

(***************************************************************************)
(* mkdir() settles and Bun.file(tempPath).writer() opens the buffer: a new *)
(* inode, or the truncated old one if the name is taken.  A failure here   *)
(* is outside the try block, so nothing is removed.                        *)
(***************************************************************************)
TempOpened(u) ==
    /\ wpc[u] = "mkdir"
    /\ \/ "open" \in Faults /\ Respond(u, 500) /\ UNCHANGED <<dirVars, wfd>>
       \/ LET inode == IF Exists(TempPath(u)) THEN dir[TempPath(u)] ELSE u IN
          /\ dir' = [dir EXCEPT ![TempPath(u)] = inode]
          /\ data' = [data EXCEPT ![inode] = <<>>]
          /\ mtime' = [mtime EXCEPT ![inode] = clock]
          /\ wfd' = [wfd EXCEPT ![u] = inode]
          /\ Goto(u, "stream")
          /\ UNCHANGED <<clock, wanswer>>
    /\ UNCHANGED <<wname, wlen, wtotal>>

(***************************************************************************)
(* countedStream pulls a chunk of n bytes and writer.write() appends it,   *)
(* unless the count passes Content-Length or the write fails.              *)
(***************************************************************************)
ChunkPulled(u) ==
    /\ wpc[u] = "stream"
    /\ \E n \in 1..MaxChunk :
        LET total == wtotal[u] + n IN
        \/ total > wlen[u] /\ Finally(u, 400) /\ UNCHANGED <<data, mtime>>
        \/ /\ "write" \in Faults /\ total <= wlen[u]
           /\ Finally(u, 500)
           /\ UNCHANGED <<data, mtime>>
        \/ /\ total <= wlen[u]
           /\ wtotal' = [wtotal EXCEPT ![u] = total]
           /\ data' = [data EXCEPT ![wfd[u]] = @ \o Bytes(u, n)]
           /\ mtime' = [mtime EXCEPT ![wfd[u]] = clock]
           /\ UNCHANGED <<wpc, wanswer, wfd>>
    /\ UNCHANGED <<dir, clock, wname, wlen>>

(* Mutant: the end of the body is never compared with Content-Length.      *)
BodyDone_Unchecked(u) ==
    /\ wpc[u] = "stream"
    /\ Goto(u, "end")
    /\ UNCHANGED <<dirVars, wname, wlen, wanswer, wfd, wtotal>>

(* The body is over: a short one is a mismatch, a full one is flushed.     *)
BodyDone(u) ==
    /\ wpc[u] = "stream"
    /\ \/ wtotal[u] # wlen[u] /\ Finally(u, 400)
       \/ wtotal[u] = wlen[u] /\ Goto(u, "end") /\ UNCHANGED <<wanswer, wfd, wtotal>>
    /\ UNCHANGED <<dirVars, wname, wlen>>

(* reader.read() rejects: the client went away in the middle of the body.  *)
BodyFails(u) ==
    /\ wpc[u] = "stream"
    /\ "client" \in Faults
    /\ Finally(u, 500)
    /\ UNCHANGED <<dirVars, wname, wlen>>

(* writer.end() settles.                                                   *)
WriterEnded(u) ==
    /\ wpc[u] = "end"
    /\ \/ "write" \in Faults /\ Finally(u, 500)
       \/ /\ Goto(u, "link")
          /\ wfd' = [wfd EXCEPT ![u] = NoFile]
          /\ UNCHANGED <<wanswer, wtotal>>
    /\ UNCHANGED <<dirVars, wname, wlen>>

(* Mutant: rename() instead of link(): the destination is replaced.        *)
Linked_Rename(u) ==
    /\ wpc[u] = "link"
    /\ Exists(TempPath(u))
    /\ dir' = [dir EXCEPT ![wname[u]] = dir[TempPath(u)], ![TempPath(u)] = NoFile]
    /\ Finally(u, 200)
    /\ UNCHANGED <<data, mtime, clock, wname, wlen>>

(* Mutant: EEXIST is taken for success, as an idempotent PUT would.        *)
Linked_Idempotent(u) ==
    /\ wpc[u] = "link"
    /\ \/ Exists(wname[u]) /\ UNCHANGED dir
       \/ /\ ~Exists(wname[u])
          /\ dir' = [dir EXCEPT ![wname[u]] = dir[TempPath(u)]]
    /\ Finally(u, 200)
    /\ UNCHANGED <<data, mtime, clock, wname, wlen>>

(* Mutant: the losing writer retries its link until the name is free.      *)
Linked_Retry(u) ==
    /\ wpc[u] = "link"
    /\ Exists(TempPath(u)) /\ ~Exists(wname[u])
    /\ dir' = [dir EXCEPT ![wname[u]] = dir[TempPath(u)]]
    /\ Finally(u, 200)
    /\ UNCHANGED <<data, mtime, clock, wname, wlen>>

(***************************************************************************)
(* link(tempPath, finalPath) settles: the commit, EEXIST for the writers   *)
(* that lost the race, or another error.                                   *)
(***************************************************************************)
Linked(u) ==
    /\ wpc[u] = "link"
    /\ \/ "link" \in Faults /\ Finally(u, 500) /\ UNCHANGED dir
       \/ ~Exists(TempPath(u)) /\ Finally(u, 500) /\ UNCHANGED dir
       \/ /\ Exists(TempPath(u)) /\ Exists(wname[u])
          /\ Finally(u, 409)
          /\ UNCHANGED dir
       \/ /\ Exists(TempPath(u)) /\ ~Exists(wname[u])
          /\ dir' = [dir EXCEPT ![wname[u]] = dir[TempPath(u)]]
          /\ Finally(u, 200)
    /\ UNCHANGED <<data, mtime, clock, wname, wlen>>

(* rm(tempPath) settles, its errors swallowed, and the answer is sent.     *)
TempRemoved(u) ==
    /\ wpc[u] = "rm"
    /\ \/ "rm" \in Faults /\ UNCHANGED dir
       \/ dir' = Unlinked(TempPath(u))
    /\ Goto(u, "done")
    /\ UNCHANGED <<data, mtime, clock, wname, wlen, wtotal, wfd, wanswer>>

PutStep(u) ==
    \/ PutChecked(u) \/ TempOpened(u) \/ ChunkPulled(u) \/ BodyDone(u)
    \/ BodyFails(u) \/ WriterEnded(u) \/ Linked(u) \/ TempRemoved(u)

(* The process dies: every handler and every descriptor is gone.           *)
WritesLost ==
    /\ wpc' = [u \in Upload |->
                 IF wpc[u] \in {"idle", "done"} THEN wpc[u] ELSE "lost"]
    /\ wfd' = [u \in Upload |-> NoFile]
    /\ wtotal' = [u \in Upload |-> 0]
    /\ UNCHANGED <<wname, wlen, wanswer>>
=============================================================================
