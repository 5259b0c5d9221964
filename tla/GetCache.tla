------------------------------ MODULE GetCache ------------------------------
(***************************************************************************)
(* GET /v1/cache/:hash: the handler getCache over the exists, getStream    *)
(* and getSize of FileSystemStrategy, and the body that is sent after the  *)
(* handler has returned.  The three calls each look the hash up again.     *)
(***************************************************************************)
EXTENDS CacheDir

CONSTANT Download      \* GET requests

VARIABLES
    rpc,      \* download -> where its handler is suspended
    rname,    \* download -> the :hash of its URL
    rnow,     \* download -> the access time getStream captured
    rfd,      \* download -> inode its response body reads
    rsize,    \* download -> contentLength of its response
    ranswer   \* download -> status of its response

getVars == <<rpc, rname, rnow, rfd, rsize, ranswer>>

GetStates == {"idle", "exists", "utimes", "open", "size", "body", "done", "lost"}

canRead(permission) == permission \in {"readonly", "full"}

GetTypeOK ==
    /\ rpc \in [Download -> GetStates]
    /\ rname \in [Download -> Name \cup {NoFile}]
    /\ rnow \in [Download -> 0..MaxClock]
    /\ rfd \in [Download -> Upload \cup {NoFile}]
    /\ rsize \in [Download -> Nat]
    /\ ranswer \in [Download -> {0, 200, 400, 403, 404, 500}]

GetInit ==
    /\ rpc = [r \in Download |-> "idle"]
    /\ rname = [r \in Download |-> NoFile]
    /\ rnow = [r \in Download |-> 0]
    /\ rfd = [r \in Download |-> NoFile]
    /\ rsize = [r \in Download |-> 0]
    /\ ranswer = [r \in Download |-> 0]

Answer(r, status) ==
    /\ rpc' = [rpc EXCEPT ![r] = "done"]
    /\ ranswer' = [ranswer EXCEPT ![r] = status]

Proceed(r, pc) == rpc' = [rpc EXCEPT ![r] = pc] /\ UNCHANGED ranswer

(* A request is routed: permission and hash are judged at once.            *)
GetArrives(r) ==
    /\ rpc[r] = "idle"
    /\ \E n \in Name, permission \in {"none", "readonly", "full"} :
        \/ ~canRead(permission) /\ Answer(r, 403) /\ UNCHANGED rname
        \/ /\ canRead(permission) /\ ~isValidHash(n)
           /\ Answer(r, 400)
           /\ UNCHANGED rname
        \/ /\ canRead(permission) /\ isValidHash(n)
           /\ rname' = [rname EXCEPT ![r] = n]
           /\ Proceed(r, "exists")
    /\ UNCHANGED <<dirVars, rnow, rfd, rsize>>

(* exists() settles; a hit enters getStream, which reads the clock.        *)
GetChecked(r) ==
    /\ rpc[r] = "exists"
    /\ \/ "exists" \in Faults /\ Answer(r, 500) /\ UNCHANGED rnow
       \/ ~Exists(rname[r]) /\ Answer(r, 404) /\ UNCHANGED rnow
       \/ /\ Exists(rname[r])
          /\ rnow' = [rnow EXCEPT ![r] = clock]
          /\ Proceed(r, "utimes")
    /\ UNCHANGED <<dirVars, rname, rfd, rsize>>

(***************************************************************************)
(* utimes(path, now, now) stamps whatever inode the path names by then;    *)
(* its errors are swallowed.                                               *)
(***************************************************************************)
AccessStamped(r) ==
    /\ rpc[r] = "utimes"
    /\ \/ /\ "utimes" \in Faults \/ ~Exists(rname[r])
          /\ UNCHANGED mtime
       \/ /\ Exists(rname[r])
          /\ mtime' = [mtime EXCEPT ![dir[rname[r]]] = rnow[r]]
    /\ Proceed(r, "open")
    /\ rnow' = [rnow EXCEPT ![r] = 0]
    /\ UNCHANGED <<dir, data, clock, rname, rfd, rsize>>

(* The primed read opens the file: gone by now is a 500, not a hit.        *)
StreamOpened(r) ==
    /\ rpc[r] = "open"
    /\ \/ /\ "open" \in Faults \/ ~Exists(rname[r])
          /\ Answer(r, 500)
          /\ UNCHANGED rfd
       \/ /\ Exists(rname[r])
          /\ rfd' = [rfd EXCEPT ![r] = dir[rname[r]]]
          /\ Proceed(r, "size")
    /\ UNCHANGED <<dirVars, rname, rnow, rsize>>

(* getSize looks the path up again: 0 when the entry is gone.              *)
SizeRead(r) ==
    /\ rpc[r] = "size"
    /\ rsize' = [rsize EXCEPT ![r] =
                   IF Exists(rname[r]) THEN Size(dir[rname[r]]) ELSE 0]
    /\ rpc' = [rpc EXCEPT ![r] = "body"]
    /\ ranswer' = [ranswer EXCEPT ![r] = 200]
    /\ UNCHANGED <<dirVars, rname, rnow, rfd>>

(* The body ends: sent to its end, failed, or cancelled by the client.     *)
BodyClosed(r) ==
    /\ rpc[r] = "body"
    /\ Proceed(r, "done")
    /\ rsize' = [rsize EXCEPT ![r] = 0]
    /\ UNCHANGED <<dirVars, rname, rnow, rfd>>

GetStep(r) ==
    \/ GetChecked(r) \/ AccessStamped(r) \/ StreamOpened(r)
    \/ SizeRead(r) \/ BodyClosed(r)

(* The process dies with its downloads.                                    *)
ReadsLost ==
    /\ rpc' = [r \in Download |->
                 IF rpc[r] \in {"idle", "done"} THEN rpc[r] ELSE "lost"]
    /\ rnow' = [r \in Download |-> 0]
    /\ rsize' = [r \in Download |-> 0]
    /\ UNCHANGED <<rname, rfd, ranswer>>
=============================================================================
