---------------------------- MODULE FsCacheServer ----------------------------
(***************************************************************************)
(* The server with the filesystem strategy: uploads, downloads and the     *)
(* eviction sweep on one cache directory, the process that runs them, its  *)
(* death at any moment, and the restart that sweeps orphaned buffers.      *)
(***************************************************************************)
EXTENDS WriteCache, GetCache, Evictor

CONSTANT MaxCrashes    \* bound on the number of crashes

ASSUME CrashesAssumption == MaxCrashes \in Nat

VARIABLES
    up,          \* the process runs
    crashes,     \* how often it has died
    present,     \* history: inodes committed when the running sweep began
    stale        \* history: those of them past the TTL at its every step

historyVars == <<present, stale>>

vars == <<dirVars, writeVars, getVars, sweepVars, up, crashes, historyVars>>

Committed == {dir[h] : h \in Hash} \ {NoFile}

SizeOf(I) == SumFunctionOnSet([i \in I |-> Size(i)], I)

(* Those of I that were last accessed more than the TTL before time t.     *)
PastTtl(I, t) == {i \in I : TtlMs # NoLimit /\ t > mtime[i] + TtlMs}

TypeOK ==
    /\ DirTypeOK /\ WriteTypeOK /\ GetTypeOK /\ SweepTypeOK
    /\ up \in BOOLEAN
    /\ crashes \in 0..MaxCrashes
    /\ stale \subseteq present /\ present \subseteq Upload

Init ==
    /\ DirInit /\ WriteInit /\ GetInit /\ SweepInit
    /\ up = TRUE /\ crashes = 0 /\ present = {} /\ stale = {}

PutRequest(u) ==
    /\ up
    /\ PutArrives(u) \/ PutStep(u)
    /\ UNCHANGED <<getVars, sweepVars, up, crashes, historyVars>>

GetRequest(r) ==
    /\ up
    /\ GetArrives(r) \/ GetStep(r)
    /\ UNCHANGED <<writeVars, sweepVars, up, crashes, historyVars>>

Sweep ==
    /\ up
    /\ \/ /\ SweepStarts
          /\ present' = Committed
          /\ stale' = PastTtl(present', clock)
       \/ /\ SweepStep
          /\ present' = IF epc' = "idle" THEN {} ELSE present
          /\ stale' = IF epc' = "idle" THEN {} ELSE PastTtl(stale, enow)
    /\ UNCHANGED <<writeVars, getVars, up, crashes>>

Clock == Tick /\ UNCHANGED <<writeVars, getVars, sweepVars, up, crashes, historyVars>>

(* The documented cron job deletes an entry, server or no server.          *)
Prune(h) ==
    /\ "prune" \in Faults
    /\ Exists(h)
    /\ dir' = Unlinked(h)
    /\ UNCHANGED <<data, mtime, clock, writeVars, getVars, sweepVars, up,
                   crashes, historyVars>>

(* Files that name n once led to: buffers, and the uploads it stored.      *)
Earlier(n) ==
    {u \in Upload : \/ n \in Hash /\ wname[u] = n /\ wanswer[u] = 200
                    \/ n = TempPath(u) /\ Size(u) > 0}

(***************************************************************************)
(* A power cut undoes what was not on the disk yet.  The code syncs no     *)
(* file and no directory, so each name may be as it is, gone although it   *)
(* was linked, or back although it was removed; a file may have lost bytes *)
(* at its end, and a time stamp may be any.                                *)
(***************************************************************************)
PowerCut ==
    /\ "power" \in Faults
    /\ \E names \in [Name -> Upload \cup {NoFile}], kept \in [Upload -> 0..MaxUploadBytes] :
        /\ \A n \in Name : names[n] \in {dir[n], NoFile} \cup Earlier(n)
        /\ dir' = names
        /\ data' = [i \in Upload |-> IF kept[i] < Size(i) THEN SubSeq(data[i], 1, kept[i])
                                                       ELSE data[i]]
    /\ mtime' \in [Upload -> 0..clock]

(***************************************************************************)
(* SIGKILL, the OOM killer, or shutdown's process.exit after the drain     *)
(* timeout: files stay as they are.  Or the machine goes down with it.     *)
(***************************************************************************)
Crash ==
    /\ up /\ crashes < MaxCrashes
    /\ up' = FALSE
    /\ crashes' = crashes + 1
    /\ WritesLost /\ ReadsLost /\ SweepLost
    /\ present' = {} /\ stale' = {}
    /\ PowerCut \/ UNCHANGED <<dir, data, mtime>>
    /\ UNCHANGED clock

(* Mutant: the constructor does not sweep.                                 *)
Restart_NoSweep ==
    /\ ~up
    /\ up' = TRUE
    /\ UNCHANGED <<dirVars, writeVars, getVars, sweepVars, crashes, historyVars>>

(***************************************************************************)
(* The constructor of FileSystemStrategy runs sweepOrphanedTempFiles, then *)
(* the server listens.  A failing rmSync ends the sweep and is logged.     *)
(***************************************************************************)
Restart ==
    /\ ~up
    /\ up' = TRUE
    /\ \E swept \in SUBSET Upload :
        /\ swept # Upload => "startup" \in Faults
        /\ dir' = [n \in Name |-> IF n \in swept THEN NoFile ELSE dir[n]]
    /\ UNCHANGED <<data, mtime, clock, writeVars, getVars, sweepVars, crashes,
                   historyVars>>

Next ==
    \/ \E u \in Upload : PutRequest(u)
    \/ \E r \in Download : GetRequest(r)
    \/ \E h \in Hash : Prune(h)
    \/ Sweep \/ Clock \/ Crash \/ Restart

Spec == Init /\ [][Next]_vars

(***************************************************************************)
(* Fairness.  The event loop runs every handler whose awaited call has     *)
(* settled, the timer goes on firing, and a supervisor restarts a dead     *)
(* process.  A body stream ends one way or another: Bun closes a           *)
(* connection that stays idle, which makes the pending read reject.        *)
(***************************************************************************)
Fairness ==
    /\ \A u \in Upload : WF_vars(PutRequest(u) /\ wpc[u] # "idle")
    /\ \A r \in Download : WF_vars(GetRequest(r) /\ rpc[r] # "idle")
    /\ WF_vars(Sweep)
    /\ WF_vars(Restart)

FairSpec == Spec /\ Fairness

-----------------------------------------------------------------------------
(* Safety of the entries.                                                  *)

(* A file holds the whole upload that made it, and nothing else.           *)
Intact(i) == data[i] = Bytes(i, wlen[i])

(***************************************************************************)
(* From the opening of its buffer to its link, an upload's temporary name  *)
(* leads to the upload's own inode, which no other writer has open and     *)
(* which holds the bytes counted so far: concurrent uploads of one hash    *)
(* never share a buffer, and neither the sweep nor a restart takes it away *)
(* (getTempPath, file-system.ts:78-82; eviction.ts:77-80).                 *)
(***************************************************************************)
BufferSafe ==
    \A u \in Upload : wpc[u] \in {"stream", "end", "link"} =>
        /\ dir[TempPath(u)] = u
        /\ data[u] = Bytes(u, wtotal[u])
        /\ \A v \in Upload \ {u} : wfd[v] # u

(***************************************************************************)
(* An entry a client can look up is complete and comes from one upload: no *)
(* interleaving of writers, no refused, failed or killed upload leaves a   *)
(* partial artifact under a hash (writeStream, file-system.ts:168-193).    *)
(***************************************************************************)
CommittedIntact == \A i \in Committed : Intact(i)

(* A file holds the beginning of the upload that made it, and nothing else. *)
Unmixed(i) == \E n \in 0..wlen[i] : data[i] = Bytes(i, n)

(***************************************************************************)
(* What a power cut can do to an entry is to shorten it: it holds the      *)
(* bytes of one upload from the first on and never those of two, whatever  *)
(* links, removals and writes of racing uploads the cut undid (getTempPath *)
(* and writeStream, file-system.ts:78-82 and 168-183).                     *)
(***************************************************************************)
CommittedUnmixed == \A i \in Committed : Unmixed(i)

(***************************************************************************)
(* Whatever inode a download has open is a complete artifact, also after   *)
(* the sweep or the cron job unlinked it and another upload took its name. *)
(* In particular no download reads a buffer (getStream, file-system.ts:    *)
(* 96-143, and the isValidHash check of get-cache.ts:22).                  *)
(***************************************************************************)
ServedIntact == \A r \in Download : rfd[r] # NoFile => Intact(rfd[r])

(***************************************************************************)
(* Append-only: a step may add an entry or drop it, never put another file *)
(* under a hash that has one (link instead of rename, file-system.ts:      *)
(* 179-183).  Only a power cut may, when it undoes a removal.              *)
(***************************************************************************)
NeverReplaced ==
    [][\A h \in Hash : dir[h] # NoFile => dir'[h] \in {dir[h], NoFile}]_vars

(***************************************************************************)
(* An upload answered 409 was refused for an upload of the same hash that  *)
(* was answered 200, or whose 200 is on its way: two racing writers never  *)
(* both lose (the two conflict paths, write-cache.ts:63 and 137).          *)
(***************************************************************************)
ConflictHasWinner ==
    \A u \in Upload : wanswer[u] = 409 =>
        \E v \in Upload \ {u} : wname[v] = wname[u] /\ wanswer[v] = 200

(***************************************************************************)
(* While nothing deletes entries and the power stays on, at most one       *)
(* upload of a hash is answered 200, crashes and restarts of the process   *)
(* included (first writer wins).                                           *)
(***************************************************************************)
OneWinner ==
    \A u, v \in Upload :
        wanswer[u] = 200 /\ wanswer[v] = 200 /\ wname[u] = wname[v] => u = v

(***************************************************************************)
(* A buffer in the directory belongs to an upload in flight; after a crash *)
(* none is left once the server runs again, so the directory never         *)
(* accumulates files nobody can see (file-system.ts:59-72 and 189-193).    *)
(***************************************************************************)
NoOrphanBuffers ==
    up => \A u \in Upload :
             Exists(TempPath(u)) => wpc[u] \in {"stream", "end", "link", "rm"}

(***************************************************************************)
(* When the calls that are not best-effort succeed, no interleaving makes  *)
(* the server answer 500: a buffer is there for its link(), and a hit seen *)
(* by exists() is there for the open, unless an entry of the same hash was *)
(* dropped (file-system.ts:81 and 174-193; get-cache.ts:28-37).            *)
(***************************************************************************)
Dropped == {u \in Upload : wanswer[u] = 200 /\ dir[wname[u]] # u}

NoSpurious500 ==
    /\ \A u \in Upload : wanswer[u] # 500
    /\ \A r \in Download : ranswer[r] = 500 => \E u \in Dropped : wname[u] = rname[r]

-----------------------------------------------------------------------------
(* Eviction.                                                               *)

(***************************************************************************)
(* What the sweep knows of an entry it may delete still describes the file *)
(* under that name: its rm never takes away a younger upload of the same   *)
(* hash, and it subtracts the bytes it freed.  Needs that only the sweep   *)
(* deletes entries (eviction.ts:28-35).                                    *)
(***************************************************************************)
SweepSeesCurrent ==
    \A e \in entries \cup survivors :
        dir[e.name] = e.inode /\ e.size = Size(e.inode)

(* The entries I fit CACHE_MAX_BYTES.                                      *)
FitsCap(I) == MaxBytes # NoLimit => SizeOf(I) <= MaxBytes

SweepReturned == epc # "idle" /\ epc' = "idle" /\ up'

(***************************************************************************)
(* nx_cache_size_bytes after a sweep counts every entry that was there     *)
(* when the sweep began and still is, and nothing that is not there:       *)
(* uploads committed meanwhile may be missing from it ("Committed cache    *)
(* size in bytes after the sweep", eviction.ts:7).  Needs that the scan    *)
(* and its stats succeed.                                                  *)
(***************************************************************************)
GaugeCountsEntries ==
    [][SweepReturned =>
         /\ SizeOf(present \cap Committed') <= sizeGauge'
         /\ sizeGauge' <= SizeOf(Committed')]_vars

(***************************************************************************)
(* After a sweep the entries it found fit the cap, and none of them was    *)
(* past the TTL at its every step: only a download that stamped an entry   *)
(* before its stat saves it.  (A late utimes may make an entry look older  *)
(* again after its stat; that one goes with the next sweep.)               *)
(* eviction.ts:95-111.                                                     *)
(***************************************************************************)
SweepEnforcesLimits ==
    [][SweepReturned =>
         /\ FitsCap(present \cap Committed')
         /\ PastTtl(stale, enow) \cap Committed' = {}]_vars

(* The server deletes the entry of hash h in this step.                    *)
Evicts(h) == up' /\ dir[h] # NoFile /\ dir'[h] = NoFile

(***************************************************************************)
(* The size pass deletes an entry only while the directory really holds    *)
(* more than the cap: the bytes it subtracts are the bytes it freed, so it *)
(* never trims further than asked (eviction.ts:104-111).                   *)
(***************************************************************************)
EvictsOnlyOverCap ==
    [][\A h \in Hash : Evicts(h) /\ epc = "size" =>
         ~FitsCap(Committed)]_vars

(***************************************************************************)
(* "Every cache hit refreshes an entry's recency, so artifacts in active   *)
(* use survive the TTL" (configuration.md:48): the TTL pass deletes no     *)
(* entry whose last access is within the TTL when it is deleted.           *)
(***************************************************************************)
ActiveSurvivesTtl ==
    [][\A h \in Hash : Evicts(h) /\ epc = "ttl" =>
         enow > mtime[dir[h]] + TtlMs]_vars

-----------------------------------------------------------------------------
(* Liveness.                                                               *)

(* Every upload that arrived is answered, unless the process dies on it.   *)
PutAnswered == \A u \in Upload : wpc[u] = "exists" ~> wpc[u] \in {"done", "lost"}

(***************************************************************************)
(* Once uploads stop, the cache comes to fit its cap and stays there,      *)
(* although an upload may commit behind the scan of a running sweep.  So   *)
(* every sweep ends and leaves the timer free to start the next one:       *)
(* sweepRunning is never left set (the finally of eviction.ts:114-116).    *)
(***************************************************************************)
CapReached == <>[]FitsCap(Committed)

-----------------------------------------------------------------------------
(***************************************************************************)
(* Refinement: the server implements AppendOnlyCache.  An entry is stored  *)
(* by the link and read by the open of a download; a file that is not one  *)
(* whole upload stands for no entry, so a torn artifact has no abstract    *)
(* counterpart.                                                            *)
(***************************************************************************)
entryOf(i) == IF i # NoFile /\ Intact(i) THEN i ELSE NoFile

hashOf(n) == IF n \in Hash THEN n ELSE NoFile

putState(u) ==
    CASE wanswer[u] = 200 -> "stored"
      [] wanswer[u] = 409 -> "conflict"
      [] wanswer[u] \in {400, 403, 413, 500} -> "failed"
      [] wanswer[u] = 0 -> IF wpc[u] = "lost" THEN "failed" ELSE "open"

getState(r) ==
    CASE rfd[r] # NoFile -> "hit"
      [] ranswer[r] = 404 -> "miss"
      [] ranswer[r] \in {400, 403, 500} /\ rfd[r] = NoFile -> "failed"
      [] ranswer[r] = 0 /\ rfd[r] = NoFile ->
            IF rpc[r] = "lost" THEN "failed" ELSE "open"

Abstract == INSTANCE AppendOnlyCache WITH
    Put <- Upload, Get <- Download, NoEntry <- NoFile,
    store <- [h \in Hash |-> entryOf(dir[h])],
    target <- [u \in Upload |-> hashOf(wname[u])],
    put <- [u \in Upload |-> putState(u)],
    source <- [r \in Download |-> hashOf(rname[r])],
    get <- [r \in Download |-> getState(r)],
    got <- [r \in Download |-> entryOf(rfd[r])]

(* Every behaviour of the server is one the clients of an append-only      *)
(* cache expect.                                                           *)
ImplementsAppendOnlyCache == Abstract!Spec
=============================================================================
