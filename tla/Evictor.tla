------------------------------- MODULE Evictor -------------------------------
(***************************************************************************)
(* createCacheEvictor: the sweep that a timer starts when CACHE_MAX_BYTES  *)
(* or CACHE_TTL_HOURS is set.  It scans the directory one entry at a time, *)
(* then deletes what is older than the TTL, then the least recently used   *)
(* entries above the cap, awaiting every stat and every rm.  It keeps no   *)
(* index: between a stat and the rm it justified, the directory may move.  *)
(***************************************************************************)
EXTENDS CacheDir, Functions

CONSTANTS
    TtlMs,       \* CACHE_TTL_MS, or NoLimit
    MaxBytes,    \* CACHE_MAX_BYTES, or NoLimit
    NoLimit

ASSUME TtlAssumption == TtlMs \in Nat \cup {NoLimit}
ASSUME MaxBytesAssumption == MaxBytes \in Nat \cup {NoLimit}
ASSUME NoLimitAssumption == NoLimit \notin Nat

VARIABLES
    epc,         \* where the sweep is suspended; "idle" when none runs,
                 \* that is when sweepRunning is false
    enow,        \* the time it started
    listed,      \* names the directory had when the scan began
    visited,     \* names the scan has dealt with
    entries,     \* what it knows of each entry it may still delete
    survivors,   \* entries past the TTL pass, the size pass still to come
    totalBytes,  \* bytes it believes are left
    sizeGauge    \* nx_cache_size_bytes, set by onSweep

sweepVars ==
    <<epc, enow, listed, visited, entries, survivors, totalBytes, sizeGauge>>

(* What a stat returned.  inode is not read by the code: it records which  *)
(* file the stat saw, for the properties.                                  *)
Entry == [name : Name, size : Nat, mtimeMs : 0..MaxClock, inode : Upload]

SweepTypeOK ==
    /\ epc \in {"idle", "scan", "ttl", "size"}
    /\ enow \in 0..MaxClock
    /\ listed \subseteq Name /\ visited \subseteq Name
    /\ entries \subseteq Entry /\ survivors \subseteq Entry
    /\ totalBytes \in Nat
    /\ sizeGauge \in Nat

SweepInit ==
    /\ epc = "idle" /\ enow = 0
    /\ listed = {} /\ visited = {}
    /\ entries = {} /\ survivors = {}
    /\ totalBytes = 0
    /\ sizeGauge = 0

evictionEnabled == MaxBytes # NoLimit \/ TtlMs # NoLimit

SumSizes(S) == SumFunctionOnSet([e \in S |-> e.size], S)

Expired(e) == TtlMs # NoLimit /\ enow > e.mtimeMs + TtlMs

(* Mutant: off by one at the cap.                                          *)
OverCap_OffByOne(bytes) == MaxBytes # NoLimit /\ bytes > MaxBytes + 1

OverCap(bytes) == MaxBytes # NoLimit /\ bytes > MaxBytes

(* Mutant: the .tmp check is missing.                                      *)
Skipped_Never(n) == FALSE

(* The write buffers of uploads in flight end in .tmp; no hash does.       *)
Skipped(n) == n \in Upload

(* Mutant: without the finally block sweepRunning stays set.               *)
SweepReturns_StillRunning(bytes) ==
    /\ UNCHANGED epc
    /\ sizeGauge' = bytes
    /\ entries' = {} /\ survivors' = {} /\ listed' = {} /\ visited' = {}
    /\ totalBytes' = 0 /\ enow' = 0

(* sweep() returns with this totalBytes, onSweep records it, and the       *)
(* finally block lets the next tick start another sweep.                   *)
SweepReturns(bytes) ==
    /\ epc' = "idle"
    /\ sizeGauge' = bytes
    /\ entries' = {} /\ survivors' = {} /\ listed' = {} /\ visited' = {}
    /\ totalBytes' = 0 /\ enow' = 0

(* The timer fires: a tick during a sweep does nothing.                    *)
SweepStarts ==
    /\ evictionEnabled
    /\ epc = "idle"
    /\ epc' = "scan"
    /\ enow' = clock
    /\ listed' = {n \in Name : Exists(n)}
    /\ UNCHANGED <<dirVars, visited, entries, survivors, totalBytes, sizeGauge>>

(***************************************************************************)
(* The scan yields a name and stat() settles.  A name created during the   *)
(* scan may be yielded or not.  A stat that rejects skips the name: it was *)
(* deleted since, or the call failed, which the code does not tell apart.  *)
(***************************************************************************)
EntryStatted ==
    /\ epc = "scan"
    /\ \E n \in Name \ visited :
        /\ n \in listed \/ Exists(n)
        /\ visited' = visited \cup {n}
        /\ \/ /\ Skipped(n) \/ ~Exists(n) \/ "stat" \in Faults
              /\ UNCHANGED entries
           \/ /\ ~Skipped(n) /\ Exists(n)
              /\ entries' = entries \cup
                   {[name |-> n, size |-> Size(dir[n]),
                     mtimeMs |-> mtime[dir[n]], inode |-> dir[n]]}
    /\ UNCHANGED <<dirVars, epc, enow, listed, survivors, totalBytes, sizeGauge>>

(* Mutant: a failed scan is reported as size -1.                           *)
ScanFails_Sentinel ==
    /\ epc = "scan"
    /\ "scan" \in Faults
    /\ SweepReturns(0 - 1)
    /\ UNCHANGED dirVars

(* The scan itself fails: the empty result is returned and recorded.       *)
ScanFails ==
    /\ epc = "scan"
    /\ "scan" \in Faults
    /\ SweepReturns(0)
    /\ UNCHANGED dirVars

ScanEnds ==
    /\ epc = "scan"
    /\ listed \subseteq visited
    /\ epc' = "ttl"
    /\ listed' = {} /\ visited' = {}
    /\ UNCHANGED <<dirVars, enow, entries, survivors, totalBytes, sizeGauge>>

(***************************************************************************)
(* rm(entry.path) settles.  It deletes by name, so whatever file the name  *)
(* leads to now is the one that goes; one that is gone already is fine.    *)
(***************************************************************************)
Deleted(e) == Exists(e.name) /\ dir' = Unlinked(e.name)
Missing(e) == ~Exists(e.name) /\ UNCHANGED dir
Failed(e)  == "sweeprm" \in Faults /\ UNCHANGED dir

(* Mutant: every expired entry is kept among the survivors.                *)
ExpiredEvicted_Survives ==
    /\ epc = "ttl"
    /\ \E e \in entries :
        /\ Expired(e)
        /\ entries' = entries \ {e}
        /\ survivors' = survivors \cup {e}
        /\ Deleted(e) \/ Missing(e) \/ Failed(e)
    /\ UNCHANGED <<data, mtime, clock, epc, enow, listed, visited, totalBytes,
                   sizeGauge>>

ExpiredEvicted ==
    /\ epc = "ttl"
    /\ \E e \in entries :
        /\ Expired(e)
        /\ entries' = entries \ {e}
        /\ \/ (Deleted(e) \/ Missing(e)) /\ UNCHANGED survivors
           \/ Failed(e) /\ survivors' = survivors \cup {e}
    /\ UNCHANGED <<data, mtime, clock, epc, enow, listed, visited, totalBytes,
                   sizeGauge>>

(* The TTL pass is over: the rest survives it, and the cap decides next.   *)
TtlPassEnds ==
    /\ epc = "ttl"
    /\ \A e \in entries : ~Expired(e)
    /\ LET rest == survivors \cup entries IN
       \/ /\ OverCap(SumSizes(rest))
          /\ epc' = "size"
          /\ survivors' = rest
          /\ entries' = {}
          /\ totalBytes' = SumSizes(rest)
          /\ UNCHANGED <<enow, listed, visited, sizeGauge>>
       \/ ~OverCap(SumSizes(rest)) /\ SweepReturns(SumSizes(rest))
    /\ UNCHANGED dirVars

(* Mutant: the size of a deleted entry is not subtracted.                  *)
OldestEvicted_Uncounted ==
    /\ epc = "size"
    /\ OverCap(totalBytes)
    /\ \E e \in survivors :
        /\ \A f \in survivors : e.mtimeMs <= f.mtimeMs
        /\ survivors' = survivors \ {e}
        /\ Deleted(e) \/ Missing(e) \/ Failed(e)
    /\ UNCHANGED <<data, mtime, clock, epc, enow, listed, visited, entries,
                   totalBytes, sizeGauge>>

OldestEvicted ==
    /\ epc = "size"
    /\ OverCap(totalBytes)
    /\ \E e \in survivors :
        /\ \A f \in survivors : e.mtimeMs <= f.mtimeMs
        /\ survivors' = survivors \ {e}
        /\ \/ (Deleted(e) \/ Missing(e)) /\ totalBytes' = totalBytes - e.size
           \/ Failed(e) /\ UNCHANGED totalBytes
    /\ UNCHANGED <<data, mtime, clock, epc, enow, listed, visited, entries,
                   sizeGauge>>

SizePassEnds ==
    /\ epc = "size"
    /\ ~OverCap(totalBytes) \/ survivors = {}
    /\ SweepReturns(totalBytes)
    /\ UNCHANGED dirVars

SweepStep ==
    \/ EntryStatted \/ ScanFails \/ ScanEnds \/ ExpiredEvicted \/ TtlPassEnds
    \/ OldestEvicted \/ SizePassEnds

(* The process dies: the sweep and the metrics registry are gone.          *)
SweepLost == SweepReturns(0)
=============================================================================
