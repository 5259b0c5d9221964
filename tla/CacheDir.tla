------------------------------ MODULE CacheDir ------------------------------
(***************************************************************************)
(* The cache directory of the filesystem strategy, as the server's upload  *)
(* handlers, download handlers and eviction sweep share it.                *)
(*                                                                         *)
(* A name in the directory is a hash (a committed entry) or the name       *)
(* `<hash>.<uuid>.tmp` of a write buffer.  The uuid is drawn once for an   *)
(* upload, so an upload stands for the temporary name it draws as well as  *)
(* for the inode that opening this name creates.  A file's content is the  *)
(* sequence of the uploads its bytes came from: what matters is whether an *)
(* entry holds every byte of one upload, and of no other.                  *)
(***************************************************************************)
EXTENDS Naturals, Sequences, FiniteSets

CONSTANTS
    Hash,        \* names isValidHash accepts
    Upload,      \* PUT requests, and the temporary names and inodes they make
    NoFile,      \* no inode under this name, no open descriptor, no name
    MaxClock,    \* bound on the wall clock
    Faults       \* which calls into the operating system may fail

(***************************************************************************)
(* The faults a configuration can switch on: "exists", "open", "write",    *)
(* "link", "rm", "utimes", "scan", "stat", "sweeprm" and "startup" make    *)
(* the call of that name fail; "client" is a client that drops its         *)
(* connection while it uploads; "prune" is the documented cron job that    *)
(* deletes entries behind the server's back; "power" undoes what was not   *)
(* yet on the disk.                                                        *)
(***************************************************************************)
FaultKinds == { "exists", "open", "write", "link", "rm", "utimes", "scan",
                "stat", "sweeprm", "startup", "client", "prune", "power" }

ASSUME NamesAssumption == Hash \cap Upload = {} /\ NoFile \notin Hash \cup Upload
ASSUME ClockAssumption == MaxClock \in Nat
ASSUME FaultsAssumption == Faults \subseteq FaultKinds

VARIABLES
    dir,         \* name -> inode, or NoFile
    data,        \* inode -> its content
    mtime,       \* inode -> its modification time
    clock        \* Date.now()

dirVars == <<dir, data, mtime, clock>>

Name == Hash \cup Upload

DirTypeOK ==
    /\ dir \in [Name -> Upload \cup {NoFile}]
    /\ data \in [Upload -> Seq(Upload)]
    /\ mtime \in [Upload -> 0..MaxClock]
    /\ clock \in 0..MaxClock

DirInit ==
    /\ dir = [n \in Name |-> NoFile]
    /\ data = [i \in Upload |-> <<>>]
    /\ mtime = [i \in Upload |-> 0]
    /\ clock = 0

(* Mutant: any path segment passes for a hash.                             *)
isValidHash_AnyName(n) == n \in Name

(* The predicate isValidHash: a hash has no dot, a temporary name has two. *)
isValidHash(n) == n \in Hash

(* Mutant: one fixed buffer name, as `${hash}.tmp` would be.               *)
TempPath_Shared(u) == CHOOSE v \in Upload : TRUE

(* The name under which an upload buffers its body.                        *)
TempPath(u) == u

Exists(n) == dir[n] # NoFile

Size(i) == Len(data[i])

(* n bytes received by upload u.                                           *)
Bytes(u, n) == [k \in 1..n |-> u]

(* unlink(n): descriptors open on the inode keep it alive.                 *)
Unlinked(n) == [dir EXCEPT ![n] = NoFile]

(* Time passes between any two steps.                                      *)
Tick ==
    /\ clock < MaxClock
    /\ clock' = clock + 1
    /\ UNCHANGED <<dir, data, mtime>>
=============================================================================
