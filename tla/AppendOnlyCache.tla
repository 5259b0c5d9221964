-------------------------- MODULE AppendOnlyCache ---------------------------
(***************************************************************************)
(* What the cache promises its clients, whatever stores it: an entry is    *)
(* one whole upload, the first to be stored under its hash; it is never    *)
(* replaced, only dropped; a read hands out the entry that was stored at   *)
(* some moment between the request and the answer, or a miss that was true *)
(* at such a moment; a conflict is answered only while an entry is there.  *)
(***************************************************************************)
CONSTANTS
    Hash, Put, Get,
    NoEntry          \* nothing stored, nothing read, no hash yet

VARIABLES
    store,           \* hash -> the upload stored under it
    target, put,     \* upload -> its hash and what became of it
    source, get,     \* read -> its hash and what became of it
    got              \* read -> the upload whose bytes it received

vars == <<store, target, put, source, get, got>>

TypeOK ==
    /\ store \in [Hash -> Put \cup {NoEntry}]
    /\ target \in [Put -> Hash \cup {NoEntry}]
    /\ put \in [Put -> {"open", "stored", "conflict", "failed"}]
    /\ source \in [Get -> Hash \cup {NoEntry}]
    /\ get \in [Get -> {"open", "hit", "miss", "failed"}]
    /\ got \in [Get -> Put \cup {NoEntry}]

Init ==
    /\ store = [h \in Hash |-> NoEntry]
    /\ target = [p \in Put |-> NoEntry]
    /\ put = [p \in Put |-> "open"]
    /\ source = [g \in Get |-> NoEntry]
    /\ get = [g \in Get |-> "open"]
    /\ got = [g \in Get |-> NoEntry]

(* A request arrives; the server may turn it away at once.                 *)
BeginPut(p) ==
    /\ put[p] = "open" /\ target[p] = NoEntry
    /\ \E h \in Hash \cup {NoEntry}, s \in {"open", "failed"} :
        /\ target' = [target EXCEPT ![p] = h]
        /\ put' = [put EXCEPT ![p] = s]
    /\ UNCHANGED <<store, source, get, got>>

BeginGet(g) ==
    /\ get[g] = "open" /\ source[g] = NoEntry
    /\ \E h \in Hash \cup {NoEntry}, s \in {"open", "failed"} :
        /\ source' = [source EXCEPT ![g] = h]
        /\ get' = [get EXCEPT ![g] = s]
    /\ UNCHANGED <<store, target, put, got>>

Store(p) ==
    /\ put[p] = "open" /\ target[p] \in Hash
    /\ store[target[p]] = NoEntry
    /\ store' = [store EXCEPT ![target[p]] = p]
    /\ put' = [put EXCEPT ![p] = "stored"]
    /\ UNCHANGED <<target, source, get, got>>

Conflict(p) ==
    /\ put[p] = "open" /\ target[p] \in Hash
    /\ store[target[p]] # NoEntry
    /\ put' = [put EXCEPT ![p] = "conflict"]
    /\ UNCHANGED <<store, target, source, get, got>>

Hit(g) ==
    /\ get[g] = "open" /\ source[g] \in Hash
    /\ store[source[g]] # NoEntry
    /\ got' = [got EXCEPT ![g] = store[source[g]]]
    /\ get' = [get EXCEPT ![g] = "hit"]
    /\ UNCHANGED <<store, target, put, source>>

Miss(g) ==
    /\ get[g] = "open" /\ source[g] \in Hash
    /\ store[source[g]] = NoEntry
    /\ get' = [get EXCEPT ![g] = "miss"]
    /\ UNCHANGED <<store, target, put, source, got>>

(* Entries are dropped one at a time.                                      *)
Drop(h) ==
    /\ store' = [store EXCEPT ![h] = NoEntry]
    /\ UNCHANGED <<target, put, source, get, got>>

(* Requests may fail, all of them at once when the server dies.            *)
Fail ==
    \E P \in SUBSET {p \in Put : put[p] = "open"},
       G \in SUBSET {g \in Get : get[g] = "open"} :
        /\ put' = [p \in Put |-> IF p \in P THEN "failed" ELSE put[p]]
        /\ get' = [g \in Get |-> IF g \in G THEN "failed" ELSE get[g]]
        /\ UNCHANGED <<store, target, source, got>>

Next ==
    \/ \E p \in Put : BeginPut(p) \/ Store(p) \/ Conflict(p)
    \/ \E g \in Get : BeginGet(g) \/ Hit(g) \/ Miss(g)
    \/ \E h \in Hash : Drop(h)
    \/ Fail

Spec == Init /\ [][Next]_vars
=============================================================================
