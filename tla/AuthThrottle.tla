---------------------------- MODULE AuthThrottle ----------------------------
(***************************************************************************)
(* AuthThrottle: which clients have failed to authenticate, how recently,  *)
(* and which of them are answered 429.  recordFailure runs without an      *)
(* await, so one call is one step; calls of different clients and the      *)
(* clock interleave.                                                       *)
(*                                                                         *)
(* The two JavaScript Maps are the sets below and blocked with the common  *)
(* function attempts; ahead[c] holds the clients before c in the insertion *)
(* order of the Map that c is in.                                          *)
(***************************************************************************)
EXTENDS Integers, Sequences, FiniteSets

CONSTANTS
    Client,       \* throttle buckets: IPv4 addresses and IPv6 /64 prefixes
    MaxTracked,   \* MAX_TRACKED_CLIENTS
    maxFailures,
    windowMs,
    Horizon       \* bound on the clock

ASSUME ClientAssumption == IsFiniteSet(Client)
ASSUME TrackedAssumption == MaxTracked \in Nat \ {0}
ASSUME FailuresAssumption == maxFailures \in Nat \ {0}
ASSUME WindowAssumption == windowMs \in Nat \ {0}
ASSUME HorizonAssumption == Horizon \in Nat

VARIABLES
    below,          \* keys of #belowThreshold
    blocked,        \* keys of #blocked
    attempts,       \* client -> its failure times, ascending; <<>> untracked
    ahead,          \* client -> clients before it in its Map
    nextReleaseAt,  \* #nextReleaseAt
    now,            \* performance.now()
    appended        \* history: clients that a release put where they are

vars == <<below, blocked, attempts, ahead, nextReleaseAt, now, appended>>

(* Later than any time a client can be released at.                        *)
Infinity == Horizon + windowMs + 1

Tracked == below \cup blocked

TypeOK ==
    /\ below \subseteq Client /\ blocked \subseteq Client
    /\ attempts \in [Client -> Seq(0..Horizon)]
    /\ ahead \in [Client -> SUBSET Client]
    /\ nextReleaseAt \in 0..Infinity
    /\ now \in 0..Horizon
    /\ appended \subseteq Client

Init ==
    /\ below = {} /\ blocked = {}
    /\ attempts = [c \in Client |-> <<>>]
    /\ ahead = [c \in Client |-> {}]
    /\ nextReleaseAt = Infinity
    /\ now = 0
    /\ appended = {}

(* The failures of s still in the window.  The times are ascending, so     *)
(* filtering out the old ones leaves a suffix.                             *)
Recent(s) ==
    LET old == Cardinality({i \in 1..Len(s) : s[i] + windowMs <= now})
    IN  SubSeq(s, old + 1, Len(s))

(* The max-th newest failure is still in the window.                       *)
IsBlocked(s) ==
    /\ Len(s) >= maxFailures
    /\ s[Len(s) - maxFailures + 1] + windowMs > now

(* When the oldest failure of c ages out.                                  *)
ReleaseAt(c) == attempts[c][1] + windowMs

Size(L, B) == Cardinality(L) + Cardinality(B)

-----------------------------------------------------------------------------
(***************************************************************************)
(* The part of recordFailure that follows makeRoom, for a client already   *)
(* out of both Maps, which by now hold the clients L and B: its failure is *)
(* stored behind the others.  kept are the clients that were released into *)
(* L, in the order they had among the blocked.                             *)
(***************************************************************************)
Store(c, L, B, kept, release) ==
    LET recent == Append(Recent(attempts[c]), now)
        blocks == Len(recent) >= maxFailures
    IN  /\ below' = IF blocks THEN L ELSE L \cup {c}
        /\ blocked' = IF blocks THEN B \cup {c} ELSE B
        /\ attempts' = [x \in Client |->
              CASE x = c -> recent
                [] x # c /\ x \in kept -> Recent(attempts[x])
                [] x # c /\ x \notin kept /\ x \in L \cup B -> attempts[x]
                [] x # c /\ x \notin kept \cup L \cup B -> <<>>]
        /\ ahead' = [x \in Client |->
              CASE x = c -> IF blocks THEN B ELSE L
                [] x # c /\ x \in kept -> (below \cup (ahead[x] \cap kept)) \cap (L \ {c})
                [] x # c /\ x \notin kept /\ x \in L \cup B ->
                      ahead[x] \cap ((L \cup B) \ (kept \cup {c}))
                [] x # c /\ x \notin kept \cup L \cup B -> {}]
        /\ nextReleaseAt' =
              IF blocks /\ recent[1] + windowMs < release
                 THEN recent[1] + windowMs ELSE release
        /\ appended' = ((appended \cap L) \cup kept) \ {c}
        /\ UNCHANGED now

(* Mutant: off by one at the limit.                                        *)
NeedsRoom_OffByOne(c) ==
    /\ Recent(attempts[c]) = <<>>
    /\ Size(below \ {c}, blocked \ {c}) > MaxTracked

(* The client has no failure in the window and every slot is taken.        *)
NeedsRoom(c) ==
    /\ Recent(attempts[c]) = <<>>
    /\ Size(below \ {c}, blocked \ {c}) >= MaxTracked

(* Mutant: once the gate is open the walk releases everyone.               *)
Released_All(c) == {b \in blocked \ {c} : now >= nextReleaseAt}

(* Mutant: the gate opens one tick late.                                   *)
Released_Late(c) ==
    {b \in blocked \ {c} : now > nextReleaseAt /\ ReleaseAt(b) <= now}

(* releaseExpiredBlocks walks the blocked clients only from nextReleaseAt  *)
(* on, drops those whose oldest failure aged out, and appends those with a *)
(* newer one to the clients below the threshold.                           *)
Released(c) ==
    {b \in blocked \ {c} : now >= nextReleaseAt /\ ReleaseAt(b) <= now}

(* Mutant: a client without recent failures is kept too.                   *)
Kept_All(c) == Released(c)

Kept(c) == {b \in Released(c) : Recent(attempts[b]) # <<>>}

BelowAfter(c) == (below \ {c}) \cup Kept(c)

BlockedAfter(c) == blocked \ ({c} \cup Released(c))

ReleaseTimes(c) == {ReleaseAt(b) : b \in BlockedAfter(c)} \cup {Infinity}

(* Mutant: the gate is reset, the minimum over the others is not taken.    *)
NextReleaseAfter_Reset(c) ==
    IF now < nextReleaseAt THEN nextReleaseAt ELSE Infinity

NextReleaseAfter(c) ==
    IF now < nextReleaseAt
       THEN nextReleaseAt
       ELSE CHOOSE t \in ReleaseTimes(c) : \A s \in ReleaseTimes(c) : t <= s

-----------------------------------------------------------------------------
(* recordFailure: answered true, nothing recorded.                         *)
Throttled(c) ==
    /\ IsBlocked(attempts[c])
    /\ UNCHANGED vars

(* The client is tracked already, or a slot is free.                       *)
Recorded(c) ==
    /\ ~IsBlocked(attempts[c])
    /\ ~NeedsRoom(c)
    /\ Store(c, below \ {c}, blocked \ {c}, {}, nextReleaseAt)

(* makeRoom: releasing blocks that aged out frees a slot.                  *)
RecordedAfterRelease(c) ==
    /\ ~IsBlocked(attempts[c])
    /\ NeedsRoom(c)
    /\ Size(BelowAfter(c), BlockedAfter(c)) < MaxTracked
    /\ Store(c, BelowAfter(c), BlockedAfter(c), Kept(c), NextReleaseAfter(c))

(* Mutant: any client below the threshold may go.                          *)
OldestBelow_Any(c, v) == v \in BelowAfter(c)

(* v comes first in the order of the Map once the aged-out blocks are in.  *)
OldestBelow(c, v) ==
    /\ v \in BelowAfter(c)
    /\ IF v \in Kept(c)
          THEN below \ {c} = {} /\ ahead[v] \cap Kept(c) = {}
          ELSE ahead[v] \ {c} = {}

(* makeRoom: no slot is freed, the first client below the threshold goes.  *)
RecordedAfterEviction(c) ==
    /\ ~IsBlocked(attempts[c])
    /\ NeedsRoom(c)
    /\ Size(BelowAfter(c), BlockedAfter(c)) >= MaxTracked
    /\ \E v \in BelowAfter(c) :
          /\ OldestBelow(c, v)
          /\ Store(c, BelowAfter(c) \ {v}, BlockedAfter(c), Kept(c) \ {v},
                   NextReleaseAfter(c))

(* A failure of the client now finds no slot to free and no one to drop.   *)
NoSlot(c) ==
    /\ ~IsBlocked(attempts[c])
    /\ NeedsRoom(c)
    /\ Size(BelowAfter(c), BlockedAfter(c)) >= MaxTracked
    /\ BelowAfter(c) = {}

(* makeRoom answers false, the client stays untracked.                     *)
Refused(c) ==
    /\ NoSlot(c)
    /\ below' = {}
    /\ blocked' = BlockedAfter(c)
    /\ attempts' = [x \in Client |-> IF x \in BlockedAfter(c) THEN attempts[x] ELSE <<>>]
    /\ ahead' = [x \in Client |->
                   IF x \in BlockedAfter(c) THEN ahead[x] \cap BlockedAfter(c) ELSE {}]
    /\ nextReleaseAt' = NextReleaseAfter(c)
    /\ appended' = {}
    /\ UNCHANGED now

recordFailure(c) ==
    \/ Throttled(c) \/ Recorded(c) \/ RecordedAfterRelease(c)
    \/ RecordedAfterEviction(c) \/ Refused(c)

Tick ==
    /\ now < Horizon
    /\ now' = now + 1
    /\ UNCHANGED <<below, blocked, attempts, ahead, nextReleaseAt, appended>>

Next == Tick \/ \E c \in Client : recordFailure(c)

Spec == Init /\ [][Next]_vars

-----------------------------------------------------------------------------
(***************************************************************************)
(* The tracker never grows past its limit, whatever addresses the failures *)
(* come from, and no client is in both Maps (auth-throttle.ts:86-89).      *)
(***************************************************************************)
TrackerBounded ==
    /\ below \cap blocked = {}
    /\ Cardinality(Tracked) <= MaxTracked

(***************************************************************************)
(* A client is in the Map its failures put it in: a blocked one has        *)
(* exactly maxFailures of them, one below fewer, an untracked one none.    *)
(* So the length of a list alone tells the Maps apart, and the oldest      *)
(* entry is the one whose ageing unblocks (auth-throttle.ts:77, 92-98).    *)
(***************************************************************************)
AttemptsMatchMaps ==
    \A c \in Client :
        /\ c \in blocked => Len(attempts[c]) = maxFailures
        /\ c \in below => Len(attempts[c]) \in 1..(maxFailures - 1)
        /\ c \notin Tracked => attempts[c] = <<>>

(***************************************************************************)
(* nextReleaseAt is a lower bound: no blocked client can drop below the    *)
(* threshold before it, so skipping the walk of releaseExpiredBlocks never *)
(* misses a release, though it may be stale (auth-throttle.ts:38-41, 136). *)
(***************************************************************************)
ReleaseNotMissed == \A b \in blocked : nextReleaseAt <= ReleaseAt(b)

(***************************************************************************)
(* A live block is never cut short: no failure of another address, no      *)
(* spray and no eviction releases it or loses its failures; retries of the *)
(* blocked client do not lengthen it either (auth-throttle.ts:66-71).      *)
(***************************************************************************)
BlockLasts ==
    [][\A b \in blocked : ReleaseAt(b) > now =>
         b \in blocked' /\ attempts'[b] = attempts[b]]_vars

(***************************************************************************)
(* A new client is refused a slot only when every slot holds a live block: *)
(* the walk that found nothing to release had nothing to release           *)
(* (makeRoom, auth-throttle.ts:111-125).                                   *)
(***************************************************************************)
LiveBlocks == {b \in blocked : ReleaseAt(b) > now}

RefusedOnlyWhenFull ==
    \A c \in Client : NoSlot(c) => Cardinality(LiveBlocks) >= MaxTracked

(***************************************************************************)
(* Failures still in the window are forgotten only to make room for        *)
(* another client, never those of a live block, and then of the client     *)
(* below the threshold that failed least recently: no client that is kept  *)
(* failed last before, except those a release appended behind clients that *)
(* failed after them (auth-throttle.ts:111-134).                           *)
(***************************************************************************)
LastFailure(c) == attempts[c][Len(attempts[c])]

Forgotten(c) == c \in Tracked /\ attempts'[c] = <<>> /\ Recent(attempts[c]) # <<>>

LeastRecentAmong(c, D) ==
    /\ c \notin LiveBlocks
    /\ \A d \in D : Recent(attempts[d]) # <<>> => LastFailure(c) <= LastFailure(d)

ForgetsInOrder ==
    [][\A c \in Client : Forgotten(c) => LeastRecentAmong(c, below' \ appended')]_vars
=============================================================================
