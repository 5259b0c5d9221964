------------------------ MODULE AuthThrottle_proofs ------------------------
(***************************************************************************)
(* Proofs about AuthThrottle for any number of clients and any limit,      *)
(* threshold and window.  The inductive invariant ties each client's list  *)
(* to the Map it is in and nextReleaseAt to the blocked clients' lists.    *)
(* Three extensions of it follow: OrderInv and StrictInv for the order of  *)
(* the Maps, AscendInv for the order of the times.                         *)
(***************************************************************************)
EXTENDS AuthThrottle, FiniteSetTheorems, SequenceTheorems, WellFoundedInduction, TLAPS

IInv ==
    /\ TypeOK
    /\ TrackerBounded
    /\ AttemptsMatchMaps
    /\ ReleaseNotMissed

USE TrackedAssumption, FailuresAssumption, WindowAssumption, HorizonAssumption

-----------------------------------------------------------------------------
(* A non-empty set of naturals has a least element.                        *)
LEMMA LeastNat ==
    ASSUME NEW S \in SUBSET Nat, S # {}
    PROVE  \E x \in S : \A y \in S : x <= y
<1>1. \E x \in S : \A y \in S : ~ (<<y, x>> \in OpToRel(<, Nat))
  BY NatLessThanWellFounded, WFMin, Zenon
<1>2. PICK x \in S : \A y \in S : ~ (<<y, x>> \in OpToRel(<, Nat))
  BY <1>1
<1>3. ASSUME NEW y \in S PROVE x <= y
  <2>1. ~ (<<y, x>> \in OpToRel(<, Nat))
    BY <1>2
  <2>2. x \in Nat /\ y \in Nat
    OBVIOUS
  <2>3. ~ (y < x)
    BY <2>1, <2>2 DEF OpToRel
  <2> QED  BY <2>2, <2>3
<1> QED  BY <1>3

(* Recent drops a prefix, and the whole list is never recent once its      *)
(* first element left the window.                                          *)
LEMMA RecentShrinks ==
    ASSUME NEW s \in Seq(0..Horizon), now \in 0..Horizon
    PROVE  /\ Recent(s) \in Seq(0..Horizon)
           /\ Len(Recent(s)) <= Len(s)
           /\ Len(s) # 0 /\ s[1] + windowMs <= now => Len(Recent(s)) < Len(s)
<1> DEFINE O == {i \in 1..Len(s) : s[i] + windowMs <= now}
           old == Cardinality(O)
<1>1. Len(s) \in Nat
  OBVIOUS
<1>2. IsFiniteSet(1..Len(s)) /\ Cardinality(1..Len(s)) = Len(s)
  <2> DEFINE n == Len(s)
  <2> HIDE DEF n
  <2>1. n \in Nat
    BY <1>1 DEF n
  <2>2. 1 \in Int /\ n \in Int
    BY <2>1
  <2>3. IsFiniteSet(1..n) /\ Cardinality(1..n) = IF 1 > n THEN 0 ELSE n - 1 + 1
    BY <2>2, FS_Interval, Zenon
  <2>4. IsFiniteSet(1..n) /\ Cardinality(1..n) = n
    BY <2>1, <2>3
  <2> QED  BY <2>4 DEF n
<1>3. IsFiniteSet(O) /\ old <= Len(s)
  BY <1>2, FS_Subset
<1>4. old \in Nat
  BY <1>3, FS_CardinalityType
<1>5. Len(s) # 0 /\ s[1] + windowMs <= now => old # 0
  <2>1. Len(s) # 0 /\ s[1] + windowMs <= now => 1 \in O
    BY <1>1
  <2> QED  BY <2>1, <1>3, FS_EmptySet
<1> HIDE DEF old
<1>6. Recent(s) = SubSeq(s, old + 1, Len(s))
  BY DEF Recent, old
<1>7. /\ SubSeq(s, old + 1, Len(s)) \in Seq(0..Horizon)
      /\ Len(SubSeq(s, old + 1, Len(s))) =
           IF old + 1 <= Len(s) THEN Len(s) - old ELSE 0
  BY <1>1, <1>3, <1>4, SubSeqProperties
<1> QED  BY <1>1, <1>3, <1>4, <1>5, <1>6, <1>7

(* What a client that is not blocked still has in the window leaves room   *)
(* for one more failure.                                                   *)
LEMMA RecentBelowMax ==
    ASSUME IInv, NEW c \in Client, ~IsBlocked(attempts[c])
    PROVE  Len(Recent(attempts[c])) < maxFailures
<1>1. attempts[c] \in Seq(0..Horizon) /\ now \in 0..Horizon
  BY DEF IInv, TypeOK
<1>2. Len(attempts[c]) \in Nat /\ Len(Recent(attempts[c])) \in Nat
  BY <1>1, RecentShrinks
<1>3. CASE c \in blocked
  <2>1. Len(attempts[c]) = maxFailures
    BY <1>3 DEF IInv, AttemptsMatchMaps
  <2>2. attempts[c][1] \in 0..Horizon
    BY <1>1, <2>1
  <2>3. attempts[c][1] + windowMs <= now
    BY <1>1, <2>1, <2>2 DEF IsBlocked
  <2> QED  BY <1>1, <2>1, <2>3, RecentShrinks
<1>4. CASE c \in below
  <2>1. Len(attempts[c]) < maxFailures
    BY <1>2, <1>4 DEF IInv, AttemptsMatchMaps
  <2> QED  BY <1>1, <1>2, <2>1, RecentShrinks
<1>5. CASE c \notin Tracked
  <2>1. Len(attempts[c]) = 0
    BY <1>5 DEF IInv, AttemptsMatchMaps
  <2> QED  BY <1>1, <1>2, <2>1, RecentShrinks
<1> QED  BY <1>3, <1>4, <1>5 DEF Tracked

-----------------------------------------------------------------------------
(* Both Maps stay finite.                                                  *)
LEMMA TrackedFinite ==
    ASSUME below \subseteq Client, blocked \subseteq Client
    PROVE  /\ IsFiniteSet(below) /\ IsFiniteSet(blocked) /\ IsFiniteSet(Tracked)
           /\ \A S \in SUBSET Tracked :
                IsFiniteSet(S) /\ Cardinality(S) \in Nat /\ Cardinality(S) <= Cardinality(Tracked)
<1>1. IsFiniteSet(below) /\ IsFiniteSet(blocked)
  BY ClientAssumption, FS_Subset
<1>2. IsFiniteSet(Tracked)
  BY <1>1, FS_Union DEF Tracked
<1> QED  BY <1>1, <1>2, FS_Subset, FS_CardinalityType

(* For disjoint Maps the tracker's size is that of their union.            *)
LEMMA SizeIsCardinality ==
    ASSUME NEW L, NEW B, IsFiniteSet(L), IsFiniteSet(B), L \cap B = {}
    PROVE  Size(L, B) = Cardinality(L \cup B) /\ IsFiniteSet(L \cup B)
<1>1. Cardinality(L) \in Nat /\ Cardinality(B) \in Nat
  BY FS_CardinalityType
<1>2. Cardinality(L \cap B) = 0
  BY FS_EmptySet
<1> QED  BY <1>1, <1>2, FS_Union DEF Size

(* The time the gate is set to: no later than the release of any client    *)
(* that stays blocked, and never beyond Infinity.                          *)
LEMMA NextReleaseBound ==
    ASSUME IInv, NEW c \in Client
    PROVE  /\ NextReleaseAfter(c) \in 0..Infinity
           /\ \A b \in BlockedAfter(c) : NextReleaseAfter(c) <= ReleaseAt(b)
<1>1. BlockedAfter(c) \subseteq blocked /\ nextReleaseAt \in 0..Infinity
  BY DEF BlockedAfter, IInv, TypeOK
<1>2. ASSUME NEW b \in blocked PROVE ReleaseAt(b) \in 0..Infinity
  <2>1. attempts[b] \in Seq(0..Horizon) /\ Len(attempts[b]) = maxFailures
    BY DEF IInv, TypeOK, AttemptsMatchMaps
  <2>2. attempts[b][1] \in 0..Horizon
    BY <2>1
  <2> QED  BY <2>2 DEF ReleaseAt, Infinity
<1>3. CASE now < nextReleaseAt
  BY <1>1, <1>3 DEF NextReleaseAfter, IInv, ReleaseNotMissed
<1>4. CASE ~ (now < nextReleaseAt)
  <2>1. ReleaseTimes(c) \in SUBSET (0..Infinity) /\ ReleaseTimes(c) # {}
    BY <1>1, <1>2 DEF ReleaseTimes, Infinity
  <2>2. \E t \in ReleaseTimes(c) : \A s \in ReleaseTimes(c) : t <= s
    <3>1. ReleaseTimes(c) \in SUBSET Nat
      BY <2>1
    <3> QED  BY <3>1, <2>1, LeastNat
  <2>3. /\ NextReleaseAfter(c) \in ReleaseTimes(c)
        /\ \A s \in ReleaseTimes(c) : NextReleaseAfter(c) <= s
    BY <1>4, <2>2 DEF NextReleaseAfter
  <2>4. \A b \in BlockedAfter(c) : ReleaseAt(b) \in ReleaseTimes(c)
    BY DEF ReleaseTimes
  <2> QED  BY <2>1, <2>3, <2>4
<1> QED  BY <1>3, <1>4

-----------------------------------------------------------------------------
(***************************************************************************)
(* Storing c's failure preserves the invariant, whatever was released and  *)
(* evicted to make room: K are the released clients kept below the         *)
(* threshold, L and B all that stays in the Maps besides c.                *)
(***************************************************************************)
LEMMA StorePreserves ==
    ASSUME IInv,
           NEW c \in Client, NEW L \in SUBSET Client, NEW B \in SUBSET Client,
           NEW K \in SUBSET L, NEW release \in 0..Infinity,
           ~IsBlocked(attempts[c]),
           c \notin L \cup B, L \cap B = {},
           L \ K \subseteq below, B \subseteq blocked,
           \A k \in K : Len(Recent(attempts[k])) \in 1..(maxFailures - 1),
           \A b \in B : release <= ReleaseAt(b),
           Cardinality(L \cup B \cup {c}) <= MaxTracked,
           Store(c, L, B, K, release)
    PROVE  IInv'
<1> DEFINE recent == Append(Recent(attempts[c]), now)
<1>1. /\ below \subseteq Client /\ blocked \subseteq Client
      /\ attempts \in [Client -> Seq(0..Horizon)]
      /\ ahead \in [Client -> SUBSET Client]
      /\ now \in 0..Horizon
  BY DEF IInv, TypeOK
<1>2. \A x \in Client : Recent(attempts[x]) \in Seq(0..Horizon)
  BY <1>1, RecentShrinks
<1>3. /\ recent \in Seq(0..Horizon)
      /\ Len(recent) = Len(Recent(attempts[c])) + 1
      /\ Len(recent) \in 1..maxFailures
      /\ recent[1] \in 0..Horizon
  <2>1. Recent(attempts[c]) \in Seq(0..Horizon) /\ Len(Recent(attempts[c])) \in Nat
    BY <1>2
  <2>2. recent \in Seq(0..Horizon) /\ Len(recent) = Len(Recent(attempts[c])) + 1
    BY <1>1, <2>1
  <2>3. Len(recent) \in 1..maxFailures
    BY <2>1, <2>2, RecentBelowMax
  <2> QED  BY <2>2, <2>3
<1> HIDE DEF recent
<1>4. /\ below' = IF Len(recent) >= maxFailures THEN L ELSE L \cup {c}
      /\ blocked' = IF Len(recent) >= maxFailures THEN B \cup {c} ELSE B
      /\ nextReleaseAt' =
           IF Len(recent) >= maxFailures /\ recent[1] + windowMs < release
              THEN recent[1] + windowMs ELSE release
      /\ now' = now
  BY DEF Store, recent
<1>5. /\ attempts' \in [Client -> Seq(0..Horizon)]
      /\ attempts'[c] = recent
      /\ \A x \in Client \ {c} :
           /\ x \in K => attempts'[x] = Recent(attempts[x])
           /\ x \in (L \cup B) \ K => attempts'[x] = attempts[x]
           /\ x \notin L \cup B => attempts'[x] = <<>>
  <2>1. attempts' = [x \in Client |->
              CASE x = c -> recent
                [] x # c /\ x \in K -> Recent(attempts[x])
                [] x # c /\ x \notin K /\ x \in L \cup B -> attempts[x]
                [] x # c /\ x \notin K \cup L \cup B -> <<>>]
    BY DEF Store, recent
  <2>2. ASSUME NEW x \in Client
        PROVE  /\ attempts'[x] \in Seq(0..Horizon)
               /\ x = c => attempts'[x] = recent
               /\ x # c => /\ x \in K => attempts'[x] = Recent(attempts[x])
                           /\ x \in (L \cup B) \ K => attempts'[x] = attempts[x]
                           /\ x \notin L \cup B => attempts'[x] = <<>>
    <3>1. CASE x = c
      BY <1>3, <2>1, <3>1
    <3>2. CASE x # c /\ x \in K
      BY <1>2, <2>1, <3>2
    <3>3. CASE x # c /\ x \notin K /\ x \in L \cup B
      BY <1>1, <2>1, <3>3
    <3>4. CASE x # c /\ x \notin K /\ x \notin L \cup B
      <4>1. attempts'[x] = <<>>
        BY <2>1, <3>4
      <4> QED  BY <4>1, <3>4
    <3> QED  BY <3>1, <3>2, <3>3, <3>4
  <2>3. attempts' \in [Client -> Seq(0..Horizon)]
    <3>1. attempts' = [x \in Client |-> attempts'[x]]
      BY <2>1
    <3> QED  BY <2>2, <3>1
  <2> QED  BY <2>2, <2>3
<1>6. ahead' \in [Client -> SUBSET Client]
  <2>1. ahead' = [x \in Client |->
              CASE x = c -> IF Len(recent) >= maxFailures THEN B ELSE L
                [] x # c /\ x \in K -> (below \cup (ahead[x] \cap K)) \cap (L \ {c})
                [] x # c /\ x \notin K /\ x \in L \cup B ->
                      ahead[x] \cap ((L \cup B) \ (K \cup {c}))
                [] x # c /\ x \notin K \cup L \cup B -> {}]
    BY DEF Store, recent
  <2>2. ASSUME NEW x \in Client PROVE ahead'[x] \in SUBSET Client
    <3>1. CASE x = c
      BY <2>1, <3>1
    <3>2. CASE x # c /\ x \in K
      BY <2>1, <3>2
    <3>3. CASE x # c /\ x \notin K /\ x \in L \cup B
      BY <2>1, <3>3
    <3>4. CASE x # c /\ x \notin K /\ x \notin L \cup B
      <4>1. ahead'[x] = {}
        BY <2>1, <3>4
      <4> QED  BY <4>1
    <3> QED  BY <3>1, <3>2, <3>3, <3>4
  <2>3. ahead' = [x \in Client |-> ahead'[x]]
    BY <2>1
  <2> QED  BY <2>2, <2>3
<1>7. nextReleaseAt' \in 0..Infinity
  BY <1>3, <1>4 DEF Infinity
<1>8. TypeOK'
  <2>1. appended' \subseteq Client
    <3>1. appended' = ((appended \cap L) \cup K) \ {c}
      BY DEF Store
    <3> QED  BY <3>1
  <2> QED  BY <1>1, <1>4, <1>5, <1>6, <1>7, <2>1 DEF TypeOK, Infinity
<1>9. TrackerBounded'
  <2>1. Tracked' = L \cup B \cup {c}
    BY <1>4 DEF Tracked
  <2>2. below' \cap blocked' = {}
    BY <1>4
  <2> QED  BY <2>1, <2>2 DEF TrackerBounded
<1>10. AttemptsMatchMaps'
  <2> SUFFICES ASSUME NEW x \in Client
               PROVE  /\ x \in blocked' => Len(attempts'[x]) = maxFailures
                      /\ x \in below' => Len(attempts'[x]) \in 1..(maxFailures - 1)
                      /\ x \notin below' \cup blocked' => attempts'[x] = <<>>
    BY DEF AttemptsMatchMaps, Tracked
  <2>1. CASE x = c
    BY <1>3, <1>4, <1>5, <2>1
  <2>2. CASE x # c /\ x \in K
    BY <1>4, <1>5, <2>2
  <2>3. CASE x # c /\ x \notin K /\ x \in L \cup B
    <3>1. attempts'[x] = attempts[x]
      BY <1>5, <2>3
    <3>2. /\ x \in blocked => Len(attempts[x]) = maxFailures
          /\ x \in below => Len(attempts[x]) \in 1..(maxFailures - 1)
      BY DEF IInv, AttemptsMatchMaps
    <3> QED  BY <1>4, <2>3, <3>1, <3>2
  <2>4. CASE x # c /\ x \notin L \cup B
    BY <1>4, <1>5, <2>4
  <2> QED  BY <2>1, <2>2, <2>3, <2>4
<1>11. ReleaseNotMissed'
  <2> SUFFICES ASSUME NEW b \in blocked'
               PROVE  nextReleaseAt' <= attempts'[b][1] + windowMs
    BY DEF ReleaseNotMissed, ReleaseAt
  <2>1. CASE b = c
    <3>1. Len(recent) >= maxFailures
      BY <1>4, <2>1
    <3> QED  BY <1>3, <1>4, <1>5, <2>1, <3>1
  <2>2. CASE b # c
    <3>1. b \in B /\ b \in blocked
      BY <1>4, <2>2
    <3>2. attempts'[b] = attempts[b]
      BY <1>1, <1>5, <2>2, <3>1
    <3>3. release <= attempts[b][1] + windowMs
      BY <3>1 DEF ReleaseAt
    <3>4. attempts[b][1] \in 0..Horizon
      BY <1>1, <3>1 DEF IInv, AttemptsMatchMaps
    <3>5. nextReleaseAt' <= release
      BY <1>3, <1>4 DEF Infinity
    <3> QED  BY <1>7, <3>2, <3>3, <3>4, <3>5 DEF Infinity
  <2> QED  BY <2>1, <2>2
<1> QED  BY <1>8, <1>9, <1>10, <1>11 DEF IInv

-----------------------------------------------------------------------------
(* What makeRoom leaves in the Maps.                                       *)
LEMMA AfterRelease ==
    ASSUME IInv, NEW c \in Client
    PROVE  /\ BelowAfter(c) \subseteq Tracked \ {c}
           /\ BlockedAfter(c) \subseteq blocked \ {c}
           /\ BelowAfter(c) \cap BlockedAfter(c) = {}
           /\ Kept(c) \subseteq BelowAfter(c)
           /\ BelowAfter(c) \ Kept(c) \subseteq below
           /\ \A k \in Kept(c) : Len(Recent(attempts[k])) \in 1..(maxFailures - 1)
<1>1. Kept(c) \subseteq Released(c) /\ Released(c) \subseteq blocked \ {c}
  BY DEF Kept, Released
<1>2. below \cap blocked = {}
  BY DEF IInv, TrackerBounded
<1>3. ASSUME NEW k \in Kept(c)
      PROVE  Len(Recent(attempts[k])) \in 1..(maxFailures - 1)
  <2>1. k \in blocked /\ k \in Client
    BY <1>1 DEF IInv, TypeOK
  <2>2. attempts[k] \in Seq(0..Horizon) /\ Len(attempts[k]) = maxFailures /\ now \in 0..Horizon
    BY <2>1 DEF IInv, TypeOK, AttemptsMatchMaps
  <2>3. attempts[k][1] + windowMs <= now
    BY DEF Kept, Released, ReleaseAt
  <2>4. /\ Recent(attempts[k]) \in Seq(0..Horizon)
        /\ Len(Recent(attempts[k])) < maxFailures
    BY <2>2, <2>3, RecentShrinks
  <2>5. Recent(attempts[k]) # <<>>
    BY DEF Kept
  <2>6. Len(Recent(attempts[k])) # 0
    BY <2>4, <2>5, EmptySeq
  <2> QED  BY <2>4, <2>6
<1> QED  BY <1>1, <1>2, <1>3 DEF BelowAfter, BlockedAfter, Tracked

(* Every subset of the tracked clients that leaves one out is smaller.     *)
LEMMA RoomForOne ==
    ASSUME IInv, NEW S \in SUBSET Tracked, NEW v \in Tracked \ S, NEW c
    PROVE  Cardinality(S \cup {c}) <= MaxTracked
<1>1. IsFiniteSet(Tracked) /\ Cardinality(Tracked) <= MaxTracked
  BY TrackedFinite DEF IInv, TypeOK, TrackerBounded
<1>2. S \in SUBSET (Tracked \ {v})
  OBVIOUS
<1>3. IsFiniteSet(Tracked \ {v}) /\ Cardinality(Tracked \ {v}) = Cardinality(Tracked) - 1
  BY <1>1, FS_RemoveElement
<1>4. IsFiniteSet(S) /\ Cardinality(S) <= Cardinality(Tracked \ {v})
  BY <1>2, <1>3, FS_Subset
<1>5. Cardinality(S \cup {c}) <= Cardinality(S) + 1
  <2>1. Cardinality(S) \in Nat
    BY <1>4, FS_CardinalityType
  <2>2. Cardinality(S \cup {c}) = IF c \in S THEN Cardinality(S) ELSE Cardinality(S) + 1
    BY <1>4, FS_AddElement, Zenon
  <2> QED  BY <2>1, <2>2
<1>6. Cardinality(Tracked) \in Nat /\ Cardinality(S) \in Nat /\ Cardinality(S \cup {c}) \in Nat
  BY <1>1, <1>4, FS_AddElement, FS_CardinalityType
<1> QED  BY <1>1, <1>3, <1>4, <1>5, <1>6

-----------------------------------------------------------------------------
LEMMA RecordedPreserves ==
    ASSUME IInv, NEW c \in Client, Recorded(c)
    PROVE  IInv'
<1> DEFINE L == below \ {c}
           B == blocked \ {c}
<1>1. /\ L \in SUBSET Client /\ B \in SUBSET Client /\ L \cap B = {}
      /\ L \cup B = Tracked \ {c}
      /\ nextReleaseAt \in 0..Infinity
  BY DEF IInv, TypeOK, TrackerBounded, Tracked
<1>2. Cardinality(L \cup B \cup {c}) <= MaxTracked
  <2>1. CASE c \in Tracked
    <3>1. L \cup B \cup {c} = Tracked
      BY <1>1, <2>1
    <3> QED  BY <3>1 DEF IInv, TrackerBounded
  <2>2. CASE c \notin Tracked
    <3>1. attempts[c] = <<>> /\ now \in 0..Horizon
      BY <2>2 DEF IInv, AttemptsMatchMaps, TypeOK
    <3>2. attempts[c] \in Seq(0..Horizon) /\ Len(attempts[c]) = 0
      BY <3>1
    <3>3. Recent(attempts[c]) \in Seq(0..Horizon) /\ Len(Recent(attempts[c])) = 0
      <4> DEFINE s == attempts[c]
      <4>1. s \in Seq(0..Horizon) /\ Len(s) = 0
        BY <3>2
      <4> HIDE DEF s
      <4>2. Recent(s) \in Seq(0..Horizon) /\ Len(Recent(s)) <= 0
        BY <3>1, <4>1, RecentShrinks
      <4>3. Recent(s) \in Seq(0..Horizon) /\ Len(Recent(s)) = 0
        BY <4>2
      <4> QED  BY <4>3 DEF s
    <3>4. Recent(attempts[c]) = <<>>
      BY <3>3, EmptySeq
    <3>5. ~ (Size(L, B) >= MaxTracked)
      BY <3>4 DEF Recorded, NeedsRoom
    <3>6. IsFiniteSet(L) /\ IsFiniteSet(B)
      BY <1>1, ClientAssumption, FS_Subset
    <3>7. Size(L, B) = Cardinality(L \cup B) /\ IsFiniteSet(L \cup B)
      BY <1>1, <3>6, SizeIsCardinality
    <3>8. Cardinality(L \cup B) \in Nat
      BY <3>7, FS_CardinalityType
    <3>9. Cardinality(L \cup B \cup {c}) = Cardinality(L \cup B) + 1
      <4>1. c \notin L \cup B
        OBVIOUS
      <4> HIDE DEF L, B
      <4> QED  BY <3>7, <4>1, FS_AddElement, Zenon
    <3> QED  BY <3>5, <3>7, <3>8, <3>9
  <2> QED  BY <2>1, <2>2
<1>3. \A b \in B : nextReleaseAt <= ReleaseAt(b)
  BY DEF IInv, ReleaseNotMissed
<1>4. ~IsBlocked(attempts[c]) /\ Store(c, L, B, {}, nextReleaseAt)
  BY DEF Recorded
<1>5. c \notin L \cup B /\ L \ {} \subseteq below /\ B \subseteq blocked
  OBVIOUS
<1> HIDE DEF L, B
<1> QED  BY <1>1, <1>2, <1>3, <1>4, <1>5, StorePreserves

LEMMA RecordedAfterReleasePreserves ==
    ASSUME IInv, NEW c \in Client, RecordedAfterRelease(c)
    PROVE  IInv'
<1> DEFINE L == BelowAfter(c)
           B == BlockedAfter(c)
<1>1. /\ L \in SUBSET Client /\ B \in SUBSET Client /\ L \cap B = {}
      /\ Kept(c) \in SUBSET L /\ L \ Kept(c) \subseteq below /\ B \subseteq blocked
      /\ c \notin L \cup B
      /\ \A k \in Kept(c) : Len(Recent(attempts[k])) \in 1..(maxFailures - 1)
  BY AfterRelease DEF IInv, TypeOK, Tracked
<1>2. Cardinality(L \cup B \cup {c}) <= MaxTracked
  <2>1. IsFiniteSet(L) /\ IsFiniteSet(B)
    BY <1>1, ClientAssumption, FS_Subset
  <2>2. Size(L, B) = Cardinality(L \cup B) /\ IsFiniteSet(L \cup B)
    BY <1>1, <2>1, SizeIsCardinality
  <2>3. Size(L, B) < MaxTracked
    BY DEF RecordedAfterRelease
  <2>4. Cardinality(L \cup B) \in Nat
    BY <2>2, FS_CardinalityType
  <2>5. Cardinality(L \cup B \cup {c}) = Cardinality(L \cup B) + 1
    <3> HIDE DEF L, B
    <3> QED  BY <1>1, <2>2, FS_AddElement, Zenon
  <2> QED  BY <2>2, <2>3, <2>4, <2>5
<1>3. /\ NextReleaseAfter(c) \in 0..Infinity
      /\ \A b \in B : NextReleaseAfter(c) <= ReleaseAt(b)
  BY NextReleaseBound
<1>4. ~IsBlocked(attempts[c]) /\ Store(c, L, B, Kept(c), NextReleaseAfter(c))
  BY DEF RecordedAfterRelease
<1> HIDE DEF L, B
<1> QED  BY <1>1, <1>2, <1>3, <1>4, StorePreserves

LEMMA RecordedAfterEvictionPreserves ==
    ASSUME IInv, NEW c \in Client, RecordedAfterEviction(c)
    PROVE  IInv'
<1>1. PICK v \in BelowAfter(c) :
        Store(c, BelowAfter(c) \ {v}, BlockedAfter(c), Kept(c) \ {v}, NextReleaseAfter(c))
  BY DEF RecordedAfterEviction
<1> DEFINE L == BelowAfter(c) \ {v}
           B == BlockedAfter(c)
           K == Kept(c) \ {v}
<1>2. /\ L \in SUBSET Client /\ B \in SUBSET Client /\ L \cap B = {}
      /\ K \in SUBSET L /\ L \ K \subseteq below /\ B \subseteq blocked
      /\ c \notin L \cup B
      /\ \A k \in K : Len(Recent(attempts[k])) \in 1..(maxFailures - 1)
  BY AfterRelease DEF IInv, TypeOK, Tracked
<1>3. Cardinality(L \cup B \cup {c}) <= MaxTracked
  <2>1. L \cup B \in SUBSET Tracked /\ v \in Tracked \ (L \cup B)
    BY AfterRelease DEF Tracked
  <2> HIDE DEF L, B
  <2> QED  BY <2>1, RoomForOne
<1>4. /\ NextReleaseAfter(c) \in 0..Infinity
      /\ \A b \in B : NextReleaseAfter(c) <= ReleaseAt(b)
  BY NextReleaseBound
<1>5. ~IsBlocked(attempts[c]) /\ Store(c, L, B, K, NextReleaseAfter(c))
  BY <1>1 DEF RecordedAfterEviction
<1> HIDE DEF L, B, K
<1> QED  BY <1>2, <1>3, <1>4, <1>5, StorePreserves

LEMMA RefusedPreserves ==
    ASSUME IInv, NEW c \in Client, Refused(c)
    PROVE  IInv'
<1>1. /\ below' = {} /\ blocked' = BlockedAfter(c)
      /\ attempts' = [x \in Client |->
                        IF x \in BlockedAfter(c) THEN attempts[x] ELSE <<>>]
      /\ nextReleaseAt' = NextReleaseAfter(c) /\ now' = now
  BY DEF Refused
<1>2. BlockedAfter(c) \subseteq blocked /\ blocked \subseteq Client /\ below \subseteq Client
  BY AfterRelease DEF IInv, TypeOK
<1>3. attempts \in [Client -> Seq(0..Horizon)]
  BY DEF IInv, TypeOK
<1>4. TypeOK'
  <2>1. attempts' \in [Client -> Seq(0..Horizon)]
    <3>1. <<>> \in Seq(0..Horizon)
      BY EmptySeq
    <3> QED  BY <1>1, <1>3, <3>1
  <2>2. ahead' \in [Client -> SUBSET Client]
    BY DEF Refused, NoSlot, IInv, TypeOK
  <2>3. nextReleaseAt' \in 0..Infinity
    BY <1>1, NextReleaseBound
  <2>4. appended' \subseteq Client
    BY DEF Refused
  <2> QED  BY <1>1, <1>2, <2>1, <2>2, <2>3, <2>4 DEF IInv, TypeOK, Infinity
<1>5. TrackerBounded'
  <2>1. Tracked' \in SUBSET Tracked /\ below' \cap blocked' = {}
    BY <1>1, <1>2 DEF Tracked
  <2>2. Cardinality(Tracked') <= Cardinality(Tracked) /\ Cardinality(Tracked') \in Nat
    BY <1>2, <2>1, TrackedFinite
  <2>3. Cardinality(Tracked) <= MaxTracked /\ Cardinality(Tracked) \in Nat
    BY <1>2, TrackedFinite DEF IInv, TrackerBounded
  <2> QED  BY <2>1, <2>2, <2>3 DEF TrackerBounded
<1>6. AttemptsMatchMaps'
  BY <1>1, <1>2, <1>3 DEF IInv, AttemptsMatchMaps, Tracked
<1>7. ReleaseNotMissed'
  <2> SUFFICES ASSUME NEW b \in blocked'
               PROVE  nextReleaseAt' <= attempts'[b][1] + windowMs
    BY DEF ReleaseNotMissed, ReleaseAt
  <2>1. b \in BlockedAfter(c) /\ b \in Client
    BY <1>1, <1>2
  <2>2. attempts'[b] = attempts[b]
    BY <1>1, <2>1
  <2> QED  BY <1>1, <2>1, <2>2, NextReleaseBound DEF ReleaseAt
<1> QED  BY <1>4, <1>5, <1>6, <1>7 DEF IInv

-----------------------------------------------------------------------------
LEMMA InvariantInit == Init => IInv
<1> SUFFICES ASSUME Init PROVE IInv
  OBVIOUS
<1>1. TypeOK
  <2>1. <<>> \in Seq(0..Horizon)
    BY EmptySeq
  <2> QED  BY <2>1 DEF Init, TypeOK, Infinity
<1>2. TrackerBounded
  <2>1. Tracked = {}
    BY DEF Init, Tracked
  <2>2. Cardinality(Tracked) = 0
    BY <2>1, FS_EmptySet
  <2> QED  BY <2>2 DEF Init, TrackerBounded
<1>3. AttemptsMatchMaps /\ ReleaseNotMissed
  BY DEF Init, AttemptsMatchMaps, ReleaseNotMissed, Tracked
<1> QED  BY <1>1, <1>2, <1>3 DEF IInv

LEMMA InvariantStep == IInv /\ [Next]_vars => IInv'
<1> SUFFICES ASSUME IInv, [Next]_vars PROVE IInv'
  OBVIOUS
<1>1. CASE UNCHANGED vars
  BY <1>1 DEF IInv, vars, TypeOK, TrackerBounded, AttemptsMatchMaps,
     ReleaseNotMissed, ReleaseAt, Tracked, Infinity
<1>2. CASE Tick
  BY <1>2 DEF Tick, IInv, TypeOK, TrackerBounded, AttemptsMatchMaps,
     ReleaseNotMissed, ReleaseAt, Tracked, Infinity
<1>3. ASSUME NEW c \in Client, recordFailure(c) PROVE IInv'
  <2>1. CASE Throttled(c)
    BY <1>1, <2>1 DEF Throttled
  <2>2. CASE Recorded(c)
    BY <2>2, RecordedPreserves
  <2>3. CASE RecordedAfterRelease(c)
    BY <2>3, RecordedAfterReleasePreserves
  <2>4. CASE RecordedAfterEviction(c)
    BY <2>4, RecordedAfterEvictionPreserves
  <2>5. CASE Refused(c)
    BY <2>5, RefusedPreserves
  <2> QED  BY <1>3, <2>1, <2>2, <2>3, <2>4, <2>5 DEF recordFailure
<1> QED  BY <1>1, <1>2, <1>3 DEF Next

(* IInv holds in every reachable state.                                    *)
THEOREM Invariance == Spec => []IInv
<1> QED  BY InvariantInit, InvariantStep, PTL DEF Spec

(***************************************************************************)
(* The tracker holds at most MaxTracked clients, each in one Map           *)
(* (recordFailure and makeRoom, auth-throttle.ts:73-125), for any number   *)
(* of addresses.                                                           *)
(***************************************************************************)
THEOREM TrackerIsBounded == Spec => [](TypeOK /\ TrackerBounded)
<1>1. IInv => TypeOK /\ TrackerBounded
  BY DEF IInv
<1> QED  BY <1>1, Invariance, PTL

(***************************************************************************)
(* A client in the blocked Map has as many remembered failures as the      *)
(* limit, one in the counting Map has some but fewer, and nobody else has  *)
(* any: no release, expiry, eviction or new failure leaves a client in the *)
(* wrong Map (recordFailure, auth-throttle.ts:77-98).                      *)
(***************************************************************************)
THEOREM AttemptsTellTheMap == Spec => []AttemptsMatchMaps
<1>1. IInv => AttemptsMatchMaps
  BY DEF IInv
<1> QED  BY <1>1, Invariance, PTL

(***************************************************************************)
(* #nextReleaseAt never lies after the release of a blocked client, so the *)
(* gate of releaseExpiredBlocks never hides one (auth-throttle.ts:38-41).  *)
(***************************************************************************)
THEOREM NoReleaseIsMissed == Spec => []ReleaseNotMissed
<1>1. IInv => ReleaseNotMissed
  BY DEF IInv
<1> QED  BY <1>1, Invariance, PTL

(***************************************************************************)
(* No call of any address ends a live block or loses its failures, and the *)
(* blocked client's own retries do not lengthen it (auth-throttle.ts:      *)
(* 66-71, 114-116).                                                        *)
(***************************************************************************)
THEOREM LiveBlocksLast == Spec => BlockLasts
<1> DEFINE Lasts == \A b \in blocked : ReleaseAt(b) > now =>
                      b \in blocked' /\ attempts'[b] = attempts[b]
<1>1. IInv /\ [Next]_vars => [Lasts]_vars
  <2> SUFFICES ASSUME IInv, Next, NEW b \in blocked, ReleaseAt(b) > now
               PROVE  b \in blocked' /\ attempts'[b] = attempts[b]
    OBVIOUS
  <2>1. CASE Tick
    BY <2>1 DEF Tick
  <2>2. ASSUME NEW c \in Client, recordFailure(c)
        PROVE  b \in blocked' /\ attempts'[b] = attempts[b]
    <3>1. CASE Throttled(c)
      BY <3>1 DEF Throttled, vars
    <3>2. b \in Client /\ Len(attempts[b]) = maxFailures
      BY DEF IInv, TypeOK, AttemptsMatchMaps
    <3>3. IsBlocked(attempts[b])
      <4>1. maxFailures - maxFailures + 1 = 1
        OBVIOUS
      <4> QED  BY <3>2, <4>1 DEF IsBlocked, ReleaseAt
    <3>4. attempts[b] \in Seq(0..Horizon) /\ now \in 0..Horizon
      BY <3>2 DEF IInv, TypeOK
    <3>5. b \notin Released(c) /\ b \notin Kept(c)
      BY <3>2, <3>4 DEF Released, Kept, ReleaseAt
    <3>6. ASSUME NEW L, NEW B, NEW K, NEW release, b # c, b \in B, b \notin K,
                 Store(c, L, B, K, release)
          PROVE  b \in blocked' /\ attempts'[b] = attempts[b]
      <4>1. b \in blocked'
        BY <3>6 DEF Store
      <4>2. attempts' = [x \in Client |->
              CASE x = c -> Append(Recent(attempts[c]), now)
                [] x # c /\ x \in K -> Recent(attempts[x])
                [] x # c /\ x \notin K /\ x \in L \cup B -> attempts[x]
                [] x # c /\ x \notin K \cup L \cup B -> <<>>]
        BY <3>6 DEF Store
      <4> QED  BY <3>2, <3>6, <4>1, <4>2
    <3>7. CASE Recorded(c)
      <4>1. b # c
        BY <3>3, <3>7 DEF Recorded
      <4> QED  BY <3>6, <3>7, <4>1 DEF Recorded
    <3>8. CASE RecordedAfterRelease(c)
      <4>1. b # c /\ b \in BlockedAfter(c)
        BY <3>3, <3>5, <3>8 DEF RecordedAfterRelease, BlockedAfter
      <4> QED  BY <3>5, <3>6, <3>8, <4>1 DEF RecordedAfterRelease
    <3>9. CASE RecordedAfterEviction(c)
      <4>1. b # c /\ b \in BlockedAfter(c)
        BY <3>3, <3>5, <3>9 DEF RecordedAfterEviction, BlockedAfter
      <4>2. PICK v \in BelowAfter(c) :
              Store(c, BelowAfter(c) \ {v}, BlockedAfter(c), Kept(c) \ {v},
                    NextReleaseAfter(c))
        BY <3>9 DEF RecordedAfterEviction
      <4> QED  BY <3>5, <3>6, <4>1, <4>2
    <3>10. CASE Refused(c)
      <4>1. b # c /\ b \in BlockedAfter(c)
        BY <3>3, <3>5, <3>10 DEF Refused, NoSlot, BlockedAfter
      <4> QED  BY <3>2, <3>10, <4>1 DEF Refused, NoSlot
    <3> QED  BY <2>2, <3>1, <3>7, <3>8, <3>9, <3>10 DEF recordFailure
  <2> QED  BY <2>1, <2>2 DEF Next
<1>2. [][Lasts]_vars => BlockLasts
  BY PTL DEF BlockLasts
<1> QED  BY <1>1, <1>2, Invariance, PTL DEF Spec, BlockLasts

(***************************************************************************)
(* A client is refused only while MaxTracked live blocks hold every slot   *)
(* (makeRoom, auth-throttle.ts:111-125).                                   *)
(***************************************************************************)
THEOREM RefusalMeansFull == Spec => []RefusedOnlyWhenFull
<1>1. IInv => RefusedOnlyWhenFull
  <2> SUFFICES ASSUME IInv, NEW c \in Client, NoSlot(c)
               PROVE  Cardinality(LiveBlocks) >= MaxTracked
    BY DEF RefusedOnlyWhenFull
  <2>1. BlockedAfter(c) \in SUBSET LiveBlocks
    <3> SUFFICES ASSUME NEW b \in BlockedAfter(c)
                 PROVE  b \in blocked /\ ReleaseAt(b) > now
      BY DEF LiveBlocks
    <3>1. b \in blocked /\ b # c /\ b \notin Released(c)
      BY DEF BlockedAfter
    <3>2. /\ attempts[b] \in Seq(0..Horizon) /\ Len(attempts[b]) = maxFailures
          /\ now \in 0..Horizon /\ nextReleaseAt \in 0..Infinity
          /\ nextReleaseAt <= ReleaseAt(b)
      BY <3>1 DEF IInv, TypeOK, AttemptsMatchMaps, ReleaseNotMissed
    <3>3. attempts[b][1] \in 0..Horizon
      BY <3>2
    <3>4. ~ (now >= nextReleaseAt /\ ReleaseAt(b) <= now)
      BY <3>1 DEF Released
    <3> QED  BY <3>1, <3>2, <3>3, <3>4 DEF ReleaseAt, Infinity
  <2>2. IsFiniteSet(LiveBlocks)
    <3>1. LiveBlocks \in SUBSET Client
      BY DEF LiveBlocks, IInv, TypeOK
    <3> QED  BY <3>1, ClientAssumption, FS_Subset
  <2>3. /\ IsFiniteSet(BlockedAfter(c))
        /\ Cardinality(BlockedAfter(c)) <= Cardinality(LiveBlocks)
    BY <2>1, <2>2, FS_Subset
  <2>4. Cardinality(BlockedAfter(c)) >= MaxTracked
    <3>1. Cardinality({}) + Cardinality(BlockedAfter(c)) >= MaxTracked
      BY DEF NoSlot, Size
    <3>2. Cardinality({}) = 0
      BY FS_EmptySet
    <3> QED  BY <2>3, <3>1, <3>2, FS_CardinalityType
  <2> QED  BY <2>2, <2>3, <2>4, FS_CardinalityType
<1> QED  BY <1>1, Invariance, PTL

-----------------------------------------------------------------------------
(***************************************************************************)
(* Order.  Any two clients in one Map are ordered, nobody failed after     *)
(* now, and a client that its own failure put below the threshold failed   *)
(* no earlier than those before it.                                        *)
(***************************************************************************)
InOrder(S) == \A x, y \in S : x # y => x \in ahead[y] \/ y \in ahead[x]

OrderInv ==
    /\ IInv
    /\ InOrder(below) /\ InOrder(blocked)
    /\ \A x \in Tracked : LastFailure(x) <= now
    /\ \A y \in below \ appended : \A x \in ahead[y] :
          x \in below => LastFailure(x) <= LastFailure(y)

(* Recent keeps the last failure, if it keeps any.                         *)
LEMMA RecentKeepsLast ==
    ASSUME NEW s \in Seq(0..Horizon), now \in 0..Horizon, Recent(s) # <<>>
    PROVE  Recent(s)[Len(Recent(s))] = s[Len(s)]
<1> DEFINE O == {i \in 1..Len(s) : s[i] + windowMs <= now}
           old == Cardinality(O)
<1>1. Len(s) \in Nat
  OBVIOUS
<1>2. IsFiniteSet(1..Len(s))
  <2> DEFINE n == Len(s)
  <2>1. 1 \in Int /\ n \in Int
    OBVIOUS
  <2> HIDE DEF n
  <2>2. IsFiniteSet(1..n)
    BY <2>1, FS_Interval, Zenon
  <2> QED  BY <2>2 DEF n
<1>3. old \in Nat
  BY <1>2, FS_Subset, FS_CardinalityType
<1> HIDE DEF old
<1>4. Recent(s) = SubSeq(s, old + 1, Len(s))
  BY DEF Recent, old
<1>5. Len(SubSeq(s, old + 1, Len(s))) = IF old + 1 <= Len(s) THEN Len(s) - old ELSE 0
  BY <1>1, <1>3, SubSeqProperties
<1>6. old + 1 <= Len(s)
  <2> SUFFICES ASSUME ~ (old + 1 <= Len(s)) PROVE FALSE
    OBVIOUS
  <2>1. Len(Recent(s)) = 0 /\ Recent(s) \in Seq(0..Horizon)
    BY <1>4, <1>5, RecentShrinks
  <2> QED  BY <2>1, EmptySeq
<1>7. Len(Recent(s)) = Len(s) - old
  BY <1>4, <1>5, <1>6
<1>8. SubSeq(s, old + 1, Len(s))[Len(s) - old] = s[Len(s)]
  BY <1>1, <1>3, <1>6
<1> QED  BY <1>4, <1>7, <1>8

(* A tracked client has failed, at some time.                              *)
LEMMA TrackedFailed ==
    ASSUME IInv, NEW x \in Tracked
    PROVE  /\ x \in Client /\ attempts[x] \in Seq(0..Horizon)
           /\ attempts[x] # <<>> /\ LastFailure(x) \in 0..Horizon
<1>1. x \in Client /\ attempts[x] \in Seq(0..Horizon)
  BY DEF IInv, TypeOK, Tracked
<1>2. Len(attempts[x]) \in Nat \ {0}
  BY <1>1, FailuresAssumption DEF IInv, AttemptsMatchMaps, Tracked
<1> DEFINE s == attempts[x]
<1>3. s \in Seq(0..Horizon) /\ Len(s) \in Nat \ {0}
  BY <1>1, <1>2
<1>4. LastFailure(x) = s[Len(s)]
  BY DEF LastFailure
<1> HIDE DEF s
<1>5. s # <<>>
  BY <1>3, EmptySeq
<1>6. s[Len(s)] \in 0..Horizon
  BY <1>3
<1> QED  BY <1>1, <1>4, <1>5, <1>6 DEF s

(* What recording a failure of c does to every client.                     *)
Stored(c, L, B, K) ==
    /\ \/ below' = L \cup {c} /\ blocked' = B /\ ahead'[c] = L
       \/ below' = L /\ blocked' = B \cup {c} /\ ahead'[c] = B
    /\ attempts'[c] # <<>> /\ attempts'[c][Len(attempts'[c])] = now
    /\ \A x \in K : /\ attempts'[x] = Recent(attempts[x])
                     /\ ahead'[x] = (below \cup (ahead[x] \cap K)) \cap L
    /\ \A x \in (L \cup B) \ K :
         /\ attempts'[x] = attempts[x]
         /\ ahead'[x] = ahead[x] \cap ((L \cup B) \ K)
    /\ \A x \in Client \ (L \cup B \cup {c}) : attempts'[x] = <<>>
    /\ appended' = (appended \cap L) \cup K
    /\ now' = now

LEMMA StoreEffect ==
    ASSUME IInv,
           NEW c \in Client, NEW L \in SUBSET Client, NEW B \in SUBSET Client,
           NEW K \in SUBSET L, NEW release \in 0..Infinity,
           c \notin L \cup B,
           Store(c, L, B, K, release)
    PROVE  Stored(c, L, B, K)
<1> DEFINE recent == Append(Recent(attempts[c]), now)
           blocks == Len(recent) >= maxFailures
<1>1. attempts[c] \in Seq(0..Horizon) /\ now \in 0..Horizon
  BY DEF IInv, TypeOK
<1>2. recent # <<>> /\ recent[Len(recent)] = now
  <2>1. Recent(attempts[c]) \in Seq(0..Horizon)
    BY <1>1, RecentShrinks
  <2> DEFINE r == Recent(attempts[c])
  <2>2. r \in Seq(0..Horizon)
    BY <2>1
  <2> HIDE DEF r
  <2>3. /\ Append(r, now) \in Seq(0..Horizon)
        /\ Len(Append(r, now)) = Len(r) + 1 /\ Len(r) \in Nat
        /\ Append(r, now)[Len(r) + 1] = now
    BY <1>1, <2>2, AppendProperties
  <2>4. Append(r, now) # <<>>
    BY <2>3, EmptySeq
  <2> QED  BY <2>3, <2>4 DEF r
<1> HIDE DEF recent
<1>3. /\ below' = IF blocks THEN L ELSE L \cup {c}
      /\ blocked' = IF blocks THEN B \cup {c} ELSE B
      /\ attempts' = [x \in Client |->
              CASE x = c -> recent
                [] x # c /\ x \in K -> Recent(attempts[x])
                [] x # c /\ x \notin K /\ x \in L \cup B -> attempts[x]
                [] x # c /\ x \notin K \cup L \cup B -> <<>>]
      /\ ahead' = [x \in Client |->
              CASE x = c -> IF blocks THEN B ELSE L
                [] x # c /\ x \in K -> (below \cup (ahead[x] \cap K)) \cap (L \ {c})
                [] x # c /\ x \notin K /\ x \in L \cup B ->
                      ahead[x] \cap ((L \cup B) \ (K \cup {c}))
                [] x # c /\ x \notin K \cup L \cup B -> {}]
      /\ appended' = ((appended \cap L) \cup K) \ {c}
      /\ now' = now
  BY DEF Store, recent
<1> HIDE DEF blocks
<1>4. attempts'[c] = recent /\ ahead'[c] = IF blocks THEN B ELSE L
  BY <1>3
<1>5. ASSUME NEW x \in K
      PROVE  /\ attempts'[x] = Recent(attempts[x])
             /\ ahead'[x] = (below \cup (ahead[x] \cap K)) \cap L
  <2>1. x # c /\ x \in Client /\ L \ {c} = L
    OBVIOUS
  <2>2. attempts'[x] = Recent(attempts[x])
    BY <1>3, <2>1
  <2>3. ahead'[x] = (below \cup (ahead[x] \cap K)) \cap (L \ {c})
    BY <1>3, <2>1
  <2> QED  BY <2>1, <2>2, <2>3
<1>6. ASSUME NEW x \in (L \cup B) \ K
      PROVE  /\ attempts'[x] = attempts[x]
             /\ ahead'[x] = ahead[x] \cap ((L \cup B) \ K)
  <2>1. x # c /\ x \in Client /\ (L \cup B) \ (K \cup {c}) = (L \cup B) \ K
    OBVIOUS
  <2>2. attempts'[x] = attempts[x]
    BY <1>3, <2>1
  <2>3. ahead'[x] = ahead[x] \cap ((L \cup B) \ (K \cup {c}))
    BY <1>3, <2>1
  <2> QED  BY <2>1, <2>2, <2>3
<1>7. ASSUME NEW x \in Client \ (L \cup B \cup {c}) PROVE attempts'[x] = <<>>
  BY <1>3
<1>8. appended' = (appended \cap L) \cup K
  BY <1>3
<1> QED  BY <1>2, <1>3, <1>4, <1>5, <1>6, <1>7, <1>8 DEF Stored

(* The order after a failure of c is recorded.                             *)
LEMMA StoreOrders ==
    ASSUME OrderInv, IInv',
           NEW c \in Client, NEW L \in SUBSET Client, NEW B \in SUBSET Client,
           NEW K \in SUBSET L,
           c \notin L \cup B, L \cap B = {},
           L \ K \subseteq below, K \subseteq blocked, B \subseteq blocked,
           \A k \in K : Recent(attempts[k]) # <<>>,
           Stored(c, L, B, K)
    PROVE  OrderInv'
<1>1. /\ IInv /\ InOrder(below) /\ InOrder(blocked)
      /\ below \cap blocked = {} /\ now \in 0..Horizon
      /\ \A x \in below \cup blocked : attempts[x] \in Seq(0..Horizon)
  BY TrackedFailed DEF OrderInv, IInv, TrackerBounded, TypeOK, Tracked
<1>2. /\ \/ below' = L \cup {c} /\ blocked' = B /\ ahead'[c] = L
         \/ below' = L /\ blocked' = B \cup {c} /\ ahead'[c] = B
      /\ attempts'[c] # <<>> /\ attempts'[c][Len(attempts'[c])] = now
      /\ \A x \in K : /\ attempts'[x] = Recent(attempts[x])
                       /\ ahead'[x] = (below \cup (ahead[x] \cap K)) \cap L
      /\ \A x \in (L \cup B) \ K :
           /\ attempts'[x] = attempts[x]
           /\ ahead'[x] = ahead[x] \cap ((L \cup B) \ K)
      /\ appended' = (appended \cap L) \cup K
      /\ now' = now
  BY DEF Stored
<1>3. /\ LastFailure(c)' = now
      /\ \A x \in L \cup B : LastFailure(x)' = LastFailure(x)
  <2>1. \A x \in K : attempts'[x][Len(attempts'[x])] = LastFailure(x)
    BY <1>1, <1>2, RecentKeepsLast DEF LastFailure
  <2>2. \A x \in (L \cup B) \ K : attempts'[x][Len(attempts'[x])] = LastFailure(x)
    BY <1>2 DEF LastFailure
  <2> QED  BY <1>2, <2>1, <2>2 DEF LastFailure
<1>4. \A x \in L \cup B : x \in Tracked /\ LastFailure(x) <= now
  BY DEF OrderInv, Tracked
<1>5. InOrder(below)'
  <2> SUFFICES ASSUME NEW x \in below', NEW y \in below', x # y
               PROVE  x \in ahead'[y] \/ y \in ahead'[x]
    BY DEF InOrder
  <2>1. CASE x = c \/ y = c
    BY <1>2, <2>1
  <2>2. CASE x \in L /\ y \in L
    <3>1. CASE x \in K /\ y \in K
      <4>1. x \in ahead[y] \/ y \in ahead[x]
        BY <1>1, <3>1 DEF InOrder
      <4> QED  BY <1>2, <2>2, <3>1, <4>1
    <3>2. CASE x \in K /\ y \notin K
      BY <1>2, <2>2, <3>2
    <3>3. CASE x \notin K /\ y \in K
      BY <1>2, <2>2, <3>3
    <3>4. CASE x \notin K /\ y \notin K
      <4>1. x \in ahead[y] \/ y \in ahead[x]
        BY <1>1, <2>2, <3>4 DEF InOrder
      <4> QED  BY <1>2, <2>2, <3>4, <4>1
    <3> QED  BY <3>1, <3>2, <3>3, <3>4
  <2> QED  BY <1>2, <2>1, <2>2
<1>6. InOrder(blocked)'
  <2> SUFFICES ASSUME NEW x \in blocked', NEW y \in blocked', x # y
               PROVE  x \in ahead'[y] \/ y \in ahead'[x]
    BY DEF InOrder
  <2>1. CASE x = c \/ y = c
    BY <1>2, <2>1
  <2>2. CASE x \in B /\ y \in B
    <3>1. x \notin K /\ y \notin K
      BY <2>2
    <3>2. x \in ahead[y] \/ y \in ahead[x]
      BY <1>1, <2>2 DEF InOrder
    <3> QED  BY <1>2, <2>2, <3>1, <3>2
  <2> QED  BY <1>2, <2>1, <2>2
<1>7. \A x \in Tracked' : LastFailure(x)' <= now'
  <2>1. Tracked' = L \cup B \cup {c}
    BY <1>2 DEF Tracked
  <2>2. now <= now
    BY <1>1
  <2> QED  BY <1>2, <1>3, <1>4, <2>1, <2>2
<1>8. ASSUME NEW y \in below' \ appended', NEW x \in ahead'[y], x \in below'
      PROVE  LastFailure(x)' <= LastFailure(y)'
  <2>1. CASE y = c
    <3>1. x \in L
      BY <1>2, <1>8, <2>1
    <3> QED  BY <1>3, <1>4, <2>1, <3>1
  <2>2. CASE y # c
    <3>1. y \in L \ K /\ y \in below \ appended
      BY <1>2, <2>2
    <3>2. x \in ahead[y] /\ x \in (L \cup B) \ K
      BY <1>2, <1>8, <3>1
    <3>3. x \in below
      BY <1>2, <1>8, <3>2
    <3>4. LastFailure(x) <= LastFailure(y)
      BY <3>1, <3>2, <3>3 DEF OrderInv
    <3> QED  BY <1>3, <3>1, <3>2, <3>4
  <2> QED  BY <2>1, <2>2
<1> QED  BY <1>5, <1>6, <1>7, <1>8 DEF OrderInv

-----------------------------------------------------------------------------
(* What each way of recording a failure stores.                            *)
LEMMA RecordedStores ==
    ASSUME IInv, NEW c \in Client, Recorded(c)
    PROVE  Stored(c, below \ {c}, blocked \ {c}, {})
<1> DEFINE L == below \ {c}
           B == blocked \ {c}
<1>1. /\ L \in SUBSET Client /\ B \in SUBSET Client /\ c \notin L \cup B
      /\ {} \in SUBSET L /\ nextReleaseAt \in 0..Infinity
  BY DEF IInv, TypeOK
<1>2. Store(c, L, B, {}, nextReleaseAt)
  BY DEF Recorded
<1> HIDE DEF L, B
<1>3. Stored(c, L, B, {})
  BY <1>1, <1>2, StoreEffect
<1> QED  BY <1>3 DEF L, B

LEMMA RecordedAfterReleaseStores ==
    ASSUME IInv, NEW c \in Client, RecordedAfterRelease(c)
    PROVE  Stored(c, BelowAfter(c), BlockedAfter(c), Kept(c))
<1> DEFINE L == BelowAfter(c)
           B == BlockedAfter(c)
           K == Kept(c)
<1>1. /\ L \in SUBSET Client /\ B \in SUBSET Client /\ c \notin L \cup B
      /\ K \in SUBSET L
  BY AfterRelease DEF IInv, TypeOK, Tracked
<1>2. NextReleaseAfter(c) \in 0..Infinity
  BY NextReleaseBound
<1>3. Store(c, L, B, K, NextReleaseAfter(c))
  BY DEF RecordedAfterRelease
<1> HIDE DEF L, B, K
<1>4. Stored(c, L, B, K)
  BY <1>1, <1>2, <1>3, StoreEffect
<1> QED  BY <1>4 DEF L, B, K

LEMMA RecordedAfterEvictionStores ==
    ASSUME IInv, NEW c \in Client, RecordedAfterEviction(c)
    PROVE  \E v \in BelowAfter(c) :
             /\ OldestBelow(c, v)
             /\ Stored(c, BelowAfter(c) \ {v}, BlockedAfter(c), Kept(c) \ {v})
<1>1. PICK v \in BelowAfter(c) :
        /\ OldestBelow(c, v)
        /\ Store(c, BelowAfter(c) \ {v}, BlockedAfter(c), Kept(c) \ {v}, NextReleaseAfter(c))
  BY DEF RecordedAfterEviction
<1> DEFINE L == BelowAfter(c) \ {v}
           B == BlockedAfter(c)
           K == Kept(c) \ {v}
<1>2. /\ L \in SUBSET Client /\ B \in SUBSET Client /\ c \notin L \cup B
      /\ K \in SUBSET L
  BY AfterRelease DEF IInv, TypeOK, Tracked
<1>3. NextReleaseAfter(c) \in 0..Infinity
  BY NextReleaseBound
<1>4. Store(c, L, B, K, NextReleaseAfter(c))
  BY <1>1
<1> HIDE DEF L, B, K
<1>5. Stored(c, L, B, K)
  BY <1>2, <1>3, <1>4, StoreEffect
<1> QED  BY <1>1, <1>5 DEF L, B, K

(* The clients a release puts below the threshold were blocked and still   *)
(* have failures in the window.                                            *)
LEMMA KeptWereBlocked ==
    ASSUME NEW c \in Client
    PROVE  /\ Kept(c) \subseteq blocked
           /\ \A k \in Kept(c) : Recent(attempts[k]) # <<>>
BY DEF Kept, Released

LEMMA OrderInit == Init => OrderInv
<1> SUFFICES ASSUME Init PROVE OrderInv
  OBVIOUS
<1>1. IInv
  BY InvariantInit
<1>2. below = {} /\ blocked = {}
  BY DEF Init
<1> QED  BY <1>1, <1>2 DEF OrderInv, InOrder, Tracked

LEMMA OrderStep == OrderInv /\ [Next]_vars => OrderInv'
<1> SUFFICES ASSUME OrderInv, [Next]_vars PROVE OrderInv'
  OBVIOUS
<1>1. IInv /\ IInv'
  BY InvariantStep DEF OrderInv
<1>2. below \cap blocked = {} /\ below \subseteq Client /\ blocked \subseteq Client
  BY <1>1 DEF IInv, TrackerBounded, TypeOK
<1>3. CASE UNCHANGED vars
  BY <1>1, <1>3 DEF OrderInv, vars, InOrder, Tracked, LastFailure
<1>4. CASE Tick
  <2>1. now \in 0..Horizon /\ now' = now + 1
    BY <1>1, <1>4 DEF IInv, TypeOK, Tick
  <2>2. UNCHANGED <<below, blocked, attempts, ahead, appended>>
    BY <1>4 DEF Tick
  <2>3. \A x \in Tracked' : LastFailure(x)' <= now'
    <3> SUFFICES ASSUME NEW x \in Tracked PROVE LastFailure(x) <= now + 1
      BY <2>1, <2>2 DEF Tracked, LastFailure
    <3>1. LastFailure(x) \in 0..Horizon
      BY <1>1, TrackedFailed
    <3>2. LastFailure(x) <= now
      BY DEF OrderInv
    <3> QED  BY <2>1, <3>1, <3>2
  <2> QED  BY <1>1, <2>2, <2>3 DEF OrderInv, InOrder, LastFailure
<1>5. ASSUME NEW c \in Client, recordFailure(c) PROVE OrderInv'
  <2>1. CASE Throttled(c)
    BY <1>3, <2>1 DEF Throttled
  <2>2. CASE Recorded(c)
    <3> DEFINE L == below \ {c}
               B == blocked \ {c}
    <3>1. /\ L \in SUBSET Client /\ B \in SUBSET Client /\ {} \in SUBSET L
          /\ c \notin L \cup B /\ L \cap B = {}
          /\ L \ {} \subseteq below /\ {} \subseteq blocked /\ B \subseteq blocked
      BY <1>2
    <3>2. Stored(c, L, B, {})
      BY <1>1, <2>2, RecordedStores
    <3> HIDE DEF L, B
    <3> QED  BY <1>1, <3>1, <3>2, StoreOrders
  <2>3. CASE RecordedAfterRelease(c)
    <3> DEFINE L == BelowAfter(c)
               B == BlockedAfter(c)
               K == Kept(c)
    <3>1. /\ L \in SUBSET Client /\ B \in SUBSET Client /\ K \in SUBSET L
          /\ c \notin L \cup B /\ L \cap B = {}
          /\ L \ K \subseteq below /\ K \subseteq blocked /\ B \subseteq blocked
      BY <1>1, <1>2, AfterRelease, KeptWereBlocked DEF Tracked
    <3>2. \A k \in K : Recent(attempts[k]) # <<>>
      BY KeptWereBlocked
    <3>3. Stored(c, L, B, K)
      BY <1>1, <2>3, RecordedAfterReleaseStores
    <3> HIDE DEF L, B, K
    <3> QED  BY <1>1, <3>1, <3>2, <3>3, StoreOrders
  <2>4. CASE RecordedAfterEviction(c)
    <3>1. PICK v \in BelowAfter(c) :
            Stored(c, BelowAfter(c) \ {v}, BlockedAfter(c), Kept(c) \ {v})
      BY <1>1, <2>4, RecordedAfterEvictionStores
    <3> DEFINE L == BelowAfter(c) \ {v}
               B == BlockedAfter(c)
               K == Kept(c) \ {v}
    <3>2. /\ L \in SUBSET Client /\ B \in SUBSET Client /\ K \in SUBSET L
          /\ c \notin L \cup B /\ L \cap B = {}
          /\ L \ K \subseteq below /\ K \subseteq blocked /\ B \subseteq blocked
      BY <1>1, <1>2, AfterRelease, KeptWereBlocked DEF Tracked
    <3>3. \A k \in K : Recent(attempts[k]) # <<>>
      BY KeptWereBlocked
    <3>4. Stored(c, L, B, K)
      BY <3>1
    <3> HIDE DEF L, B, K
    <3> QED  BY <1>1, <3>2, <3>3, <3>4, StoreOrders
  <2>5. CASE Refused(c)
    <3>1. /\ below' = {} /\ blocked' = BlockedAfter(c) /\ now' = now
          /\ BlockedAfter(c) \subseteq blocked
          /\ \A x \in BlockedAfter(c) : /\ attempts'[x] = attempts[x]
                                         /\ ahead'[x] = ahead[x] \cap BlockedAfter(c)
      BY <1>1, <1>2, <2>5, AfterRelease DEF Refused
    <3>2. InOrder(below)' /\ InOrder(blocked)'
      BY <3>1 DEF OrderInv, InOrder
    <3>3. \A x \in Tracked' : LastFailure(x)' <= now'
      BY <3>1 DEF OrderInv, Tracked, LastFailure
    <3> QED  BY <1>1, <3>1, <3>2, <3>3 DEF OrderInv
  <2> QED  BY <1>5, <2>1, <2>2, <2>3, <2>4, <2>5 DEF recordFailure
<1> QED  BY <1>3, <1>4, <1>5 DEF Next

(***************************************************************************)
(* Each Map is ordered, and its order is that of the clients' last         *)
(* failures, but for the clients a release appended.                       *)
(***************************************************************************)
THEOREM MapsStayOrdered == Spec => []OrderInv
<1>1. Init => OrderInv
  BY OrderInit
<1>2. OrderInv /\ [Next]_vars => OrderInv'
  BY OrderStep
<1> QED  BY <1>1, <1>2, PTL DEF Spec

(***************************************************************************)
(* Recording a failure of c forgets no client that a Map still holds.      *)
(***************************************************************************)
LEMMA StoredForgets ==
    ASSUME IInv,
           NEW c \in Client, NEW L \in SUBSET Client, NEW B \in SUBSET Client,
           NEW K \in SUBSET L,
           \A k \in K : Recent(attempts[k]) # <<>>,
           Stored(c, L, B, K),
           NEW f \in L \cup B \cup {c}
    PROVE  ~Forgotten(f)
<1> SUFFICES ASSUME Forgotten(f) PROVE FALSE
  OBVIOUS
<1>1. f \in Tracked /\ attempts'[f] = <<>> /\ attempts[f] # <<>>
  BY TrackedFailed DEF Forgotten
<1>2. f # c
  BY <1>1 DEF Stored
<1>3. f \notin K
  BY <1>1 DEF Stored
<1>4. f \notin (L \cup B) \ K
  BY <1>1 DEF Stored
<1> QED  BY <1>2, <1>3, <1>4

(* The client evicted to make room is the least recent one.                *)
LEMMA EvictsLeastRecent ==
    ASSUME OrderInv, NEW c \in Client, NeedsRoom(c),
           NEW v \in BelowAfter(c), OldestBelow(c, v),
           Stored(c, BelowAfter(c) \ {v}, BlockedAfter(c), Kept(c) \ {v})
    PROVE  LeastRecentAmong(v, below' \ appended')
<1>1. /\ IInv /\ below \cap blocked = {}
      /\ below \subseteq Client /\ blocked \subseteq Client
  BY DEF OrderInv, IInv, TrackerBounded, TypeOK
<1>2. v \notin LiveBlocks
  <2> SUFFICES ASSUME v \in blocked, ReleaseAt(v) > now PROVE FALSE
    BY DEF LiveBlocks
  <2>1. v \in Kept(c)
    BY <1>1, AfterRelease
  <2>2. ReleaseAt(v) <= now
    BY <2>1 DEF Kept, Released
  <2>3. attempts[v] \in Seq(0..Horizon) /\ Len(attempts[v]) = maxFailures
    BY <1>1 DEF IInv, TypeOK, AttemptsMatchMaps
  <2>4. ReleaseAt(v) \in Int /\ now \in Int
    <3> DEFINE s == attempts[v]
    <3>1. s \in Seq(0..Horizon) /\ Len(s) = maxFailures
      BY <2>3
    <3> HIDE DEF s
    <3>2. s[1] \in 0..Horizon
      BY <3>1
    <3>3. attempts[v][1] \in 0..Horizon
      BY <3>2 DEF s
    <3> QED  BY <1>1, <3>3 DEF IInv, TypeOK, ReleaseAt
  <2> QED  BY <2>2, <2>4
<1>3. ASSUME NEW d \in below' \ appended', Recent(attempts[d]) # <<>>
      PROVE  LastFailure(v) <= LastFailure(d)
  <2>1. d # c
    BY <1>3 DEF NeedsRoom
  <2>2. d \in BelowAfter(c) \ {v} /\ d \notin Kept(c) /\ d \notin appended
    BY <1>3, <2>1 DEF Stored
  <2>3. d \in below \ {c} /\ d \in below \ appended
    BY <2>2 DEF BelowAfter
  <2>4. v \in below /\ ahead[v] \ {c} = {}
    BY <2>3 DEF OldestBelow, BelowAfter
  <2>5. d \notin ahead[v]
    BY <2>1, <2>4
  <2>6. v \in ahead[d]
    BY <2>2, <2>3, <2>4, <2>5 DEF OrderInv, InOrder
  <2> QED  BY <2>3, <2>4, <2>6 DEF OrderInv
<1> QED  BY <1>2, <1>3 DEF LeastRecentAmong

LEMMA ForgetsInOrderStep ==
    ASSUME OrderInv, [Next]_vars, NEW f \in Client, Forgotten(f)
    PROVE  LeastRecentAmong(f, below' \ appended')
<1>1. /\ IInv /\ below \cap blocked = {}
      /\ below \subseteq Client /\ blocked \subseteq Client
  BY DEF OrderInv, IInv, TrackerBounded, TypeOK
<1>2. f \in Tracked /\ attempts'[f] = <<>> /\ Recent(attempts[f]) # <<>>
  BY DEF Forgotten
<1>3. attempts[f] # <<>>
  BY <1>1, <1>2, TrackedFailed
<1>4. CASE UNCHANGED vars
  BY <1>2, <1>3, <1>4 DEF vars
<1>5. CASE Tick
  BY <1>2, <1>3, <1>5 DEF Tick
<1>6. ASSUME NEW c \in Client, recordFailure(c)
      PROVE  LeastRecentAmong(f, below' \ appended')
  <2>1. CASE Throttled(c)
    BY <1>4, <2>1 DEF Throttled
  <2>2. CASE Recorded(c)
    <3> DEFINE L == below \ {c}
               B == blocked \ {c}
    <3>1. L \in SUBSET Client /\ B \in SUBSET Client /\ {} \in SUBSET L
      BY <1>1
    <3>2. Stored(c, L, B, {})
      BY <1>1, <2>2, RecordedStores
    <3>3. Tracked = L \cup B \/ Tracked = L \cup B \cup {c}
      BY DEF Tracked
    <3> HIDE DEF L, B
    <3>4. f \notin L \cup B \cup {c}
      BY <1>1, <3>1, <3>2, StoredForgets
    <3> QED  BY <1>2, <3>3, <3>4
  <2>3. CASE RecordedAfterRelease(c)
    <3>1. f \notin BelowAfter(c) \cup BlockedAfter(c) \cup {c}
      <4> DEFINE L == BelowAfter(c)
                 B == BlockedAfter(c)
                 K == Kept(c)
      <4>1. L \in SUBSET Client /\ B \in SUBSET Client /\ K \in SUBSET L
        BY <1>1, AfterRelease DEF Tracked
      <4>2. \A k \in K : Recent(attempts[k]) # <<>>
        BY KeptWereBlocked
      <4>3. Stored(c, L, B, K)
        BY <1>1, <2>3, RecordedAfterReleaseStores
      <4> HIDE DEF L, B, K
      <4>4. f \notin L \cup B \cup {c}
        BY <1>1, <4>1, <4>2, <4>3, StoredForgets
      <4> QED  BY <4>4 DEF L, B
    <3> QED  BY <1>2, <3>1 DEF Tracked, BelowAfter, BlockedAfter, Kept
  <2>4. CASE RecordedAfterEviction(c)
    <3>1. PICK v \in BelowAfter(c) :
            /\ OldestBelow(c, v)
            /\ Stored(c, BelowAfter(c) \ {v}, BlockedAfter(c), Kept(c) \ {v})
      BY <1>1, <2>4, RecordedAfterEvictionStores
    <3>2. f \notin (BelowAfter(c) \ {v}) \cup BlockedAfter(c) \cup {c}
      <4> DEFINE L == BelowAfter(c) \ {v}
                 B == BlockedAfter(c)
                 K == Kept(c) \ {v}
      <4>1. L \in SUBSET Client /\ B \in SUBSET Client /\ K \in SUBSET L
        BY <1>1, AfterRelease DEF Tracked
      <4>2. \A k \in K : Recent(attempts[k]) # <<>>
        BY KeptWereBlocked
      <4>3. Stored(c, L, B, K)
        BY <3>1
      <4> HIDE DEF L, B, K
      <4>4. f \notin L \cup B \cup {c}
        BY <1>1, <4>1, <4>2, <4>3, StoredForgets
      <4> QED  BY <4>4 DEF L, B
    <3>3. f = v
      BY <1>2, <3>2 DEF Tracked, BelowAfter, BlockedAfter, Kept
    <3>4. NeedsRoom(c)
      BY <2>4 DEF RecordedAfterEviction
    <3> QED  BY <3>1, <3>3, <3>4, EvictsLeastRecent
  <2>5. CASE Refused(c)
    <3>1. f \notin BlockedAfter(c)
      BY <1>2, <1>3, <2>5 DEF Refused
    <3>2. BelowAfter(c) = {} /\ Recent(attempts[c]) = <<>>
      BY <2>5 DEF Refused, NoSlot, NeedsRoom
    <3> QED  BY <1>2, <3>1, <3>2 DEF Tracked, BelowAfter, BlockedAfter, Kept
  <2> QED  BY <1>6, <2>1, <2>2, <2>3, <2>4, <2>5 DEF recordFailure
<1> QED  BY <1>4, <1>5, <1>6 DEF Next

(***************************************************************************)
(* Failures in the window are forgotten only to make room, never those of  *)
(* a live block, and then of the client that failed least recently among   *)
(* the kept ones no release appended (makeRoom, releaseExpiredBlocks,      *)
(* auth-throttle.ts:111-151), for any number of clients.                   *)
(***************************************************************************)
THEOREM RoomIsMadeInOrder == Spec => ForgetsInOrder
<1>1. Init => OrderInv
  BY OrderInit
<1>2. OrderInv /\ [Next]_vars => OrderInv'
  BY OrderStep
<1>3. OrderInv /\ [Next]_vars =>
        [\A c \in Client : Forgotten(c) => LeastRecentAmong(c, below' \ appended')]_vars
  BY ForgetsInOrderStep
<1> QED  BY <1>1, <1>2, <1>3, PTL DEF Spec, ForgetsInOrder

-----------------------------------------------------------------------------
(***************************************************************************)
(* ahead is a strict order within each Map: nobody is ahead of itself, and *)
(* who is ahead of somebody ahead is ahead.                                *)
(***************************************************************************)
StrictInv ==
    /\ IInv
    /\ \A x \in below : ahead[x] \subseteq below
    /\ \A x \in blocked : ahead[x] \subseteq blocked
    /\ \A x \in Tracked : x \notin ahead[x] /\ \A y \in ahead[x] : ahead[y] \subseteq ahead[x]

LEMMA StoreKeepsStrict ==
    ASSUME StrictInv, IInv',
           NEW c \in Client, NEW L \in SUBSET Client, NEW B \in SUBSET Client,
           NEW K \in SUBSET L,
           c \notin L \cup B, L \cap B = {},
           L \ K \subseteq below, K \subseteq blocked, B \subseteq blocked,
           Stored(c, L, B, K)
    PROVE  StrictInv'
<1>1. /\ \/ below' = L \cup {c} /\ blocked' = B /\ ahead'[c] = L
         \/ below' = L /\ blocked' = B \cup {c} /\ ahead'[c] = B
      /\ \A x \in K : ahead'[x] = (below \cup (ahead[x] \cap K)) \cap L
      /\ \A x \in (L \cup B) \ K : ahead'[x] = ahead[x] \cap ((L \cup B) \ K)
  BY DEF Stored
<1>2. /\ below \cap blocked = {}
      /\ \A x \in below : ahead[x] \subseteq below
      /\ \A x \in blocked : ahead[x] \subseteq blocked
      /\ \A x \in below \cup blocked :
           x \notin ahead[x] /\ \A y \in ahead[x] : ahead[y] \subseteq ahead[x]
  BY DEF StrictInv, IInv, TrackerBounded, Tracked
<1>3. ASSUME NEW x \in L
      PROVE  /\ ahead'[x] \subseteq L /\ x \notin ahead'[x]
             /\ \A y \in ahead'[x] : ahead'[y] \subseteq ahead'[x]
  <2>1. CASE x \in K
    <3>1. ahead'[x] = (below \cup (ahead[x] \cap K)) \cap L
      BY <1>1, <2>1
    <3>2. x \notin below /\ x \notin ahead[x]
      BY <1>2, <2>1
    <3>3. ASSUME NEW y \in ahead'[x] PROVE ahead'[y] \subseteq ahead'[x]
      <4>1. CASE y \in K
        <5>1. y \in ahead[x] /\ ahead'[y] = (below \cup (ahead[y] \cap K)) \cap L
          BY <1>1, <1>2, <3>1, <3>3, <4>1
        <5>2. ahead[y] \subseteq ahead[x]
          BY <1>2, <2>1, <5>1
        <5> QED  BY <3>1, <5>1, <5>2
      <4>2. CASE y \notin K
        <5>1. y \in L \ K /\ y \in below
          BY <3>1, <3>3, <4>2
        <5>2. ahead'[y] = ahead[y] \cap ((L \cup B) \ K) /\ ahead[y] \subseteq below
          BY <1>1, <1>2, <5>1
        <5> QED  BY <1>2, <3>1, <5>2
      <4> QED  BY <4>1, <4>2
    <3> QED  BY <3>1, <3>2, <3>3
  <2>2. CASE x \notin K
    <3>1. x \in below /\ ahead'[x] = ahead[x] \cap ((L \cup B) \ K)
      BY <1>1, <2>2
    <3>2. ASSUME NEW y \in ahead'[x] PROVE ahead'[y] \subseteq ahead'[x]
      <4>1. y \in (L \cup B) \ K /\ ahead[y] \subseteq ahead[x]
        BY <1>2, <3>1, <3>2
      <4>2. ahead'[y] = ahead[y] \cap ((L \cup B) \ K)
        BY <1>1, <4>1
      <4> QED  BY <3>1, <4>1, <4>2
    <3> QED  BY <1>2, <3>1, <3>2
  <2> QED  BY <2>1, <2>2
<1>4. ASSUME NEW x \in B
      PROVE  /\ ahead'[x] \subseteq B /\ x \notin ahead'[x]
             /\ \A y \in ahead'[x] : ahead'[y] \subseteq ahead'[x]
  <2>1. x \in blocked /\ ahead'[x] = ahead[x] \cap ((L \cup B) \ K)
    BY <1>1
  <2>2. ASSUME NEW y \in ahead'[x] PROVE ahead'[y] \subseteq ahead'[x]
    <3>1. y \in (L \cup B) \ K /\ ahead[y] \subseteq ahead[x]
      BY <1>2, <2>1, <2>2
    <3>2. ahead'[y] = ahead[y] \cap ((L \cup B) \ K)
      BY <1>1, <3>1
    <3> QED  BY <2>1, <3>1, <3>2
  <2> QED  BY <1>2, <2>1, <2>2
<1>5. CASE below' = L \cup {c} /\ blocked' = B /\ ahead'[c] = L
  BY <1>3, <1>4, <1>5 DEF StrictInv, Tracked
<1>6. CASE below' = L /\ blocked' = B \cup {c} /\ ahead'[c] = B
  BY <1>3, <1>4, <1>6 DEF StrictInv, Tracked
<1> QED  BY <1>1, <1>5, <1>6

LEMMA StrictStep == StrictInv /\ [Next]_vars => StrictInv'
<1> SUFFICES ASSUME StrictInv, [Next]_vars PROVE StrictInv'
  OBVIOUS
<1>1. IInv /\ IInv'
  BY InvariantStep DEF StrictInv
<1>2. below \cap blocked = {} /\ below \subseteq Client /\ blocked \subseteq Client
  BY <1>1 DEF IInv, TrackerBounded, TypeOK
<1>3. CASE UNCHANGED vars
  BY <1>1, <1>3 DEF StrictInv, vars, Tracked
<1>4. CASE Tick
  BY <1>1, <1>4 DEF StrictInv, Tick, Tracked
<1>5. ASSUME NEW c \in Client, recordFailure(c) PROVE StrictInv'
  <2>1. CASE Throttled(c)
    BY <1>3, <2>1 DEF Throttled
  <2>2. CASE Recorded(c)
    <3> DEFINE L == below \ {c}
               B == blocked \ {c}
    <3>1. /\ L \in SUBSET Client /\ B \in SUBSET Client /\ {} \in SUBSET L
          /\ c \notin L \cup B /\ L \cap B = {}
          /\ L \ {} \subseteq below /\ {} \subseteq blocked /\ B \subseteq blocked
      BY <1>2
    <3>2. Stored(c, L, B, {})
      BY <1>1, <2>2, RecordedStores
    <3> HIDE DEF L, B
    <3> QED  BY <1>1, <3>1, <3>2, StoreKeepsStrict
  <2>3. CASE RecordedAfterRelease(c)
    <3> DEFINE L == BelowAfter(c)
               B == BlockedAfter(c)
               K == Kept(c)
    <3>1. /\ L \in SUBSET Client /\ B \in SUBSET Client /\ K \in SUBSET L
          /\ c \notin L \cup B /\ L \cap B = {}
          /\ L \ K \subseteq below /\ K \subseteq blocked /\ B \subseteq blocked
      BY <1>1, <1>2, AfterRelease, KeptWereBlocked DEF Tracked
    <3>2. Stored(c, L, B, K)
      BY <1>1, <2>3, RecordedAfterReleaseStores
    <3> HIDE DEF L, B, K
    <3> QED  BY <1>1, <3>1, <3>2, StoreKeepsStrict
  <2>4. CASE RecordedAfterEviction(c)
    <3>1. PICK v \in BelowAfter(c) :
            Stored(c, BelowAfter(c) \ {v}, BlockedAfter(c), Kept(c) \ {v})
      BY <1>1, <2>4, RecordedAfterEvictionStores
    <3> DEFINE L == BelowAfter(c) \ {v}
               B == BlockedAfter(c)
               K == Kept(c) \ {v}
    <3>2. /\ L \in SUBSET Client /\ B \in SUBSET Client /\ K \in SUBSET L
          /\ c \notin L \cup B /\ L \cap B = {}
          /\ L \ K \subseteq below /\ K \subseteq blocked /\ B \subseteq blocked
      BY <1>1, <1>2, AfterRelease, KeptWereBlocked DEF Tracked
    <3>3. Stored(c, L, B, K)
      BY <3>1
    <3> HIDE DEF L, B, K
    <3> QED  BY <1>1, <3>2, <3>3, StoreKeepsStrict
  <2>5. CASE Refused(c)
    <3>1. /\ below' = {} /\ blocked' = BlockedAfter(c)
          /\ BlockedAfter(c) \subseteq blocked
          /\ \A x \in BlockedAfter(c) : ahead'[x] = ahead[x] \cap BlockedAfter(c)
      BY <1>1, <1>2, <2>5, AfterRelease DEF Refused
    <3>2. ASSUME NEW x \in BlockedAfter(c)
          PROVE  /\ ahead'[x] \subseteq BlockedAfter(c) /\ x \notin ahead'[x]
                 /\ \A y \in ahead'[x] : ahead'[y] \subseteq ahead'[x]
      BY <3>1 DEF StrictInv, Tracked
    <3> QED  BY <1>1, <3>1, <3>2 DEF StrictInv, Tracked
  <2> QED  BY <1>5, <2>1, <2>2, <2>3, <2>4, <2>5 DEF recordFailure
<1> QED  BY <1>3, <1>4, <1>5 DEF Next

(* A set of subsets of a finite set has one that no other is a part of.    *)
LEMMA MinimalSubset ==
    ASSUME NEW S, IsFiniteSet(S), NEW P \in SUBSET (SUBSET S), P # {}
    PROVE  \E p \in P : \A q \in P : ~ (<<q, p>> \in StrictSubsetOrdering(S))
<1>1. IsWellFoundedOn(StrictSubsetOrdering(S), FiniteSubsetsOf(S))
  BY FS_StrictSubsetOrderingWellFounded, Zenon
<1>2. FiniteSubsetsOf(S) = SUBSET S
  BY FS_FiniteSubsetsOfFinite, Zenon
<1>3. IsWellFoundedOn(StrictSubsetOrdering(S), SUBSET S)
  BY <1>1, <1>2
<1> QED  BY <1>3, WFMin, Zenon

(* A finite set that a strict order orders has a first element.            *)
LEMMA FirstInOrder ==
    ASSUME NEW S, IsFiniteSet(S), S # {}, NEW before,
           \A x \in S : x \notin before[x],
           \A x \in S : \A y \in before[x] \cap S : before[y] \subseteq before[x]
    PROVE  \E x \in S : before[x] \cap S = {}
<1> DEFINE P == {before[x] \cap S : x \in S}
<1>1. P \in SUBSET (SUBSET S)
  OBVIOUS
<1>2. P # {}
  <2>1. PICK x : x \in S
    OBVIOUS
  <2>2. before[x] \cap S \in P
    BY <2>1
  <2> QED  BY <2>2
<1> HIDE DEF P
<1>3. PICK p \in P : \A q \in P : ~ (<<q, p>> \in StrictSubsetOrdering(S))
  BY <1>1, <1>2, MinimalSubset
<1>4. PICK x \in S : p = before[x] \cap S
  BY DEF P
<1>5. ASSUME NEW y \in before[x] \cap S PROVE FALSE
  <2> DEFINE q == before[y] \cap S
  <2>1. q \in P /\ q \subseteq p /\ y \in p /\ y \notin q
    BY <1>4 DEF P
  <2>2. <<q, p>> \in StrictSubsetOrdering(S)
    BY <1>1, <2>1 DEF StrictSubsetOrdering
  <2> QED  BY <1>3, <2>1, <2>2
<1> QED  BY <1>5

(***************************************************************************)
(* Where makeRoom has a client to drop, it finds one to drop first: the    *)
(* Map stays an order, through releases and evictions, and so a failure    *)
(* has an outcome in every state (makeRoom, auth-throttle.ts:111-125).     *)
(***************************************************************************)
THEOREM SomebodyIsOldest ==
    Spec => [](\A c \in Client : BelowAfter(c) # {} =>
                 \E v \in BelowAfter(c) : OldestBelow(c, v))
<1>1. Init => StrictInv
  <2> SUFFICES ASSUME Init PROVE StrictInv
    OBVIOUS
  <2>1. IInv /\ below = {} /\ blocked = {}
    BY InvariantInit DEF Init
  <2> QED  BY <2>1 DEF StrictInv, Tracked
<1>2. StrictInv /\ [Next]_vars => StrictInv'
  BY StrictStep
<1>3. ASSUME StrictInv, NEW c \in Client, BelowAfter(c) # {}
      PROVE  \E v \in BelowAfter(c) : OldestBelow(c, v)
  <2>1. /\ below \cap blocked = {} /\ Kept(c) \subseteq blocked
        /\ IsFiniteSet(below \ {c}) /\ IsFiniteSet(Kept(c))
    BY <1>3, ClientAssumption, FS_Subset, KeptWereBlocked
       DEF StrictInv, IInv, TrackerBounded, TypeOK
  <2>2. CASE below \ {c} # {}
    <3> DEFINE S == below \ {c}
    <3>1. /\ \A x \in S : x \notin ahead[x]
          /\ \A x \in S : \A y \in ahead[x] \cap S : ahead[y] \subseteq ahead[x]
      BY <1>3 DEF StrictInv, Tracked
    <3>2. IsFiniteSet(S) /\ S # {}
      BY <2>1, <2>2
    <3> HIDE DEF S
    <3>3. PICK v \in S : ahead[v] \cap S = {}
      BY <3>1, <3>2, FirstInOrder
    <3>4. v \in below \ {c} /\ ahead[v] \subseteq below /\ ahead[v] \cap (below \ {c}) = {}
      BY <1>3, <3>3 DEF S, StrictInv
    <3>5. v \in BelowAfter(c) /\ v \notin Kept(c) /\ ahead[v] \ {c} = {}
      BY <2>1, <3>4 DEF BelowAfter
    <3> QED  BY <3>5 DEF OldestBelow
  <2>3. CASE below \ {c} = {}
    <3> DEFINE S == Kept(c)
    <3>1. /\ \A x \in S : x \notin ahead[x]
          /\ \A x \in S : \A y \in ahead[x] \cap S : ahead[y] \subseteq ahead[x]
      BY <1>3, <2>1 DEF StrictInv, Tracked
    <3>2. IsFiniteSet(S) /\ S # {}
      BY <1>3, <2>1, <2>3 DEF BelowAfter
    <3> HIDE DEF S
    <3>3. PICK v \in S : ahead[v] \cap S = {}
      BY <3>1, <3>2, FirstInOrder
    <3>4. v \in BelowAfter(c) /\ v \in Kept(c) /\ ahead[v] \cap Kept(c) = {}
      BY <3>3 DEF S, BelowAfter
    <3> QED  BY <2>3, <3>4 DEF OldestBelow
  <2> QED  BY <2>2, <2>3
<1>4. StrictInv => \A c \in Client : BelowAfter(c) # {} =>
                     \E v \in BelowAfter(c) : OldestBelow(c, v)
  BY <1>3
<1> QED  BY <1>1, <1>2, <1>4, PTL DEF Spec

-----------------------------------------------------------------------------
(***************************************************************************)
(* The remembered failures of a client are in the order they happened in.  *)
(***************************************************************************)
Ascending(s) ==
    /\ \A i, j \in 1..Len(s) : i <= j => s[i] <= s[j]
    /\ \A i \in 1..Len(s) : s[i] <= now

AscendInv ==
    /\ IInv
    /\ \A c \in Client : Ascending(attempts[c])

(* The failures that aged out are the first ones of an ascending list.     *)
LEMMA RecentIsSuffix ==
    ASSUME NEW s \in Seq(0..Horizon), Ascending(s), now \in 0..Horizon
    PROVE  \E m \in 0..Len(s) :
             /\ \A i \in 1..Len(s) : s[i] + windowMs <= now <=> i <= m
             /\ Recent(s) = SubSeq(s, m + 1, Len(s))
<1> DEFINE n == Len(s)
           O == {i \in 1..n : s[i] + windowMs <= now}
           T == {k \in Nat : k <= n /\ k + 1 \notin O}
<1>1. n \in Nat /\ \A i \in 1..n : s[i] \in 0..Horizon
  OBVIOUS
<1>2. n \in T /\ T \in SUBSET Nat
  BY <1>1
<1>3. PICK m \in T : \A k \in T : m <= k
  <2> HIDE DEF T
  <2> QED  BY <1>2, LeastNat
<1>4. m \in 0..n /\ m \in Nat /\ m + 1 \notin O
  BY <1>1
<1>5. ASSUME NEW i \in 1..n, i <= m PROVE i \in O
  <2>1. i - 1 \in Nat /\ i - 1 <= n /\ ~ (m <= i - 1) /\ (i - 1) + 1 = i
    BY <1>1, <1>4, <1>5
  <2>2. i - 1 \notin T
    BY <1>3, <2>1
  <2> QED  BY <2>1, <2>2
<1>6. ASSUME NEW i \in O PROVE i <= m
  <2> SUFFICES ASSUME ~ (i <= m) PROVE FALSE
    OBVIOUS
  <2>1. m + 1 \in 1..n /\ m + 1 <= i /\ i \in 1..n
    BY <1>1, <1>4
  <2>2. s[m + 1] <= s[i]
    BY <2>1 DEF Ascending
  <2>3. s[m + 1] + windowMs <= now
    BY <1>1, <2>1, <2>2
  <2> QED  BY <1>4, <2>1, <2>3
<1>7. O = 1..m
  BY <1>1, <1>4, <1>5, <1>6
<1>8. Cardinality(O) = m
  <2>1. Cardinality(1..m) = m
    <3>1. 1 \in Int /\ m \in Int /\ (1 > m <=> m = 0) /\ m - 1 + 1 = m
      BY <1>4
    <3>2. Cardinality(1..m) = IF 1 > m THEN 0 ELSE m - 1 + 1
      BY <3>1, FS_Interval
    <3> QED  BY <3>1, <3>2
  <2> QED  BY <1>7, <2>1
<1>9. Recent(s) = SubSeq(s, m + 1, Len(s))
  BY <1>8 DEF Recent
<1>10. \A i \in 1..Len(s) : s[i] + windowMs <= now <=> i <= m
  BY <1>5, <1>6
<1> QED  BY <1>4, <1>9, <1>10

(* What is left of an ascending list is ascending, with the newest failure *)
(* appended as well.                                                       *)
LEMMA RecentAscends ==
    ASSUME NEW s \in Seq(0..Horizon), Ascending(s), now \in 0..Horizon
    PROVE  Recent(s) \in Seq(0..Horizon) /\ Ascending(Recent(s))
<1>1. PICK m \in 0..Len(s) : Recent(s) = SubSeq(s, m + 1, Len(s))
  BY RecentIsSuffix
<1>2. Len(s) \in Nat
  OBVIOUS
<1> DEFINE r == Recent(s)
<1>3. Len(r) = Len(s) - m /\ \A i \in 1..Len(r) : r[i] = s[m + i] /\ m + i \in 1..Len(s)
  <2> DEFINE q == SubSeq(s, m + 1, Len(s))
  <2>1. Len(q) = IF m + 1 <= Len(s) THEN Len(s) - (m + 1) + 1 ELSE 0
    BY <1>2, SubSeqProperties
  <2>2. Len(q) = Len(s) - m
    BY <1>2, <2>1
  <2>3. ASSUME NEW i \in 1..(Len(s) - m) PROVE q[i] = s[m + i] /\ m + i \in 1..Len(s)
    <3>1. i \in 1..(Len(s) - (m + 1) + 1) /\ (m + 1) + i - 1 = m + i
      BY <1>2
    <3>2. m + 1 \in Int /\ Len(s) \in Int /\ \A j \in (m + 1)..Len(s) : s[j] \in 0..Horizon
      BY <1>2
    <3>3. q[i] = s[(m + 1) + i - 1]
      BY <3>1, <3>2, SubSeqProperties
    <3>4. m + i \in 1..Len(s)
      BY <1>2
    <3> QED  BY <3>1, <3>3, <3>4
  <2> QED  BY <1>1, <2>2, <2>3
<1>4. r \in Seq(0..Horizon)
  BY RecentShrinks
<1> HIDE DEF r
<1>5. ASSUME NEW i \in 1..Len(r), NEW j \in 1..Len(r), i <= j PROVE r[i] <= r[j]
  <2>1. m + i \in 1..Len(s) /\ m + j \in 1..Len(s) /\ m + i <= m + j
    BY <1>2, <1>3, <1>5
  <2> QED  BY <1>3, <2>1 DEF Ascending
<1>6. \A i \in 1..Len(r) : r[i] <= now
  BY <1>3 DEF Ascending
<1>7. r \in Seq(0..Horizon) /\ Ascending(r)
  BY <1>4, <1>5, <1>6 DEF Ascending
<1> QED  BY <1>7 DEF r

LEMMA AppendAscends ==
    ASSUME NEW s \in Seq(0..Horizon), Ascending(s), now \in 0..Horizon
    PROVE  Ascending(Append(s, now))
<1> DEFINE r == Append(s, now)
<1>1. Len(s) \in Nat /\ Len(r) = Len(s) + 1
  BY AppendProperties
<1>2. \A i \in 1..Len(s) : r[i] = s[i] /\ s[i] <= now
  BY AppendProperties DEF Ascending
<1>3. r[Len(s) + 1] = now
  BY AppendProperties
<1> HIDE DEF r
<1>4. \A i \in 1..Len(r) : r[i] <= now
  BY <1>1, <1>2, <1>3
<1>5. ASSUME NEW i \in 1..Len(r), NEW j \in 1..Len(r), i <= j PROVE r[i] <= r[j]
  <2>1. CASE j = Len(s) + 1
    BY <1>3, <1>4, <2>1
  <2>2. CASE j # Len(s) + 1
    <3>1. i \in 1..Len(s) /\ j \in 1..Len(s)
      BY <1>1, <1>5, <2>2
    <3> QED  BY <1>2, <1>5, <3>1 DEF Ascending
  <2> QED  BY <2>1, <2>2
<1>6. Ascending(r)
  BY <1>4, <1>5 DEF Ascending
<1> QED  BY <1>6 DEF r

(* A failure leaves a list alone, drops it, drops what aged out of it, or  *)
(* appends to that.                                                        *)
LEMMA ListsChange ==
    ASSUME IInv, NEW c \in Client, recordFailure(c), NEW x \in Client
    PROVE  /\ now' = now
           /\ attempts'[x] \in { attempts[x], <<>>, Recent(attempts[x]),
                                  Append(Recent(attempts[x]), now) }
<1>1. ASSUME NEW L, NEW B, NEW K, NEW release, Store(c, L, B, K, release)
      PROVE  /\ now' = now
             /\ attempts'[x] \in { attempts[x], <<>>, Recent(attempts[x]),
                                    Append(Recent(attempts[x]), now) }
  BY <1>1 DEF Store
<1>2. CASE Throttled(c)
  BY <1>2 DEF Throttled, vars
<1>3. CASE Recorded(c)
  BY <1>1, <1>3 DEF Recorded
<1>4. CASE RecordedAfterRelease(c)
  BY <1>1, <1>4 DEF RecordedAfterRelease
<1>5. CASE RecordedAfterEviction(c)
  BY <1>1, <1>5 DEF RecordedAfterEviction
<1>6. CASE Refused(c)
  BY <1>6 DEF Refused
<1> QED  BY <1>2, <1>3, <1>4, <1>5, <1>6 DEF recordFailure

LEMMA AscendStep == AscendInv /\ [Next]_vars => AscendInv'
<1> SUFFICES ASSUME AscendInv, [Next]_vars PROVE AscendInv'
  OBVIOUS
<1>1. IInv /\ IInv' /\ now \in 0..Horizon
  BY InvariantStep DEF AscendInv, IInv, TypeOK
<1>2. CASE UNCHANGED vars
  BY <1>1, <1>2 DEF AscendInv, Ascending, vars
<1>3. CASE Tick
  <2> SUFFICES ASSUME NEW c \in Client PROVE Ascending(attempts[c])'
    BY <1>1 DEF AscendInv
  <2>1. attempts' = attempts /\ now' = now + 1
    BY <1>3 DEF Tick
  <2>2. Ascending(attempts[c]) /\ attempts[c] \in Seq(0..Horizon)
    BY <1>1 DEF AscendInv, IInv, TypeOK
  <2> DEFINE s == attempts[c]
  <2>3. s \in Seq(0..Horizon) /\ Ascending(s)
    BY <2>2
  <2> HIDE DEF s
  <2>4. \A i \in 1..Len(s) : s[i] <= now + 1
    BY <1>1, <2>3 DEF Ascending
  <2>5. \A i, j \in 1..Len(s) : i <= j => s[i] <= s[j]
    BY <2>3 DEF Ascending
  <2> QED  BY <2>1, <2>4, <2>5 DEF Ascending, s
<1>4. ASSUME NEW c \in Client, recordFailure(c) PROVE AscendInv'
  <2> SUFFICES ASSUME NEW x \in Client PROVE Ascending(attempts[x])'
    BY <1>1 DEF AscendInv
  <2>1. attempts[x] \in Seq(0..Horizon) /\ Ascending(attempts[x])
    BY <1>1 DEF AscendInv, IInv, TypeOK
  <2> DEFINE s == attempts[x]
             r == Recent(s)
             t == Append(r, now)
  <2>2. s \in Seq(0..Horizon) /\ Ascending(s)
    BY <2>1
  <2> HIDE DEF s
  <2>3. r \in Seq(0..Horizon) /\ Ascending(r)
    BY <1>1, <2>2, RecentAscends
  <2> HIDE DEF r
  <2>4. Ascending(t)
    BY <1>1, <2>3, AppendAscends
  <2> HIDE DEF t
  <2>5. Ascending(<<>>)
    BY DEF Ascending
  <2>6. now' = now /\ attempts'[x] \in {s, <<>>, r, t}
    BY <1>1, <1>4, ListsChange DEF s, r, t
  <2>7. Ascending(attempts'[x])
    BY <2>2, <2>3, <2>4, <2>5, <2>6
  <2> QED  BY <2>6, <2>7 DEF Ascending
<1> QED  BY <1>2, <1>3, <1>4 DEF Next

(***************************************************************************)
(* 429 means what it says: a failure is answered with it exactly if        *)
(* maxFailures of the client's remembered ones are in the window, though   *)
(* the code looks at one entry only.  That is so because the times ascend, *)
(* as the comment there claims (recordFailure, auth-throttle.ts:77-79).    *)
(***************************************************************************)
InWindow(s) == {i \in 1..Len(s) : s[i] + windowMs > now}

THEOREM BlockedMeansFailures ==
    Spec => [](\A c \in Client :
                 /\ Ascending(attempts[c])
                 /\ IsBlocked(attempts[c])
                      <=> Cardinality(InWindow(attempts[c])) >= maxFailures)
<1>1. Init => AscendInv
  <2> SUFFICES ASSUME Init PROVE AscendInv
    OBVIOUS
  <2>1. Ascending(<<>>)
    BY DEF Ascending
  <2>2. IInv /\ \A c \in Client : attempts[c] = <<>>
    BY InvariantInit DEF Init
  <2> QED  BY <2>1, <2>2 DEF AscendInv
<1>2. AscendInv /\ [Next]_vars => AscendInv'
  BY AscendStep
<1>3. ASSUME NEW s \in Seq(0..Horizon), Ascending(s), now \in 0..Horizon
      PROVE  IsBlocked(s) <=> Cardinality(InWindow(s)) >= maxFailures
  <2>1. PICK m \in 0..Len(s) : \A i \in 1..Len(s) : s[i] + windowMs <= now <=> i <= m
    BY <1>3, RecentIsSuffix
  <2>2. Len(s) \in Nat /\ \A i \in 1..Len(s) : s[i] \in Nat
    OBVIOUS
  <2> DEFINE n == Len(s)
  <2>3. InWindow(s) = (m + 1)..n
    BY <1>3, <2>1, <2>2 DEF InWindow
  <2>4. Cardinality(InWindow(s)) = n - m
    <3>1. m + 1 \in Int /\ n \in Int /\ m + 1 <= n + 1
      BY <2>2
    <3> HIDE DEF n
    <3>2. Cardinality((m + 1)..n) = IF m + 1 > n THEN 0 ELSE n - (m + 1) + 1
      BY <3>1, FS_Interval
    <3>3. Cardinality((m + 1)..n) = n - m
      BY <3>1, <3>2
    <3> QED  BY <2>3, <3>3
  <2>5. IsBlocked(s) <=> n - m >= maxFailures
    <3>1. CASE n >= maxFailures
      <4> DEFINE k == n - maxFailures + 1
      <4>1. k \in 1..n
        BY <2>2, <3>1
      <4>2. s[k] \in Nat /\ (s[k] + windowMs <= now <=> k <= m)
        <5> HIDE DEF k
        <5> QED  BY <2>1, <2>2, <4>1
      <4>3. IsBlocked(s) <=> s[k] + windowMs > now
        BY <3>1 DEF IsBlocked
      <4>4. IsBlocked(s) <=> ~ (k <= m)
        BY <1>3, <4>2, <4>3
      <4>5. ~ (k <= m) <=> n - m >= maxFailures
        BY <2>2
      <4> QED  BY <4>4, <4>5
    <3>2. CASE ~ (n >= maxFailures)
      BY <2>2, <3>2 DEF IsBlocked
    <3> QED  BY <3>1, <3>2
  <2> QED  BY <2>4, <2>5
<1>4. AscendInv => \A c \in Client :
                     /\ Ascending(attempts[c])
                     /\ IsBlocked(attempts[c])
                          <=> Cardinality(InWindow(attempts[c])) >= maxFailures
  BY <1>3 DEF AscendInv, IInv, TypeOK
<1> QED  BY <1>1, <1>2, <1>4, PTL DEF Spec
=============================================================================
