----------------------- MODULE FsCacheEviction_proofs -----------------------
(***************************************************************************)
(* What the sweep of FsCacheServer computes and achieves: the type of the  *)
(* whole state, the gauge, the limits, and that it never trims too much.   *)
(* The first part proves what sums over finite sets satisfy.  Every        *)
(* induction there is by a minimal counterexample, because the library's   *)
(* induction theorems take an operator.                                    *)
(***************************************************************************)
EXTENDS FsCacheAnswers_proofs, FiniteSetTheorems, WellFoundedInduction

-----------------------------------------------------------------------------
(* Sums.                                                                   *)

(* Every nonempty set of numbers has a least one.                          *)
LEMMA LeastNumber ==
    ASSUME NEW T, T \subseteq Nat, T # {}
    PROVE  \E m \in T : \A k \in T : m <= k
<1>1. IsWellFoundedOn(OpToRel(<, Nat), Nat)
  BY NatLessThanWellFounded, Zenon
<1>2. PICK m \in T : \A k \in T : ~ (<<k, m>> \in OpToRel(<, Nat))
  BY <1>1, WFMin, Zenon
<1>3. \A k \in T : ~ (k < m)
  BY <1>2 DEF OpToRel
<1> QED  BY <1>3

(* Every nonempty set of finite sets has one that is minimal in it.        *)
LEMMA MinimalSubset ==
    ASSUME NEW S, IsFiniteSet(S), NEW B \in SUBSET (SUBSET S), B # {}
    PROVE  \E s \in B : IsFiniteSet(s) /\ \A x \in s : s \ {x} \notin B
<1>1. IsWellFoundedOn(StrictSubsetOrdering(S), SUBSET S)
  BY FS_StrictSubsetOrderingWellFounded, FS_FiniteSubsetsOfFinite, Zenon
<1>2. PICK s \in B : \A t \in B : ~ (<<t, s>> \in StrictSubsetOrdering(S))
  BY <1>1, WFMin, Zenon
<1>3. IsFiniteSet(s)
  BY FS_Subset
<1>4. \A x \in s : s \ {x} \notin B
  BY <1>2 DEF StrictSubsetOrdering
<1> QED  BY <1>3, <1>4

(* The recursion by which Folds computes a sum, one picked element a time. *)
Picked(s) == CHOOSE x \in s : TRUE

AddPicked(f, g, s) == IF s = {} THEN 0 ELSE f[Picked(s)] + g[s \ {Picked(s)}]

Sums(f, S) == CHOOSE g : g = [s \in SUBSET S |-> AddPicked(f, g, s)]

LEMMA SumIsFold ==
    ASSUME NEW f, NEW S
    PROVE  SumFunctionOnSet(f, S) = Sums(f, S)[S]
BY DEF SumFunctionOnSet, FoldFunctionOnSet, MapThenFoldSet, Sums, AddPicked, Picked

LEMMA PickedRemoved ==
    ASSUME NEW S, IsFiniteSet(S), S # {}
    PROVE  /\ Picked(S) \in S
           /\ IsFiniteSet(S \ {Picked(S)})
           /\ Cardinality(S) \in Nat \ {0}
           /\ Cardinality(S \ {Picked(S)}) = Cardinality(S) - 1
<1>1. Picked(S) \in S
  BY DEF Picked
<1>2. Cardinality(S) \in Nat
  BY FS_CardinalityType
<1>3. Cardinality(S) # 0
  BY FS_EmptySet
<1> QED  BY <1>1, <1>2, <1>3, FS_RemoveElement

(* The recursion has a solution.                                           *)
LEMMA SumsRecur ==
    ASSUME NEW f, NEW S, IsFiniteSet(S)
    PROVE  \A s \in SUBSET S : Sums(f, S)[s] = AddPicked(f, Sums(f, S), s)
<1> DEFINE Below(n) == {s \in SUBSET S : Cardinality(s) < n}
           Solved(n) == \E g : g = [s \in Below(n) |-> AddPicked(f, g, s)]
<1>1. \A s \in SUBSET S : IsFiniteSet(s) /\ Cardinality(s) \in Nat
  BY FS_Subset, FS_CardinalityType
<1>2. Solved(0)
  <2>1. Below(0) = {}
    BY <1>1
  <2> DEFINE e == [s \in {} |-> 0]
  <2>2. e = [s \in Below(0) |-> AddPicked(f, e, s)]
    BY <2>1
  <2> QED  BY <2>2
<1>3. ASSUME NEW n \in Nat, Solved(n) PROVE Solved(n + 1)
  <2>1. PICK g : g = [s \in Below(n) |-> AddPicked(f, g, s)]
    BY <1>3
  <2> DEFINE h == [s \in Below(n + 1) |-> AddPicked(f, g, s)]
  <2>2. ASSUME NEW s \in Below(n + 1) PROVE AddPicked(f, g, s) = AddPicked(f, h, s)
    <3>1. CASE s = {}
      BY <3>1 DEF AddPicked
    <3>2. CASE s # {}
      <4> DEFINE r == s \ {Picked(s)}
      <4>1. r \in Below(n) /\ r \in Below(n + 1)
        BY <1>1, <3>2, PickedRemoved
      <4>2. g[r] = AddPicked(f, g, r) /\ h[r] = AddPicked(f, g, r)
        BY <2>1, <4>1
      <4> HIDE DEF h
      <4> QED  BY <3>2, <4>2 DEF AddPicked
    <3> QED  BY <3>1, <3>2
  <2>3. h = [s \in Below(n + 1) |-> AddPicked(f, h, s)]
    <3>1. \A s \in Below(n + 1) : h[s] = AddPicked(f, h, s)
      BY <2>2
    <3> QED  BY <3>1
  <2> HIDE DEF h, Below
  <2> QED  BY <2>3
<1>4. \A n \in Nat : Solved(n)
  <2> DEFINE T == {n \in Nat : ~Solved(n)}
  <2> SUFFICES ASSUME T # {} PROVE FALSE
    OBVIOUS
  <2> HIDE DEF Solved
  <2>1. PICK m \in T : \A k \in T : m <= k
    BY LeastNumber
  <2>2. m \in Nat \ {0}
    BY <1>2
  <2>3. m - 1 \in Nat /\ Solved(m - 1)
    BY <2>1, <2>2
  <2> QED  BY <1>3, <2>2, <2>3
<1>5. Below(Cardinality(S) + 1) = SUBSET S
  <2>1. \A s \in SUBSET S : Cardinality(s) <= Cardinality(S)
    BY FS_Subset
  <2> QED  BY <1>1, <2>1
<1>6. \E g : g = [s \in SUBSET S |-> AddPicked(f, g, s)]
  <2> HIDE DEF Below
  <2>1. Cardinality(S) + 1 \in Nat
    BY <1>1
  <2>2. PICK g : g = [s \in Below(Cardinality(S) + 1) |-> AddPicked(f, g, s)]
    BY <1>4, <2>1
  <2>3. g = [s \in SUBSET S |-> AddPicked(f, g, s)]
    BY <1>5, <2>2, Zenon
  <2> QED  BY <2>3
<1>7. Sums(f, S) = [s \in SUBSET S |-> AddPicked(f, Sums(f, S), s)]
  BY <1>6 DEF Sums
<1>8. PICK g : g = Sums(f, S)
  OBVIOUS
<1>9. g = [s \in SUBSET S |-> AddPicked(f, g, s)]
  <2> HIDE DEF Sums
  <2> QED  BY <1>7, <1>8, Zenon
<1>10. \A s \in SUBSET S : g[s] = AddPicked(f, g, s)
  BY <1>9
<1> QED  BY <1>8, <1>10, Zenon

(* The recursion for a subset does not see what is outside of it.          *)
LEMMA SumsLocal ==
    ASSUME NEW f, NEW S, IsFiniteSet(S), NEW U \in SUBSET S
    PROVE  \A s \in SUBSET U : Sums(f, U)[s] = Sums(f, S)[s]
<1> DEFINE B == {s \in SUBSET U : Sums(f, U)[s] # Sums(f, S)[s]}
<1>1. IsFiniteSet(U)
  BY FS_Subset
<1> SUFFICES ASSUME B # {} PROVE FALSE
  OBVIOUS
<1>2. PICK s \in B : \A x \in s : s \ {x} \notin B
  BY <1>1, MinimalSubset
<1>3. /\ Sums(f, U)[s] = AddPicked(f, Sums(f, U), s)
      /\ Sums(f, S)[s] = AddPicked(f, Sums(f, S), s)
  BY <1>1, SumsRecur
<1>4. s # {} => Sums(f, U)[s \ {Picked(s)}] = Sums(f, S)[s \ {Picked(s)}]
  BY <1>2 DEF Picked
<1> QED  BY <1>2, <1>3, <1>4 DEF AddPicked

LEMMA SumEmpty ==
    ASSUME NEW f
    PROVE  SumFunctionOnSet(f, {}) = 0
<1>1. IsFiniteSet({})
  BY FS_EmptySet
<1>2. Sums(f, {})[{}] = AddPicked(f, Sums(f, {}), {})
  BY <1>1, SumsRecur
<1> QED  BY <1>2, SumIsFold DEF AddPicked

LEMMA SumPicked ==
    ASSUME NEW f, NEW S, IsFiniteSet(S), S # {}
    PROVE  /\ Picked(S) \in S
           /\ SumFunctionOnSet(f, S) =
                f[Picked(S)] + SumFunctionOnSet(f, S \ {Picked(S)})
<1> DEFINE r == S \ {Picked(S)}
<1>1. Sums(f, S)[S] = f[Picked(S)] + Sums(f, S)[r]
  BY SumsRecur DEF AddPicked
<1>2. Sums(f, r)[r] = Sums(f, S)[r]
  BY SumsLocal
<1> QED  BY <1>1, <1>2, SumIsFold DEF Picked

(***************************************************************************)
(* A sum of numbers is a number, and any element may be taken out of it.   *)
(***************************************************************************)
LEMMA SumRemove ==
    ASSUME NEW f, NEW S, IsFiniteSet(S), \A x \in S : f[x] \in Nat
    PROVE  /\ SumFunctionOnSet(f, S) \in Nat
           /\ \A x \in S :
                SumFunctionOnSet(f, S) = f[x] + SumFunctionOnSet(f, S \ {x})
<1> DEFINE Sum(s) == SumFunctionOnSet(f, s)
           Fine(s) == /\ Sum(s) \in Nat
                      /\ \A x \in s : Sum(s) = f[x] + Sum(s \ {x})
                      /\ \A x \in s : Sum(s \ {x}) \in Nat
           B == {s \in SUBSET S : ~Fine(s)}
<1> HIDE DEF Fine
<1>1. ASSUME B # {} PROVE FALSE
  <2>1. PICK s \in B : IsFiniteSet(s) /\ \A x \in s : s \ {x} \notin B
    BY <1>1, MinimalSubset
  <2>2. s \in SUBSET S /\ ~Fine(s) /\ \A x \in s : Fine(s \ {x})
    BY <2>1
  <2>3. s # {}
    BY <2>2, SumEmpty DEF Fine
  <2> DEFINE p == Picked(s)
  <2>4. p \in s /\ Sum(s) = f[p] + Sum(s \ {p})
    BY <2>1, <2>3, SumPicked
  <2> HIDE DEF p, Sum
  <2>5. Sum(s) \in Nat /\ \A x \in s : Sum(s \ {x}) \in Nat
    BY <2>2, <2>4 DEF Fine
  <2>6. ASSUME NEW x \in s PROVE Sum(s) = f[x] + Sum(s \ {x})
    <3>1. CASE x = p
      BY <2>4, <3>1
    <3>2. CASE x # p
      <4> DEFINE r == (s \ {x}) \ {p}
      <4>1. (s \ {p}) \ {x} = r /\ f[x] \in Nat /\ f[p] \in Nat
        BY <2>2, <2>4
      <4>2. Sum(s \ {p}) = f[x] + Sum(r) /\ Sum(r) \in Nat
        BY <2>2, <2>4, <3>2, <4>1 DEF Fine
      <4>3. Sum(s \ {x}) = f[p] + Sum(r)
        BY <2>2, <2>4, <3>2 DEF Fine
      <4> HIDE DEF r
      <4> QED  BY <2>4, <4>1, <4>2, <4>3
    <3> QED  BY <3>1, <3>2
  <2> QED  BY <2>2, <2>5, <2>6 DEF Fine
<1>2. Fine(S)
  BY <1>1
<1> QED  BY <1>2 DEF Fine

(* A sum reads the function on the set it sums over, and nowhere else.     *)
LEMMA SumCongruent ==
    ASSUME NEW f, NEW g, NEW S, IsFiniteSet(S), \A x \in S : f[x] = g[x]
    PROVE  SumFunctionOnSet(f, S) = SumFunctionOnSet(g, S)
<1> DEFINE B == {s \in SUBSET S : SumFunctionOnSet(f, s) # SumFunctionOnSet(g, s)}
<1> SUFFICES ASSUME B # {} PROVE FALSE
  OBVIOUS
<1>1. PICK s \in B : IsFiniteSet(s) /\ \A x \in s : s \ {x} \notin B
  BY MinimalSubset
<1>2. s # {}
  BY SumEmpty
<1>3. /\ Picked(s) \in s
      /\ SumFunctionOnSet(f, s) = f[Picked(s)] + SumFunctionOnSet(f, s \ {Picked(s)})
      /\ SumFunctionOnSet(g, s) = g[Picked(s)] + SumFunctionOnSet(g, s \ {Picked(s)})
  BY <1>1, <1>2, SumPicked
<1>4. s \ {Picked(s)} \in SUBSET S /\ s \ {Picked(s)} \notin B
  BY <1>1, <1>3
<1>5. SumFunctionOnSet(f, s \ {Picked(s)}) = SumFunctionOnSet(g, s \ {Picked(s)})
  BY <1>4
<1> QED  BY <1>3, <1>5

(* The sum of a part is at most the sum of the whole.                      *)
LEMMA SumPart ==
    ASSUME NEW f, NEW S, IsFiniteSet(S), \A x \in S : f[x] \in Nat,
           NEW T \in SUBSET S
    PROVE  SumFunctionOnSet(f, T) <= SumFunctionOnSet(f, S)
<1> DEFINE Sum(s) == SumFunctionOnSet(f, s)
           B == {s \in SUBSET S : T \subseteq s /\ ~ (Sum(T) <= Sum(s))}
<1> SUFFICES ASSUME B # {} PROVE FALSE
  OBVIOUS
<1>1. PICK s \in B : IsFiniteSet(s) /\ \A x \in s : s \ {x} \notin B
  <2>1. B \in SUBSET (SUBSET S)
    OBVIOUS
  <2> HIDE DEF B
  <2> QED  BY <2>1, MinimalSubset
<1>2. IsFiniteSet(T) /\ Sum(T) \in Nat
  <2>1. IsFiniteSet(T)
    BY FS_Subset
  <2> QED  BY <2>1, SumRemove
<1>3. s # T
  BY <1>2
<1>4. PICK x \in s : x \notin T
  BY <1>3
<1>5. f[x] \in Nat /\ Sum(s \ {x}) \in Nat /\ Sum(s) = f[x] + Sum(s \ {x})
  <2>1. IsFiniteSet(s \ {x})
    BY <1>1, FS_RemoveElement
  <2> QED  BY <1>1, <2>1, SumRemove
<1>6. Sum(T) <= Sum(s \ {x})
  BY <1>1, <1>4
<1> HIDE DEF Sum
<1> QED  BY <1>2, <1>5, <1>6

(* A sum over the images under an injection is the sum over the set.       *)
LEMMA SumImage ==
    ASSUME NEW f, NEW g, NEW h, NEW S, IsFiniteSet(S),
           \A x \in S : f[x] \in Nat /\ f[x] = g[h[x]],
           \A x, y \in S : h[x] = h[y] => x = y
    PROVE  /\ IsFiniteSet({h[x] : x \in S})
           /\ SumFunctionOnSet(f, S) = SumFunctionOnSet(g, {h[x] : x \in S})
<1> DEFINE Image(s) == {h[x] : x \in s}
           Fine(s) == /\ IsFiniteSet(Image(s))
                      /\ SumFunctionOnSet(f, s) = SumFunctionOnSet(g, Image(s))
           B == {s \in SUBSET S : ~Fine(s)}
<1> HIDE DEF Fine
<1>1. ASSUME B # {} PROVE FALSE
  <2>1. PICK s \in B : IsFiniteSet(s) /\ \A x \in s : s \ {x} \notin B
    BY <1>1, MinimalSubset
  <2>2. s \in SUBSET S /\ ~Fine(s) /\ \A x \in s : Fine(s \ {x})
    BY <2>1
  <2>3. s # {}
    <3>1. Fine({})
      BY SumEmpty, FS_EmptySet DEF Fine
    <3> QED  BY <2>2, <3>1
  <2>4. PICK p \in s : TRUE
    BY <2>3
  <2>5. Image(s) \ {h[p]} = Image(s \ {p}) /\ h[p] \in Image(s)
    BY <2>2, <2>4
  <2>6. Image(s) = Image(s \ {p}) \cup {h[p]}
    BY <2>5
  <2>7. IsFiniteSet(Image(s))
    <3>1. IsFiniteSet(Image(s \ {p}))
      BY <2>2, <2>4 DEF Fine
    <3>2. IsFiniteSet(Image(s \ {p}) \cup {h[p]})
      <4> HIDE DEF Image
      <4> QED  BY <3>1, FS_AddElement
    <3> QED  BY <2>6, <3>2
  <2>8. \A i \in Image(s) : g[i] \in Nat
    BY <2>2
  <2>9. SumFunctionOnSet(f, s) = f[p] + SumFunctionOnSet(f, s \ {p})
    BY <2>1, <2>2, <2>4, SumRemove
  <2>10. SumFunctionOnSet(g, Image(s)) = g[h[p]] + SumFunctionOnSet(g, Image(s) \ {h[p]})
    <3> HIDE DEF Image
    <3> QED  BY <2>5, <2>7, <2>8, SumRemove
  <2> HIDE DEF Image
  <2>11. SumFunctionOnSet(f, s \ {p}) = SumFunctionOnSet(g, Image(s \ {p}))
    BY <2>2, <2>4 DEF Fine
  <2> QED  BY <2>2, <2>4, <2>5, <2>7, <2>9, <2>10, <2>11 DEF Fine
<1>2. Fine(S)
  BY <1>1
<1> QED  BY <1>2 DEF Fine

-----------------------------------------------------------------------------
(* Sums of sizes: of what the sweep knows, and of the files themselves.    *)

LEMMA SizesRemove ==
    ASSUME NEW S, IsFiniteSet(S), \A e \in S : e.size \in Nat
    PROVE  /\ SumSizes(S) \in Nat
           /\ \A e \in S : /\ SumSizes(S) = e.size + SumSizes(S \ {e})
                            /\ SumSizes(S \ {e}) \in Nat
<1> DEFINE f == [e \in S |-> e.size]
<1>1. SumFunctionOnSet(f, S) \in Nat
  BY SumRemove
<1>2. ASSUME NEW e \in S
      PROVE  /\ SumFunctionOnSet(f, S) = e.size + SumFunctionOnSet(f, S \ {e})
             /\ SumFunctionOnSet(f, S \ {e}) \in Nat
             /\ SumFunctionOnSet(f, S \ {e}) = SumSizes(S \ {e})
  <2> DEFINE g == [x \in S \ {e} |-> x.size]
  <2>1. IsFiniteSet(S \ {e})
    BY FS_RemoveElement
  <2>2. SumFunctionOnSet(f, S) = f[e] + SumFunctionOnSet(f, S \ {e})
    BY SumRemove
  <2>3. SumFunctionOnSet(f, S \ {e}) \in Nat
    BY <2>1, SumRemove
  <2>4. \A x \in S \ {e} : f[x] = g[x]
    OBVIOUS
  <2>5. SumFunctionOnSet(f, S \ {e}) = SumFunctionOnSet(g, S \ {e})
    <3> HIDE DEF f, g
    <3> QED  BY <2>1, <2>4, SumCongruent
  <2> QED  BY <2>2, <2>3, <2>5 DEF SumSizes
<1> QED  BY <1>1, <1>2 DEF SumSizes

(* What the files I hold when their contents are d.                        *)
SizeIn(d, I) == SumFunctionOnSet([i \in I |-> Len(d[i])], I)

LEMMA SizeOfIn == \A I : SizeOf(I) = SizeIn(data, I)
BY DEF SizeOf, Size, SizeIn

LEMMA SizeEmpty == \A d : SizeIn(d, {}) = 0
BY SumEmpty DEF SizeIn

LEMMA SizeRemove ==
    ASSUME NEW d \in [Upload -> Seq(Upload)], NEW I \in SUBSET Upload, IsFiniteSet(I)
    PROVE  /\ SizeIn(d, I) \in Nat
           /\ \A i \in I : SizeIn(d, I) = Len(d[i]) + SizeIn(d, I \ {i})
<1> DEFINE f == [i \in I |-> Len(d[i])]
<1>1. \A i \in I : f[i] \in Nat
  OBVIOUS
<1>2. SumFunctionOnSet(f, I) \in Nat
  BY <1>1, SumRemove
<1>3. ASSUME NEW i \in I
      PROVE  SumFunctionOnSet(f, I) = Len(d[i]) + SizeIn(d, I \ {i})
  <2> DEFINE g == [x \in I \ {i} |-> Len(d[x])]
  <2>1. IsFiniteSet(I \ {i}) /\ \A x \in I \ {i} : f[x] = g[x]
    BY FS_RemoveElement
  <2>2. SumFunctionOnSet(f, I) = f[i] + SumFunctionOnSet(f, I \ {i})
    BY <1>1, SumRemove
  <2>3. SumFunctionOnSet(f, I \ {i}) = SumFunctionOnSet(g, I \ {i})
    <3> HIDE DEF f, g
    <3> QED  BY <2>1, SumCongruent
  <2> QED  BY <2>2, <2>3 DEF SizeIn
<1> QED  BY <1>2, <1>3 DEF SizeIn

LEMMA SizePart ==
    ASSUME NEW d \in [Upload -> Seq(Upload)], NEW I \in SUBSET Upload, IsFiniteSet(I),
           NEW J \in SUBSET I
    PROVE  SizeIn(d, J) <= SizeIn(d, I)
<1> DEFINE f == [i \in I |-> Len(d[i])]
           g == [i \in J |-> Len(d[i])]
<1>1. (\A i \in I : f[i] \in Nat) /\ (\A i \in J : f[i] = g[i]) /\ IsFiniteSet(J)
  BY FS_Subset
<1>2. SumFunctionOnSet(f, J) <= SumFunctionOnSet(f, I)
  <2> HIDE DEF f, g
  <2> QED  BY <1>1, SumPart
<1>3. SumFunctionOnSet(f, J) = SumFunctionOnSet(g, J)
  <2> HIDE DEF f, g
  <2> QED  BY <1>1, SumCongruent
<1> QED  BY <1>2, <1>3 DEF SizeIn

(* Only the files in the set count.                                        *)
LEMMA SizeSame ==
    ASSUME NEW d, NEW e, NEW I, IsFiniteSet(I), \A i \in I : d[i] = e[i]
    PROVE  SizeIn(d, I) = SizeIn(e, I)
<1> DEFINE f == [i \in I |-> Len(d[i])]
           g == [i \in I |-> Len(e[i])]
<1>1. \A i \in I : f[i] = g[i]
  OBVIOUS
<1>2. SumFunctionOnSet(f, I) = SumFunctionOnSet(g, I)
  <2> HIDE DEF f, g
  <2> QED  BY <1>1, SumCongruent
<1> QED  BY <1>2 DEF SizeIn

Inodes(S) == {e.inode : e \in S}

(* Records of different files with their right sizes add up to the files.  *)
LEMMA SizesOfInodes ==
    ASSUME NEW d \in [Upload -> Seq(Upload)], NEW S, IsFiniteSet(S),
           \A e \in S : e.inode \in Upload /\ e.size = Len(d[e.inode]),
           \A e, f \in S : e.inode = f.inode => e = f
    PROVE  IsFiniteSet(Inodes(S)) /\ SumSizes(S) = SizeIn(d, Inodes(S))
<1> DEFINE f == [e \in S |-> e.size]
           h == [e \in S |-> e.inode]
           g == [i \in Inodes(S) |-> Len(d[i])]
<1>1. /\ \A e \in S : f[e] \in Nat /\ f[e] = g[h[e]]
      /\ \A x, y \in S : h[x] = h[y] => x = y
      /\ Inodes(S) = {h[e] : e \in S}
  <2>1. ASSUME NEW e \in S PROVE f[e] \in Nat /\ f[e] = g[h[e]]
    <3>1. h[e] = e.inode /\ e.inode \in Inodes(S)
      BY DEF Inodes
    <3>2. g[e.inode] = Len(d[e.inode]) /\ Len(d[e.inode]) \in Nat
      BY <3>1
    <3> QED  BY <3>1, <3>2
  <2>2. \A x, y \in S : h[x] = h[y] => x = y
    OBVIOUS
  <2>3. Inodes(S) = {h[e] : e \in S}
    BY DEF Inodes
  <2> QED  BY <2>1, <2>2, <2>3
<1>2. IsFiniteSet(Inodes(S)) /\ SumFunctionOnSet(f, S) = SumFunctionOnSet(g, Inodes(S))
  <2>0. /\ \A e \in S : f[e] \in Nat /\ f[e] = g[h[e]]
        /\ \A x, y \in S : h[x] = h[y] => x = y
    BY <1>1
  <2> HIDE DEF f, g, h
  <2>1. /\ IsFiniteSet({h[e] : e \in S})
        /\ SumFunctionOnSet(f, S) = SumFunctionOnSet(g, {h[e] : e \in S})
    BY <2>0, SumImage
  <2> QED  BY <1>1, <2>1, Zenon
<1> QED  BY <1>2 DEF SumSizes, SizeIn

-----------------------------------------------------------------------------
(***************************************************************************)
(* Types.  That totalBytes never leaves the natural numbers is not a       *)
(* matter of form: the size pass subtracts, and what it has yet to         *)
(* subtract must never exceed what it still believes to be there.          *)
(***************************************************************************)
TInv ==
    /\ IInv
    /\ TypeOK
    /\ IsFiniteSet(entries) /\ IsFiniteSet(survivors)
    /\ epc = "size" => SumSizes(survivors) <= totalBytes

USE NamesAssumption, ClockAssumption, CrashesAssumption

(* A step that leaves the sweep alone.                                     *)
LEMMA TypesFrame ==
    ASSUME TInv, IInv', UNCHANGED <<sweepVars, historyVars>>,
           up' \in BOOLEAN, crashes' \in 0..MaxCrashes
    PROVE  TInv'
BY DEF TInv, IInv, Typing, TypeOK, SweepTypeOK, sweepVars, historyVars

(* A step of the sweep that ends it.                                       *)
LEMMA ReturnTypes ==
    ASSUME IInv', NEW bytes \in Nat, SweepReturns(bytes),
           up' \in BOOLEAN, crashes' \in 0..MaxCrashes, present' = {}, stale' = {}
    PROVE  TInv'
<1>1. SweepTypeOK'
  BY DEF SweepReturns, SweepTypeOK
<1>2. IsFiniteSet({})
  BY FS_EmptySet
<1>3. TypeOK'
  BY <1>1 DEF IInv, Typing, TypeOK
<1> QED  BY <1>2, <1>3 DEF TInv, SweepReturns

LEMMA CommittedTyped ==
    ASSUME IInv
    PROVE  Committed \subseteq Upload
BY DEF IInv, Typing, DirTypeOK, Committed, Name

LEMMA SweepTypes ==
    ASSUME TInv, IInv', Sweep
    PROVE  TInv'
<1>1. /\ DirTypeOK' /\ WriteTypeOK' /\ GetTypeOK' /\ SweepTypeOK
      /\ up \in BOOLEAN /\ up' \in BOOLEAN /\ crashes' \in 0..MaxCrashes
      /\ stale \subseteq present /\ present \subseteq Upload
      /\ IsFiniteSet(entries) /\ IsFiniteSet(survivors)
      /\ \A e \in entries \cup survivors : e.size \in Nat
  BY DEF TInv, TypeOK, IInv, Typing, Sweep, SweepTypeOK, Entry
<1>2. stale' \subseteq present' /\ present' \subseteq Upload
  <2>1. Committed \subseteq Upload
    BY CommittedTyped DEF TInv
  <2>2. \A I, t : PastTtl(I, t) \subseteq I
    BY DEF PastTtl
  <2>3. CASE SweepStarts /\ present' = Committed /\ stale' = PastTtl(present', clock)
    <3>1. \A I : PastTtl(I, clock) \subseteq I
      BY <2>2
    <3> QED  BY <2>1, <2>3, <3>1
  <2>4. CASE /\ present' = IF epc' = "idle" THEN {} ELSE present
             /\ stale' = IF epc' = "idle" THEN {} ELSE PastTtl(stale, enow)
    BY <1>1, <2>2, <2>4
  <2> QED  BY <2>3, <2>4 DEF Sweep
<1>3. ASSUME NEW bytes \in Nat, SweepReturns(bytes), SweepStep PROVE TInv'
  <2>1. present' = {} /\ stale' = {}
    BY <1>3, <1>2 DEF Sweep, SweepReturns, SweepStarts
  <2> QED  BY <1>1, <1>3, <2>1, ReturnTypes
<1>4. CASE SweepStarts \/ ScanEnds
  <2>1. SweepTypeOK' /\ epc' # "size" /\ UNCHANGED <<entries, survivors>>
    BY <1>1, <1>4 DEF SweepStarts, ScanEnds, SweepTypeOK, TInv, TypeOK, DirTypeOK, Name
  <2> QED  BY <1>1, <1>2, <2>1 DEF TInv, TypeOK, IInv, Typing
<1>5. CASE ScanFails
  BY <1>3, <1>5 DEF ScanFails, SweepStep
<1>6. CASE SizePassEnds
  <2>1. totalBytes \in Nat
    BY <1>1 DEF SweepTypeOK
  <2> QED  BY <1>3, <1>6, <2>1 DEF SizePassEnds, SweepStep
<1>7. CASE EntryStatted
  <2>1. PICK n \in Name \ visited :
          /\ visited' = visited \cup {n}
          /\ \/ UNCHANGED entries
             \/ /\ Exists(n)
                /\ entries' = entries \cup
                     {[name |-> n, size |-> Size(dir[n]),
                       mtimeMs |-> mtime[dir[n]], inode |-> dir[n]]}
    BY <1>7 DEF EntryStatted
  <2>2. PICK f : f = [name |-> n, size |-> Size(dir[n]),
                      mtimeMs |-> mtime[dir[n]], inode |-> dir[n]]
    OBVIOUS
  <2>3. Exists(n) => f \in Entry
    <3>1. Exists(n) => dir[n] \in Upload /\ data[dir[n]] \in Seq(Upload)
                       /\ mtime[dir[n]] \in 0..MaxClock
      BY DEF TInv, TypeOK, DirTypeOK, Exists
    <3> QED  BY <2>2, <3>1 DEF Entry, Size
  <2>4. entries' = entries \/ (entries' = entries \cup {f} /\ f \in Entry)
    BY <2>1, <2>2, <2>3
  <2>5. IsFiniteSet(entries') /\ UNCHANGED <<epc, enow, listed, survivors, totalBytes, sizeGauge>>
    BY <1>1, <1>7, <2>4, FS_AddElement DEF EntryStatted
  <2>6. SweepTypeOK'
    BY <1>1, <2>1, <2>4, <2>5 DEF SweepTypeOK
  <2> QED  BY <1>1, <1>2, <2>5, <2>6 DEF TInv, TypeOK, IInv, Typing
<1>8. CASE ExpiredEvicted
  <2>1. PICK e \in entries :
          /\ entries' = entries \ {e}
          /\ survivors' = survivors \/ survivors' = survivors \cup {e}
    BY <1>8 DEF ExpiredEvicted
  <2>2. IsFiniteSet(entries') /\ IsFiniteSet(survivors')
    BY <1>1, <2>1, FS_AddElement, FS_RemoveElement
  <2>3. epc' = "ttl" /\ UNCHANGED <<enow, listed, visited, totalBytes, sizeGauge>>
    BY <1>8 DEF ExpiredEvicted
  <2>4. SweepTypeOK'
    BY <1>1, <2>1, <2>3 DEF SweepTypeOK
  <2> QED  BY <1>1, <1>2, <2>2, <2>3, <2>4 DEF TInv, TypeOK, IInv, Typing
<1>9. CASE TtlPassEnds
  <2> DEFINE rest == survivors \cup entries
  <2>1. IsFiniteSet(rest) /\ SumSizes(rest) \in Nat
    <3>1. IsFiniteSet(rest)
      BY <1>1, FS_Union
    <3> QED  BY <1>1, <3>1, SizesRemove
  <2>2. \/ /\ epc' = "size" /\ survivors' = rest /\ entries' = {}
           /\ totalBytes' = SumSizes(rest)
           /\ UNCHANGED <<enow, listed, visited, sizeGauge>>
        \/ SweepReturns(SumSizes(rest))
    BY <1>9 DEF TtlPassEnds
  <2> HIDE DEF rest
  <2>3. CASE SweepReturns(SumSizes(rest))
    BY <1>3, <1>9, <2>1, <2>3 DEF SweepStep
  <2>4. CASE ~SweepReturns(SumSizes(rest))
    <3>1. IsFiniteSet(entries') /\ IsFiniteSet(survivors')
      BY <2>1, <2>2, <2>4, FS_EmptySet
    <3>2. SumSizes(survivors)' <= totalBytes'
      BY <2>1, <2>2, <2>4
    <3>3. survivors' \subseteq Entry
      BY <1>1, <2>2, <2>4 DEF rest, SweepTypeOK
    <3>4. SweepTypeOK'
      BY <1>1, <2>1, <2>2, <2>4, <3>3 DEF SweepTypeOK
    <3> QED  BY <1>1, <1>2, <3>1, <3>2, <3>4 DEF TInv, TypeOK, IInv, Typing
  <2> QED  BY <2>3, <2>4
<1>10. CASE OldestEvicted
  <2>1. PICK e \in survivors :
          /\ survivors' = survivors \ {e}
          /\ totalBytes' = totalBytes - e.size \/ totalBytes' = totalBytes
    BY <1>10 DEF OldestEvicted
  <2>2. /\ epc = "size" /\ epc' = "size"
        /\ UNCHANGED <<enow, listed, visited, entries, sizeGauge>>
    BY <1>10 DEF OldestEvicted
  <2>3. IsFiniteSet(survivors')
    BY <1>1, <2>1, FS_RemoveElement
  <2>4. /\ SumSizes(survivors) = e.size + SumSizes(survivors')
        /\ SumSizes(survivors') \in Nat /\ e.size \in Nat
    BY <1>1, <2>1, SizesRemove
  <2>5. totalBytes' \in Nat /\ SumSizes(survivors') <= totalBytes'
    BY <1>1, <2>1, <2>2, <2>4 DEF TInv, SweepTypeOK
  <2>6. SweepTypeOK'
    BY <1>1, <2>1, <2>2, <2>5 DEF SweepTypeOK
  <2> QED  BY <1>1, <1>2, <2>2, <2>3, <2>5, <2>6 DEF TInv, TypeOK, IInv, Typing
<1> QED
  BY <1>4, <1>5, <1>6, <1>7, <1>8, <1>9, <1>10 DEF Sweep, SweepStep

LEMMA TypesStep == TInv /\ [Next]_vars => TInv'
<1> SUFFICES ASSUME TInv, [Next]_vars PROVE TInv'
  OBVIOUS
<1>1. IInv'
  BY InvariantStep DEF TInv
<1>2. up \in BOOLEAN /\ crashes \in 0..MaxCrashes
  BY DEF TInv, TypeOK
<1>3. CASE \/ \E u \in Upload : PutRequest(u)
           \/ \E r \in Download : GetRequest(r)
           \/ \E h \in Hash : Prune(h)
           \/ Clock \/ Restart \/ UNCHANGED vars
  <2>1. UNCHANGED <<sweepVars, historyVars, crashes>> /\ up' \in BOOLEAN
    BY <1>2, <1>3 DEF PutRequest, GetRequest, Prune, Clock, Restart, vars
  <2> QED  BY <1>1, <1>2, <2>1, TypesFrame
<1>4. CASE Crash
  <2>1. /\ SweepReturns(0) /\ present' = {} /\ stale' = {} /\ up' \in BOOLEAN
        /\ crashes < MaxCrashes /\ crashes' = crashes + 1
    BY <1>4 DEF Crash, SweepLost
  <2>2. crashes' \in 0..MaxCrashes
    BY <1>2, <2>1
  <2> QED  BY <1>1, <2>1, <2>2, ReturnTypes
<1>5. CASE Sweep
  BY <1>1, <1>5, SweepTypes
<1> QED  BY <1>3, <1>4, <1>5 DEF Next

(***************************************************************************)
(* Every variable keeps its type, under any faults: in particular the size *)
(* pass never subtracts more than it counted, not even when files vanish   *)
(* or are replaced behind its back (eviction.ts:95-111).                   *)
(***************************************************************************)
THEOREM TypesAreRight == Spec => []TypeOK
<1>1. Init => TInv
  <2>1. Init => IInv
    BY InvariantInit
  <2>2. IsFiniteSet({})
    BY FS_EmptySet
  <2> QED
    BY <2>1, <2>2
    DEF TInv, IInv, Typing, TypeOK, SweepTypeOK, Init, SweepInit
<1>2. TInv /\ [Next]_vars => TInv'
  BY TypesStep
<1>3. TInv => TypeOK
  BY DEF TInv
<1> QED  BY <1>1, <1>2, <1>3, PTL DEF Spec

-----------------------------------------------------------------------------
(***************************************************************************)
(* What a sweep achieves.  The invariant follows the entries that were     *)
(* there when it began: until the scan has passed their name they are      *)
(* listed, then the sweep has a record of them (if their stat succeeds),   *)
(* and during the size pass they are among the files K whose sizes         *)
(* totalBytes adds up.                                                     *)
(***************************************************************************)
StatsSucceed == "stat" \notin Faults

Ended == {"rm", "done", "lost"}

PresentInv == \A i \in present : wpc[i] \in Ended

ScanInv ==
    /\ epc = "idle" => visited = {}
    /\ epc = "scan" =>
        /\ survivors = {}
        /\ \A h \in Hash : dir[h] \in present =>
              h \in listed /\ (h \in visited /\ StatsSucceed => dir[h] \in Inodes(entries))

TtlInv == epc = "ttl" =>
    /\ StatsSucceed => present \cap Committed \subseteq Inodes(entries \cup survivors)
    /\ "sweeprm" \notin Faults => survivors = {}

Counted(K) ==
    /\ K \subseteq Committed
    /\ totalBytes = SizeIn(data, K)
    /\ StatsSucceed => present \cap Committed \subseteq K
    /\ Inodes(survivors) \subseteq K
    /\ "sweeprm" \notin Faults => K = Inodes(survivors)

SizeInv == epc = "size" =>
    /\ entries = {}
    /\ \E K : Counted(K)
    /\ "sweeprm" \notin Faults /\ StatsSucceed => stale \cap Committed = {}

StaleInv == \A e \in entries \cup survivors : e.inode \in stale => Expired(e)

Base == AInv /\ SInv /\ TInv /\ IsFiniteSet(Committed)

GInv == Base /\ PresentInv /\ ScanInv /\ TtlInv /\ SizeInv /\ StaleInv

(* A committed file is under one hash, and its upload will not link again. *)
LEMMA CommittedOnce ==
    ASSUME AInv, NEW h \in Hash, dir[h] # NoFile
    PROVE  /\ dir[h] \in Upload /\ dir[h] \in Committed
           /\ wpc[dir[h]] \in Ended
           /\ \A g \in Hash : dir[g] = dir[h] => g = h
<1>1. dir[h] \in Upload /\ wname[dir[h]] = h
  BY EntryWinner
<1>2. dir[h] \in Committed
  BY DEF Committed
<1>3. wpc[dir[h]] \in Ended
  <2>1. ~Private(dir[h]) /\ UploadInv(dir[h]) /\ wpc[dir[h]] \in WriteStates
    BY <1>1 DEF Private, AInv, IInv, Typing, WriteTypeOK
  <2> QED  BY <2>1 DEF UploadInv, WriteStates, Ended
<1>4. \A g \in Hash : dir[g] = dir[h] => g = h
  BY <1>1, EntryWinner
<1> QED  BY <1>1, <1>2, <1>3, <1>4

LEMMA CommittedFrom == \A i \in Committed : \E h \in Hash : i = dir[h] /\ dir[h] # NoFile
BY DEF Committed

(* Two records are of two files.                                           *)
LEMMA RecordsDistinct ==
    ASSUME AInv, SInv
    PROVE  /\ \A e \in entries \cup survivors : e.inode \in Committed
           /\ \A e, f \in entries \cup survivors : e.inode = f.inode => e = f
<1>1. \A e \in entries \cup survivors :
        e.name \in Hash /\ e.inode \in Upload /\ dir[e.name] = e.inode /\ e.inode # NoFile
  BY DEF SInv, Current
<1>2. \A e \in entries \cup survivors : e.inode \in Committed
  BY <1>1, CommittedOnce
<1>3. ASSUME NEW e \in entries \cup survivors, NEW f \in entries \cup survivors,
             e.inode = f.inode
      PROVE  e = f
  <2>1. e.name = f.name
    BY <1>1, <1>3, CommittedOnce
  <2> QED  BY <2>1 DEF SInv, NamesOnce
<1> QED  BY <1>2, <1>3

-----------------------------------------------------------------------------
(* What the steps that are not the sweep's do behind its back.             *)
Behind ==
    /\ UNCHANGED <<sweepVars, historyVars>>
    /\ \A i \in Committed : data'[i] = data[i]
    /\ \A h \in Hash :
          \/ dir'[h] = dir[h]
          \/ dir[h] = NoFile /\ wpc[dir'[h]] \notin Ended
    /\ \A i \in Upload : wpc[i] \in Ended => wpc'[i] \in Ended
    /\ IsFiniteSet(Committed) => IsFiniteSet(Committed)'

LEMMA SameCommitted ==
    ASSUME \A h \in Hash : dir'[h] = dir[h]
    PROVE  Committed' = Committed
BY DEF Committed

(* Bytes are appended only to a buffer, never to an entry.                 *)
LEMMA PutKeepsData ==
    ASSUME IInv, NEW u \in Upload, PutRequest(u), NEW i \in Committed
    PROVE  data'[i] = data[i]
<1>1. /\ data \in [Upload -> Seq(Upload)] /\ i \in Upload /\ ~Private(i)
      /\ UploadInv(u)
  BY CommittedTyped DEF IInv, Typing, DirTypeOK, Committed, Private
<1>2. wpc[u] \in {"mkdir", "stream"} => i # u
  BY <1>1 DEF UploadInv
<1>3. CASE TempOpened(u)
  <2>1. wpc[u] = "mkdir" /\ dir[u] = NoFile
    BY <1>1, <1>3 DEF TempOpened, UploadInv
  <2>2. data' = data \/ data' = [data EXCEPT ![u] = <<>>]
    BY <1>3, <2>1 DEF TempOpened, TempPath, Exists, dirVars
  <2> QED  BY <1>1, <1>2, <2>1, <2>2
<1>4. CASE ChunkPulled(u)
  <2>1. wpc[u] = "stream" /\ wfd[u] = u
    BY <1>1, <1>4 DEF ChunkPulled, UploadInv
  <2> QED  BY <1>1, <1>2, <1>4, <2>1 DEF ChunkPulled
<1>5. CASE ~TempOpened(u) /\ ~ChunkPulled(u)
  BY <1>5
  DEF PutRequest, PutStep, PutArrives, PutChecked, BodyDone, BodyFails, WriterEnded, Linked,
      TempRemoved, dirVars
<1> QED  BY <1>3, <1>4, <1>5

(* An upload that has ended never takes another step that could link.      *)
LEMMA PutStaysEnded ==
    ASSUME IInv, NEW u \in Upload, PutRequest(u)
    PROVE  \A i \in Upload : wpc[i] \in Ended => wpc'[i] \in Ended
<1>1. wpc \in [Upload -> WriteStates]
  BY DEF IInv, Typing, WriteTypeOK
<1>2. CASE TempRemoved(u)
  BY <1>1, <1>2 DEF TempRemoved, Goto, Ended
<1>3. CASE ~TempRemoved(u)
  <2>1. wpc[u] \notin Ended
    BY <1>3
    DEF PutRequest, PutStep, PutArrives, PutChecked, TempOpened, ChunkPulled, BodyDone,
        BodyFails, WriterEnded, Linked, Ended
  <2>2. \A i \in Upload \ {u} : wpc'[i] = wpc[i]
    BY <1>1, <1>3
    DEF PutRequest, PutStep, PutArrives, PutChecked, TempOpened, ChunkPulled, BodyDone,
        BodyFails, WriterEnded, Linked, Goto, Respond, Finally
  <2> QED  BY <2>1, <2>2
<1> QED  BY <1>2, <1>3

LEMMA PutIsBehind ==
    ASSUME AInv, NEW u \in Upload, PutRequest(u)
    PROVE  Behind
<1>1. IInv /\ wpc[u] \in WriteStates
  BY DEF AInv, IInv, Typing, WriteTypeOK
<1>2. UNCHANGED <<sweepVars, historyVars>>
  BY DEF PutRequest
<1>3. HashesKept \/ PutStores(u)
  BY PutEffect DEF PutMoves, PutEnters, PutFails, PutConflicts
<1>4. \A h \in Hash :
        \/ dir'[h] = dir[h]
        \/ dir[h] = NoFile /\ dir'[h] = u /\ wpc[u] \notin Ended
  BY <1>3 DEF HashesKept, PutStores, PutEnds, Ended
<1>5. IsFiniteSet(Committed) => IsFiniteSet(Committed)'
  <2> SUFFICES ASSUME IsFiniteSet(Committed) PROVE IsFiniteSet(Committed')
    OBVIOUS
  <2>1. Committed' \subseteq Committed \cup {u}
    BY <1>4 DEF Committed
  <2>2. IsFiniteSet(Committed \cup {u})
    BY FS_AddElement
  <2> QED  BY <2>1, <2>2, FS_Subset
<1>6. \A i \in Committed : data'[i] = data[i]
  BY <1>1, PutKeepsData
<1>7. \A i \in Upload : wpc[i] \in Ended => wpc'[i] \in Ended
  BY <1>1, PutStaysEnded
<1> QED  BY <1>2, <1>4, <1>5, <1>6, <1>7 DEF Behind

LEMMA OthersAreBehind ==
    ASSUME AInv, "prune" \notin Faults,
           \/ \E r \in Download : GetRequest(r)
           \/ \E h \in Hash : Prune(h)
           \/ Clock \/ Restart \/ UNCHANGED vars
    PROVE  Behind
<1>1. dir \in [Name -> Upload \cup {NoFile}] /\ Hash \subseteq Name
  BY DEF AInv, IInv, Typing, DirTypeOK, Name
<1>2. \A h \in Hash : ~Prune(h)
  BY DEF Prune
<1>3. UNCHANGED <<sweepVars, historyVars, data, wpc>> /\ \A h \in Hash : dir'[h] = dir[h]
  <2>1. CASE \E r \in Download : GetRequest(r)
    BY <2>1 DEF GetRequest, GetArrives, GetStep, GetChecked, AccessStamped, StreamOpened,
       SizeRead, BodyClosed, dirVars, writeVars
  <2>2. CASE Restart
    BY <1>1, <2>2 DEF Restart, writeVars
  <2>3. CASE Clock \/ UNCHANGED vars
    BY <2>3 DEF Clock, Tick, vars, dirVars, writeVars
  <2> QED  BY <1>2, <2>1, <2>2, <2>3
<1>4. Committed' = Committed
  BY <1>3, SameCommitted
<1> QED  BY <1>3, <1>4 DEF Behind

LEMMA CommittedBehind ==
    ASSUME AInv, PresentInv, Behind
    PROVE  /\ Committed \subseteq Committed'
           /\ present \cap Committed' \subseteq present \cap Committed
           /\ \A h \in Hash : dir'[h] \in present => dir'[h] = dir[h]
<1>1. \A h \in Hash : dir[h] # NoFile => dir'[h] = dir[h]
  BY DEF Behind
<1>2. \A h \in Hash : dir'[h] \in present => dir'[h] = dir[h]
  BY DEF Behind, PresentInv
<1>3. Committed \subseteq Committed'
  BY <1>1 DEF Committed
<1>4. present \cap Committed' \subseteq present \cap Committed
  BY <1>2 DEF Committed
<1> QED  BY <1>2, <1>3, <1>4

LEMMA BehindKeeps ==
    ASSUME GInv, Behind, AInv', SInv', TInv'
    PROVE  GInv'
<1>1. /\ AInv /\ PresentInv /\ IsFiniteSet(Committed)
      /\ UNCHANGED <<sweepVars, historyVars>>
      /\ present \subseteq Upload /\ stale \subseteq present
  BY DEF GInv, Base, Behind, TInv, TypeOK
<1>2. Base'
  BY <1>1 DEF Base, Behind
<1>3. PresentInv'
  BY <1>1 DEF Behind, PresentInv, historyVars
<1>4. /\ Committed \subseteq Committed'
      /\ present \cap Committed' \subseteq present \cap Committed
      /\ \A h \in Hash : dir'[h] \in present => dir'[h] = dir[h]
  BY <1>1, CommittedBehind DEF GInv
<1>5. ScanInv'
  <2> SUFFICES ASSUME epc = "scan", NEW h \in Hash, dir'[h] \in present
               PROVE  /\ h \in listed
                      /\ h \in visited /\ StatsSucceed => dir'[h] \in Inodes(entries)
    BY <1>1 DEF GInv, ScanInv, sweepVars, historyVars, Inodes
  <2> QED  BY <1>4 DEF GInv, ScanInv
<1>6. TtlInv'
  BY <1>1, <1>4 DEF GInv, TtlInv, sweepVars, historyVars, Inodes
<1>7. SizeInv'
  <2> SUFFICES ASSUME epc = "size"
               PROVE  /\ entries = {}
                      /\ (\E K : Counted(K))'
                      /\ "sweeprm" \notin Faults /\ StatsSucceed => stale \cap Committed' = {}
    BY <1>1 DEF SizeInv, sweepVars, historyVars
  <2>1. PICK K : Counted(K)
    BY DEF GInv, SizeInv
  <2>2. IsFiniteSet(K) /\ \A i \in K : data'[i] = data[i]
    BY <1>1, <2>1, FS_Subset DEF Counted, Behind
  <2>3. SizeIn(data', K) = SizeIn(data, K)
    BY <2>2, SizeSame
  <2>4. Counted(K)'
    BY <1>1, <1>4, <2>1, <2>3 DEF Counted, sweepVars, historyVars, Inodes
  <2>5. "sweeprm" \notin Faults /\ StatsSucceed => stale \cap Committed' = {}
    BY <1>1, <1>4 DEF GInv, SizeInv
  <2> QED  BY <2>4, <2>5 DEF GInv, SizeInv
<1>8. StaleInv'
  BY <1>1 DEF GInv, StaleInv, Expired, sweepVars, historyVars
<1> QED  BY <1>2, <1>3, <1>5, <1>6, <1>7, <1>8 DEF GInv

(* A sweep that is over, or lost, leaves nothing to keep track of.         *)
LEMMA ReturnKeeps ==
    ASSUME AInv', SInv', TInv', NEW bytes, SweepReturns(bytes),
           present' = {}, IsFiniteSet(Committed')
    PROVE  GInv'
BY DEF GInv, Base, SweepReturns, PresentInv, ScanInv, TtlInv, SizeInv, StaleInv

-----------------------------------------------------------------------------
(* The steps of the sweep.                                                 *)

(* The rm of a record takes away the file the record is of.                *)
LEMMA RmTakesRecord ==
    ASSUME AInv, SInv, NEW e \in entries \cup survivors,
           Deleted(e) \/ Missing(e)
    PROVE  Committed' = Committed \ {e.inode}
<1>1. e.name \in Hash /\ dir[e.name] = e.inode /\ e.inode # NoFile /\ e.inode \in Upload
  BY DEF SInv, Current
<1>2. dir' = [dir EXCEPT ![e.name] = NoFile] /\ dir \in [Name -> Upload \cup {NoFile}]
  BY <1>1 DEF Deleted, Missing, Exists, Unlinked, AInv, IInv, Typing, DirTypeOK
<1>3. \A h \in Hash : h # e.name => dir'[h] = dir[h] /\ dir[h] # e.inode
  BY <1>1, <1>2, CommittedOnce
<1>4. dir'[e.name] = NoFile
  BY <1>1, <1>2 DEF Name
<1>5. Committed' \subseteq Committed \ {e.inode}
  BY <1>3, <1>4 DEF Committed
<1>6. Committed \ {e.inode} \subseteq Committed'
  BY <1>1, <1>3 DEF Committed
<1> QED  BY <1>5, <1>6

LEMMA StartKeeps ==
    ASSUME GInv, AInv', SInv', TInv', Sweep, SweepStarts
    PROVE  GInv'
<1>1. /\ epc = "idle" /\ epc' = "scan"
      /\ listed' = {n \in Name : Exists(n)}
      /\ UNCHANGED <<dir, visited, entries, survivors, wpc>>
  BY DEF SweepStarts, Sweep, dirVars, writeVars
<1>2. present' = Committed
  BY <1>1 DEF Sweep, SweepStep, EntryStatted, ScanFails, ScanEnds, ExpiredEvicted,
     TtlPassEnds, OldestEvicted, SizePassEnds
<1>3. Committed' = Committed
  BY <1>1, SameCommitted
<1>4. entries = {} /\ survivors = {} /\ visited = {}
  BY <1>1 DEF GInv, Base, SInv, NamesOnce, ScanInv
<1>5. Base'
  BY <1>3 DEF GInv, Base
<1>6. PresentInv'
  BY <1>1, <1>2, CommittedFrom, CommittedOnce DEF PresentInv, GInv, Base
<1>7. ScanInv'
  <2>1. \A h \in Hash : dir[h] \in Committed => h \in listed'
    BY <1>1 DEF Committed, Exists, Name
  <2> QED  BY <1>1, <1>2, <1>4, <2>1 DEF ScanInv
<1>8. TtlInv' /\ SizeInv' /\ StaleInv'
  BY <1>1, <1>4 DEF TtlInv, SizeInv, StaleInv
<1> QED  BY <1>5, <1>6, <1>7, <1>8 DEF GInv

(* The history of a sweep that goes on.                                    *)
LEMMA HistoryKept ==
    ASSUME Sweep, epc # "idle", epc' # "idle"
    PROVE  present' = present /\ stale' = PastTtl(stale, enow) /\ stale' \subseteq stale
BY DEF Sweep, SweepStarts, PastTtl

LEMMA ScanKeeps ==
    ASSUME GInv, AInv', SInv', TInv', Sweep, EntryStatted
    PROVE  GInv'
<1>1. /\ epc = "scan" /\ epc' = "scan"
      /\ UNCHANGED <<dir, data, enow, listed, survivors, wpc>>
  BY DEF EntryStatted, Sweep, dirVars, writeVars
<1>2. present' = present /\ stale' = PastTtl(stale, enow) /\ stale' \subseteq stale
  BY <1>1, HistoryKept
<1>3. Base'
  BY <1>1, SameCommitted DEF GInv, Base
<1>4. PresentInv' /\ TtlInv' /\ SizeInv'
  BY <1>1, <1>2 DEF GInv, PresentInv, TtlInv, SizeInv
<1>5. PICK n \in Name :
        /\ visited' = visited \cup {n}
        /\ \/ (Skipped(n) \/ ~Exists(n) \/ ~StatsSucceed) /\ UNCHANGED entries
           \/ /\ ~Skipped(n) /\ Exists(n)
              /\ entries' = entries \cup
                   {[name |-> n, size |-> Size(dir[n]),
                     mtimeMs |-> mtime[dir[n]], inode |-> dir[n]]}
  BY DEF EntryStatted, StatsSucceed
<1>6. PICK f : f = [name |-> n, size |-> Size(dir[n]),
                    mtimeMs |-> mtime[dir[n]], inode |-> dir[n]]
  OBVIOUS
<1>7. /\ entries' = entries \/ entries' = entries \cup {f}
      /\ f.inode = dir[n] /\ f.mtimeMs = mtime[dir[n]]
      /\ n \in Hash /\ dir[n] # NoFile /\ StatsSucceed => f \in entries'
  BY <1>5, <1>6 DEF Skipped, Exists
<1>8. ScanInv'
  <2> SUFFICES ASSUME NEW h \in Hash, dir[h] \in present
               PROVE  /\ h \in listed
                      /\ h \in visited' /\ StatsSucceed => dir[h] \in Inodes(entries')
    BY <1>1, <1>2 DEF GInv, ScanInv
  <2>1. dir[h] # NoFile
    BY DEF GInv, Base, TInv, TypeOK
  <2>2. h \in listed /\ (h \in visited /\ StatsSucceed => dir[h] \in Inodes(entries))
    BY <1>1 DEF GInv, ScanInv
  <2>3. Inodes(entries) \subseteq Inodes(entries')
    BY <1>7 DEF Inodes
  <2>4. h = n /\ StatsSucceed => dir[h] \in Inodes(entries')
    BY <1>7, <2>1 DEF Inodes
  <2> QED  BY <1>5, <2>2, <2>3, <2>4
<1>9. StaleInv'
  <2>1. ASSUME NEW e \in entries \cup survivors, e.inode \in stale'
        PROVE  Expired(e)'
    BY <1>1, <1>2, <2>1 DEF GInv, StaleInv, Expired
  <2>2. f.inode \in stale' => Expired(f)'
    BY <1>1, <1>2, <1>7 DEF PastTtl, Expired
  <2> QED  BY <1>1, <1>7, <2>1, <2>2 DEF StaleInv
<1> QED  BY <1>3, <1>4, <1>8, <1>9 DEF GInv

LEMMA ScanEndKeeps ==
    ASSUME GInv, AInv', SInv', TInv', Sweep, ScanEnds
    PROVE  GInv'
<1>1. /\ epc = "scan" /\ epc' = "ttl" /\ listed \subseteq visited
      /\ UNCHANGED <<dir, enow, entries, survivors, wpc>>
  BY DEF ScanEnds, Sweep, dirVars, writeVars
<1>2. present' = present /\ stale' \subseteq stale
  BY <1>1, HistoryKept
<1>3. Committed' = Committed
  BY <1>1, SameCommitted
<1>4. Base'
  BY <1>3 DEF GInv, Base
<1>5. PresentInv' /\ ScanInv' /\ SizeInv'
  BY <1>1, <1>2 DEF GInv, PresentInv, ScanInv, SizeInv
<1>6. TtlInv'
  <2>1. ASSUME StatsSucceed, NEW i \in present \cap Committed PROVE i \in Inodes(entries)
    <3>1. PICK h \in Hash : i = dir[h]
      BY CommittedFrom
    <3> QED  BY <1>1, <2>1, <3>1 DEF GInv, ScanInv
  <2>2. survivors = {}
    BY <1>1 DEF GInv, ScanInv
  <2> QED  BY <1>1, <1>2, <1>3, <2>1, <2>2 DEF TtlInv
<1>7. StaleInv'
  BY <1>1, <1>2 DEF GInv, StaleInv, Expired
<1> QED  BY <1>4, <1>5, <1>6, <1>7 DEF GInv

LEMMA ExpiredKeeps ==
    ASSUME GInv, AInv', SInv', TInv', Sweep, ExpiredEvicted
    PROVE  GInv'
<1>1. /\ epc = "ttl" /\ epc' = "ttl"
      /\ UNCHANGED <<data, enow, visited, wpc>>
  BY DEF ExpiredEvicted, Sweep, writeVars
<1>2. present' = present /\ stale' \subseteq stale
  BY <1>1, HistoryKept
<1>3. PICK e \in entries :
        /\ entries' = entries \ {e}
        /\ \/ (Deleted(e) \/ Missing(e)) /\ UNCHANGED survivors
           \/ Failed(e) /\ survivors' = survivors \cup {e}
  BY DEF ExpiredEvicted
<1>4. AInv /\ SInv /\ TtlInv
  BY DEF GInv, Base
<1>5. \/ Committed' = Committed \ {e.inode} /\ UNCHANGED survivors
      \/ /\ Committed' = Committed /\ "sweeprm" \in Faults
         /\ survivors' = survivors \cup {e}
  <2>1. CASE Deleted(e) \/ Missing(e)
    <3>1. Committed' = Committed \ {e.inode}
      BY <1>4, <2>1, RmTakesRecord
    <3>2. CASE Failed(e) /\ survivors' = survivors \cup {e}
      BY <3>2, SameCommitted DEF Failed
    <3> QED  BY <1>3, <3>1, <3>2
  <2>2. CASE Failed(e)
    <3>1. "sweeprm" \in Faults /\ Committed' = Committed
      BY <2>2, SameCommitted DEF Failed
    <3>2. CASE (Deleted(e) \/ Missing(e)) /\ UNCHANGED survivors
      BY <1>4, <3>2, RmTakesRecord
    <3> QED  BY <1>3, <3>1, <3>2
  <2> QED  BY <1>3, <2>1, <2>2
<1>6. Committed' \subseteq Committed
  BY <1>5
<1>7. Base'
  BY <1>6, FS_Subset DEF GInv, Base
<1>8. PresentInv' /\ ScanInv' /\ SizeInv'
  BY <1>1, <1>2 DEF GInv, PresentInv, ScanInv, SizeInv
<1>9. TtlInv'
  <2>1. ASSUME StatsSucceed, NEW i \in present \cap Committed'
        PROVE  i \in Inodes(entries' \cup survivors')
    <3>1. i \in Inodes(entries \cup survivors)
      BY <1>1, <1>4, <1>6, <2>1 DEF TtlInv
    <3>2. PICK f \in entries \cup survivors : i = f.inode
      BY <3>1 DEF Inodes
    <3>3. f \in entries' \cup survivors'
      BY <1>3, <1>5, <3>2
    <3> QED  BY <3>2, <3>3 DEF Inodes
  <2>2. "sweeprm" \notin Faults => survivors' = {}
    BY <1>1, <1>4, <1>5 DEF TtlInv
  <2> QED  BY <1>2, <2>1, <2>2 DEF TtlInv
<1>10. StaleInv'
  <2>1. entries' \cup survivors' \subseteq entries \cup survivors
    BY <1>3
  <2> QED  BY <1>1, <1>2, <2>1 DEF GInv, StaleInv, Expired
<1> QED  BY <1>7, <1>8, <1>9, <1>10 DEF GInv

(* After the TTL pass the sweep counts what it has records of.             *)
LEMMA RestCounted ==
    ASSUME GInv, TtlPassEnds
    PROVE  /\ SumSizes(survivors \cup entries) = SizeIn(data, Inodes(survivors \cup entries))
           /\ Inodes(survivors \cup entries) \subseteq Committed
           /\ StatsSucceed => present \cap Committed \subseteq Inodes(survivors \cup entries)
           /\ "sweeprm" \notin Faults /\ StatsSucceed => stale \cap Committed = {}
<1> DEFINE rest == survivors \cup entries
<1>1. AInv /\ SInv /\ epc = "ttl" /\ data \in [Upload -> Seq(Upload)]
      /\ stale \subseteq present
  BY DEF GInv, Base, TtlPassEnds, TInv, TypeOK, DirTypeOK
<1>2. /\ IsFiniteSet(rest)
      /\ \A e \in rest : e.inode \in Upload /\ e.size = Len(data[e.inode])
      /\ \A e \in rest : e.inode \in Committed
      /\ \A e, f \in rest : e.inode = f.inode => e = f
  <2>1. IsFiniteSet(rest)
    BY FS_Union DEF GInv, Base, TInv
  <2>2. \A e \in rest : e.inode \in Upload /\ e.size = Len(data[e.inode])
    BY <1>1 DEF SInv, Current, Size
  <2> QED  BY <1>1, <2>1, <2>2, RecordsDistinct
<1>3. StatsSucceed => present \cap Committed \subseteq Inodes(rest)
  BY <1>1 DEF GInv, TtlInv, Inodes
<1>4. Inodes(rest) \subseteq Committed
  BY <1>2 DEF Inodes
<1>5. ASSUME "sweeprm" \notin Faults, StatsSucceed, NEW i \in stale \cap Committed
      PROVE  FALSE
  <2>1. PICK e \in rest : e.inode = i
    BY <1>1, <1>3, <1>5 DEF Inodes
  <2>2. Expired(e)
    BY <2>1 DEF GInv, StaleInv
  <2>3. e \in entries
    BY <1>1, <1>5 DEF GInv, TtlInv
  <2> QED  BY <2>2, <2>3 DEF TtlPassEnds
<1> HIDE DEF rest
<1>6. SumSizes(rest) = SizeIn(data, Inodes(rest))
  BY <1>1, <1>2, SizesOfInodes
<1> QED  BY <1>3, <1>4, <1>5, <1>6 DEF rest

LEMMA TtlEndKeeps ==
    ASSUME GInv, AInv', SInv', TInv', Sweep, TtlPassEnds
    PROVE  GInv'
<1> DEFINE rest == survivors \cup entries
<1>1. /\ epc = "ttl" /\ UNCHANGED <<dir, data, wpc>>
      /\ \/ /\ epc' = "size" /\ survivors' = rest /\ entries' = {}
            /\ totalBytes' = SumSizes(rest)
            /\ UNCHANGED <<enow, listed, visited, sizeGauge>>
         \/ SweepReturns(SumSizes(rest))
  BY DEF TtlPassEnds, Sweep, dirVars, writeVars
<1>2. CASE SweepReturns(SumSizes(rest))
  <2>1. present' = {}
    BY <1>1, <1>2 DEF Sweep, SweepStarts, SweepReturns
  <2>2. IsFiniteSet(Committed')
    BY <1>1, SameCommitted DEF GInv, Base
  <2> QED  BY <1>2, <2>1, <2>2, ReturnKeeps
<1>3. CASE ~SweepReturns(SumSizes(rest))
  <2>1. epc' = "size"
    BY <1>1, <1>3
  <2>2. present' = present /\ stale' \subseteq stale
    BY <1>1, <2>1, HistoryKept
  <2>3. Committed' = Committed
    BY <1>1, SameCommitted
  <2>4. Base'
    BY <2>3 DEF GInv, Base
  <2>5. PresentInv' /\ ScanInv' /\ TtlInv'
    BY <1>1, <2>1, <2>2 DEF GInv, PresentInv, ScanInv, TtlInv
  <2>6. SizeInv'
    <3>1. Counted(Inodes(rest))'
      BY <1>1, <1>3, <2>2, <2>3, RestCounted DEF Counted
    <3>2. "sweeprm" \notin Faults /\ StatsSucceed => stale' \cap Committed' = {}
      BY <2>2, <2>3, RestCounted
    <3> QED  BY <1>1, <1>3, <3>1, <3>2 DEF SizeInv
  <2>7. StaleInv'
    BY <1>1, <1>3, <2>2 DEF GInv, StaleInv, Expired
  <2> QED  BY <2>4, <2>5, <2>6, <2>7 DEF GInv
<1> QED  BY <1>2, <1>3

LEMMA OldestKeeps ==
    ASSUME GInv, AInv', SInv', TInv', Sweep, OldestEvicted
    PROVE  GInv'
<1>1. /\ epc = "size" /\ epc' = "size"
      /\ UNCHANGED <<data, enow, visited, entries, wpc>>
      /\ AInv /\ SInv /\ data \in [Upload -> Seq(Upload)]
      /\ Committed \subseteq Upload /\ IsFiniteSet(Committed)
  BY CommittedTyped
  DEF OldestEvicted, Sweep, writeVars, GInv, Base, TInv, TypeOK, DirTypeOK
<1>2. present' = present /\ stale' \subseteq stale
  BY <1>1, HistoryKept
<1>3. PICK e \in survivors :
        /\ survivors' = survivors \ {e}
        /\ \/ (Deleted(e) \/ Missing(e)) /\ totalBytes' = totalBytes - e.size
           \/ Failed(e) /\ UNCHANGED totalBytes
  BY DEF OldestEvicted
<1>4. PICK K : Counted(K)
  BY <1>1 DEF GInv, SizeInv
<1>5. e.inode \in K /\ e.size = Len(data[e.inode])
  BY <1>1, <1>3, <1>4 DEF Counted, Inodes, SInv, Current, Size
<1>6. Inodes(survivors') = Inodes(survivors) \ {e.inode}
  BY <1>1, <1>3, RecordsDistinct DEF Inodes
<1>7. Committed' \subseteq Committed /\ \E L : Counted(L)'
  <2>1. CASE (Deleted(e) \/ Missing(e)) /\ totalBytes' = totalBytes - e.size
    <3>1. Committed' = Committed \ {e.inode}
      BY <1>1, <2>1, RmTakesRecord
    <3>2. K \in SUBSET Upload /\ IsFiniteSet(K)
      BY <1>1, <1>4, FS_Subset DEF Counted
    <3>3. SizeIn(data, K) = e.size + SizeIn(data, K \ {e.inode})
          /\ SizeIn(data, K \ {e.inode}) \in Nat
      <4>1. IsFiniteSet(K \ {e.inode}) /\ K \ {e.inode} \in SUBSET Upload
        BY <3>2, FS_RemoveElement
      <4>2. \A i \in K : SizeIn(data, K) = Len(data[i]) + SizeIn(data, K \ {i})
        BY <1>1, <3>2, SizeRemove
      <4>3. SizeIn(data, K \ {e.inode}) \in Nat
        BY <1>1, <4>1, SizeRemove
      <4> QED  BY <1>5, <4>2, <4>3
    <3>4. totalBytes' = SizeIn(data, K \ {e.inode})
      <4>1. e.size \in Nat
        BY <1>3 DEF GInv, Base, TInv, TypeOK, SweepTypeOK, Entry
      <4> QED  BY <1>4, <2>1, <3>3, <4>1 DEF Counted
    <3>5. Counted(K \ {e.inode})'
      BY <1>1, <1>2, <1>4, <1>6, <3>1, <3>4 DEF Counted
    <3> QED  BY <3>1, <3>5
  <2>2. CASE Failed(e) /\ UNCHANGED totalBytes
    <3>1. "sweeprm" \in Faults /\ Committed' = Committed
      BY <2>2, SameCommitted DEF Failed
    <3>2. Counted(K)'
      BY <1>1, <1>2, <1>4, <1>6, <2>2, <3>1 DEF Counted
    <3> QED  BY <3>1, <3>2
  <2> QED  BY <1>3, <2>1, <2>2
<1>8. Base'
  BY <1>7, FS_Subset DEF GInv, Base
<1>9. PresentInv' /\ ScanInv' /\ TtlInv'
  BY <1>1, <1>2 DEF GInv, PresentInv, ScanInv, TtlInv
<1>10. SizeInv'
  <2>1. "sweeprm" \notin Faults /\ StatsSucceed => stale' \cap Committed' = {}
    BY <1>1, <1>2, <1>7 DEF GInv, SizeInv
  <2>2. entries' = {}
    BY <1>1 DEF GInv, SizeInv
  <2> QED  BY <1>7, <2>1, <2>2 DEF SizeInv
<1>11. StaleInv'
  BY <1>1, <1>2, <1>3 DEF GInv, StaleInv, Expired
<1> QED  BY <1>8, <1>9, <1>10, <1>11 DEF GInv

-----------------------------------------------------------------------------
LEMMA SweepKeeps ==
    ASSUME GInv, AInv', SInv', TInv', Sweep
    PROVE  GInv'
<1>1. CASE SweepStarts
  BY <1>1, StartKeeps
<1>2. CASE EntryStatted
  BY <1>2, ScanKeeps
<1>3. CASE ScanEnds
  BY <1>3, ScanEndKeeps
<1>4. CASE ExpiredEvicted
  BY <1>4, ExpiredKeeps
<1>5. CASE TtlPassEnds
  BY <1>5, TtlEndKeeps
<1>6. CASE OldestEvicted
  BY <1>6, OldestKeeps
<1>7. CASE ScanFails \/ SizePassEnds
  <2>1. UNCHANGED dir /\ \E bytes : SweepReturns(bytes)
    BY <1>7 DEF ScanFails, SizePassEnds, dirVars
  <2>2. present' = {}
    BY <1>7 DEF Sweep, SweepStarts, ScanFails, SizePassEnds, SweepReturns
  <2>3. IsFiniteSet(Committed')
    BY <2>1, SameCommitted DEF GInv, Base
  <2> QED  BY <2>1, <2>2, <2>3, ReturnKeeps
<1> QED
  BY <1>1, <1>2, <1>3, <1>4, <1>5, <1>6, <1>7 DEF Sweep, SweepStep

(* Only finitely many uploads were answered 200: a power cut, which may    *)
(* bring their entries back, makes no more.                                *)
Winners == {u \in Upload : wanswer[u] = 200}

LEMMA WinnersFinite == AInv /\ IsFiniteSet(Winners) /\ [Next]_vars => IsFiniteSet(Winners)'
<1> SUFFICES ASSUME AInv, IsFiniteSet(Winners), [Next]_vars PROVE IsFiniteSet(Winners')
  OBVIOUS
<1>1. CASE \E u \in Upload : PutRequest(u)
  <2>1. PICK u \in Upload : PutRequest(u)
    BY <1>1
  <2>2. \A v \in Upload \ {u} : wanswer'[v] = wanswer[v]
    BY <2>1, PutEffect DEF PutSame
  <2>3. Winners' \subseteq Winners \cup {u}
    BY <2>2 DEF Winners
  <2>4. IsFiniteSet(Winners \cup {u})
    BY FS_AddElement
  <2> QED  BY <2>3, <2>4, FS_Subset
<1>2. CASE ~\E u \in Upload : PutRequest(u)
  <2>1. wanswer' = wanswer
    BY <1>2 DEF Next, GetRequest, Prune, Sweep, Clock, Crash, WritesLost, Restart, vars,
       writeVars
  <2> QED  BY <2>1 DEF Winners
<1> QED  BY <1>1, <1>2

(* Every entry, one a power cut brought back included, is a winner's.      *)
LEMMA CommittedFinite ==
    ASSUME AInv, IsFiniteSet(Winners)
    PROVE  IsFiniteSet(Committed)
<1>1. Committed \subseteq Winners
  BY CommittedFrom, EntryWinner DEF Winners
<1> QED  BY <1>1, FS_Subset

LEMMA CommittedFiniteNext == AInv' /\ IsFiniteSet(Winners)' => IsFiniteSet(Committed)'
<1>1. AInv /\ IsFiniteSet(Winners) => IsFiniteSet(Committed)
  BY CommittedFinite
<1> QED  BY <1>1, PTL

LEMMA SweepInvStep ==
    ASSUME "prune" \notin Faults
    PROVE  GInv /\ IsFiniteSet(Winners) /\ [Next]_vars => GInv'
<1> SUFFICES ASSUME GInv, IsFiniteSet(Winners), [Next]_vars PROVE GInv'
  OBVIOUS
<1>1. AInv /\ AInv' /\ SInv' /\ TInv'
  BY AnswersStep, CurrentStep, TypesStep DEF GInv, Base
<1>2. CASE \E u \in Upload : PutRequest(u)
  BY <1>1, <1>2, PutIsBehind, BehindKeeps
<1>3. CASE \/ \E r \in Download : GetRequest(r)
           \/ \E h \in Hash : Prune(h)
           \/ Clock \/ Restart \/ UNCHANGED vars
  BY <1>1, <1>3, OthersAreBehind, BehindKeeps
<1>4. CASE Crash
  <2>1. SweepReturns(0) /\ present' = {}
    BY <1>4 DEF Crash, SweepLost
  <2>2. IsFiniteSet(Winners')
    BY <1>4 DEF Crash, WritesLost, Winners
  <2>3. IsFiniteSet(Committed')
    BY <1>1, <2>2, CommittedFiniteNext
  <2> QED  BY <1>1, <2>1, <2>3, ReturnKeeps
<1>5. CASE Sweep
  BY <1>1, <1>5, SweepKeeps
<1> QED  BY <1>2, <1>3, <1>4, <1>5 DEF Next

LEMMA SweepInvInit == Init => GInv
<1> SUFFICES ASSUME Init PROVE GInv
  OBVIOUS
<1>1. AInv /\ IInv
  BY AnswersInit, InvariantInit
<1>2. Committed = {} /\ IsFiniteSet({})
  BY FS_EmptySet DEF Init, DirInit, Committed, Name
<1>3. SInv
  BY <1>1 DEF Init, SweepInit, SInv, NamesOnce
<1>4. TInv
  BY <1>1, <1>2 DEF TInv, IInv, Typing, TypeOK, SweepTypeOK, Init, SweepInit
<1> QED
  BY <1>1, <1>2, <1>3, <1>4
  DEF GInv, Base, Init, SweepInit, PresentInv, ScanInv, TtlInv, SizeInv, StaleInv

(***************************************************************************)
(* While only the sweep deletes entries, it always knows of every entry    *)
(* that was there when it began and still is, and totalBytes is the size   *)
(* of files that are in the directory (eviction.ts:66-111).                *)
(***************************************************************************)
THEOREM SweepInvariance ==
    ASSUME "prune" \notin Faults
    PROVE  Spec => []GInv
<1>1. Init => IsFiniteSet(Winners)
  BY FS_EmptySet DEF Init, WriteInit, Winners
<1>2. GInv => AInv
  BY DEF GInv, Base
<1> QED  BY <1>1, <1>2, SweepInvInit, SweepInvStep, WinnersFinite, PTL DEF Spec

-----------------------------------------------------------------------------
(* What a sweep that returns has counted.                                  *)
LEMMA SweepResult ==
    ASSUME GInv, [Next]_vars, SweepReturned, "scan" \notin Faults
    PROVE  /\ UNCHANGED <<dir, data>> /\ sizeGauge' \in Nat
           /\ \E K : /\ K \subseteq Committed
                     /\ StatsSucceed => present \cap Committed \subseteq K
                     /\ sizeGauge' = SizeIn(data, K)
                     /\ "sweeprm" \notin Faults =>
                           ~OverCap(sizeGauge') \/ K = {}
           /\ "sweeprm" \notin Faults /\ StatsSucceed => stale \cap Committed = {}
<1>1. epc # "idle" /\ epc' = "idle" /\ up'
  BY DEF SweepReturned
<1>2. CASE TtlPassEnds
  <2>1. /\ UNCHANGED <<dir, data>>
        /\ sizeGauge' = SumSizes(survivors \cup entries)
        /\ ~OverCap(SumSizes(survivors \cup entries))
    BY <1>1, <1>2 DEF TtlPassEnds, SweepReturns, dirVars
  <2>2. SumSizes(survivors \cup entries) \in Nat
    <3>1. /\ IsFiniteSet(survivors \cup entries)
          /\ \A e \in survivors \cup entries : e.size \in Nat
      BY FS_Union DEF GInv, Base, TInv, TypeOK, SweepTypeOK, Entry
    <3> QED  BY <3>1, SizesRemove
  <2> QED  BY <1>2, <2>1, <2>2, RestCounted
<1>3. CASE SizePassEnds
  <2>1. /\ epc = "size" /\ UNCHANGED <<dir, data>>
        /\ sizeGauge' = totalBytes
        /\ ~OverCap(totalBytes) \/ survivors = {}
    BY <1>3 DEF SizePassEnds, SweepReturns, dirVars
  <2>2. totalBytes \in Nat
    BY DEF GInv, Base, TInv, TypeOK, SweepTypeOK
  <2>3. PICK K : Counted(K)
    BY <2>1 DEF GInv, SizeInv
  <2>4. "sweeprm" \notin Faults => ~OverCap(totalBytes) \/ K = {}
    BY <2>1, <2>3 DEF Counted, Inodes
  <2>5. "sweeprm" \notin Faults /\ StatsSucceed => stale \cap Committed = {}
    BY <2>1 DEF GInv, SizeInv
  <2> QED  BY <2>1, <2>2, <2>3, <2>4, <2>5 DEF Counted
<1>4. CASE ~TtlPassEnds /\ ~SizePassEnds
  BY <1>1, <1>4
  DEF Next, PutRequest, GetRequest, Prune, Clock, Crash, Restart, Sweep, SweepStarts,
      SweepStep, EntryStatted, ScanFails, ScanEnds, ExpiredEvicted, OldestEvicted,
      vars, sweepVars
<1> QED  BY <1>2, <1>3, <1>4

LEMMA GaugeStep ==
    ASSUME GInv, [Next]_vars, SweepReturned, "scan" \notin Faults, "stat" \notin Faults
    PROVE  /\ SizeOf(present \cap Committed') <= sizeGauge'
           /\ sizeGauge' <= SizeOf(Committed')
<1>1. Committed' = Committed
  BY SweepResult, SameCommitted
<1>2. PICK K : /\ K \subseteq Committed /\ present \cap Committed \subseteq K
               /\ sizeGauge' = SizeIn(data, K)
  BY SweepResult DEF StatsSucceed
<1>3. /\ data \in [Upload -> Seq(Upload)] /\ Committed \in SUBSET Upload
      /\ IsFiniteSet(Committed) /\ K \in SUBSET Upload /\ IsFiniteSet(K)
  BY <1>2, CommittedTyped, FS_Subset DEF GInv, Base, TInv, TypeOK, DirTypeOK
<1>4. SizeIn(data, K) <= SizeIn(data, Committed)
  BY <1>2, <1>3, SizePart
<1>5. SizeIn(data, present \cap Committed) <= SizeIn(data, K)
  BY <1>2, <1>3, SizePart
<1> QED  BY <1>1, <1>2, <1>4, <1>5, SizeOfIn

(***************************************************************************)
(* After a sweep whose scan and stats did not fail, nx_cache_size_bytes    *)
(* counts every entry that was there all along and nothing that is not     *)
(* there, whatever the uploads, downloads, crashes and failed removals in  *)
(* between (eviction.ts:66-111).                                           *)
(***************************************************************************)
THEOREM GaugeIsRight ==
    ASSUME "prune" \notin Faults, "scan" \notin Faults, "stat" \notin Faults
    PROVE  Spec => GaugeCountsEntries
<1>1. GInv /\ [Next]_vars =>
        [SweepReturned =>
           /\ SizeOf(present \cap Committed') <= sizeGauge'
           /\ sizeGauge' <= SizeOf(Committed')]_vars
  BY GaugeStep
<1> QED  BY <1>1, SweepInvariance, PTL DEF Spec, GaugeCountsEntries

LEMMA LimitsStep ==
    ASSUME GInv, [Next]_vars, SweepReturned,
           "scan" \notin Faults, "stat" \notin Faults, "sweeprm" \notin Faults
    PROVE  /\ FitsCap(present \cap Committed')
           /\ PastTtl(stale, enow) \cap Committed' = {}
<1>1. Committed' = Committed
  BY SweepResult, SameCommitted
<1>2. PastTtl(stale, enow) \cap Committed = {}
  <2>1. stale \cap Committed = {}
    BY SweepResult DEF StatsSucceed
  <2> QED  BY <2>1 DEF PastTtl
<1>3. ASSUME MaxBytes # NoLimit PROVE SizeOf(present \cap Committed) <= MaxBytes
  <2>1. PICK K : /\ K \subseteq Committed /\ present \cap Committed \subseteq K
                 /\ sizeGauge' = SizeIn(data, K)
                 /\ ~OverCap(sizeGauge') \/ K = {}
    BY SweepResult DEF StatsSucceed
  <2>2. /\ data \in [Upload -> Seq(Upload)] /\ Committed \in SUBSET Upload
        /\ IsFiniteSet(Committed) /\ K \in SUBSET Upload /\ IsFiniteSet(K)
    BY <2>1, CommittedTyped, FS_Subset DEF GInv, Base, TInv, TypeOK, DirTypeOK
  <2>3. MaxBytes \in Nat
    BY <1>3, MaxBytesAssumption
  <2>4. SizeIn(data, present \cap Committed) <= SizeIn(data, K)
    BY <2>1, <2>2, SizePart
  <2>5. /\ SizeIn(data, K) \in Nat
        /\ SizeIn(data, present \cap Committed) \in Nat
    <3>1. present \cap Committed \in SUBSET Upload /\ IsFiniteSet(present \cap Committed)
      BY <2>2, FS_Subset
    <3>2. SizeIn(data, K) \in Nat
      BY <2>2, SizeRemove
    <3>3. SizeIn(data, present \cap Committed) \in Nat
      BY <2>2, <3>1, SizeRemove
    <3> QED  BY <3>2, <3>3
  <2>6. SizeIn(data, K) <= MaxBytes
    <3>1. CASE K = {}
      BY <2>3, <3>1, SizeEmpty
    <3>2. CASE ~OverCap(sizeGauge')
      BY <1>3, <2>1, <2>3, <2>5, <3>2 DEF OverCap
    <3> QED  BY <2>1, <3>1, <3>2
  <2>7. SizeIn(data, present \cap Committed) <= MaxBytes
    BY <2>3, <2>4, <2>5, <2>6
  <2> QED  BY <2>7, SizeOfIn
<1> QED  BY <1>1, <1>2, <1>3 DEF FitsCap

(***************************************************************************)
(* A sweep whose calls succeed enforces both limits on every entry that    *)
(* was there when it began: what is left of them fits CACHE_MAX_BYTES, and *)
(* none of them is past the TTL unless a download stamped it meanwhile     *)
(* (eviction.ts:95-111).                                                   *)
(***************************************************************************)
THEOREM LimitsAreEnforced ==
    ASSUME "prune" \notin Faults, "scan" \notin Faults, "stat" \notin Faults,
           "sweeprm" \notin Faults
    PROVE  Spec => SweepEnforcesLimits
<1>1. GInv /\ [Next]_vars =>
        [SweepReturned =>
           /\ FitsCap(present \cap Committed')
           /\ PastTtl(stale, enow) \cap Committed' = {}]_vars
  BY LimitsStep
<1> QED  BY <1>1, SweepInvariance, PTL DEF Spec, SweepEnforcesLimits

LEMMA OverCapStep ==
    ASSUME GInv, [Next]_vars, "prune" \notin Faults,
           NEW h \in Hash, Evicts(h), epc = "size"
    PROVE  ~FitsCap(Committed)
<1>1. AInv /\ dir[h] # NoFile /\ dir'[h] = NoFile /\ dir[h] \in Upload
  BY EntryWinner DEF GInv, Base, Evicts
<1>2. CASE OldestEvicted
  <2>1. OverCap(totalBytes)
    BY <1>2 DEF OldestEvicted
  <2>2. PICK K : K \subseteq Committed /\ totalBytes = SizeIn(data, K)
    BY DEF GInv, SizeInv, Counted
  <2>3. /\ data \in [Upload -> Seq(Upload)] /\ Committed \in SUBSET Upload
        /\ IsFiniteSet(Committed)
    BY CommittedTyped DEF GInv, Base, TInv, TypeOK, DirTypeOK
  <2>4. SizeIn(data, K) <= SizeIn(data, Committed)
    BY <2>2, <2>3, SizePart
  <2>5. totalBytes \in Nat /\ SizeIn(data, Committed) \in Nat
    <3>1. SizeIn(data, Committed) \in Nat
      BY <2>3, SizeRemove
    <3> QED  BY <3>1 DEF GInv, Base, TInv, TypeOK, SweepTypeOK
  <2>6. MaxBytes \in Nat /\ totalBytes > MaxBytes
    BY <2>1, MaxBytesAssumption DEF OverCap
  <2>7. ~ (SizeIn(data, Committed) <= MaxBytes)
    BY <2>2, <2>4, <2>5, <2>6
  <2> QED  BY <2>1, <2>7, SizeOfIn DEF FitsCap, OverCap
<1>3. CASE Sweep /\ ~OldestEvicted
  BY <1>1, <1>3
  DEF Sweep, SweepStarts, SweepStep, EntryStatted, ScanFails, ScanEnds, ExpiredEvicted,
      TtlPassEnds, SizePassEnds, dirVars
<1>4. CASE Crash
  BY <1>4 DEF Crash, Evicts
<1>5. CASE \E u \in Upload : PutRequest(u)
  BY <1>1, <1>5, PutIsBehind DEF Behind
<1>6. CASE \/ \E r \in Download : GetRequest(r)
           \/ \E g \in Hash : Prune(g)
           \/ Clock \/ Restart \/ UNCHANGED vars
  BY <1>1, <1>6, OthersAreBehind DEF Behind
<1> QED  BY <1>2, <1>3, <1>4, <1>5, <1>6 DEF Next

(***************************************************************************)
(* The size pass never trims a cache that fits: whenever it deletes an     *)
(* entry, the entries in the directory add up to more than the cap         *)
(* (eviction.ts:104-111).                                                  *)
(***************************************************************************)
THEOREM TrimsOnlyOverCap ==
    ASSUME "prune" \notin Faults
    PROVE  Spec => EvictsOnlyOverCap
<1>1. GInv /\ [Next]_vars =>
        [\A h \in Hash : Evicts(h) /\ epc = "size" => ~FitsCap(Committed)]_vars
  BY OverCapStep
<1> QED  BY <1>1, SweepInvariance, PTL DEF Spec, EvictsOnlyOverCap
=============================================================================
