-------------------------- MODULE SelectionProofs --------------------------
(***************************************************************************)
(* Theorems about the sizes of Packaging: what the selection loop of       *)
(* reservePackage returns, and the invariants that compare a set of        *)
(* artifacts with a threshold.                                             *)
(*                                                                         *)
(* The total of a candidate list is a fold over a finite set.  A fold is   *)
(* reasoned about here without induction over a predicate: the total of S  *)
(* is shown to count the bytes of S, by a subset of S that is minimal      *)
(* among those where the two would differ, and the library's facts about   *)
(* cardinalities give the rest.                                            *)
(***************************************************************************)
EXTENDS PackagingProofs, FiniteSetTheorems

-----------------------------------------------------------------------------
(* Totals of finite sets of artifacts *)

\* The bytes of the artifacts of S, each numbered within its artifact.
Bytes(S) == {b \in S \X Nat : 1 <= b[2] /\ b[2] <= Size[b[1]]}

\* What the fold computes on the subsets of S.
IsFold(f, S) == f = [s \in SUBSET S |-> IF s = {} THEN 0
                                        ELSE LET x == CHOOSE x \in s : TRUE IN Size[x] + f[s \ {x}]]

\* The total of S is the value of that function at S.
LEMMA SizeIsFold == \A S : SizeOf(S) = (CHOOSE f : IsFold(f, S))[S]
BY DEF SizeOf, MapThenSumSet, MapThenFoldSet, IsFold

\* Among the subsets of a finite set that have a property one is minimal.
LEMMA MinimalSubset ==
  ASSUME NEW S, IsFiniteSet(S), NEW Bad \in SUBSET (SUBSET S), Bad # {}
  PROVE  \E T \in Bad : \A U \in Bad : U \subseteq T => U = T
<1>1. IsWellFoundedOn(StrictSubsetOrdering(S), SUBSET S)
  BY FS_StrictSubsetOrderingWellFounded, FS_FiniteSubsetsOfFinite
<1>2. PICK T \in Bad : \A U \in Bad : <<U, T>> \notin StrictSubsetOrdering(S)
  BY <1>1, WFMin
<1>3. ASSUME NEW U \in Bad, U \subseteq T, U # T PROVE FALSE
  <2>1. <<U, T>> \in StrictSubsetOrdering(S)
    BY <1>3 DEF StrictSubsetOrdering
  <2> QED
    BY <1>2, <2>1
<1> QED
  BY <1>3

\* One artifact more adds as many bytes as it has.
LEMMA BytesAdd ==
  ASSUME NEW S, IsFiniteSet(Bytes(S)), NEW o \in Objects, o \notin S
  PROVE  /\ IsFiniteSet(Bytes(S \cup {o}))
         /\ Cardinality(Bytes(S \cup {o})) = Cardinality(Bytes(S)) + Size[o]
<1> DEFINE own == {o} \X (1..Size[o])
           number == [n \in 1..Size[o] |-> <<o, n>>]
<1>1. Size[o] \in Nat
  BY SizesAssumption
<1>2. IsFiniteSet(1..Size[o]) /\ Cardinality(1..Size[o]) = Size[o]
  BY <1>1, FS_Interval
<1>3. number \in Bijection(1..Size[o], own)
  <2>1. number \in [1..Size[o] -> own]
    OBVIOUS
  <2>2. \A m, n \in 1..Size[o] : number[m] = number[n] => m = n
    OBVIOUS
  <2>3. \A b \in own : \E n \in 1..Size[o] : number[n] = b
    OBVIOUS
  <2> QED
    BY <2>1, <2>2, <2>3 DEF Bijection, Injection, Surjection, IsInjective
<1>4. IsFiniteSet(own) /\ Cardinality(own) = Size[o]
  BY <1>2, <1>3, FS_Bijection DEF ExistsBijection
<1>5. Bytes(S \cup {o}) = Bytes(S) \cup own
  BY <1>1 DEF Bytes
<1>6. Bytes(S) \cap own = {}
  BY DEF Bytes
<1>7. Cardinality(Bytes(S)) \in Nat
  BY FS_CardinalityType
<1>8. /\ IsFiniteSet(Bytes(S) \cup own)
      /\ Cardinality(Bytes(S) \cup own) = Cardinality(Bytes(S)) + Cardinality(own) - Cardinality(Bytes(S) \cap own)
  BY <1>4, FS_Union
<1>9. Cardinality(Bytes(S) \cup own) = Cardinality(Bytes(S)) + Size[o]
  <2>1. Cardinality(Bytes(S) \cap own) = 0
    BY <1>6, FS_EmptySet
  <2> QED
    BY <1>1, <1>4, <1>7, <1>8, <2>1
<1> QED
  BY <1>5, <1>8, <1>9

\* Finitely many artifacts have finitely many bytes.
LEMMA BytesFinite ==
  ASSUME NEW S \in SUBSET Objects, IsFiniteSet(S)
  PROVE  IsFiniteSet(Bytes(S))
<1> DEFINE Bad == {T \in SUBSET S : ~IsFiniteSet(Bytes(T))}
<1>1. SUFFICES ASSUME Bad # {} PROVE FALSE
  OBVIOUS
<1>0. Bad \in SUBSET (SUBSET S)
  OBVIOUS
<1>2. PICK T \in Bad : \A U \in Bad : U \subseteq T => U = T
  <2> HIDE DEF Bad
  <2> QED
    BY <1>0, <1>1, MinimalSubset
<1>3. T # {}
  <2>1. Bytes({}) = {}
    BY DEF Bytes
  <2> QED
    BY <2>1, <1>2, FS_EmptySet
<1>4. PICK o \in T : TRUE
  BY <1>3
<1>5. T \ {o} \notin Bad
  BY <1>2, <1>4
<1>6. IsFiniteSet(Bytes(T \ {o}))
  BY <1>5
<1>7. (T \ {o}) \cup {o} = T
  BY <1>4
<1> QED
  BY <1>4, <1>6, <1>7, BytesAdd

\* The total of a finite set of artifacts is the number of its bytes.
LEMMA SizeIsCount ==
  ASSUME NEW S \in SUBSET Objects, IsFiniteSet(S)
  PROVE  SizeOf(S) = Cardinality(Bytes(S))
<1> DEFINE first(T) == CHOOSE x \in T : TRUE
           g == [T \in SUBSET S |-> Cardinality(Bytes(T))]
           f == CHOOSE h : IsFold(h, S)
           Bad == {T \in SUBSET S : f[T] # g[T]}
<1>1. Bytes({}) = {} /\ Cardinality(Bytes({})) = 0
  BY FS_EmptySet DEF Bytes
<1>2. \A T \in SUBSET S : T # {} => first(T) \in T
  OBVIOUS
<1>3. ASSUME NEW T \in SUBSET S, T # {}
      PROVE  Cardinality(Bytes(T)) = Size[first(T)] + Cardinality(Bytes(T \ {first(T)}))
  <2>1. PICK x \in T : x = first(T)
    BY <1>2, <1>3
  <2>2. IsFiniteSet(T \ {x}) /\ T \ {x} \in SUBSET Objects
    BY FS_Subset
  <2>3. IsFiniteSet(Bytes(T \ {x}))
    BY <2>2, BytesFinite
  <2>4. Cardinality(Bytes((T \ {x}) \cup {x})) = Cardinality(Bytes(T \ {x})) + Size[x]
    BY <2>3, BytesAdd
  <2>5. (T \ {x}) \cup {x} = T
    BY <2>1
  <2>6. Cardinality(Bytes(T \ {x})) \in Nat /\ Size[x] \in Nat
    BY <2>3, FS_CardinalityType, SizesAssumption
  <2>7. Cardinality(Bytes(T)) = Cardinality(Bytes(T \ {x})) + Size[x]
    BY <2>4, <2>5
  <2>8. Cardinality(Bytes(T)) = Size[x] + Cardinality(Bytes(T \ {x}))
    BY <2>6, <2>7
  <2> QED
    BY <2>1, <2>8
<1>4. IsFold(g, S)
  <2>1. \A T \in SUBSET S : g[T] = IF T = {} THEN 0 ELSE Size[first(T)] + g[T \ {first(T)}]
    BY <1>1, <1>3
  <2> QED
    BY <2>1 DEF IsFold
<1>5. IsFold(f, S)
  BY <1>4
<1>6. \A T \in SUBSET S : f[T] = IF T = {} THEN 0 ELSE Size[first(T)] + f[T \ {first(T)}]
  <2> HIDE DEF f
  <2> QED
    BY <1>5 DEF IsFold
<1>7. ASSUME Bad # {} PROVE FALSE
  <2>0. Bad \in SUBSET (SUBSET S)
    OBVIOUS
  <2>1. PICK T \in Bad : \A U \in Bad : U \subseteq T => U = T
    <3> HIDE DEF Bad
    <3> QED
      BY <2>0, <1>7, MinimalSubset
  <2>2. T # {}
    BY <2>1, <1>1, <1>6
  <2>3. first(T) \in T /\ T \ {first(T)} \in SUBSET S
    BY <1>2, <2>1, <2>2
  <2>7. T \ {first(T)} \notin Bad
    BY <2>1, <2>3
  <2>4. f[T \ {first(T)}] = g[T \ {first(T)}]
    <3> HIDE DEF f, g, first
    <3> QED
      BY <2>3, <2>7
  <2>5. f[T] = Size[first(T)] + f[T \ {first(T)}]
    BY <1>6, <2>1, <2>2
  <2>6. g[T] = Size[first(T)] + g[T \ {first(T)}]
    BY <1>3, <2>1, <2>2, <2>3
  <2> QED
    BY <2>1, <2>4, <2>5, <2>6
<1>8. f[S] = g[S]
  BY <1>7
<1> QED
  BY <1>8, SizeIsFold

\* Totals are numbers, and the total of nothing is zero.
LEMMA SizeType ==
  ASSUME NEW S \in SUBSET Objects, IsFiniteSet(S)
  PROVE  SizeOf(S) \in Nat
BY SizeIsCount, BytesFinite, FS_CardinalityType

\* The totals of two disjoint sets add up.
LEMMA SizeUnion ==
  ASSUME NEW A \in SUBSET Objects, NEW B \in SUBSET Objects,
         IsFiniteSet(A), IsFiniteSet(B), A \cap B = {}
  PROVE  SizeOf(A \cup B) = SizeOf(A) + SizeOf(B)
<1>1. IsFiniteSet(A \cup B)
  BY FS_Union
<1>2. IsFiniteSet(Bytes(A)) /\ IsFiniteSet(Bytes(B))
  BY BytesFinite
<1>3. Bytes(A \cup B) = Bytes(A) \cup Bytes(B) /\ Bytes(A) \cap Bytes(B) = {}
  BY DEF Bytes
<1>4. Cardinality(Bytes(A) \cap Bytes(B)) = 0
  BY <1>3, FS_EmptySet
<1>5. Cardinality(Bytes(A) \cup Bytes(B))
        = Cardinality(Bytes(A)) + Cardinality(Bytes(B)) - Cardinality(Bytes(A) \cap Bytes(B))
  BY <1>2, FS_Union
<1>6. Cardinality(Bytes(A)) \in Nat /\ Cardinality(Bytes(B)) \in Nat
  BY <1>2, FS_CardinalityType
<1>7. Cardinality(Bytes(A \cup B)) = Cardinality(Bytes(A)) + Cardinality(Bytes(B))
  <2>1. Cardinality(Bytes(A) \cup Bytes(B)) = Cardinality(Bytes(A)) + Cardinality(Bytes(B))
    BY <1>4, <1>5, <1>6
  <2> QED
    BY <1>3, <2>1
<1> QED
  BY <1>1, <1>7, SizeIsCount

\* More artifacts never have fewer bytes.
LEMMA SizeMonotonic ==
  ASSUME NEW B \in SUBSET Objects, IsFiniteSet(B), NEW A \in SUBSET B
  PROVE  SizeOf(A) <= SizeOf(B)
<1>1. IsFiniteSet(A)
  BY FS_Subset
<1>2. Bytes(A) \subseteq Bytes(B)
  BY DEF Bytes
<1>3. Cardinality(Bytes(A)) <= Cardinality(Bytes(B))
  BY <1>2, BytesFinite, FS_Subset
<1> QED
  BY <1>1, <1>3, SizeIsCount

-----------------------------------------------------------------------------
(* The selection loop of reservePackage *)

\* Artifacts are in a total order.
LEMMA SelectionOrder ==
  \A x, y, z \in Objects :
    /\ x < y \/ y <= x
    /\ x < y => ~(y <= x)
    /\ x <= y <=> x < y \/ x = y
    /\ ~(x < x)
    /\ x < y /\ y < z => x < z
BY ObjectsAssumption

\* A nonempty finite set of artifacts has an oldest one and a youngest one.
LEMMA OldestAndYoungest ==
  ASSUME NEW S \in SUBSET Objects, IsFiniteSet(S), S # {}
  PROVE  /\ \E o \in S : \A q \in S : o <= q
         /\ \E o \in S : \A q \in S : q <= o
<1> DEFINE older(o) == {q \in S : q <= o}
           younger(o) == {q \in S : o <= q}
           Older == {T \in SUBSET S : \E o \in S : T = older(o)}
           Younger == {T \in SUBSET S : \E o \in S : T = younger(o)}
<1>0. S \subseteq Nat
  BY ObjectsAssumption
<1>1. \E o \in S : \A q \in S : o <= q
  <2>1. Older \in SUBSET (SUBSET S) /\ Older # {}
    OBVIOUS
  <2>2. PICK T \in Older : \A U \in Older : U \subseteq T => U = T
    <3> HIDE DEF Older
    <3> QED
      BY <2>1, MinimalSubset
  <2>3. PICK o \in S : T = older(o)
    BY <2>2
  <2>4. ASSUME NEW q \in S, q < o PROVE FALSE
    <3>1. older(q) \subseteq older(o) /\ o \notin older(q) /\ o \in older(o)
      BY <2>4, SelectionOrder, Zenon
    <3> QED
      BY <2>2, <2>3, <2>4, <3>1
  <2> QED
    BY <1>0, <2>4
<1>2. \E o \in S : \A q \in S : q <= o
  <2>1. Younger \in SUBSET (SUBSET S) /\ Younger # {}
    OBVIOUS
  <2>2. PICK T \in Younger : \A U \in Younger : U \subseteq T => U = T
    <3> HIDE DEF Younger
    <3> QED
      BY <2>1, MinimalSubset
  <2>3. PICK o \in S : T = younger(o)
    BY <2>2
  <2>4. ASSUME NEW q \in S, o < q PROVE FALSE
    <3>1. younger(q) \subseteq younger(o) /\ o \notin younger(q) /\ o \in younger(o)
      BY <2>4, SelectionOrder, Zenon
    <3> QED
      BY <2>2, <2>3, <2>4, <3>1
  <2> QED
    BY <1>0, <2>4
<1> QED
  BY <1>1, <1>2

\* The loop takes the candidates in order, without a gap.
LEMMA SelectedIsPrefix ==
  ASSUME NEW C \in SUBSET Objects, IsFiniteSet(C), NEW target \in Nat,
         NEW o \in Selected(C, target), NEW q \in C, q < o
  PROVE  q \in Selected(C, target)
<1> DEFINE before(x) == {y \in C : y < x}
<1>0. C \subseteq Nat /\ o \in C
  BY ObjectsAssumption DEF Selected
<1>1. before(o) \in SUBSET Objects /\ IsFiniteSet(before(o))
  BY FS_Subset
<1>2. SizeOf(before(o)) < target
  BY DEF Selected
<1>3. before(q) \subseteq before(o) /\ before(q) \cup {q} \subseteq before(o)
  BY <1>0, SelectionOrder, Zenon
<1>4. SizeOf(before(q)) <= SizeOf(before(o)) /\ SizeOf(before(q) \cup {q}) <= SizeOf(before(o))
  <2> HIDE DEF before
  <2> QED
    BY <1>1, <1>3, SizeMonotonic
<1>5. SizeOf(before(o)) \in Nat
  BY <1>1, SizeType
<1>6. SizeOf(before(q)) \in Nat /\ SizeOf(before(q) \cup {q}) \in Nat
  <2>1. /\ before(q) \in SUBSET Objects /\ IsFiniteSet(before(q))
        /\ before(q) \cup {q} \in SUBSET Objects /\ IsFiniteSet(before(q) \cup {q})
    <3> HIDE DEF before
    <3> QED
      BY <1>1, <1>3, FS_Subset
  <2> QED
    BY <2>1, SizeType
<1> QED
  BY <1>2, <1>4, <1>5, <1>6 DEF Selected

\* What the selection loop promises for every list of candidates: it takes
\* something if it can, in order and without a gap; one artifact of any size or
\* several that do not exceed the target; and it stops only when the target is
\* reached or the next candidate would exceed it (package.go 180-191).
THEOREM SelectionCorrect ==
  ASSUME NEW C \in SUBSET Objects, IsFiniteSet(C), NEW target \in Nat
  PROVE  LET selected == Selected(C, target) IN
         /\ C # {} => selected # {}
         /\ \A o \in selected, q \in C : q < o => q \in selected
         /\ (\E o \in C : selected = {o}) \/ SizeOf(selected) <= target
         /\ \A o \in C \ selected :
              (\A q \in C \ selected : o <= q) =>
                SizeOf(selected) >= target \/ SizeOf(selected \cup {o}) > target
<1> DEFINE selected == Selected(C, target)
           before(x) == {y \in C : y < x}
<1>0. C \subseteq Nat /\ selected \subseteq C
  BY ObjectsAssumption DEF Selected
<1>1. IsFiniteSet(selected) /\ selected \in SUBSET Objects
  BY <1>0, FS_Subset
<1>2. \A o \in selected, q \in C : q < o => q \in selected
  BY SelectedIsPrefix
<1>3. ASSUME C # {} PROVE selected # {}
  <2>1. PICK o \in C : \A q \in C : o <= q
    BY <1>3, OldestAndYoungest
  <2>2. before(o) = {}
    BY <2>1, SelectionOrder, Zenon
  <2> QED
    BY <2>2 DEF Selected
<1>4. (\E o \in C : selected = {o}) \/ SizeOf(selected) <= target
  <2>1. CASE selected = {}
    <3>1. SizeOf({}) = 0
      <4>1. Bytes({}) = {}
        BY DEF Bytes
      <4> QED
        BY <4>1, FS_EmptySet, SizeIsCount
    <3> QED
      BY <2>1, <3>1
  <2>2. CASE selected # {}
    <3>1. PICK o \in selected : \A q \in selected : q <= o
      <4> HIDE DEF selected
      <4> QED
        BY <1>1, <2>2, OldestAndYoungest
    <3>2. selected = before(o) \cup {o}
      <4>1. before(o) \subseteq selected
        BY <1>2
      <4>2. selected \subseteq before(o) \cup {o}
        BY <1>0, <3>1, SelectionOrder, Zenon
      <4> QED
        BY <4>1, <4>2
    <3>3. before(o) = {} \/ SizeOf(before(o) \cup {o}) <= target
      BY DEF Selected
    <3> QED
      BY <1>0, <3>2, <3>3
  <2> QED
    BY <2>1, <2>2
<1>5. ASSUME NEW o \in C \ selected, \A q \in C \ selected : o <= q
      PROVE  SizeOf(selected) >= target \/ SizeOf(selected \cup {o}) > target
  <2>1. before(o) \subseteq selected
    BY <1>0, <1>5, SelectionOrder, Zenon
  <2>2. selected \subseteq before(o)
    BY <1>0, <1>2, SelectionOrder, Zenon
  <2>3. selected = before(o)
    BY <2>1, <2>2
  <2>4. ~(SizeOf(before(o)) < target /\ SizeOf(before(o) \cup {o}) <= target)
    BY DEF Selected
  <2>5. SizeOf(selected) \in Nat /\ SizeOf(selected \cup {o}) \in Nat
    <3>1. IsFiniteSet(selected \cup {o}) /\ selected \cup {o} \in SUBSET Objects
      BY <1>1, FS_AddElement
    <3> QED
      BY <1>1, <3>1, SizeType
  <2> HIDE DEF before, selected
  <2> QED
    BY <2>3, <2>4, <2>5
<1> QED
  BY <1>2, <1>3, <1>4, <1>5
-----------------------------------------------------------------------------
(* The invariant about sizes *)

\* What SizeInv speaks of, besides what the goroutine has in hand.
sizeVars == <<indexed, packageOf, packagingError, pkgState, draining>>

\* Isolation takes no candidate away: it fails members of the package in hand.
LEMMA IsolationKeepsCandidates ==
  ASSUME TypeOK, RowInv, pc = "probe", NEW invalid, invalid \subseteq members[hand], Isolate(invalid)
  PROVE  /\ \A j \in Projects : Candidates(j) \subseteq Candidates(j)'
         /\ \A p \in PackageIDs : pkgState'[p] # "none" => pkgState[p] # "none"
<1>1. hand \in PackageIDs /\ pkgState[hand] = "building"
  BY StepsFacts DEF TypeOK, LocalTypeOK, RowInv, HandRows
<1>2. \A o \in Objects : packageOf[o] = NoPackage => o \notin members[hand]
  BY <1>1, PackageIDsFact DEF RowInv, MembershipConsistent, NoPackage
<1>3. /\ packagingError' = packagingError \cup invalid
      /\ \A o \in Objects : packageOf[o] = NoPackage => packageOf'[o] = NoPackage
      /\ pkgState' = [pkgState EXCEPT ![hand] = "blocked"]
      /\ indexed' = indexed
  BY DEF Isolate, isolateInvalidMembers
<1>4. \A j \in Projects : Candidates(j) \subseteq Candidates(j)'
  BY <1>2, <1>3 DEF Candidates, TypeOK, StoreTypeOK
<1>5. \A p \in PackageIDs : pkgState'[p] # "none" => pkgState[p] # "none"
  BY <1>1, <1>3 DEF TypeOK, StoreTypeOK
<1> QED
  BY <1>4, <1>5

\* Only the reserving transaction takes candidates, makes packages and sets a
\* draining flag; only the two scans put a selection in hand.
LEMMA CandidatesOnlyGrow ==
  ASSUME TypeOK, RowInv, [Next]_vars, ~Reserve
  PROVE  /\ \A j \in Projects : Candidates(j) \subseteq Candidates(j)'
         /\ IsFiniteSet(indexed) => IsFiniteSet(indexed')
         /\ \A p \in PackageIDs : pkgState'[p] # "none" => pkgState[p] # "none"
         /\ draining' = draining \/ draining' = [draining EXCEPT ![cursor] = FALSE]
         /\ pc' = "reserve" => ScanIdentity \/ ScanReady \/ UNCHANGED localVars
<1> DEFINE Goal == /\ \A j \in Projects : Candidates(j) \subseteq Candidates(j)'
                   /\ IsFiniteSet(indexed) => IsFiniteSet(indexed')
                   /\ \A p \in PackageIDs : pkgState'[p] # "none" => pkgState[p] # "none"
                   /\ draining' = draining \/ draining' = [draining EXCEPT ![cursor] = FALSE]
                   /\ pc' = "reserve" => ScanIdentity \/ ScanReady \/ UNCHANGED localVars
<1> SUFFICES Goal
  OBVIOUS
<1>0. ASSUME UNCHANGED sizeVars, pc' # "reserve" \/ ScanIdentity \/ ScanReady \/ UNCHANGED localVars
      PROVE  Goal
  BY <1>0 DEF sizeVars, Candidates
<1>1. CASE \/ \E p \in PackageIDs : NextBuildingPackage(p) \/ NextPackagePurge(p)
           \/ \E o \in Objects : NextSourceToPurge(o)
           \/ NoBuildingPackage \/ NoSourceToPurge \/ NoPackageToPurge
           \/ Merge \/ PublishPayload \/ SyncPayload \/ PublishManifest \/ SyncManifest
           \/ UnlinkSource \/ SyncSource \/ UnlinkPackage \/ SyncPackage \/ BuildFails
  <2>1. UNCHANGED sizeVars /\ pc' # "reserve"
    BY <1>1 DEF NextBuildingPackage, NextPackagePurge, NextSourceToPurge, NoBuildingPackage, NoSourceToPurge,
      NoPackageToPurge, Merge, PublishPayload, SyncPayload, PublishManifest, SyncManifest, UnlinkSource,
      SyncSource, UnlinkPackage, SyncPackage, BuildFails, GoTo, Loop, storeVars, dbVars, sizeVars
  <2> QED
    BY <1>0, <2>1
<1>2. CASE RetryBuild \/ MarkSourcePurged \/ MarkPackagePurged \/ PurgeSourceFails \/ PurgePackageFails
             \/ Crash \/ PowerLoss \/ ScanNotReady
  <2>1. UNCHANGED sizeVars /\ pc' # "reserve"
    BY <1>2 DEF RetryBuild, MarkSourcePurged, MarkPackagePurged, PurgeSourceFails, PurgePackageFails,
      MarkSourcePurgeRetry, MarkPackagePurgeRetry, Crash, PowerLoss, ScanNotReady, NextProject, Loop,
      storeVars, dbVars, sizeVars
  <2> QED
    BY <1>0, <2>1
<1>3. CASE ScanIdentity \/ ScanReady
  <2>1. UNCHANGED sizeVars
    BY <1>3 DEF ScanIdentity, ScanReady, storeVars, dbVars, sizeVars
  <2> QED
    BY <1>0, <1>3, <2>1
<1>4. CASE ScanNothing
  BY <1>4 DEF ScanNothing, NextProject, Candidates
<1>5. CASE Seal
  <2>1. hand \in PackageIDs /\ pkgState[hand] = "building"
    BY <1>5, StepsFacts DEF Seal, TypeOK, LocalTypeOK, RowInv, HandRows, BuildSteps
  <2> QED
    BY <1>5, <2>1 DEF Seal, sealPackage, Loop, Candidates, TypeOK, StoreTypeOK
<1>6. CASE Probe \/ ProbeDenied \/ \E misread \in SUBSET Misreadable : ProbeMisreads(misread)
  <2>1. ASSUME NEW invalid, invalid \subseteq members[hand], pc = "probe", Isolate(invalid) PROVE Goal
    <3>1. UNCHANGED <<indexed, draining>> /\ pc' # "reserve"
      BY <2>1 DEF Isolate, Loop
    <3> QED
      BY <2>1, <3>1, IsolationKeepsCandidates
  <2> QED
    BY <1>2, <1>6, <2>1 DEF Probe, ProbeDenied, ProbeMisreads, InvalidMembers
<1>7. ASSUME NEW o \in Objects, SourceBackoffElapses(o) \/ MaxWaitElapses(o) \/ Accept(o) PROVE Goal
  <2>1. UNCHANGED sizeVars /\ UNCHANGED localVars
    BY <1>7 DEF SourceBackoffElapses, MaxWaitElapses, Accept, storeVars, dbVars, sizeVars
  <2> QED
    BY <1>0, <2>1
<1>8. ASSUME NEW o \in Objects, Index(o) PROVE Goal
  <2>1. indexed' = indexed \cup {o} /\ UNCHANGED <<packageOf, packagingError, pkgState, draining, localVars>>
    BY <1>8 DEF Index, addArtifact
  <2>2. IsFiniteSet(indexed) => IsFiniteSet(indexed')
    BY <2>1, FS_AddElement
  <2> QED
    BY <2>1, <2>2 DEF Candidates
<1>9. ASSUME NEW p \in PackageIDs,
             \/ BuildBackoffElapses(p) \/ RetentionElapses(p)
             \/ DeliveryClaims(p) \/ DeliverySucceeds(p) \/ DeliveryFails(p)
      PROVE  Goal
  <2>1. UNCHANGED sizeVars /\ UNCHANGED localVars
    BY <1>9 DEF BuildBackoffElapses, RetentionElapses, DeliveryClaims, DeliverySucceeds, DeliveryFails, sizeVars
  <2> QED
    BY <1>0, <2>1
<1>10. CASE DeliveriesInterrupted \/ UNCHANGED vars
  <2>1. UNCHANGED sizeVars /\ UNCHANGED localVars
    BY <1>10 DEF DeliveriesInterrupted, vars, storeVars, dbVars, sizeVars
  <2> QED
    BY <1>0, <2>1
<1> HIDE DEF Goal
<1>11. Scheduler => Goal
  BY <1>1, <1>2, <1>3, <1>4, <1>5, <1>6 DEF Scheduler, BuildCycle, SourcePurgeCycle, PackagePurgeCycle
<1>12. Disruption => Goal
  BY <1>1, <1>2, <1>6 DEF Disruption
<1>13. Clock \/ Receiver \/ Delivery => Goal
  BY <1>7, <1>8, <1>9, <1>10 DEF Clock, Receiver, Delivery
<1> QED
  BY <1>10, <1>11, <1>12, <1>13 DEF Next, Undisturbed

\* What reservePackage selects is one artifact, or several that fit its target.
LEMMA SelectionFits ==
  ASSUME TypeOK, IsFiniteSet(indexed), ScanIdentity \/ ScanReady
  PROVE  HandFits'
<1> DEFINE C == Candidates(cursor)
<1>1. cursor \in Projects /\ C \in SUBSET Objects /\ IsFiniteSet(C)
  BY FS_Subset DEF TypeOK, StoreTypeOK, LocalTypeOK, Candidates
<1>2. \A o \in C : ProjectOf[o] = cursor
  BY DEF Candidates
<1>3. cursor' = cursor /\ Candidates(cursor)' = C
  BY DEF ScanIdentity, ScanReady, storeVars, dbVars, Candidates
<1>4. CASE ScanIdentity
  <2>1. PICK o \in C : hand' = {o}
    BY <1>4 DEF ScanIdentity
  <2>2. Fits(hand)'
    BY <1>1, <1>2, <2>1 DEF Fits
  <2> QED
    BY <1>4, <2>2 DEF HandFits, ScanIdentity
<1>5. CASE ScanReady
  <2>1. Target[cursor] \in Nat
    BY <1>1, SizesAssumption
  <2>2. /\ hand' = Selected(C, Target[cursor]) /\ Packager[cursor] = "mergewarc"
        /\ keepDraining' = StaysDraining(cursor, C, hand')
    BY <1>5 DEF ScanReady
  <2>3. hand' \subseteq C
    BY <2>2 DEF Selected
  <2>4. (\E o \in C : hand' = {o}) \/ SizeOf(hand') <= Target[cursor]
    <3> HIDE DEF C
    <3> QED
      BY <1>1, <2>1, <2>2, SelectionCorrect
  <2>5. Fits(hand)'
    <3> SUFFICES /\ \A o \in hand' : ProjectOf[o] = cursor
                 /\ (\E o \in hand' : hand' = {o}) \/ SizeOf(hand') <= Target[cursor]
      BY <1>1, <2>2 DEF Fits
    <3> QED
      BY <1>2, <2>3, <2>4
  <2>6. keepDraining' => SizeOf(C \ hand') >= Target[cursor]
    BY <2>2 DEF StaysDraining
  <2> QED
    BY <1>3, <2>5, <2>6 DEF HandFits
<1> QED
  BY <1>4, <1>5

\* Every step keeps the invariant about sizes.
LEMMA SizeStep == IInv /\ SizeInv /\ [Next]_vars => SizeInv'
<1> SUFFICES ASSUME IInv, SizeInv, [Next]_vars PROVE SizeInv'
  OBVIOUS
<1>t. TypeOK /\ TypeOK' /\ RowInv
  BY InvariantStep DEF IInv
<1>o. Projects \subseteq Int
  BY DEF Projects
<1>c. \A j \in Projects : Candidates(j) \in SUBSET Objects /\ IsFiniteSet(Candidates(j))
  BY <1>t, FS_Subset DEF SizeInv, Candidates, TypeOK, StoreTypeOK
\* A larger list of candidates still reaches the target.
<1>m. ASSUME NEW A, NEW B \in SUBSET Objects, IsFiniteSet(B), A \subseteq B, NEW j \in Projects,
             SizeOf(A) >= Target[j]
      PROVE  SizeOf(B) >= Target[j]
  <2>1. IsFiniteSet(A) /\ A \in SUBSET Objects
    BY <1>m, FS_Subset
  <2>2. SizeOf(A) <= SizeOf(B) /\ SizeOf(A) \in Nat /\ SizeOf(B) \in Nat /\ Target[j] \in Nat
    BY <1>m, <2>1, SizeMonotonic, SizeType, SizesAssumption
  <2> QED
    BY <1>m, <2>2
<1>1. CASE Reserve
  <2>1. pc = "reserve" /\ hand \in PackageIDs /\ hand \subseteq Candidates(cursor) /\ Fits(hand)
    BY <1>1, <1>t, StepsFacts DEF Reserve, TypeOK, LocalTypeOK, RowInv, HandRows, SizeInv, HandFits
  <2>2. indexed' = indexed /\ packagingError' = packagingError /\ pc' # "reserve"
    BY <1>1 DEF Reserve, NextProject, Loop
  <2>3. CASE UNCHANGED <<pkgState, packageOf, draining>>
    BY <2>2, <2>3 DEF SizeInv, PackagesFit, DrainingHasTarget, HandFits, Candidates
  <2>4. CASE InsertPackage(hand) /\ draining' = [draining EXCEPT ![cursor] = keepDraining]
    <3>1. /\ pkgState' = [pkgState EXCEPT ![hand] = "building"]
          /\ packageOf' = [o \in Objects |-> IF o \in hand THEN hand ELSE packageOf[o]]
      BY <2>4 DEF InsertPackage
    <3>2. PackagesFit'
      <4> SUFFICES ASSUME NEW p \in PackageIDs, pkgState'[p] # "none" PROVE Fits(p)
        BY DEF PackagesFit
      <4>1. CASE p = hand
        BY <2>1, <4>1
      <4>2. CASE p # hand
        BY <1>t, <3>1, <4>2 DEF TypeOK, StoreTypeOK, SizeInv, PackagesFit
      <4> QED
        BY <4>1, <4>2
    <3>0. hand # {} /\ \A o \in hand : ProjectOf[o] = cursor
      BY <2>1, PackageIDsFact DEF Candidates
    <3>n. \A o \in indexed : packageOf'[o] = NoPackage <=> packageOf[o] = NoPackage /\ o \notin hand
      BY <1>t, <3>0, <3>1 DEF NoPackage, TypeOK, StoreTypeOK
    <3>3. \A j \in Projects : j # cursor => Candidates(j)' = Candidates(j)
      BY <2>2, <3>0, <3>n DEF Candidates
    <3>4. \A j \in Projects : j = cursor => Candidates(j)' = Candidates(j) \ hand
      BY <2>2, <3>n DEF Candidates
    <3>5. DrainingHasTarget'
      <4> SUFFICES ASSUME NEW j \in Projects, draining'[j] PROVE SizeOf(Candidates(j)') >= Target[j]
        BY DEF DrainingHasTarget
      <4>1. CASE j = cursor
        <5>1. keepDraining
          BY <1>t, <2>4, <4>1 DEF TypeOK, StoreTypeOK
        <5> QED
          BY <2>1, <3>4, <4>1, <5>1 DEF SizeInv, HandFits
      <4>2. CASE j # cursor
        <5>1. draining[j]
          BY <1>t, <2>4, <4>2 DEF TypeOK, StoreTypeOK
        <5> QED
          BY <3>3, <4>2, <5>1 DEF SizeInv, DrainingHasTarget
      <4> QED
        BY <4>1, <4>2
    <3> QED
      BY <2>2, <3>2, <3>5 DEF SizeInv, HandFits
  <2> QED
    BY <1>1, <2>3, <2>4 DEF Reserve
<1>2. CASE ~Reserve
  <2>1. /\ \A j \in Projects : Candidates(j) \subseteq Candidates(j)'
        /\ IsFiniteSet(indexed')
        /\ \A p \in PackageIDs : pkgState'[p] # "none" => pkgState[p] # "none"
        /\ draining' = draining \/ draining' = [draining EXCEPT ![cursor] = FALSE]
        /\ pc' = "reserve" => ScanIdentity \/ ScanReady \/ UNCHANGED localVars
    BY <1>t, <1>2, CandidatesOnlyGrow DEF SizeInv
  <2>c. \A j \in Projects : Candidates(j)' \in SUBSET Objects /\ IsFiniteSet(Candidates(j)')
    BY <1>t, <2>1, FS_Subset DEF Candidates, TypeOK, StoreTypeOK
  <2>2. PackagesFit'
    BY <2>1 DEF SizeInv, PackagesFit
  <2>3. DrainingHasTarget'
    <3> SUFFICES ASSUME NEW j \in Projects, draining'[j] PROVE SizeOf(Candidates(j)') >= Target[j]
      BY DEF DrainingHasTarget
    <3>1. draining[j]
      BY <1>t, <2>1 DEF TypeOK, StoreTypeOK
    <3> QED
      BY <1>m, <2>1, <2>c, <3>1 DEF SizeInv, DrainingHasTarget
  <2>4. HandFits'
    <3>1. CASE ScanIdentity \/ ScanReady
      BY <1>t, <3>1, SelectionFits DEF SizeInv
    <3>2. CASE pc' = "reserve" /\ UNCHANGED localVars
      <4>1. pc = "reserve" /\ hand' = hand /\ cursor' = cursor /\ keepDraining' = keepDraining
        BY <3>2 DEF localVars
      <4>2. Fits(hand)'
        BY <4>1 DEF SizeInv, HandFits, Fits
      <4>3. ASSUME keepDraining PROVE SizeOf(Candidates(cursor)' \ hand) >= Target[cursor]
        <5>1. cursor \in Projects /\ SizeOf(Candidates(cursor) \ hand) >= Target[cursor]
          BY <1>t, <4>1, <4>3 DEF SizeInv, HandFits, TypeOK, LocalTypeOK
        <5>2. /\ Candidates(cursor) \ hand \subseteq Candidates(cursor)' \ hand
              /\ Candidates(cursor)' \in SUBSET Objects /\ IsFiniteSet(Candidates(cursor)')
          BY <2>1, <2>c, <4>1, <5>1 DEF Candidates
        <5>3. Candidates(cursor)' \ hand \in SUBSET Objects /\ IsFiniteSet(Candidates(cursor)' \ hand)
          BY <5>2, FS_Subset
        <5> QED
          BY <1>m, <5>1, <5>2, <5>3
      <4> QED
        BY <4>1, <4>2, <4>3 DEF HandFits, Candidates
    <3> QED
      BY <2>1, <3>1, <3>2 DEF HandFits
  <2> QED
    BY <2>1, <2>2, <2>3, <2>4 DEF SizeInv
<1> QED
  BY <1>1, <1>2

\* A flag that is set is true of candidates that are still there, packages are
\* within the target, in the empty store and after every step.
LEMMA SizeInvariant == Spec => [](IInv /\ SizeInv)
<1>1. Init => SizeInv
  <2> SUFFICES ASSUME Init PROVE SizeInv
    OBVIOUS
  <2>1. IsFiniteSet(indexed)
    BY FS_EmptySet DEF Init, StoreInit
  <2>2. PackagesFit /\ DrainingHasTarget /\ HandFits
    BY DEF Init, StoreInit, PackagesFit, DrainingHasTarget, HandFits
  <2> QED
    BY <2>1, <2>2 DEF SizeInv
<1> QED
  BY <1>1, InvariantInit, InvariantStep, SizeStep, PTL DEF Spec

\* The draining flag of a project is only ever set while its candidates can fill
\* a package, though it is written from a list of candidates read before.
THEOREM DrainingCorrect == Spec => []DrainingHasTarget
<1>1. SizeInv => DrainingHasTarget
  BY DEF SizeInv
<1> QED
  BY <1>1, SizeInvariant, PTL

\* No package mixes projects, and none of several artifacts exceeds the target.
THEOREM PackagesWithinTarget == Spec => []PackagesFit
<1>1. SizeInv => PackagesFit
  BY DEF SizeInv
<1> QED
  BY <1>1, SizeInvariant, PTL

-----------------------------------------------------------------------------
(* Isolation *)

\* The only artifacts that are ever isolated are malformed, or are among those
\* whose probe can meet a read error: the misreads are the whole of the
\* disagreement with design.md 173-175.
THEOREM IsolationHasCause == Spec => [](packagingError \subseteq Malformed \cup Misreadable)
<1> DEFINE Cause == packagingError \subseteq Malformed \cup Misreadable
<1>1. Init => Cause
  BY DEF Init, StoreInit
<1>2. Cause /\ [Next]_vars => Cause'
  <2> SUFFICES ASSUME Cause, [Next]_vars PROVE packagingError' \subseteq Malformed \cup Misreadable
    OBVIOUS
  <2>1. CASE Probe \/ ProbeDenied \/ \E misread \in SUBSET Misreadable : ProbeMisreads(misread)
    BY <2>1 DEF Probe, ProbeDenied, ProbeMisreads, RetryBuild, Isolate, isolateInvalidMembers, InvalidMembers
  <2>2. CASE BuildCycle /\ ~Probe
    BY <2>2 DEF BuildCycle, NextBuildingPackage, NoBuildingPackage, ScanNothing, ScanIdentity, ScanNotReady,
      ScanReady, Reserve, Merge, PublishPayload, SyncPayload, PublishManifest, SyncManifest, Seal, storeVars, dbVars
  <2>3. CASE SourcePurgeCycle \/ PackagePurgeCycle
    BY <2>3 DEF SourcePurgeCycle, NextSourceToPurge, NoSourceToPurge, UnlinkSource, SyncSource, MarkSourcePurged,
      PackagePurgeCycle, NextPackagePurge, NoPackageToPurge, UnlinkPackage, SyncPackage, MarkPackagePurged,
      storeVars, dbVars
  <2>4. CASE BuildFails \/ PurgeSourceFails \/ PurgePackageFails \/ Crash \/ PowerLoss
    BY <2>4 DEF BuildFails, PurgeSourceFails, PurgePackageFails, MarkSourcePurgeRetry, MarkPackagePurgeRetry,
      Crash, PowerLoss, storeVars, dbVars
  <2>5. CASE Clock \/ Receiver \/ Delivery
    BY <2>5 DEF Clock, BuildBackoffElapses, RetentionElapses, SourceBackoffElapses, MaxWaitElapses, Receiver,
      Accept, Index, addArtifact, Delivery, DeliveryClaims, DeliverySucceeds, DeliveryFails,
      DeliveriesInterrupted, storeVars, dbVars
  <2>6. CASE UNCHANGED vars
    BY <2>6 DEF vars, storeVars, dbVars
  <2> QED
    BY <2>1, <2>2, <2>3, <2>4, <2>5, <2>6 DEF Next, Undisturbed, Scheduler, Disruption
<1> QED
  BY <1>1, <1>2, PTL DEF Spec

\* While no probe meets a read error, only malformed artifacts are isolated:
\* what design.md 173-175 says holds for files that can be read.
THEOREM ReadableKept == ASSUME Misreadable = {} PROVE Spec => []OnlyMalformedIsolated
<1>1. packagingError \subseteq Malformed \cup Misreadable => OnlyMalformedIsolated
  BY DEF OnlyMalformedIsolated
<1> QED
  BY <1>1, IsolationHasCause, PTL
=============================================================================
