-------------------------- MODULE PackagingProofs --------------------------
(***************************************************************************)
(* Theorems about Packaging, for every set of objects, every number and    *)
(* kind of projects, all sizes and thresholds.                             *)
(***************************************************************************)
EXTENDS Packaging, TLAPS

\* What the tests and lists of the steps stand for.
LEMMA StepsFacts ==
  /\ "claim" \in Steps /\ "scan" \in Steps /\ "reserve" \in Steps /\ "probe" \in Steps
  /\ "source" \in Steps /\ "package" \in Steps
  /\ BuildSteps \subseteq Steps /\ SourceSteps \subseteq Steps /\ PurgeSteps \subseteq Steps
  /\ BuildSteps \subseteq PackageSteps /\ PurgeSteps \subseteq PackageSteps
  /\ "reserve" \in PackageSteps /\ "probe" \in PackageSteps
  /\ {"claim", "scan", "source", "package"} \cap PackageSteps = {}
  /\ SourceSteps \cap PackageSteps = {}
BY DEF Steps, PackageSteps, BuildSteps, SourceSteps, PurgeSteps

\* A package ID stands for a nonempty set of objects.
LEMMA PackageIDsFact == \A s : s \in PackageIDs <=> s \in SUBSET Objects /\ s # {}
BY DEF PackageIDs

\* The empty store and the goroutine at the top of its loop have their types.
LEMMA TypeInit == Init => TypeOK
<1> SUFFICES ASSUME Init PROVE TypeOK
  OBVIOUS
<1>1. cursor \in Projects
  BY ProjectsAssumption, SMT DEF Init, Projects
<1>2. StoreTypeOK
  BY DEF Init, StoreInit, StoreTypeOK, NoPackage, Entry
<1> QED
  BY <1>1, <1>2, StepsFacts DEF Init, TypeOK, LocalTypeOK

-----------------------------------------------------------------------------
(* Type correctness *)

\* Where a step of the goroutine leaves it.
LEMMA LoopType == Loop => LocalTypeOK'
<1>1. 1 \in Projects
  BY ProjectsAssumption, SMT DEF Projects
<1> QED
  BY <1>1, StepsFacts DEF Loop, LocalTypeOK

\* Going on to the next project stays within the projects.
LEMMA NextProjectType == LocalTypeOK /\ NextProject => LocalTypeOK'
<1>1. 1 \in Projects
  BY ProjectsAssumption, SMT DEF Projects
<1>2. cursor \in Projects /\ cursor < NProjects => cursor + 1 \in Projects
  BY ProjectsAssumption, SMT DEF Projects
<1> QED
  BY <1>1, <1>2, StepsFacts DEF NextProject, LocalTypeOK

\* A step that works on a package is entered with one in hand.
LEMMA GoToType ==
  ASSUME LocalTypeOK, NEW step \in Steps, NEW thing \in SUBSET Objects,
         step \in PackageSteps => thing # {}, GoTo(step, thing)
  PROVE  LocalTypeOK'
BY PackageIDsFact DEF GoTo, LocalTypeOK

\* The locals of the goroutine keep their types.
LEMMA LocalTypeStep == TypeOK /\ Next => LocalTypeOK'
<1> SUFFICES ASSUME TypeOK, Next PROVE LocalTypeOK'
  OBVIOUS
<1>l. LocalTypeOK
  BY DEF TypeOK
<1>0. ASSUME Loop PROVE LocalTypeOK'
  BY <1>0, LoopType
<1>1. ASSUME BuildCycle PROVE LocalTypeOK'
  <2>1. ASSUME NEW p \in PackageIDs, NextBuildingPackage(p) PROVE LocalTypeOK'
    BY <1>l, <2>1, GoToType, StepsFacts, PackageIDsFact DEF NextBuildingPackage, BuildSteps
  <2>2. CASE NoBuildingPackage
    BY <1>l, <2>2, GoToType, StepsFacts, PackageIDsFact DEF NoBuildingPackage
  <2>3. CASE ScanNothing \/ ScanNotReady
    BY <1>l, <2>3, NextProjectType DEF ScanNothing, ScanNotReady
  <2>4. CASE ScanIdentity
    <3>1. PICK o \in Objects : hand' = {o}
      BY <2>4 DEF ScanIdentity, Candidates, TypeOK, StoreTypeOK
    <3>2. hand' \in PackageIDs
      BY <3>1, PackageIDsFact
    <3> QED
      BY <1>l, <2>4, <3>2, StepsFacts, PackageIDsFact DEF LocalTypeOK, ScanIdentity, storeVars
  <2>5. CASE ScanReady
    BY <1>l, <2>5, StepsFacts, PackageIDsFact DEF TypeOK, StoreTypeOK, LocalTypeOK, ScanReady, StaysDraining, Selected, Candidates
  <2>6. CASE Reserve
    <3>1. 1 \in Projects
      BY ProjectsAssumption, SMT DEF Projects
    <3> QED
      BY <1>l, <1>0, <2>6, <3>1, NextProjectType, StepsFacts DEF Reserve, LocalTypeOK, BuildSteps
  <2>7. CASE Merge
    BY <1>l, <2>7, GoToType, StepsFacts, PackageIDsFact DEF Merge, BuildSteps, LocalTypeOK
  <2>8. CASE PublishPayload \/ SyncPayload \/ PublishManifest \/ SyncManifest
    BY <1>l, <2>8, GoToType, StepsFacts, PackageIDsFact
    DEF PublishPayload, SyncPayload, PublishManifest, SyncManifest, BuildSteps, LocalTypeOK
  <2>9. CASE Seal \/ Probe
    BY <1>0, <2>9 DEF Seal, Probe, RetryBuild, Isolate
  <2> QED
    BY <1>1, <2>1, <2>2, <2>3, <2>4, <2>5, <2>6, <2>7, <2>8, <2>9 DEF BuildCycle
<1>2. ASSUME SourcePurgeCycle PROVE LocalTypeOK'
  <2>1. ASSUME NEW o \in Objects, NextSourceToPurge(o) PROVE LocalTypeOK'
    BY <1>l, <2>1, GoToType, StepsFacts, PackageIDsFact DEF NextSourceToPurge, SourceSteps
  <2>2. CASE NoSourceToPurge
    BY <1>l, <2>2, GoToType, StepsFacts, PackageIDsFact DEF NoSourceToPurge
  <2>3. CASE UnlinkSource \/ SyncSource
    BY <1>l, <2>3, GoToType, StepsFacts, PackageIDsFact DEF UnlinkSource, SyncSource, SourceSteps, LocalTypeOK
  <2>4. CASE MarkSourcePurged
    BY <1>0, <2>4 DEF MarkSourcePurged
  <2> QED
    BY <1>2, <2>1, <2>2, <2>3, <2>4 DEF SourcePurgeCycle
<1>3. ASSUME PackagePurgeCycle PROVE LocalTypeOK'
  <2>1. ASSUME NEW p \in PackageIDs, NextPackagePurge(p) PROVE LocalTypeOK'
    BY <1>l, <2>1, GoToType, StepsFacts, PackageIDsFact DEF NextPackagePurge, PurgeSteps
  <2>2. CASE UnlinkPackage \/ SyncPackage
    BY <1>l, <2>2, GoToType, StepsFacts, PackageIDsFact DEF UnlinkPackage, SyncPackage, PurgeSteps, LocalTypeOK
  <2>3. CASE NoPackageToPurge \/ MarkPackagePurged
    BY <1>0, <2>3 DEF NoPackageToPurge, MarkPackagePurged
  <2> QED
    BY <1>3, <2>1, <2>2, <2>3 DEF PackagePurgeCycle
<1>4. ASSUME Disruption PROVE LocalTypeOK'
  <2>1. CASE BuildFails
    BY <1>l, <2>1, GoToType, StepsFacts, PackageIDsFact DEF BuildFails, LocalTypeOK
  <2>2. CASE Disruption /\ ~BuildFails
    BY <1>0, <2>2 DEF Disruption, ProbeDenied, ProbeMisreads, PurgeSourceFails, PurgePackageFails, Crash,
      PowerLoss, RetryBuild, Isolate, MarkSourcePurgeRetry, MarkPackagePurgeRetry
  <2> QED
    BY <1>4, <2>1, <2>2
<1>5. ASSUME UNCHANGED localVars PROVE LocalTypeOK'
  BY <1>l, <1>5 DEF LocalTypeOK, localVars
<1>6. ASSUME Clock \/ Receiver \/ Delivery PROVE LocalTypeOK'
  BY <1>5, <1>6 DEF Clock, Receiver, Delivery, BuildBackoffElapses, RetentionElapses, SourceBackoffElapses,
    MaxWaitElapses, Accept, Index, DeliveryClaims, DeliverySucceeds, DeliveryFails, DeliveriesInterrupted
<1> QED
  BY <1>1, <1>2, <1>3, <1>4, <1>6 DEF Next, Undisturbed, Scheduler

\* Directory operations keep directories.
LEMMA DirTypes ==
  ASSUME NEW S, NEW dir \in [S -> Entry]
  PROVE  /\ SyncDir(dir) \in [S -> Entry]
         /\ \A kept : AfterPowerLoss(dir, kept) \in [S -> Entry]
         /\ \A x \in S : [dir EXCEPT ![x] = Published(@)] \in [S -> Entry]
         /\ \A x \in S : [dir EXCEPT ![x] = Removed(@)] \in [S -> Entry]
<1>1. \A e \in Entry : Synced(e) \in Entry /\ Published(e) \in Entry /\ Removed(e) \in Entry
  BY DEF Synced, Published, Removed, OnDisk, Entry
<1>2. SyncDir(dir) \in [S -> Entry]
  BY <1>1 DEF SyncDir
<1>3. \A kept : AfterPowerLoss(dir, kept) \in [S -> Entry]
  BY DEF AfterPowerLoss, Unsynced, Entry
<1> QED
  BY <1>1, <1>2, <1>3

\* Rows and files keep their types.
LEMMA StoreTypeStep == TypeOK /\ Next => StoreTypeOK' /\ aged' \subseteq Objects
<1> SUFFICES ASSUME TypeOK, Next PROVE StoreTypeOK' /\ aged' \subseteq Objects
  OBVIOUS
<1> USE DEF TypeOK, StoreTypeOK
<1>h. pc \in PackageSteps => hand \in PackageIDs
  BY DEF LocalTypeOK
<1>0. ASSUME UNCHANGED <<storeVars, aged>> PROVE StoreTypeOK' /\ aged' \subseteq Objects
  BY <1>0 DEF storeVars, dbVars, diskVars
\* The actions that write to the database.
<1>1. CASE ScanNothing
  BY <1>1 DEF ScanNothing, diskVars, LocalTypeOK
<1>2. CASE Reserve
  BY <1>2, <1>h, StepsFacts DEF Reserve, InsertPackage, diskVars, LocalTypeOK
<1>3. CASE Seal \/ MarkSourcePurged \/ MarkPackagePurged
  BY <1>3 DEF Seal, sealPackage, MarkSourcePurged, MarkPackagePurged, diskVars, LocalTypeOK
<1>4. ASSUME pc = "probe", RetryBuild PROVE StoreTypeOK' /\ aged' \subseteq Objects
  BY <1>4, <1>h, StepsFacts DEF RetryBuild, markPackageBuildRetry, diskVars
<1>5. ASSUME NEW invalid \in SUBSET Objects, pc = "probe", Isolate(invalid)
      PROVE  StoreTypeOK' /\ aged' \subseteq Objects
  <2>1. hand \in PackageIDs
    BY <1>5, <1>h, StepsFacts
  <2>2. members' \in [PackageIDs -> SUBSET Objects]
    BY <1>5, <2>1 DEF Isolate, isolateInvalidMembers
  <2>3. packageOf' \in [Objects -> SUBSET Objects]
    BY <1>5, <2>1 DEF Isolate, isolateInvalidMembers, NoPackage
  <2>4. pkgState' \in [PackageIDs -> {"none", "building", "sealed", "blocked"}]
    BY <1>5, <2>1 DEF Isolate, isolateInvalidMembers
  <2> QED
    BY <1>5, <2>2, <2>3, <2>4 DEF Isolate, isolateInvalidMembers, diskVars
<1>6. CASE Probe \/ ProbeDenied \/ \E misread \in SUBSET Misreadable : ProbeMisreads(misread)
  <2>1. hand \in PackageIDs \/ pc # "probe"
    BY <1>h, StepsFacts
  <2>2. hand \in PackageIDs => members[hand] \subseteq Objects
    OBVIOUS
  <2>3. hand \in PackageIDs => InvalidMembers \in SUBSET Objects
    BY <2>2 DEF InvalidMembers
  <2> QED
    BY <1>4, <1>5, <1>6, <2>1, <2>2, <2>3 DEF Probe, ProbeDenied, ProbeMisreads
<1>7. ASSUME NEW p \in PackageIDs, BuildBackoffElapses(p) \/ RetentionElapses(p)
      PROVE  StoreTypeOK' /\ aged' \subseteq Objects
  BY <1>7 DEF BuildBackoffElapses, RetentionElapses, diskVars
<1>8. ASSUME NEW o \in Objects, SourceBackoffElapses(o) \/ MaxWaitElapses(o)
      PROVE  StoreTypeOK' /\ aged' \subseteq Objects
  BY <1>8 DEF SourceBackoffElapses, MaxWaitElapses, storeVars, dbVars, diskVars
<1>9. ASSUME NEW o \in Objects, Accept(o) \/ Index(o) PROVE StoreTypeOK' /\ aged' \subseteq Objects
  <2>1. SyncDir(upload) \in [Objects -> Entry]
    BY DirTypes
  <2> QED
    BY <1>9, <2>1 DEF Accept, Index, addArtifact, dbVars, diskVars, Entry
<1>10. ASSUME NEW p \in PackageIDs, DeliveryClaims(p) \/ DeliverySucceeds(p) \/ DeliveryFails(p)
       PROVE  StoreTypeOK' /\ aged' \subseteq Objects
  BY <1>10 DEF DeliveryClaims, DeliverySucceeds, DeliveryFails, claimPackageDelivery, Deliverable,
    markPackageDelivered, markPackageRetry, diskVars
<1>10i. CASE DeliveriesInterrupted
  BY <1>10i DEF DeliveriesInterrupted, recoverInterruptedDeliveries, diskVars
\* The actions that change files.
<1>11. /\ payload \in [PackageIDs -> Entry] /\ manifest \in [PackageIDs -> Entry]
       /\ upload \in [Objects -> Entry]
  OBVIOUS
<1>12. CASE PublishPayload \/ SyncPayload \/ PublishManifest \/ SyncManifest
  <2>1. hand \in PackageIDs
    BY <1>12, <1>h, StepsFacts DEF PublishPayload, SyncPayload, PublishManifest, SyncManifest, BuildSteps
  <2> QED
    BY <1>11, <1>12, <2>1, DirTypes DEF PublishPayload, SyncPayload, PublishManifest, SyncManifest, dbVars
<1>13. CASE UnlinkPackage \/ SyncPackage
  <2>1. hand \in PackageIDs
    BY <1>13, <1>h, StepsFacts DEF UnlinkPackage, SyncPackage, PurgeSteps
  <2> QED
    <3>1. payload' \in [PackageIDs -> Entry] /\ manifest' \in [PackageIDs -> Entry]
      BY <1>11, <1>13, <2>1 DEF UnlinkPackage, SyncPackage, SyncDir, Synced, Removed, OnDisk, Entry
    <3> QED
      BY <1>13, <3>1 DEF UnlinkPackage, SyncPackage, dbVars
<1>14. CASE PurgePackageFails
  <2>1. hand \in PackageIDs
    BY <1>14, <1>h, StepsFacts DEF PurgePackageFails, PurgeSteps
  <2> QED
    <3>1. payload' \in [PackageIDs -> Entry] /\ manifest' \in [PackageIDs -> Entry]
      <4>1. /\ SyncDir(payload) \in [PackageIDs -> Entry] /\ SyncDir(manifest) \in [PackageIDs -> Entry]
            /\ [payload EXCEPT ![hand] = Removed(@)] \in [PackageIDs -> Entry]
            /\ [manifest EXCEPT ![hand] = Removed(@)] \in [PackageIDs -> Entry]
        BY <1>11, <2>1, DirTypes
      <4> QED
        BY <1>11, <1>14, <4>1 DEF PurgePackageFails
    <3>2. purge' \in [PackageIDs -> {"unset", "waiting", "due", "done"}]
      BY <1>14, <2>1 DEF PurgePackageFails, MarkPackagePurgeRetry
    <3> QED
      BY <1>14, <3>1, <3>2 DEF PurgePackageFails, MarkPackagePurgeRetry
<1>15. RemoveUpload => upload' \in [Objects -> Entry]
  BY DEF RemoveUpload, Removed, OnDisk, Entry
<1>16. CASE UnlinkSource \/ SyncSource
  BY <1>15, <1>16, DirTypes DEF UnlinkSource, SyncSource, dbVars
<1>17. CASE PurgeSourceFails
  BY <1>15, <1>17 DEF PurgeSourceFails, MarkSourcePurgeRetry, LocalTypeOK
<1>18. CASE PowerLoss
  <2>1. \A kept : /\ AfterPowerLoss(upload, kept) \in [Objects -> Entry]
                  /\ AfterPowerLoss(payload, kept) \in [PackageIDs -> Entry]
                  /\ AfterPowerLoss(manifest, kept) \in [PackageIDs -> Entry]
    BY <1>11, DirTypes
  <2>2. upload' \in [Objects -> Entry] /\ payload' \in [PackageIDs -> Entry] /\ manifest' \in [PackageIDs -> Entry]
    BY <1>18, <2>1 DEF PowerLoss
  <2> QED
    BY <1>18, <2>2 DEF PowerLoss, dbVars
<1> QED
  BY <1>0, <1>1, <1>2, <1>3, <1>6, <1>7, <1>8, <1>9, <1>10, <1>10i, <1>12, <1>13, <1>14, <1>16, <1>17, <1>18
  DEF Next, Undisturbed, Scheduler, BuildCycle, SourcePurgeCycle, PackagePurgeCycle, Disruption, Clock,
    Receiver, Delivery, NextBuildingPackage, NoBuildingPackage, ScanIdentity, ScanNotReady, ScanReady, Merge,
    NextSourceToPurge, NoSourceToPurge, NextPackagePurge, NoPackageToPurge, BuildFails, Crash

\* Every variable keeps its type; in particular the goroutine always has a
\* package in hand where it works on one.
THEOREM TypeCorrect == Spec => []TypeOK
<1>1. TypeOK /\ [Next]_vars => TypeOK'
  <2>1. TypeOK /\ UNCHANGED vars => TypeOK'
    BY DEF TypeOK, StoreTypeOK, LocalTypeOK, vars, storeVars, dbVars, diskVars, localVars
  <2> QED
    BY <2>1, LocalTypeStep, StoreTypeStep DEF TypeOK
<1> QED
  BY <1>1, TypeInit, PTL DEF Spec

-----------------------------------------------------------------------------
(* The rows *)

RowTables == MembershipConsistent /\ BlockedHoldsFailedOnly /\ RowStates

\* The columns RowTables speaks of.
rowVars == <<indexed, receipts, packageOf, packagingError, sourcePurged, pkgState, members, purge, delState>>

\* The tables agree as long as no column they speak of changes.
LEMMA RowTablesUnchanged == RowTables /\ UNCHANGED rowVars => RowTables'
BY DEF RowTables, rowVars, MembershipConsistent, BlockedHoldsFailedOnly, RowStates

\* The tables agree in the empty store.
LEMMA RowInit == Init => RowInv
<1> SUFFICES ASSUME Init PROVE RowInv
  OBVIOUS
<1>1. \A p \in PackageIDs : p # {}
  BY DEF PackageIDs
<1>2. MembershipConsistent
  <2> SUFFICES ASSUME NEW p \in PackageIDs
               PROVE  members[p] = {o \in Objects : packageOf[o] = p} /\ pkgState[p] = "none"
    BY DEF MembershipConsistent
  <2> QED
    BY <1>1 DEF Init, StoreInit, NoPackage
<1>3. BlockedHoldsFailedOnly /\ RowStates /\ HandRows
  BY DEF Init, StoreInit, BlockedHoldsFailedOnly, RowStates, HandRows, NoPackage, BuildSteps, SourceSteps, PurgeSteps
<1> QED
  BY <1>2, <1>3 DEF RowInv

\* A selection has no row of its own yet, and each of its members is free: what
\* isolation leaves in a blocked package is failed, so no blocked package has
\* only candidates as members.
LEMMA SelectionIsNew ==
  ASSUME TypeOK, RowTables, HandRows, pc = "reserve"
  PROVE  hand \in PackageIDs /\ pkgState[hand] = "none" /\ Reservable(hand) /\ hand \cap packagingError = {}
<1>1. hand \in PackageIDs /\ hand # {} /\ hand \subseteq Objects
  BY StepsFacts, PackageIDsFact DEF TypeOK, LocalTypeOK
<1>2. \A o \in hand : packageOf[o] = NoPackage /\ o \notin packagingError
  BY DEF HandRows, Candidates
<1>3. \A o \in hand, q \in PackageIDs : o \notin members[q]
  BY <1>1, <1>2 DEF RowTables, MembershipConsistent, NoPackage, PackageIDs
<1>4. members[hand] = {}
  BY <1>1, <1>3 DEF RowTables, RowStates
<1>5. pkgState[hand] \notin {"building", "sealed"}
  BY <1>1, <1>4 DEF RowTables, MembershipConsistent
<1>6. pkgState[hand] # "blocked"
  BY <1>1, <1>4 DEF RowTables, BlockedHoldsFailedOnly
<1>7. pkgState[hand] = "none"
  BY <1>1, <1>5, <1>6 DEF TypeOK, StoreTypeOK
<1> QED
  BY <1>1, <1>2, <1>3, <1>7 DEF Reservable

\* The two steps that move artifacts between packages.
LEMMA ReserveRows ==
  ASSUME TypeOK, RowTables, HandRows, Reserve
  PROVE  RowTables' /\ HandRows'
<1>1. /\ hand \in PackageIDs /\ pkgState[hand] = "none"
      /\ \A o \in hand : packageOf[o] = NoPackage /\ o \notin packagingError /\ o \in indexed
      /\ \A o \in hand, q \in PackageIDs : o \notin members[q]
  BY SelectionIsNew DEF Reserve, Reservable, HandRows, Candidates
<1>2. /\ InsertPackage(hand) /\ pc' = "merge" /\ hand' = hand
      /\ UNCHANGED <<indexed, receipts, packagingError, sourcePurged, purge>>
  BY <1>1 DEF Reserve, Reservable, diskVars
<1>3. /\ pkgState' = [pkgState EXCEPT ![hand] = "building"]
      /\ members' = [members EXCEPT ![hand] = hand]
      /\ packageOf' = [o \in Objects |-> IF o \in hand THEN hand ELSE packageOf[o]]
      /\ delState' = [delState EXCEPT ![hand] = "pending"]
  BY <1>2 DEF InsertPackage
<1>4. hand \subseteq Objects /\ hand # {}
  BY <1>1, PackageIDsFact
<1>5. MembershipConsistent'
  <2> SUFFICES ASSUME NEW p \in PackageIDs
               PROVE  /\ members'[p] = {o \in Objects : packageOf'[o] = p}
                      /\ pkgState'[p] \in {"building", "sealed"} => members'[p] = p
    BY DEF MembershipConsistent
  <2>1. CASE p = hand
    <3>1. {o \in Objects : packageOf'[o] = hand} = hand
      <4>1. \A o \in Objects : packageOf[o] # hand
        BY <1>1 DEF RowTables, MembershipConsistent, RowStates
      <4> QED
        BY <1>3, <1>4, <4>1
    <3> QED
      BY <1>1, <1>3, <2>1, <3>1 DEF TypeOK, StoreTypeOK
  <2>2. CASE p # hand
    <3>1. members'[p] = members[p] /\ pkgState'[p] = pkgState[p]
      BY <1>3, <2>2 DEF TypeOK, StoreTypeOK
    <3>2. \A o \in Objects : packageOf'[o] = p <=> packageOf[o] = p
      BY <1>1, <1>3, <2>2, PackageIDsFact DEF NoPackage
    <3> QED
      BY <3>1, <3>2 DEF RowTables, MembershipConsistent
  <2> QED
    BY <2>1, <2>2
<1>6. BlockedHoldsFailedOnly'
  BY <1>1, <1>2, <1>3, PackageIDsFact DEF RowTables, BlockedHoldsFailedOnly, TypeOK, StoreTypeOK, NoPackage
<1>7. RowStates'
  BY <1>1, <1>2, <1>3 DEF RowTables, RowStates, TypeOK, StoreTypeOK
<1>8. HandRows'
  BY <1>1, <1>2, <1>3 DEF HandRows, TypeOK, StoreTypeOK, BuildSteps, SourceSteps, PurgeSteps
<1> QED
  BY <1>5, <1>6, <1>7, <1>8 DEF RowTables

\* isolateInvalidMembers: failed members stay in the blocked package, the
\* others become candidates.
LEMMA IsolateRows ==
  ASSUME TypeOK, RowTables, HandRows, pc = "probe",
         NEW invalid, invalid \subseteq members[hand], invalid # {}, Isolate(invalid)
  PROVE  RowTables' /\ HandRows'
<1>1. hand \in PackageIDs /\ pkgState[hand] = "building" /\ members[hand] = hand
  BY StepsFacts DEF TypeOK, LocalTypeOK, HandRows, RowTables, MembershipConsistent
<1>2. hand \subseteq Objects /\ \A o \in hand : packageOf[o] = hand /\ o \notin packagingError
  BY <1>1, PackageIDsFact DEF RowTables, MembershipConsistent, BlockedHoldsFailedOnly
<1>3. /\ packagingError' = packagingError \cup invalid
      /\ members' = [members EXCEPT ![hand] = invalid]
      /\ packageOf' = [o \in Objects |-> IF packageOf[o] = hand /\ o \notin invalid THEN NoPackage ELSE packageOf[o]]
      /\ pkgState' = [pkgState EXCEPT ![hand] = "blocked"]
  <2>1. members[hand] \cap (packagingError \cup invalid) = invalid
    BY <1>1, <1>2
  <2>2. \A o \in Objects : packageOf[o] = hand => (o \in packagingError \cup invalid <=> o \in invalid)
    BY <1>1, <1>2 DEF RowTables, MembershipConsistent
  <2> QED
    BY <2>1, <2>2 DEF Isolate, isolateInvalidMembers
<1>4. pc' = "claim" /\ UNCHANGED <<indexed, receipts, sourcePurged, purge, delState>>
  BY DEF Isolate, Loop, diskVars
<1>5. MembershipConsistent'
  <2> SUFFICES ASSUME NEW p \in PackageIDs
               PROVE  /\ members'[p] = {o \in Objects : packageOf'[o] = p}
                      /\ pkgState'[p] \in {"building", "sealed"} => members'[p] = p
    BY DEF MembershipConsistent
  <2>1. CASE p = hand
    <3>1. \A o \in Objects : packageOf'[o] = hand <=> o \in invalid
      BY <1>1, <1>2, <1>3, PackageIDsFact DEF NoPackage, RowTables, MembershipConsistent
    <3> QED
      BY <1>1, <1>2, <1>3, <2>1, <3>1 DEF TypeOK, StoreTypeOK
  <2>2. CASE p # hand
    <3>1. members'[p] = members[p] /\ pkgState'[p] = pkgState[p]
      BY <1>3, <2>2 DEF TypeOK, StoreTypeOK
    <3>2. \A o \in Objects : packageOf'[o] = p <=> packageOf[o] = p
      BY <1>3, <2>2, PackageIDsFact DEF NoPackage
    <3> QED
      BY <3>1, <3>2 DEF RowTables, MembershipConsistent
  <2> QED
    BY <2>1, <2>2
<1>6. BlockedHoldsFailedOnly'
  <2>1. ASSUME NEW p \in PackageIDs, pkgState'[p] = "blocked"
        PROVE  members'[p] # {} /\ members'[p] \subseteq packagingError'
    BY <1>1, <1>3, <2>1 DEF RowTables, BlockedHoldsFailedOnly, TypeOK, StoreTypeOK
  <2>2. ASSUME NEW o \in packagingError'
        PROVE  packageOf'[o] # NoPackage /\ pkgState'[packageOf'[o]] = "blocked"
    <3>1. CASE o \in invalid
      BY <1>1, <1>2, <1>3, <3>1, PackageIDsFact DEF NoPackage, TypeOK, StoreTypeOK
    <3>2. CASE o \in packagingError /\ o \notin invalid
      <4>1. o \in Objects /\ packageOf[o] # NoPackage /\ pkgState[packageOf[o]] = "blocked"
        BY <3>2 DEF RowTables, BlockedHoldsFailedOnly, TypeOK, StoreTypeOK
      <4>2. packageOf[o] # hand /\ packageOf[o] \in PackageIDs
        BY <1>1, <4>1, PackageIDsFact DEF TypeOK, StoreTypeOK, NoPackage
      <4> QED
        BY <1>3, <4>1, <4>2 DEF TypeOK, StoreTypeOK
    <3> QED
      BY <1>3, <2>2, <3>1, <3>2
  <2> QED
    BY <2>1, <2>2 DEF BlockedHoldsFailedOnly
<1>7. RowStates'
  <2>1. \A p \in PackageIDs : members'[p] \subseteq p /\ (pkgState'[p] = "none" => members'[p] = {})
    BY <1>1, <1>3 DEF RowTables, RowStates, TypeOK, StoreTypeOK
  <2>2. delState[hand] \notin {"delivering", "retry_wait", "delivered"}
    BY <1>1 DEF RowTables, RowStates
  <2> QED
    BY <1>1, <1>3, <1>4, <2>1, <2>2 DEF RowTables, RowStates, TypeOK, StoreTypeOK
<1>8. HandRows'
  BY <1>4 DEF HandRows, BuildSteps, SourceSteps, PurgeSteps
<1> QED
  BY <1>5, <1>6, <1>7, <1>8 DEF RowTables

\* Steps of the goroutine that leave the rows alone only move it: each takes
\* something in hand whose rows are as they must be, or goes on with it.
LEMMA MoveRows ==
  ASSUME TypeOK, RowTables, HandRows, UNCHANGED dbVars, UNCHANGED receipts,
         \/ Loop \/ NextProject \/ GoTo("scan", {}) \/ GoTo("source", {}) \/ GoTo("package", {})
         \/ \E p \in PackageIDs : p \in BuildingPackages /\ GoTo("merge", p)
         \/ \E o \in Objects : o \in SourcesToPurge /\ GoTo("unlinkSource", {o})
         \/ \E p \in PackageIDs : p \in PackagesToPurge /\ GoTo("unlinkPackage", p)
         \/ pc' = "reserve" /\ hand' \subseteq Candidates(cursor) /\ cursor' = cursor
         \/ pc \in BuildSteps /\ pc' \in BuildSteps \cup {"probe"} /\ hand' = hand
         \/ pc \in SourceSteps /\ pc' \in SourceSteps /\ hand' = hand
         \/ pc \in PurgeSteps /\ pc' \in PurgeSteps /\ hand' = hand
  PROVE  RowTables' /\ HandRows'
<1>1. RowTables'
  BY RowTablesUnchanged DEF rowVars, dbVars
<1> USE DEF HandRows, BuildSteps, SourceSteps, PurgeSteps, dbVars
<1>2. CASE Loop \/ NextProject \/ GoTo("scan", {}) \/ GoTo("source", {}) \/ GoTo("package", {})
  BY <1>1, <1>2 DEF Loop, NextProject, GoTo
<1>3. CASE \E p \in PackageIDs : p \in BuildingPackages /\ GoTo("merge", p)
  BY <1>1, <1>3 DEF GoTo, BuildingPackages
<1>4. CASE \E o \in Objects : o \in SourcesToPurge /\ GoTo("unlinkSource", {o})
  BY <1>1, <1>4 DEF GoTo, SourcesToPurge, Sealed
<1>5. CASE \E p \in PackageIDs : p \in PackagesToPurge /\ GoTo("unlinkPackage", p)
  BY <1>1, <1>5 DEF GoTo, PackagesToPurge
<1>6. CASE pc' = "reserve" /\ hand' \subseteq Candidates(cursor) /\ cursor' = cursor
  BY <1>1, <1>6 DEF Candidates
<1>7. CASE pc \in BuildSteps /\ pc' \in BuildSteps \cup {"probe"} /\ hand' = hand
  BY <1>1, <1>7
<1>8. CASE pc \in SourceSteps /\ pc' \in SourceSteps /\ hand' = hand
  BY <1>1, <1>8 DEF Sealed
<1>9. CASE pc \in PurgeSteps /\ pc' \in PurgeSteps /\ hand' = hand
  BY <1>1, <1>9
<1> QED
  BY <1>2, <1>3, <1>4, <1>5, <1>6, <1>7, <1>8, <1>9

\* Every step keeps the tables and what the goroutine has in hand consistent.
LEMMA RowStep == TypeOK /\ RowInv /\ [Next]_vars => RowInv'
<1> SUFFICES ASSUME TypeOK, RowInv, [Next]_vars PROVE RowTables' /\ HandRows'
  BY DEF RowInv, RowTables
<1>h. RowTables /\ HandRows
  BY DEF RowInv, RowTables
\* The goroutine starts over: nothing in hand.
<1>l. Loop => HandRows'
  BY DEF Loop, HandRows, BuildSteps, SourceSteps, PurgeSteps
\* The environment leaves what is in hand there.
<1>e. ASSUME UNCHANGED localVars, UNCHANGED <<packageOf, packagingError, pkgState>>, indexed \subseteq indexed',
             pc \in PurgeSteps => delState'[hand] = delState[hand] /\ purge'[hand] = purge[hand]
      PROVE  HandRows'
  BY <1>h, <1>e DEF HandRows, Candidates, Sealed, localVars
<1>1. CASE NextBuildingPackage(hand') /\ hand' \in PackageIDs
  BY <1>h, <1>1, MoveRows DEF NextBuildingPackage, storeVars, diskVars
<1>2. CASE NoBuildingPackage \/ NoSourceToPurge \/ NoPackageToPurge \/ Crash \/ PowerLoss \/ ScanNotReady
  BY <1>h, <1>2, MoveRows
  DEF NoBuildingPackage, NoSourceToPurge, NoPackageToPurge, Crash, PowerLoss, ScanNotReady, storeVars, diskVars
<1>3. CASE ScanNothing
  <2>1. RowTables'
    BY <1>h, <1>3, RowTablesUnchanged DEF ScanNothing, rowVars, diskVars
  <2> QED
    BY <1>3, <2>1 DEF ScanNothing, NextProject, HandRows, BuildSteps, SourceSteps, PurgeSteps
<1>4. CASE ScanIdentity \/ ScanReady
  <2>1. pc' = "reserve" /\ hand' \subseteq Candidates(cursor) /\ UNCHANGED <<storeVars, cursor>>
    BY <1>4 DEF ScanIdentity, ScanReady, Selected
  <2> QED
    BY <1>h, <2>1, MoveRows DEF storeVars, diskVars
<1>5. CASE Reserve
  BY <1>h, <1>5, ReserveRows
<1>6. CASE Merge \/ PublishPayload \/ SyncPayload \/ PublishManifest \/ SyncManifest \/ BuildFails
  <2>1. /\ pc \in BuildSteps /\ pc' \in BuildSteps \cup {"probe"} /\ hand' = hand
        /\ UNCHANGED dbVars /\ UNCHANGED receipts
    BY <1>6 DEF Merge, PublishPayload, SyncPayload, PublishManifest, SyncManifest, BuildFails, GoTo,
      BuildSteps, storeVars, diskVars
  <2> QED
    BY <1>h, <2>1, MoveRows
<1>7. CASE Seal
  <2>1. hand \in PackageIDs /\ pkgState[hand] = "building"
    BY <1>h, <1>7, StepsFacts DEF Seal, TypeOK, LocalTypeOK, HandRows, BuildSteps
  <2>2. /\ pkgState' = [pkgState EXCEPT ![hand] = "sealed"]
        /\ UNCHANGED <<indexed, receipts, packageOf, packagingError, sourcePurged, members, purge, delState>>
    BY <1>7 DEF Seal, sealPackage, diskVars
  <2>3. MembershipConsistent'
    BY <1>h, <2>1, <2>2 DEF RowTables, MembershipConsistent, TypeOK, StoreTypeOK
  <2>4. BlockedHoldsFailedOnly'
    BY <1>h, <2>1, <2>2 DEF RowTables, BlockedHoldsFailedOnly, TypeOK, StoreTypeOK
  <2>5. RowStates'
    BY <1>h, <2>1, <2>2 DEF RowTables, RowStates, TypeOK, StoreTypeOK
  <2> QED
    BY <1>l, <1>7, <2>3, <2>4, <2>5 DEF Seal, RowTables
<1>8. ASSUME RetryBuild PROVE RowTables' /\ HandRows'
  BY <1>h, <1>l, <1>8, RowTablesUnchanged DEF RetryBuild, rowVars, diskVars
<1>9. CASE Probe \/ ProbeDenied \/ \E misread \in SUBSET Misreadable : ProbeMisreads(misread)
  BY <1>h, <1>8, <1>9, IsolateRows DEF Probe, ProbeDenied, ProbeMisreads, InvalidMembers
<1>10. CASE \E o \in Objects : NextSourceToPurge(o)
  BY <1>h, <1>10, MoveRows DEF NextSourceToPurge, storeVars, diskVars
<1>11. CASE UnlinkSource \/ SyncSource
  <2>1. pc \in SourceSteps /\ pc' \in SourceSteps /\ hand' = hand /\ UNCHANGED dbVars /\ UNCHANGED receipts
    BY <1>11 DEF UnlinkSource, SyncSource, GoTo, SourceSteps
  <2> QED
    BY <1>h, <2>1, MoveRows
<1>12. CASE MarkSourcePurged
  <2>1. \A o \in hand : o \in receipts
    BY <1>h, <1>12 DEF MarkSourcePurged, HandRows, RowTables, RowStates, Sealed, SourceSteps, TypeOK, LocalTypeOK
  <2>2. /\ sourcePurged' = sourcePurged \cup hand
        /\ UNCHANGED <<indexed, receipts, packageOf, packagingError, pkgState, members, purge, delState>>
    BY <1>12 DEF MarkSourcePurged, diskVars
  <2>3. RowTables'
    BY <1>h, <2>1, <2>2 DEF RowTables, MembershipConsistent, BlockedHoldsFailedOnly, RowStates
  <2> QED
    BY <1>l, <1>12, <2>3 DEF MarkSourcePurged
<1>13. CASE PurgeSourceFails
  BY <1>h, <1>l, <1>13, RowTablesUnchanged DEF PurgeSourceFails, MarkSourcePurgeRetry, rowVars
<1>14. CASE \E p \in PackageIDs : NextPackagePurge(p)
  BY <1>h, <1>14, MoveRows DEF NextPackagePurge, storeVars, diskVars
<1>15. CASE UnlinkPackage \/ SyncPackage
  <2>1. pc \in PurgeSteps /\ pc' \in PurgeSteps /\ hand' = hand /\ UNCHANGED dbVars /\ UNCHANGED receipts
    BY <1>15 DEF UnlinkPackage, SyncPackage, GoTo, PurgeSteps
  <2> QED
    BY <1>h, <2>1, MoveRows
<1>16. CASE MarkPackagePurged \/ PurgePackageFails
  <2>1. delState[hand] = "delivered"
    BY <1>h, <1>16 DEF MarkPackagePurged, PurgePackageFails, HandRows, PurgeSteps
  <2>2. /\ \E v : purge' = [purge EXCEPT ![hand] = v]
        /\ UNCHANGED <<indexed, receipts, packageOf, packagingError, sourcePurged, pkgState, members, delState>>
    BY <1>16 DEF MarkPackagePurged, PurgePackageFails, MarkPackagePurgeRetry, diskVars
  <2>3. RowTables'
    BY <1>h, <2>1, <2>2 DEF RowTables, MembershipConsistent, BlockedHoldsFailedOnly, RowStates, TypeOK, StoreTypeOK
  <2> QED
    BY <1>l, <1>16, <2>3 DEF MarkPackagePurged, PurgePackageFails, MarkPackagePurgeRetry
<1>17. ASSUME NEW p \in PackageIDs, BuildBackoffElapses(p) PROVE RowTables' /\ HandRows'
  BY <1>h, <1>e, <1>17, RowTablesUnchanged DEF BuildBackoffElapses, rowVars, diskVars
<1>18. ASSUME NEW o \in Objects, SourceBackoffElapses(o) \/ MaxWaitElapses(o) PROVE RowTables' /\ HandRows'
  BY <1>h, <1>e, <1>18, RowTablesUnchanged
  DEF SourceBackoffElapses, MaxWaitElapses, rowVars, diskVars, storeVars, dbVars
<1>19. ASSUME NEW p \in PackageIDs, RetentionElapses(p) PROVE RowTables' /\ HandRows'
  <2>1. /\ purge' = [purge EXCEPT ![p] = "due"] /\ purge[p] = "waiting"
        /\ UNCHANGED <<indexed, receipts, packageOf, packagingError, sourcePurged, pkgState, members, delState>>
        /\ UNCHANGED localVars
    BY <1>19 DEF RetentionElapses, diskVars
  <2>2. RowTables'
    BY <1>h, <2>1 DEF RowTables, MembershipConsistent, BlockedHoldsFailedOnly, RowStates, TypeOK, StoreTypeOK
  <2>3. pc \in PurgeSteps => delState'[hand] = delState[hand] /\ purge'[hand] = purge[hand]
    BY <1>h, <2>1 DEF HandRows, TypeOK, StoreTypeOK
  <2> QED
    BY <1>e, <2>1, <2>2, <2>3
<1>20. ASSUME NEW o \in Objects, Accept(o) \/ Index(o) PROVE RowTables' /\ HandRows'
  <2>1. /\ receipts \subseteq receipts' /\ indexed \subseteq indexed' /\ indexed' \subseteq receipts'
        /\ UNCHANGED <<packageOf, packagingError, sourcePurged, pkgState, members, purge, delState>>
        /\ UNCHANGED localVars
    BY <1>h, <1>20 DEF Accept, Index, addArtifact, dbVars, diskVars, RowTables, RowStates
  <2>2. RowTables'
    BY <1>h, <2>1 DEF RowTables, MembershipConsistent, BlockedHoldsFailedOnly, RowStates
  <2> QED
    BY <1>e, <2>1, <2>2
<1>21. ASSUME NEW p \in PackageIDs, DeliveryClaims(p) \/ DeliverySucceeds(p) \/ DeliveryFails(p)
       PROVE  RowTables' /\ HandRows'
  <2>1. /\ pkgState[p] = "sealed"
        /\ delState[p] # "delivered"
        /\ \E v \in {"delivering", "retry_wait", "delivered"} : delState' = [delState EXCEPT ![p] = v]
        /\ \/ UNCHANGED purge
           \/ delState' = [delState EXCEPT ![p] = "delivered"] /\ \E v : purge' = [purge EXCEPT ![p] = v]
        /\ UNCHANGED <<indexed, receipts, packageOf, packagingError, sourcePurged, pkgState, members>>
        /\ UNCHANGED localVars
    BY <1>h, <1>21 DEF DeliveryClaims, DeliverySucceeds, DeliveryFails, claimPackageDelivery, Deliverable,
      markPackageDelivered, markPackageRetry, diskVars, RowTables, RowStates
  <2>2. MembershipConsistent' /\ BlockedHoldsFailedOnly'
    BY <1>h, <2>1 DEF RowTables, MembershipConsistent, BlockedHoldsFailedOnly
  <2>3. RowStates'
    BY <1>h, <2>1 DEF RowTables, RowStates, TypeOK, StoreTypeOK
  <2>4. pc \in PurgeSteps => delState'[hand] = delState[hand] /\ purge'[hand] = purge[hand]
    <3> SUFFICES ASSUME pc \in PurgeSteps PROVE delState'[hand] = delState[hand] /\ purge'[hand] = purge[hand]
      OBVIOUS
    <3>1. hand \in PackageIDs /\ hand # p
      BY <1>h, <2>1, StepsFacts DEF HandRows, TypeOK, LocalTypeOK
    <3> QED
      BY <2>1, <3>1 DEF TypeOK, StoreTypeOK
  <2> QED
    BY <1>e, <2>1, <2>2, <2>3, <2>4 DEF RowTables
<1>21i. CASE DeliveriesInterrupted
  <2>1. /\ \A p \in PackageIDs : delState'[p] = IF delState[p] = "delivering" THEN "retry_wait" ELSE delState[p]
        /\ UNCHANGED <<indexed, receipts, packageOf, packagingError, sourcePurged, pkgState, members, purge>>
        /\ UNCHANGED localVars
    BY <1>21i DEF DeliveriesInterrupted, recoverInterruptedDeliveries, diskVars
  <2>2. MembershipConsistent' /\ BlockedHoldsFailedOnly'
    BY <1>h, <2>1 DEF RowTables, MembershipConsistent, BlockedHoldsFailedOnly
  <2>3. RowStates'
    BY <1>h, <2>1 DEF RowTables, RowStates
  <2>4. pc \in PurgeSteps => delState'[hand] = delState[hand] /\ purge'[hand] = purge[hand]
    BY <1>h, <2>1, StepsFacts DEF HandRows, TypeOK, LocalTypeOK
  <2> QED
    BY <1>e, <2>1, <2>2, <2>3, <2>4 DEF RowTables
<1>22. CASE UNCHANGED vars
  BY <1>h, <1>e, <1>22, RowTablesUnchanged DEF vars, storeVars, dbVars, diskVars, rowVars
<1>23. \A p \in PackageIDs : NextBuildingPackage(p) => p = hand'
  BY DEF NextBuildingPackage, GoTo
<1> QED
  BY <1>1, <1>2, <1>3, <1>4, <1>5, <1>6, <1>7, <1>9, <1>10, <1>11, <1>12, <1>13, <1>14, <1>15, <1>16, <1>17,
     <1>18, <1>19, <1>20, <1>21, <1>21i, <1>22, <1>23
  DEF Next, Undisturbed, Scheduler, BuildCycle, SourcePurgeCycle, PackagePurgeCycle, Disruption, Clock,
    Receiver, Delivery

-----------------------------------------------------------------------------
(* The files *)

FileTables == UndeliveredPackageKept /\ PurgedStaysGone /\ FileStates

\* Steps at which HandFiles asks nothing.
NoFileSteps == {"claim", "scan", "reserve", "probe", "source", "package", "merge", "publishPayload",
                "unlinkSource", "unlinkPackage"}

\* Before the first rename and removal nothing is asked of the files in hand.
LEMMA NoHandFiles == pc' \in NoFileSteps => HandFiles'
BY DEF NoFileSteps, HandFiles

\* No file is there at the start.
LEMMA FileInit == Init => FileInv
BY DEF Init, StoreInit, FileInv, UndeliveredPackageKept, PurgedStaysGone, FileStates, HandFiles

\* What changes of a row leave of the promises about files: artifacts keep a
\* sealed package, nothing is sealed, un-delivered or marked as purged.
LEMMA RowChangeKeepsFiles ==
  ASSUME TypeOK, FileTables, UNCHANGED diskVars,
         \A o \in Objects : Sealed(o) => Sealed(o)',
         \A p \in PackageIDs : /\ pkgState'[p] = "sealed" => pkgState[p] = "sealed"
                               /\ delState[p] = "delivered" => delState'[p] = "delivered"
                               /\ purge'[p] = "done" => purge[p] = "done",
         sourcePurged' = sourcePurged
  PROVE  FileTables'
BY DEF FileTables, UndeliveredPackageKept, PurgedStaysGone, FileStates, PackageStored, diskVars

\* A step that moves artifacts only between packages that are not sealed.
LEMMA SealedKept ==
  ASSUME TypeOK, hand \in PackageIDs, pkgState[hand] # "sealed",
         \A o \in Objects : packageOf'[o] # packageOf[o] => packageOf[o] \in {NoPackage, hand},
         \A p \in PackageIDs : p # hand => pkgState'[p] = pkgState[p]
  PROVE  \A o \in Objects : Sealed(o) => Sealed(o)'
BY PackageIDsFact DEF Sealed, TypeOK, StoreTypeOK, NoPackage

\* Every step keeps the files that rows promise, a power loss included.
LEMMA FileStep == TypeOK /\ RowInv /\ FileInv /\ [Next]_vars => FileInv'
<1> SUFFICES ASSUME TypeOK, RowInv, FileInv, [Next]_vars PROVE FileTables' /\ HandFiles'
  BY DEF FileInv, FileTables
<1>h. FileTables /\ HandFiles /\ RowTables /\ HandRows
  BY DEF FileInv, FileTables, RowInv, RowTables
<1>p. pc \in PackageSteps => hand \in PackageIDs
  BY DEF TypeOK, LocalTypeOK
<1>o. hand \subseteq Objects
  BY DEF TypeOK, LocalTypeOK
<1>l. Loop => HandFiles'
  BY NoHandFiles DEF Loop, NoFileSteps
\* A package that is being built is neither sealed nor marked as purged.
<1>b. pc \in BuildSteps \cup {"probe"} =>
        hand \in PackageIDs /\ pkgState[hand] = "building" /\ purge[hand] = "unset" /\ delState[hand] # "delivered"
  BY <1>h, <1>p, StepsFacts DEF HandRows, RowTables, RowStates, TypeOK, StoreTypeOK
<1>u. UNCHANGED <<diskVars, packageOf, sourcePurged, pkgState, purge, delState>> => FileTables'
  BY <1>h, RowChangeKeepsFiles DEF Sealed
<1>1. ASSUME UNCHANGED storeVars, pc' \in NoFileSteps PROVE FileTables' /\ HandFiles'
  BY <1>1, <1>u, NoHandFiles DEF storeVars, dbVars
<1>2. ASSUME UNCHANGED localVars, UNCHANGED diskVars PROVE HandFiles'
  BY <1>h, <1>2 DEF HandFiles, localVars, diskVars
<1>3. ASSUME \E p \in PackageIDs : NextBuildingPackage(p) PROVE FileTables' /\ HandFiles'
  BY <1>1, <1>3 DEF NextBuildingPackage, GoTo, NoFileSteps
<1>4. CASE NoBuildingPackage \/ ScanIdentity \/ ScanNotReady \/ ScanReady
  BY <1>1, <1>4 DEF NoBuildingPackage, ScanIdentity, ScanNotReady, ScanReady, GoTo, NextProject, NoFileSteps
<1>5. CASE ScanNothing
  BY <1>5, <1>u, NoHandFiles DEF ScanNothing, NextProject, NoFileSteps
<1>6. CASE Reserve
  <2>1. hand \in PackageIDs /\ pkgState[hand] = "none" /\ Reservable(hand)
    BY <1>h, <1>6, SelectionIsNew DEF Reserve
  <2>2. /\ InsertPackage(hand) /\ pc' = "merge" /\ UNCHANGED <<diskVars, purge, sourcePurged>>
    BY <1>6, <2>1 DEF Reserve
  <2>3. \A o \in Objects : Sealed(o) => Sealed(o)'
    BY <2>1, <2>2, SealedKept DEF InsertPackage, Reservable, TypeOK, StoreTypeOK
  <2>4. FileTables'
    <3>1. \A p \in PackageIDs : /\ pkgState'[p] = "sealed" => pkgState[p] = "sealed"
                                /\ delState[p] = "delivered" => delState'[p] = "delivered"
      BY <1>h, <2>1, <2>2 DEF InsertPackage, RowTables, RowStates, TypeOK, StoreTypeOK
    <3> QED
      BY <1>h, <2>2, <2>3, <3>1, RowChangeKeepsFiles
  <2> QED
    BY <2>2, <2>4, NoHandFiles DEF NoFileSteps
<1>7. CASE Merge \/ BuildFails
  BY <1>1, <1>7 DEF Merge, BuildFails, GoTo, NoFileSteps
<1>8. CASE PublishPayload
  <2>1. /\ hand \in PackageIDs /\ payload' = [payload EXCEPT ![hand] = Published(payload[hand])]
        /\ UNCHANGED dbVars /\ UNCHANGED <<receipts, upload, manifest>> /\ pc' = "syncPayload" /\ hand' = hand
    BY <1>b, <1>8 DEF PublishPayload, GoTo, BuildSteps
  <2>2. OnDisk(payload'[hand])
    BY <2>1 DEF Published, OnDisk, TypeOK, StoreTypeOK
  <2>3. \A p \in PackageIDs : p # hand => payload'[p] = payload[p]
    BY <2>1 DEF TypeOK, StoreTypeOK
  <2>4. FileTables'
    BY <1>h, <1>b, <1>8, <2>1, <2>3 DEF FileTables, UndeliveredPackageKept, PurgedStaysGone, FileStates,
      PackageStored, Sealed, dbVars, PublishPayload, BuildSteps
  <2> QED
    BY <2>1, <2>2, <2>4 DEF HandFiles
<1>9. CASE PublishManifest
  <2>1. /\ hand \in PackageIDs /\ manifest' = [manifest EXCEPT ![hand] = Published(manifest[hand])]
        /\ UNCHANGED dbVars /\ UNCHANGED <<receipts, upload, payload>> /\ pc' = "syncManifest" /\ hand' = hand
    BY <1>b, <1>9 DEF PublishManifest, GoTo, BuildSteps
  <2>2. OnDisk(manifest'[hand]) /\ payload'[hand] = "durable"
    BY <1>h, <1>9, <2>1 DEF Published, OnDisk, TypeOK, StoreTypeOK, HandFiles, PublishManifest
  <2>3. \A p \in PackageIDs : p # hand => manifest'[p] = manifest[p]
    BY <2>1 DEF TypeOK, StoreTypeOK
  <2>4. FileTables'
    BY <1>h, <1>b, <1>9, <2>1, <2>3 DEF FileTables, UndeliveredPackageKept, PurgedStaysGone, FileStates,
      PackageStored, Sealed, dbVars, PublishManifest, BuildSteps
  <2> QED
    BY <2>1, <2>2, <2>4 DEF HandFiles
\* Syncing a directory changes no durable entry and brings none back.
<1>10. /\ \A o \in Objects : SyncDir(upload)[o] = Synced(upload[o])
       /\ \A p \in PackageIDs : SyncDir(payload)[p] = Synced(payload[p]) /\ SyncDir(manifest)[p] = Synced(manifest[p])
  BY DEF SyncDir, TypeOK, StoreTypeOK
<1>11. Synced("durable") = "durable" /\ Synced("visible") = "durable" /\ Synced("absent") = "absent"
       /\ \A e : Synced(e) # "visible" /\ (~OnDisk(e) => Synced(e) = "absent") /\ (OnDisk(e) => Synced(e) = "durable")
  BY DEF Synced, OnDisk
<1>12. ASSUME UNCHANGED <<receipts, packageOf, sourcePurged, pkgState, delState>>,
              \A p \in PackageIDs : purge'[p] = "done" => purge[p] = "done",
              upload' \in {upload, SyncDir(upload)},
              payload' \in {payload, SyncDir(payload)}, manifest' \in {manifest, SyncDir(manifest)}
       PROVE  FileTables'
  <2>1. \A o \in Objects : upload'[o] = upload[o] \/ upload'[o] = Synced(upload[o])
    BY <1>10, <1>12
  <2>2. \A p \in PackageIDs : /\ payload'[p] = payload[p] \/ payload'[p] = Synced(payload[p])
                              /\ manifest'[p] = manifest[p] \/ manifest'[p] = Synced(manifest[p])
    BY <1>10, <1>12
  <2>3. UndeliveredPackageKept'
    BY <1>h, <1>11, <1>12, <2>2 DEF FileTables, UndeliveredPackageKept, PackageStored
  <2>4. PurgedStaysGone'
    BY <1>h, <1>11, <1>12, <2>1, <2>2 DEF FileTables, PurgedStaysGone, TypeOK, StoreTypeOK
  <2>5. FileStates'
    BY <1>h, <1>11, <1>12, <2>1, <2>2 DEF FileTables, FileStates, Sealed
  <2> QED
    BY <2>3, <2>4, <2>5 DEF FileTables
<1>13. CASE SyncPayload
  <2>1. /\ hand \in PackageIDs /\ payload' = SyncDir(payload) /\ pc' = "publishManifest" /\ hand' = hand
        /\ UNCHANGED dbVars /\ UNCHANGED <<receipts, upload, manifest>>
    BY <1>b, <1>13 DEF SyncPayload, GoTo, BuildSteps
  <2>2. payload'[hand] = "durable"
    BY <1>h, <1>10, <1>11, <1>13, <2>1 DEF HandFiles, SyncPayload
  <2> QED
    BY <1>12, <2>1, <2>2 DEF HandFiles, dbVars
<1>14. CASE SyncManifest
  <2>1. /\ hand \in PackageIDs /\ manifest' = SyncDir(manifest) /\ pc' = "seal" /\ hand' = hand
        /\ UNCHANGED dbVars /\ UNCHANGED <<receipts, upload, payload>>
    BY <1>b, <1>14 DEF SyncManifest, GoTo, BuildSteps
  <2>2. manifest'[hand] = "durable" /\ payload'[hand] = "durable"
    BY <1>h, <1>10, <1>11, <1>14, <2>1 DEF HandFiles, SyncManifest
  <2> QED
    BY <1>12, <2>1, <2>2 DEF HandFiles, dbVars
<1>15. CASE Seal
  <2>1. /\ hand \in PackageIDs /\ pkgState[hand] = "building" /\ payload[hand] = "durable" /\ manifest[hand] = "durable"
        /\ pkgState' = [pkgState EXCEPT ![hand] = "sealed"]
        /\ UNCHANGED <<packageOf, sourcePurged, purge, delState, diskVars>>
    BY <1>h, <1>b, <1>15 DEF Seal, sealPackage, HandFiles, BuildSteps
  <2>2. \A o \in Objects : Sealed(o) => Sealed(o)'
    BY <2>1, SealedKept DEF TypeOK, StoreTypeOK
  <2>3. FileTables'
    BY <1>h, <2>1, <2>2 DEF FileTables, UndeliveredPackageKept, PurgedStaysGone, FileStates, PackageStored,
      diskVars, TypeOK, StoreTypeOK
  <2> QED
    BY <1>l, <1>15, <2>3 DEF Seal
<1>16. ASSUME RetryBuild PROVE FileTables' /\ HandFiles'
  BY <1>16, <1>l, <1>u DEF RetryBuild
<1>17. ASSUME pc = "probe", \E invalid : Isolate(invalid) PROVE FileTables' /\ HandFiles'
  <2>1. /\ \A o \in Objects : packageOf'[o] # packageOf[o] => packageOf[o] \in {NoPackage, hand}
        /\ pkgState' = [pkgState EXCEPT ![hand] = "blocked"]
        /\ UNCHANGED <<sourcePurged, purge, delState, diskVars>>
    BY <1>17 DEF Isolate, isolateInvalidMembers
  <2>2. \A o \in Objects : Sealed(o) => Sealed(o)'
    BY <1>b, <1>17, <2>1, SealedKept DEF TypeOK, StoreTypeOK
  <2>3. \A p \in PackageIDs : pkgState'[p] = "sealed" => pkgState[p] = "sealed"
    BY <2>1 DEF TypeOK, StoreTypeOK
  <2>4. FileTables'
    BY <1>h, <2>1, <2>2, <2>3, RowChangeKeepsFiles
  <2> QED
    BY <1>17, <1>l, <2>4 DEF Isolate
<1>18. CASE Probe \/ ProbeDenied \/ \E misread \in SUBSET Misreadable : ProbeMisreads(misread)
  BY <1>16, <1>17, <1>18 DEF Probe, ProbeDenied, ProbeMisreads
<1>19. CASE (\E o \in Objects : NextSourceToPurge(o)) \/ NoSourceToPurge \/ (\E p \in PackageIDs : NextPackagePurge(p))
            \/ NoPackageToPurge \/ Crash
  BY <1>1, <1>19 DEF NextSourceToPurge, NoSourceToPurge, NextPackagePurge, NoPackageToPurge, Crash, GoTo, Loop, NoFileSteps
\* Removing the upload of an artifact that is sealed.
<1>20. ASSUME pc \in SourceSteps, RemoveUpload \/ UNCHANGED upload, UNCHANGED <<receipts, payload, manifest>>,
              UNCHANGED <<packageOf, sourcePurged, pkgState, purge, delState>>
       PROVE  FileTables'
  <2>1. \A o \in Objects : upload'[o] = upload[o] \/ (o \in hand /\ upload'[o] = Removed(upload[o]))
    BY <1>20 DEF RemoveUpload
  <2>2. \A o \in hand : Sealed(o)
    BY <1>h, <1>20 DEF HandRows
  <2>3. \A e \in Entry : Removed(e) # "visible" /\ (e = "absent" => Removed(e) = "absent")
    BY DEF Removed, OnDisk, Entry
  <2> QED
    BY <1>h, <1>20, <2>1, <2>2, <2>3 DEF FileTables, UndeliveredPackageKept, PurgedStaysGone, FileStates,
      PackageStored, Sealed, TypeOK, StoreTypeOK
<1>21. CASE UnlinkSource
  <2>1. \A o \in hand : ~OnDisk(upload'[o])
    BY <1>o, <1>21 DEF UnlinkSource, RemoveUpload, Removed, OnDisk
  <2> QED
    BY <1>20, <1>21, <2>1 DEF UnlinkSource, GoTo, SourceSteps, HandFiles, dbVars
<1>22. CASE SyncSource
  <2>1. \A o \in hand : upload'[o] = "absent"
    BY <1>h, <1>o, <1>10, <1>11, <1>22 DEF SyncSource, HandFiles
  <2> QED
    BY <1>12, <1>22, <2>1 DEF SyncSource, GoTo, HandFiles, dbVars
<1>23. CASE MarkSourcePurged
  BY <1>h, <1>l, <1>23 DEF MarkSourcePurged, HandFiles, FileTables, UndeliveredPackageKept, PurgedStaysGone,
    FileStates, PackageStored, Sealed, diskVars
<1>24. CASE PurgeSourceFails
  BY <1>l, <1>20, <1>24 DEF PurgeSourceFails, MarkSourcePurgeRetry, SourceSteps
\* Removing the files of a package that is delivered.
<1>25. ASSUME pc \in PurgeSteps,
              payload'  \in {payload, [payload EXCEPT ![hand] = Removed(@)]},
              manifest' \in {manifest, [manifest EXCEPT ![hand] = Removed(@)]},
              UNCHANGED <<receipts, upload, packageOf, sourcePurged, pkgState, delState>>,
              \A p \in PackageIDs : purge'[p] = "done" => purge[p] = "done"
       PROVE  FileTables'
  <2>1. hand \in PackageIDs /\ pkgState[hand] = "sealed" /\ delState[hand] = "delivered" /\ purge[hand] = "due"
    BY <1>h, <1>p, <1>25, StepsFacts DEF HandRows
  <2>2. \A p \in PackageIDs : p # hand => payload'[p] = payload[p] /\ manifest'[p] = manifest[p]
    BY <1>25, <2>1 DEF TypeOK, StoreTypeOK
  <2>3. payload'[hand] \in {payload[hand], Removed(payload[hand])}
        /\ manifest'[hand] \in {manifest[hand], Removed(manifest[hand])}
    BY <1>25, <2>1 DEF TypeOK, StoreTypeOK
  <2>4. \A e \in Entry : Removed(e) # "visible"
    BY DEF Removed, OnDisk, Entry
  <2>5. FileStates'
    BY <1>h, <1>25, <2>1, <2>2, <2>3, <2>4 DEF FileTables, FileStates, Sealed, TypeOK, StoreTypeOK
  <2> QED
    BY <1>h, <1>25, <2>1, <2>2, <2>5 DEF FileTables, UndeliveredPackageKept, PurgedStaysGone, PackageStored
<1>26. CASE UnlinkPackage
  <2>1. hand \in PackageIDs /\ pc \in PurgeSteps
    BY <1>p, <1>26, StepsFacts DEF UnlinkPackage, PurgeSteps
  <2>2. ~OnDisk(payload'[hand]) /\ ~OnDisk(manifest'[hand])
    BY <1>26, <2>1 DEF UnlinkPackage, Removed, OnDisk, TypeOK, StoreTypeOK
  <2> QED
    BY <1>25, <1>26, <2>1, <2>2 DEF UnlinkPackage, GoTo, HandFiles, dbVars
<1>27. CASE SyncPackage
  <2>1. hand \in PackageIDs
    BY <1>p, <1>27, StepsFacts DEF SyncPackage, PurgeSteps
  <2>2. payload'[hand] = "absent" /\ manifest'[hand] = "absent"
    BY <1>h, <1>10, <1>11, <1>27, <2>1 DEF SyncPackage, HandFiles
  <2> QED
    BY <1>12, <1>27, <2>2 DEF SyncPackage, GoTo, HandFiles, dbVars
<1>28. CASE MarkPackagePurged
  <2>1. hand \in PackageIDs /\ purge' = [purge EXCEPT ![hand] = "done"] /\ payload[hand] = "absent" /\ manifest[hand] = "absent"
    BY <1>h, <1>p, <1>28, StepsFacts DEF MarkPackagePurged, HandFiles, PurgeSteps
  <2>2. FileTables'
    BY <1>h, <1>28, <2>1 DEF MarkPackagePurged, FileTables, UndeliveredPackageKept, PurgedStaysGone,
      FileStates, PackageStored, Sealed, diskVars, TypeOK, StoreTypeOK
  <2> QED
    BY <1>l, <1>28, <2>2 DEF MarkPackagePurged
<1>29. CASE PurgePackageFails
  <2>1. hand \in PackageIDs
    BY <1>p, <1>29, StepsFacts DEF PurgePackageFails, PurgeSteps
  <2>2. \A p \in PackageIDs : purge'[p] = "done" => purge[p] = "done"
    BY <1>29, <2>1 DEF PurgePackageFails, MarkPackagePurgeRetry, TypeOK, StoreTypeOK
  <2>3. CASE pc = "unlinkPackage"
    BY <1>l, <1>25, <1>29, <2>2, <2>3 DEF PurgePackageFails, MarkPackagePurgeRetry, PurgeSteps
  <2>4. CASE pc = "syncPackage"
    BY <1>l, <1>12, <1>29, <2>2, <2>4 DEF PurgePackageFails, MarkPackagePurgeRetry
  <2> QED
    BY <1>29, <2>3, <2>4 DEF PurgePackageFails
<1>30. CASE PowerLoss
  <2>1. \A o \in Objects : /\ upload'[o] # "visible"
                           /\ upload[o] \in {"durable", "absent"} => upload'[o] = upload[o]
    BY <1>30 DEF PowerLoss, AfterPowerLoss, Unsynced, TypeOK, StoreTypeOK, Entry
  <2>2. \A p \in PackageIDs : /\ payload'[p] # "visible"
                              /\ payload[p] \in {"durable", "absent"} => payload'[p] = payload[p]
    BY <1>30 DEF PowerLoss, AfterPowerLoss, Unsynced, TypeOK, StoreTypeOK, Entry
  <2>3. \A p \in PackageIDs : /\ manifest'[p] # "visible"
                              /\ manifest[p] \in {"durable", "absent"} => manifest'[p] = manifest[p]
    BY <1>30 DEF PowerLoss, AfterPowerLoss, Unsynced, TypeOK, StoreTypeOK, Entry
  <2>4. UNCHANGED dbVars /\ UNCHANGED receipts /\ Loop
    BY <1>30 DEF PowerLoss
  <2> QED
    BY <1>h, <1>l, <2>1, <2>2, <2>3, <2>4 DEF FileTables, UndeliveredPackageKept, PurgedStaysGone,
      FileStates, PackageStored, Sealed, dbVars, TypeOK, StoreTypeOK
<1>31. ASSUME NEW p \in PackageIDs, BuildBackoffElapses(p) \/ RetentionElapses(p) PROVE FileTables' /\ HandFiles'
  <2>1. /\ UNCHANGED <<diskVars, packageOf, sourcePurged, pkgState, delState>> /\ UNCHANGED localVars
        /\ \A q \in PackageIDs : purge'[q] = "done" => purge[q] = "done"
    BY <1>31 DEF BuildBackoffElapses, RetentionElapses, TypeOK, StoreTypeOK
  <2>2. FileTables'
    BY <1>h, <2>1, RowChangeKeepsFiles DEF Sealed
  <2> QED
    BY <1>2, <2>1, <2>2
<1>32. ASSUME NEW o \in Objects, SourceBackoffElapses(o) \/ MaxWaitElapses(o) \/ Index(o) PROVE FileTables' /\ HandFiles'
  BY <1>2, <1>u, <1>32 DEF SourceBackoffElapses, MaxWaitElapses, Index, addArtifact, storeVars, dbVars
<1>33. ASSUME NEW o \in Objects, Accept(o) PROVE FileTables' /\ HandFiles'
  <2>1. /\ o \notin receipts /\ receipts' = receipts \cup {o} /\ upload'[o] = "durable"
        /\ \A q \in Objects : q # o => upload'[q] = Synced(upload[q])
        /\ UNCHANGED dbVars /\ UNCHANGED <<payload, manifest>> /\ UNCHANGED localVars
    BY <1>10, <1>33 DEF Accept, SyncDir, TypeOK, StoreTypeOK
  <2>2. o \notin sourcePurged /\ o \notin indexed /\ ~Sealed(o)
    BY <1>h, <2>1 DEF RowTables, RowStates, Sealed
  <2>3. FileTables'
    <3>1. UndeliveredPackageKept'
      BY <1>h, <2>1 DEF FileTables, UndeliveredPackageKept, PackageStored, dbVars
    <3>2. PurgedStaysGone'
      BY <1>h, <1>11, <2>1, <2>2 DEF FileTables, PurgedStaysGone, dbVars, OnDisk, TypeOK, StoreTypeOK
    <3>3. \A q \in Objects : upload'[q] # "visible" /\ (upload[q] = "durable" => upload'[q] = "durable")
      BY <1>11, <2>1
    <3>4. FileStates'
      BY <1>h, <2>1, <3>3 DEF FileTables, FileStates, Sealed, dbVars
    <3> QED
      BY <3>1, <3>2, <3>4 DEF FileTables
  <2>4. pc \in SourceSteps => o \notin hand
    BY <1>h, <2>2 DEF HandRows
  <2>5. HandFiles'
    BY <1>h, <1>o, <1>11, <2>1, <2>4 DEF HandFiles, localVars, OnDisk, SourceSteps
  <2> QED
    BY <2>3, <2>5
<1>34. ASSUME NEW p \in PackageIDs, DeliveryClaims(p) \/ DeliverySucceeds(p) \/ DeliveryFails(p)
       PROVE  FileTables' /\ HandFiles'
  <2>1. /\ UNCHANGED <<diskVars, packageOf, sourcePurged, pkgState>> /\ UNCHANGED localVars
        /\ \A q \in PackageIDs : /\ purge'[q] = "done" => purge[q] = "done"
                                 /\ delState[q] = "delivered" => delState'[q] = "delivered"
    BY <1>34 DEF DeliveryClaims, DeliverySucceeds, DeliveryFails, claimPackageDelivery, Deliverable,
      markPackageDelivered, markPackageRetry, TypeOK, StoreTypeOK
  <2>2. FileTables'
    BY <1>h, <2>1, RowChangeKeepsFiles DEF Sealed
  <2> QED
    BY <1>2, <2>1, <2>2
<1>34i. CASE DeliveriesInterrupted
  <2>1. /\ UNCHANGED <<diskVars, packageOf, sourcePurged, pkgState>> /\ UNCHANGED localVars
        /\ \A q \in PackageIDs : /\ purge'[q] = "done" => purge[q] = "done"
                                 /\ delState[q] = "delivered" => delState'[q] = "delivered"
    BY <1>34i DEF DeliveriesInterrupted, recoverInterruptedDeliveries
  <2>2. FileTables'
    BY <1>h, <2>1, RowChangeKeepsFiles DEF Sealed
  <2> QED
    BY <1>2, <2>1, <2>2
<1>35. CASE UNCHANGED vars
  BY <1>2, <1>u, <1>35 DEF vars, storeVars, dbVars
<1> QED
  BY <1>3, <1>4, <1>5, <1>6, <1>7, <1>8, <1>9, <1>13, <1>14, <1>15, <1>18, <1>19, <1>21, <1>22, <1>23, <1>24,
     <1>26, <1>27, <1>28, <1>29, <1>30, <1>31, <1>32, <1>33, <1>34, <1>34i, <1>35
  DEF Next, Undisturbed, Scheduler, BuildCycle, SourcePurgeCycle, PackagePurgeCycle, Disruption, Clock,
    Receiver, Delivery

-----------------------------------------------------------------------------
(* The theorems *)

\* The two steps of the induction, also for modules that compose Packaging.
LEMMA InvariantInit == Init => IInv
BY TypeInit, RowInit, FileInit DEF IInv

\* Every step keeps the invariant.
LEMMA InvariantStep == IInv /\ [Next]_vars => IInv'
<1>1. TypeOK /\ [Next]_vars => TypeOK'
  <2>1. TypeOK /\ UNCHANGED vars => TypeOK'
    BY DEF TypeOK, StoreTypeOK, LocalTypeOK, vars, storeVars, dbVars, diskVars, localVars
  <2> QED
    BY <2>1, LocalTypeStep, StoreTypeStep DEF TypeOK
<1> QED
  BY <1>1, RowStep, FileStep DEF IInv

\* The rows, the files and the locals of the packaging goroutine agree in every
\* reachable state: the invariant the properties below are read off.
THEOREM Invariant == Spec => []IInv
BY InvariantInit, InvariantStep, PTL DEF Spec

\* No interleaving, failure, crash or power loss leaves an artifact that has a
\* receipt without its upload, a stored package or a completed delivery.
THEOREM ArtifactsSafe == Spec => []NoArtifactLost
<1>1. IInv => NoArtifactLost
  <2> SUFFICES ASSUME IInv, NEW o \in receipts
               PROVE  OnDisk(upload[o]) \/ (Sealed(o) /\ (PackageStored(packageOf[o]) \/ Archived(o)))
    BY DEF NoArtifactLost
  <2>1. o \in Objects
    BY DEF IInv, TypeOK, StoreTypeOK
  <2>2. CASE upload[o] = "durable"
    BY <2>2 DEF OnDisk
  <2>3. CASE Sealed(o)
    <3>1. packageOf[o] \in PackageIDs /\ pkgState[packageOf[o]] = "sealed"
      BY <2>1, <2>3, PackageIDsFact DEF Sealed, IInv, TypeOK, StoreTypeOK, NoPackage
    <3> QED
      BY <2>3, <3>1 DEF IInv, FileInv, UndeliveredPackageKept, Archived
  <2> QED
    BY <2>1, <2>2, <2>3 DEF IInv, FileInv, FileStates
<1> QED
  BY <1>1, Invariant, PTL

\* A package the delivery goroutine may still claim has both its files.
THEOREM UndeliveredKept == Spec => []UndeliveredPackageKept
<1>1. IInv => UndeliveredPackageKept
  BY DEF IInv, FileInv
<1> QED
  BY <1>1, Invariant, PTL

\* A file marked as purged never comes back, and the mark is never too early.
THEOREM PurgesFinal == Spec => []PurgedStaysGone
<1>1. IInv => PurgedStaysGone
  BY DEF IInv, FileInv
<1> QED
  BY <1>1, Invariant, PTL

\* artifacts.package_id and package_members never disagree.
THEOREM MembershipCorrect == Spec => []MembershipConsistent
<1>1. IInv => MembershipConsistent
  BY DEF IInv, RowInv
<1> QED
  BY <1>1, Invariant, PTL

\* A failed artifact is never packaged again, and no good one is held back in
\* the package it failed in.
THEOREM IsolationCorrect == Spec => []BlockedHoldsFailedOnly
<1>1. IInv => BlockedHoldsFailedOnly
  BY DEF IInv, RowInv
<1> QED
  BY <1>1, Invariant, PTL

\* The transaction of reservePackage never meets an existing package ID or a
\* row somebody else has taken.
THEOREM ReservationsSucceed == Spec => []ReservationSucceeds
<1>1. IInv => ReservationSucceeds
  BY SelectionIsNew DEF IInv, RowInv, RowTables, ReservationSucceeds
<1> QED
  BY <1>1, Invariant, PTL

-----------------------------------------------------------------------------
(* Packaging implements ArtifactCustody *)

HasUpload(o)  == o \in receipts /\ OnDisk(upload[o])
HasPackage(o) == Sealed(o) /\ PackageStored(packageOf[o])

\* Who holds an artifact, read off the store.
LEMMA CustodyMeaning ==
  /\ custody \in [Objects -> SUBSET Custody!Holders]
  /\ \A o \in Objects : /\ "upload" \in custody[o] <=> HasUpload(o)
                        /\ "package" \in custody[o] <=> HasPackage(o)
                        /\ "archive" \in custody[o] <=> Archived(o)
BY DEF custody, HasUpload, HasPackage, Custody!Holders

\* The same after a step.
LEMMA CustodyMeaningNext ==
  /\ custody' \in [Objects -> SUBSET Custody!Holders]
  /\ \A o \in Objects : /\ "upload" \in custody'[o] <=> HasUpload(o)'
                        /\ "package" \in custody'[o] <=> HasPackage(o)'
                        /\ "archive" \in custody'[o] <=> Archived(o)'
BY DEF custody, HasUpload, HasPackage, Custody!Holders

\* Two sets of holders with the same members are the same set.
LEMMA HoldersEqual ==
  ASSUME NEW A \in SUBSET Custody!Holders, NEW B \in SUBSET Custody!Holders,
         "upload" \in A <=> "upload" \in B, "package" \in A <=> "package" \in B,
         "archive" \in A <=> "archive" \in B
  PROVE  A = B
<1>1. ASSUME NEW x PROVE x \in A <=> x \in B
  <2>1. x \in A \/ x \in B => x = "upload" \/ x = "package" \/ x = "archive"
    BY DEF Custody!Holders
  <2> QED
    BY <2>1
<1> QED
  BY <1>1

\* Where no holder changes, custody does not.
LEMMA CustodySame ==
  ASSUME \A o \in Objects : /\ HasUpload(o)' <=> HasUpload(o)
                            /\ HasPackage(o)' <=> HasPackage(o)
                            /\ Archived(o)' <=> Archived(o)
  PROVE  custody' = custody
<1>1. \A o \in Objects : custody'[o] = custody[o]
  BY CustodyMeaning, CustodyMeaningNext, HoldersEqual
<1> QED
  BY <1>1, CustodyMeaning, CustodyMeaningNext

\* What the invariant says of the holders.
LEMMA CustodyFacts ==
  ASSUME IInv, NEW o \in Objects
  PROVE  /\ o \in receipts => HasUpload(o) \/ HasPackage(o) \/ Archived(o)
         /\ o \notin receipts => ~HasUpload(o) /\ ~Sealed(o)
         /\ Sealed(o) => o \in receipts /\ packageOf[o] \in PackageIDs /\ (HasPackage(o) \/ Archived(o))
<1>1. Sealed(o) => o \in receipts /\ packageOf[o] \in PackageIDs
  BY PackageIDsFact DEF Sealed, IInv, TypeOK, StoreTypeOK, NoPackage, RowInv, RowStates
<1>2. Sealed(o) => HasPackage(o) \/ Archived(o)
  BY <1>1 DEF IInv, FileInv, UndeliveredPackageKept, Archived, HasPackage, Sealed
<1>3. o \in receipts => HasUpload(o) \/ Sealed(o)
  BY DEF IInv, FileInv, FileStates, HasUpload, OnDisk
<1> QED
  BY <1>1, <1>2, <1>3 DEF HasUpload

\* Local copies that appear of artifacts that are held.
LEMMA CopyStep ==
  ASSUME \A o \in Objects : /\ HasUpload(o) => HasUpload(o)'
                            /\ HasPackage(o) => HasPackage(o)'
                            /\ Archived(o)' <=> Archived(o)
                            /\ HasUpload(o)' \/ HasPackage(o)' => HasUpload(o) \/ HasPackage(o) \/ Archived(o)
  PROVE  Custody!Copy
<1> SUFFICES ASSUME NEW o \in Objects
             PROVE  /\ custody[o] \subseteq custody'[o]
                    /\ custody[o] = {} => custody'[o] = {}
                    /\ "archive" \in custody'[o] => "archive" \in custody[o]
  BY CustodyMeaningNext DEF Custody!Copy
<1>1. custody[o] \in SUBSET {"upload", "package", "archive"} /\ custody'[o] \in SUBSET {"upload", "package", "archive"}
  BY CustodyMeaning, CustodyMeaningNext DEF Custody!Holders
<1>2. /\ "upload" \in custody[o] => "upload" \in custody'[o]
      /\ "package" \in custody[o] => "package" \in custody'[o]
      /\ "archive" \in custody[o] <=> "archive" \in custody'[o]
      /\ "upload" \in custody'[o] \/ "package" \in custody'[o]
           => "upload" \in custody[o] \/ "package" \in custody[o] \/ "archive" \in custody[o]
  BY CustodyMeaning, CustodyMeaningNext
<1> QED
  BY <1>1, <1>2

\* Removed uploads are artifacts a package or the archive holds.
LEMMA DropUploadStep ==
  ASSUME NEW S \in SUBSET Objects,
         \A o \in Objects : /\ HasUpload(o)' <=> HasUpload(o) /\ o \notin S
                            /\ HasPackage(o)' <=> HasPackage(o)
                            /\ Archived(o)' <=> Archived(o)
                            /\ o \in S => HasPackage(o) \/ Archived(o)
  PROVE  Custody!DropUpload
<1>1. ASSUME NEW o \in Objects
      PROVE  custody'[o] = IF o \in S THEN custody[o] \ {"upload"} ELSE custody[o]
  <2>1. custody[o] \in SUBSET Custody!Holders /\ custody'[o] \in SUBSET Custody!Holders
    BY CustodyMeaning, CustodyMeaningNext
  <2>2. CASE o \in S
    <3> DEFINE B == custody[o] \ {"upload"}
    <3>1. B \in SUBSET Custody!Holders
      BY <2>1 DEF Custody!Holders
    <3>2. /\ "upload" \in custody'[o] <=> "upload" \in B
          /\ "package" \in custody'[o] <=> "package" \in B
          /\ "archive" \in custody'[o] <=> "archive" \in B
      BY <2>2, CustodyMeaning, CustodyMeaningNext
    <3> HIDE DEF B
    <3>3. custody'[o] = B
      BY <2>1, <3>1, <3>2, HoldersEqual
    <3> QED
      BY <2>2, <3>3 DEF B
  <2>3. CASE o \notin S
    BY <2>1, <2>3, CustodyMeaning, CustodyMeaningNext, HoldersEqual
  <2> QED
    BY <2>2, <2>3
<1>2. \A o \in S : custody[o] \cap {"package", "archive"} # {}
  BY CustodyMeaning
<1> QED
  BY <1>1, <1>2, CustodyMeaningNext DEF Custody!DropUpload

\* Removed packages are artifacts the archive holds.
LEMMA DropPackageStep ==
  ASSUME NEW S \in SUBSET Objects,
         \A o \in Objects : /\ HasUpload(o)' <=> HasUpload(o)
                            /\ HasPackage(o)' <=> HasPackage(o) /\ o \notin S
                            /\ Archived(o)' <=> Archived(o)
                            /\ o \in S => Archived(o)
  PROVE  Custody!DropPackage
<1>1. ASSUME NEW o \in Objects
      PROVE  custody'[o] = IF o \in S THEN custody[o] \ {"package"} ELSE custody[o]
  <2>1. custody[o] \in SUBSET Custody!Holders /\ custody'[o] \in SUBSET Custody!Holders
    BY CustodyMeaning, CustodyMeaningNext
  <2>2. CASE o \in S
    <3> DEFINE B == custody[o] \ {"package"}
    <3>1. B \in SUBSET Custody!Holders
      BY <2>1 DEF Custody!Holders
    <3>2. /\ "upload" \in custody'[o] <=> "upload" \in B
          /\ "package" \in custody'[o] <=> "package" \in B
          /\ "archive" \in custody'[o] <=> "archive" \in B
      BY <2>2, CustodyMeaning, CustodyMeaningNext
    <3> HIDE DEF B
    <3>3. custody'[o] = B
      BY <2>1, <3>1, <3>2, HoldersEqual
    <3> QED
      BY <2>2, <3>3 DEF B
  <2>3. CASE o \notin S
    BY <2>1, <2>3, CustodyMeaning, CustodyMeaningNext, HoldersEqual
  <2> QED
    BY <2>2, <2>3
<1>2. \A o \in S : "archive" \in custody[o]
  BY CustodyMeaning
<1> QED
  BY <1>1, <1>2, CustodyMeaningNext DEF Custody!DropPackage

\* A recorded delivery adds the archive to the holders of the members.
LEMMA ArchiveStep ==
  ASSUME NEW S \in SUBSET Objects,
         \A o \in Objects : /\ HasUpload(o)' <=> HasUpload(o)
                            /\ HasPackage(o)' <=> HasPackage(o)
                            /\ Archived(o)' <=> Archived(o) \/ o \in S
                            /\ o \in S => HasPackage(o)
  PROVE  Custody!Archive
<1>1. ASSUME NEW o \in Objects
      PROVE  custody'[o] = IF o \in S THEN custody[o] \cup {"archive"} ELSE custody[o]
  <2>1. custody[o] \in SUBSET Custody!Holders /\ custody'[o] \in SUBSET Custody!Holders
    BY CustodyMeaning, CustodyMeaningNext
  <2>2. CASE o \in S
    <3> DEFINE B == custody[o] \cup {"archive"}
    <3>1. B \in SUBSET Custody!Holders
      BY <2>1 DEF Custody!Holders
    <3>2. /\ "upload" \in custody'[o] <=> "upload" \in B
          /\ "package" \in custody'[o] <=> "package" \in B
          /\ "archive" \in custody'[o] <=> "archive" \in B
      BY <2>2, CustodyMeaning, CustodyMeaningNext
    <3> HIDE DEF B
    <3>3. custody'[o] = B
      BY <2>1, <3>1, <3>2, HoldersEqual
    <3> QED
      BY <2>2, <3>3 DEF B
  <2>3. CASE o \notin S
    BY <2>1, <2>3, CustodyMeaning, CustodyMeaningNext, HoldersEqual
  <2> QED
    BY <2>2, <2>3
<1>2. \A o \in S : "package" \in custody[o]
  BY CustodyMeaning
<1> QED
  BY <1>1, <1>2, CustodyMeaningNext DEF Custody!Archive

\* A receipt makes the upload the first holder.
LEMMA ReceiveStep ==
  ASSUME NEW r \in Objects, ~HasUpload(r), ~HasPackage(r), ~Archived(r), HasUpload(r)',
         \A o \in Objects : /\ o # r => (HasUpload(o)' <=> HasUpload(o))
                            /\ HasPackage(o)' <=> HasPackage(o)
                            /\ Archived(o)' <=> Archived(o)
  PROVE  Custody!Receive
<1>1. custody[r] = {} /\ custody'[r] = {"upload"}
  <2>1. custody[r] \in SUBSET Custody!Holders /\ custody'[r] \in SUBSET Custody!Holders
    BY CustodyMeaning, CustodyMeaningNext
  <2>2. \A x \in {"upload", "package", "archive"} : x \notin custody[r] /\ (x \in custody'[r] <=> x = "upload")
    BY CustodyMeaning, CustodyMeaningNext
  <2> QED
    BY <2>1, <2>2 DEF Custody!Holders
<1>2. \A o \in Objects : o # r => custody'[o] = custody[o]
  BY CustodyMeaning, CustodyMeaningNext, HoldersEqual
<1>3. custody' = [custody EXCEPT ![r] = {"upload"}]
  BY <1>1, <1>2, CustodyMeaning, CustodyMeaningNext
<1> QED
  BY <1>1, <1>3 DEF Custody!Receive

\* Every step of packaging and its environment is one of the chain of custody.
LEMMA CustodyStep == IInv /\ IInv' /\ [Next]_vars => [Custody!Next]_custody
<1> SUFFICES ASSUME IInv, IInv', [Next]_vars PROVE Custody!Next \/ custody' = custody
  OBVIOUS
<1>t. /\ TypeOK /\ RowTables /\ HandRows /\ FileTables /\ HandFiles
      /\ hand \subseteq Objects /\ (pc \in PackageSteps => hand \in PackageIDs)
  BY DEF IInv, RowInv, RowTables, FileInv, FileTables, TypeOK, LocalTypeOK
<1>u. \A o \in Objects : Sealed(o) => packageOf[o] \in PackageIDs
  BY CustodyFacts
<1>b. pc \in BuildSteps \cup {"probe"} => hand \in PackageIDs /\ pkgState[hand] = "building"
  BY <1>t, StepsFacts DEF HandRows
\* Steps that change nothing a holder depends on.
<1>1. ASSUME UNCHANGED <<receipts, upload, payload, manifest, packageOf, pkgState, delState>> PROVE custody' = custody
  BY <1>1, CustodySame DEF HasUpload, HasPackage, Archived, Sealed, PackageStored
\* Steps of the directories that keep durable entries and bring none back.
<1>2. ASSUME UNCHANGED <<receipts, packageOf, pkgState, delState>>,
             \A o \in receipts : OnDisk(upload'[o]) <=> OnDisk(upload[o]),
             \A p \in PackageIDs : pkgState[p] = "sealed" =>
               /\ payload'[p] = "durable" <=> payload[p] = "durable"
               /\ manifest'[p] = "durable" <=> manifest[p] = "durable"
      PROVE  custody' = custody
  BY <1>2, <1>u, CustodySame DEF HasUpload, HasPackage, Archived, Sealed, PackageStored
<1>3. /\ \A o \in Objects : OnDisk(SyncDir(upload)[o]) <=> OnDisk(upload[o])
      /\ \A p \in PackageIDs : pkgState[p] = "sealed" =>
           /\ SyncDir(payload)[p] = "durable" <=> payload[p] = "durable"
           /\ SyncDir(manifest)[p] = "durable" <=> manifest[p] = "durable"
  BY <1>t DEF SyncDir, Synced, OnDisk, TypeOK, StoreTypeOK, FileTables, FileStates, Entry
<1>4. receipts \subseteq Objects
  BY <1>t DEF TypeOK, StoreTypeOK
\* Steps that move artifacts between packages none of which is sealed.
<1>5. ASSUME UNCHANGED diskVars, hand \in PackageIDs, pkgState[hand] # "sealed", pkgState'[hand] # "sealed",
             \A o \in Objects : packageOf'[o] # packageOf[o] => /\ packageOf[o] \in {NoPackage, hand}
                                                                 /\ packageOf'[o] \in {NoPackage, hand},
             \A p \in PackageIDs : p # hand => pkgState'[p] = pkgState[p] /\ delState'[p] = delState[p]
      PROVE  custody' = custody
  <2>1. \A o \in Objects : Sealed(o)' <=> Sealed(o)
    BY <1>5, PackageIDsFact DEF Sealed, IInv, TypeOK, StoreTypeOK, NoPackage
  <2>2. \A o \in Objects : Sealed(o) => packageOf'[o] = packageOf[o] /\ packageOf[o] # hand
    BY <1>5 DEF Sealed
  <2>3. \A o \in Objects : /\ HasPackage(o)' <=> HasPackage(o)
                           /\ Archived(o)' <=> Archived(o)
    BY <1>5, <1>u, <2>1, <2>2 DEF HasPackage, Archived, PackageStored, diskVars
  <2> QED
    BY <1>5, <2>3, CustodySame DEF HasUpload, diskVars
<1>6. CASE (\E p \in PackageIDs : NextBuildingPackage(p)) \/ NoBuildingPackage \/ ScanNothing \/ ScanIdentity
           \/ ScanNotReady \/ ScanReady \/ Merge \/ BuildFails
  BY <1>1, <1>6 DEF NextBuildingPackage, NoBuildingPackage, ScanNothing, ScanIdentity, ScanNotReady, ScanReady,
    Merge, BuildFails, storeVars, dbVars, diskVars
<1>7. CASE (\E o \in Objects : NextSourceToPurge(o)) \/ NoSourceToPurge \/ MarkSourcePurged
           \/ (\E p \in PackageIDs : NextPackagePurge(p)) \/ NoPackageToPurge \/ MarkPackagePurged \/ Crash
  BY <1>1, <1>7 DEF NextSourceToPurge, NoSourceToPurge, MarkSourcePurged, NextPackagePurge, NoPackageToPurge,
    MarkPackagePurged, Crash, storeVars, dbVars, diskVars
<1>8. CASE (\E p \in PackageIDs : BuildBackoffElapses(p) \/ RetentionElapses(p))
           \/ (\E o \in Objects : SourceBackoffElapses(o) \/ MaxWaitElapses(o) \/ Index(o)) \/ UNCHANGED vars
  BY <1>1, <1>8 DEF BuildBackoffElapses, RetentionElapses, SourceBackoffElapses, MaxWaitElapses, Index, addArtifact,
    vars, storeVars, dbVars, diskVars
<1>9. CASE Reserve
  <2>1. hand \in PackageIDs /\ pkgState[hand] = "none" /\ Reservable(hand)
    BY <1>t, <1>9, SelectionIsNew DEF Reserve
  <2>2. InsertPackage(hand) /\ UNCHANGED diskVars
    BY <1>9, <2>1 DEF Reserve
  <2> QED
    BY <1>5, <1>t, <2>1, <2>2 DEF InsertPackage, Reservable, TypeOK, StoreTypeOK
<1>10. ASSUME RetryBuild PROVE custody' = custody
  BY <1>1, <1>10 DEF RetryBuild, diskVars
<1>11. ASSUME pc = "probe", \E invalid : Isolate(invalid) PROVE custody' = custody
  <2>1. /\ \A o \in Objects : packageOf'[o] # packageOf[o] => packageOf[o] = hand /\ packageOf'[o] = NoPackage
        /\ pkgState' = [pkgState EXCEPT ![hand] = "blocked"]
        /\ UNCHANGED <<delState, diskVars>>
    BY <1>11 DEF Isolate, isolateInvalidMembers
  <2> QED
    BY <1>5, <1>b, <1>t, <1>11, <2>1 DEF TypeOK, StoreTypeOK
<1>12. CASE Probe \/ ProbeDenied \/ \E misread \in SUBSET Misreadable : ProbeMisreads(misread)
  BY <1>10, <1>11, <1>12 DEF Probe, ProbeDenied, ProbeMisreads
<1>13. CASE PublishPayload \/ PublishManifest
  <2>1. hand \in PackageIDs /\ pkgState[hand] # "sealed"
    BY <1>b, <1>13 DEF PublishPayload, PublishManifest, BuildSteps
  <2>2. \A p \in PackageIDs : p # hand => payload'[p] = payload[p] /\ manifest'[p] = manifest[p]
    BY <1>t, <1>13, <2>1 DEF PublishPayload, PublishManifest, TypeOK, StoreTypeOK
  <2> QED
    BY <1>2, <1>13, <2>1, <2>2 DEF PublishPayload, PublishManifest, dbVars
<1>14. CASE \/ SyncPayload \/ SyncManifest \/ SyncSource \/ SyncPackage
            \/ PurgePackageFails /\ pc = "syncPackage"
  <2>1. /\ UNCHANGED <<receipts, packageOf, pkgState, delState>>
        /\ upload' = upload \/ upload' = SyncDir(upload)
        /\ payload' = payload \/ payload' = SyncDir(payload)
        /\ manifest' = manifest \/ manifest' = SyncDir(manifest)
    BY <1>14 DEF SyncPayload, SyncManifest, SyncSource, SyncPackage, PurgePackageFails,
      MarkPackagePurgeRetry, dbVars
  <2> QED
    BY <1>2, <1>3, <1>4, <2>1
\* A sealed package holds its members.
<1>15. CASE Seal
  <2>1. /\ hand \in PackageIDs /\ pkgState[hand] = "building" /\ payload[hand] = "durable" /\ manifest[hand] = "durable"
        /\ pkgState' = [pkgState EXCEPT ![hand] = "sealed"] /\ delState[hand] # "delivered"
        /\ UNCHANGED <<packageOf, delState, diskVars>>
    BY <1>b, <1>t, <1>15 DEF Seal, sealPackage, HandFiles, BuildSteps, RowTables, RowStates
  <2>2. \A o \in Objects : Sealed(o)' <=> Sealed(o) \/ packageOf[o] = hand
    BY <1>t, <2>1, PackageIDsFact DEF Sealed, TypeOK, StoreTypeOK, NoPackage
  <2>3. \A o \in Objects : packageOf[o] = hand => HasPackage(o)' /\ o \in receipts /\ ~Sealed(o)
    BY <1>t, <2>1, <2>2, PackageIDsFact DEF HasPackage, PackageStored, diskVars, RowTables, RowStates, NoPackage, Sealed
  <2>4. \A o \in Objects : packageOf[o] = hand => HasUpload(o)
    BY <1>t, <2>3 DEF FileTables, FileStates, HasUpload, OnDisk
  <2>5. \A o \in Objects : packageOf[o] # hand => (HasPackage(o)' <=> HasPackage(o)) /\ (Archived(o)' <=> Archived(o))
    BY <2>1, <2>2 DEF HasPackage, Archived, PackageStored, diskVars
  <2>6. \A o \in Objects : packageOf[o] = hand => ~Archived(o)' /\ ~Archived(o)
    BY <2>1 DEF Archived
  <2>7. \A o \in Objects : HasUpload(o)' <=> HasUpload(o)
    BY <2>1 DEF HasUpload, diskVars
  <2>8. Custody!Copy
    BY <2>3, <2>4, <2>5, <2>6, <2>7, CopyStep
  <2> QED
    BY <2>8 DEF Custody!Next
\* Removing an upload whose package is sealed.
<1>16. CASE UnlinkSource \/ PurgeSourceFails
  <2>1. /\ pc \in SourceSteps /\ (RemoveUpload \/ UNCHANGED upload)
        /\ UNCHANGED <<receipts, payload, manifest, packageOf, pkgState, delState>>
    BY <1>16 DEF UnlinkSource, PurgeSourceFails, MarkSourcePurgeRetry, SourceSteps, dbVars
  <2>2. CASE UNCHANGED upload
    BY <1>1, <2>1, <2>2
  <2>3. CASE RemoveUpload
    <3>1. \A o \in Objects : OnDisk(upload'[o]) <=> OnDisk(upload[o]) /\ o \notin hand
      BY <2>3 DEF RemoveUpload, Removed, OnDisk
    <3>2. \A o \in Objects : /\ HasUpload(o)' <=> HasUpload(o) /\ o \notin hand
                             /\ HasPackage(o)' <=> HasPackage(o)
                             /\ Archived(o)' <=> Archived(o)
      BY <2>1, <3>1 DEF HasUpload, HasPackage, Archived, Sealed, PackageStored
    <3>3. \A o \in hand : HasPackage(o) \/ Archived(o)
      BY <1>t, <2>1, CustodyFacts DEF HandRows
    <3>4. Custody!DropUpload
      BY <1>t, <3>2, <3>3, DropUploadStep
    <3> QED
      BY <3>4 DEF Custody!Next
  <2> QED
    BY <2>1, <2>2, <2>3
\* Removing a package that is delivered.
<1>17. CASE UnlinkPackage \/ (PurgePackageFails /\ pc = "unlinkPackage")
  <2>1. /\ hand \in PackageIDs /\ pkgState[hand] = "sealed" /\ delState[hand] = "delivered"
        /\ UNCHANGED <<receipts, upload, packageOf, pkgState, delState>>
        /\ \A p \in PackageIDs : p # hand => payload'[p] = payload[p] /\ manifest'[p] = manifest[p]
    BY <1>t, <1>17, StepsFacts DEF UnlinkPackage, PurgePackageFails, MarkPackagePurgeRetry, HandRows, PurgeSteps,
      dbVars, TypeOK, StoreTypeOK
  <2>2. \/ payload'[hand] = Removed(payload[hand])
        \/ manifest'[hand] = Removed(manifest[hand])
        \/ UNCHANGED <<payload, manifest>>
    BY <1>t, <1>17, <2>1 DEF UnlinkPackage, PurgePackageFails, TypeOK, StoreTypeOK
  <2>3. CASE UNCHANGED <<payload, manifest>>
    BY <1>1, <2>1, <2>3
  <2>4. CASE payload'[hand] = Removed(payload[hand]) \/ manifest'[hand] = Removed(manifest[hand])
    <3> DEFINE S == {o \in Objects : packageOf[o] = hand}
    <3>1. payload'[hand] # "durable" \/ manifest'[hand] # "durable"
      BY <2>4 DEF Removed, OnDisk
    <3>2. hand # NoPackage
      BY <2>1, PackageIDsFact DEF NoPackage
    <3>3. \A o \in Objects : o \in S => Archived(o) /\ ~HasPackage(o)'
      BY <2>1, <3>1, <3>2 DEF Archived, Sealed, HasPackage, PackageStored
    <3>4. \A o \in Objects : o \notin S => (HasPackage(o)' <=> HasPackage(o))
      BY <1>u, <2>1 DEF Sealed, HasPackage, PackageStored
    <3>5. \A o \in Objects : /\ HasUpload(o)' <=> HasUpload(o)
                             /\ HasPackage(o)' <=> HasPackage(o) /\ o \notin S
                             /\ Archived(o)' <=> Archived(o)
      BY <2>1, <3>3, <3>4 DEF HasUpload, Archived, Sealed
    <3> HIDE DEF S
    <3>6. S \in SUBSET Objects
      BY DEF S
    <3>7. Custody!DropPackage
      BY <3>3, <3>5, <3>6, DropPackageStep
    <3> QED
      BY <3>7 DEF Custody!Next
  <2> QED
    BY <2>2, <2>3, <2>4
\* A power loss undoes removals that were not yet synced, of artifacts that are
\* held further down the chain.
<1>18. CASE PowerLoss
  <2>1. \A o \in Objects : upload[o] = "durable" => upload'[o] = "durable"
    BY <1>t, <1>18 DEF PowerLoss, AfterPowerLoss, Unsynced, TypeOK, StoreTypeOK
  <2>2. \A p \in PackageIDs : PackageStored(p) => PackageStored(p)'
    BY <1>t, <1>18 DEF PowerLoss, AfterPowerLoss, Unsynced, TypeOK, StoreTypeOK, PackageStored
  <2>3. UNCHANGED <<receipts, packageOf, pkgState, delState>>
    BY <1>18 DEF PowerLoss, dbVars
  <2>4. \A o \in Objects : upload[o] # "visible"
    BY <1>t DEF FileTables, FileStates
  <2>5. \A o \in Objects : /\ HasUpload(o) => HasUpload(o)'
                           /\ HasPackage(o) => HasPackage(o)'
                           /\ Archived(o)' <=> Archived(o)
    BY <1>u, <2>1, <2>2, <2>3, <2>4 DEF HasUpload, HasPackage, Archived, Sealed, OnDisk
  <2>6. \A o \in Objects : HasUpload(o)' \/ HasPackage(o)' => HasUpload(o) \/ HasPackage(o) \/ Archived(o)
    BY <2>3, CustodyFacts DEF HasUpload, HasPackage, Sealed
  <2>7. Custody!Copy
    BY <2>5, <2>6, CopyStep
  <2> QED
    BY <2>7 DEF Custody!Next
<1>19. ASSUME NEW r \in Objects, Accept(r) PROVE Custody!Next
  <2>1. /\ r \notin receipts /\ receipts' = receipts \cup {r} /\ upload'[r] = "durable"
        /\ \A o \in Objects : o # r => upload'[o] = SyncDir(upload)[o]
        /\ UNCHANGED <<payload, manifest, packageOf, pkgState, delState>>
    BY <1>t, <1>19 DEF Accept, SyncDir, TypeOK, StoreTypeOK, dbVars
  <2>2. \A o \in Objects : /\ o # r => (HasUpload(o)' <=> HasUpload(o))
                           /\ HasPackage(o)' <=> HasPackage(o)
                           /\ Archived(o)' <=> Archived(o)
    BY <1>3, <2>1 DEF HasUpload, HasPackage, Archived, Sealed, PackageStored
  <2>3. HasUpload(r)' /\ ~HasUpload(r) /\ ~HasPackage(r) /\ ~Archived(r)
    BY <2>1, CustodyFacts DEF HasUpload, HasPackage, Archived, OnDisk
  <2>4. Custody!Receive
    BY <2>2, <2>3, ReceiveStep
  <2> QED
    BY <2>4 DEF Custody!Next
\* The delivery of a package archives its members.
<1>20. ASSUME NEW p \in PackageIDs, DeliveryClaims(p) \/ DeliverySucceeds(p) \/ DeliveryFails(p)
       PROVE  Custody!Next \/ custody' = custody
  <2>1. /\ pkgState[p] = "sealed" /\ delState[p] # "delivered"
        /\ UNCHANGED <<receipts, upload, payload, manifest, packageOf, pkgState>>
        /\ \A q \in PackageIDs : q # p => delState'[q] = delState[q]
    BY <1>t, <1>20 DEF DeliveryClaims, DeliverySucceeds, DeliveryFails, claimPackageDelivery, Deliverable,
      markPackageDelivered, markPackageRetry, diskVars, RowTables, RowStates, TypeOK, StoreTypeOK
  <2>2. \A o \in Objects : /\ HasUpload(o)' <=> HasUpload(o)
                           /\ HasPackage(o)' <=> HasPackage(o)
    BY <2>1 DEF HasUpload, HasPackage, Sealed, PackageStored
  <2>3. CASE delState'[p] # "delivered"
    <3>1. \A o \in Objects : Archived(o)' <=> Archived(o)
      BY <1>u, <2>1, <2>3 DEF Archived, Sealed
    <3> QED
      BY <2>2, <3>1, CustodySame
  <2>4. CASE delState'[p] = "delivered"
    <3> DEFINE S == {o \in Objects : packageOf[o] = p}
    <3>1. PackageStored(p) /\ p # NoPackage
      BY <1>t, <2>1, PackageIDsFact DEF FileTables, UndeliveredPackageKept, NoPackage
    <3>2. \A o \in Objects : o \in S => HasPackage(o) /\ Archived(o)'
      BY <2>1, <2>4, <3>1 DEF HasPackage, Sealed, Archived
    <3>3. \A o \in Objects : o \notin S => (Archived(o)' <=> Archived(o))
      BY <1>u, <2>1 DEF Archived, Sealed
    <3>4. \A o \in Objects : Archived(o)' <=> Archived(o) \/ o \in S
      BY <3>2, <3>3, <2>1 DEF Archived, Sealed
    <3> HIDE DEF S
    <3>5. S \in SUBSET Objects
      BY DEF S
    <3>6. Custody!Archive
      BY <2>2, <3>2, <3>4, <3>5, ArchiveStep
    <3> QED
      BY <3>6 DEF Custody!Next
  <2> QED
    BY <2>3, <2>4
<1>21. ASSUME DeliveriesInterrupted PROVE custody' = custody
  <2>1. /\ UNCHANGED <<receipts, upload, payload, manifest, packageOf, pkgState>>
        /\ \A p \in PackageIDs : delState'[p] = "delivered" <=> delState[p] = "delivered"
    BY <1>21 DEF DeliveriesInterrupted, recoverInterruptedDeliveries, diskVars
  <2>2. \A o \in Objects : /\ HasUpload(o)' <=> HasUpload(o)
                           /\ HasPackage(o)' <=> HasPackage(o)
                           /\ Archived(o)' <=> Archived(o)
    BY <1>u, <2>1, PackageIDsFact DEF HasUpload, HasPackage, Archived, Sealed, PackageStored, NoPackage
  <2> QED
    BY <2>2, CustodySame
<1>22. PurgePackageFails => pc \in {"unlinkPackage", "syncPackage"}
  BY DEF PurgePackageFails
<1> QED
  BY <1>6, <1>7, <1>8, <1>9, <1>12, <1>13, <1>14, <1>15, <1>16, <1>17, <1>18, <1>19, <1>20, <1>21, <1>22
  DEF Next, Undisturbed, Scheduler, BuildCycle, SourcePurgeCycle, PackagePurgeCycle, Disruption, Clock,
    Receiver, Delivery

\* Packaging, with the receiver, the deliveries and every failure around it,
\* implements the abstract chain of custody.
THEOREM CustodyKept == Spec => KeepsCustody
<1>1. Init => Custody!Init
  <2> SUFFICES ASSUME Init PROVE custody = [o \in Objects |-> {}]
    BY DEF Custody!Init
  <2>1. \A o \in Objects : ~HasUpload(o) /\ ~HasPackage(o) /\ ~Archived(o)
    BY DEF Init, StoreInit, HasUpload, HasPackage, Archived, Sealed
  <2>2. \A o \in Objects : custody[o] = {}
    BY <2>1 DEF custody, HasUpload, HasPackage
  <2> QED
    BY <2>2, CustodyMeaning
<1> QED
  BY <1>1, Invariant, CustodyStep, PTL DEF Spec, KeepsCustody, Custody!Spec

\* An artifact somebody holds is held for ever, and the archive never gives one
\* up: the two sentences the chain of custody is worth having for.
THEOREM NothingDropped == Spec => Custody!NeverDropped /\ Custody!ArchiveKeeps
<1> DEFINE T == custody \in [Objects -> SUBSET {"upload", "package", "archive"}]
<1>1. T
  BY DEF custody
<1>2. ASSUME Custody!Next, NEW o \in Objects
      PROVE  /\ custody[o] # {} => custody'[o] # {}
             /\ "archive" \in custody[o] => "archive" \in custody'[o]
  <2>1. CASE Custody!Receive \/ Custody!Archive
    BY <1>1, <2>1 DEF Custody!Receive, Custody!Archive
  <2>2. CASE Custody!Copy
    BY <2>2 DEF Custody!Copy
  <2>3. CASE Custody!DropUpload
    BY <2>3 DEF Custody!DropUpload
  <2>4. CASE Custody!DropPackage
    BY <2>4 DEF Custody!DropPackage
  <2> QED
    BY <1>2, <2>1, <2>2, <2>3, <2>4 DEF Custody!Next
<1>3. [Custody!Next]_custody => [\A o \in Objects : custody[o] # {} => custody'[o] # {}]_custody
  BY <1>2
<1>4. [Custody!Next]_custody
        => [\A o \in Objects : "archive" \in custody[o] => "archive" \in custody'[o]]_custody
  BY <1>2
<1> QED
  BY <1>3, <1>4, CustodyKept, PTL DEF KeepsCustody, Custody!Spec, Custody!NeverDropped, Custody!ArchiveKeeps
=============================================================================
