--------------------------- MODULE DeliverProofs ---------------------------
(***************************************************************************)
(* The whole deliver process implements Packaging, whose environment was   *)
(* an assumption: every statement the delivery goroutines run, every       *)
(* shutdown, crash and restart is a step Packaging allows.  The safety of  *)
(* the store then holds of the process as it is.                           *)
(***************************************************************************)
EXTENDS Deliver, SelectionProofs

\* What the channel gives and takes are events.
LEMMA EventsTyped ==
  ASSUME events \in Seq(Event)
  PROVE  /\ events # <<>> => /\ Head(events).package \in PackageIDs
                             /\ Tail(events) \in Seq(Event)
         /\ \A p \in PackageIDs, k \in {"progress", "success", "failure"} :
              Append(events, Note(p, k)) \in Seq(Event)
<1>1. events # <<>> => Head(events) \in Event /\ Tail(events) \in Seq(Event)
  BY SMT
<1>2. \A p \in PackageIDs, k \in {"progress", "success", "failure"} : Note(p, k) \in Event
  BY DEF Note, Event
<1>3. \A e \in Event : e.package \in PackageIDs /\ Append(events, e) \in Seq(Event)
  BY SMT DEF Event
<1> QED
  BY <1>1, <1>2, <1>3

\* A step that leaves the store and restarts the loop of packaging is a crash
\* there, or nothing.
LEMMA LoopIsCrash ==
  ASSUME DeliverInv, Loop, UNCHANGED <<storeVars, aged>>
  PROVE  [Next]_vars
<1>1. CASE pc = "claim"
  BY <1>1 DEF DeliverInv, ResumesAtTop, Loop, vars, localVars
<1>2. CASE pc # "claim"
  <2>1. Crash
    BY <1>2 DEF Crash
  <2> QED
    BY <2>1 DEF Next, Disruption
<1> QED
  BY <1>1, <1>2

\* What the steps of the scheduler goroutine do to the store.
LEMMA DeliveryStepRefines ==
  ASSUME DeliverInv, DeliveryStep
  PROVE  [Next]_vars
<1>q. UNCHANGED <<localVars, aged>>
  BY DEF DeliveryStep
<1>t. delState \in [PackageIDs -> {"none", "pending", "delivering", "retry_wait", "delivered"}]
  BY DEF DeliverInv, IInv, TypeOK, StoreTypeOK
<1>u. ASSUME UNCHANGED storeVars PROVE [Next]_vars
  BY <1>q, <1>u DEF vars
<1>1. CASE Recover
  <2>1. CASE \E p \in PackageIDs : delState[p] = "delivering"
    <3>1. DeliveriesInterrupted
      BY <1>1, <1>q, <2>1 DEF Recover, DeliveriesInterrupted
    <3> QED
      BY <3>1 DEF Next, Undisturbed, Delivery
  <2>2. CASE ~\E p \in PackageIDs : delState[p] = "delivering"
    <3>1. delState' = delState
      BY <1>1, <1>t, <2>2 DEF Recover, recoverInterruptedDeliveries
    <3> QED
      BY <1>1, <1>u, <3>1 DEF Recover, storeVars, dbVars
  <2> QED
    BY <2>1, <2>2
<1>2. ASSUME NEW o \in Objects, Discover(o) PROVE [Next]_vars
  <2>1. CASE o \notin indexed /\ OnDisk(upload[o])
    <3>1. Index(o)
      BY <1>2, <1>q, <2>1 DEF Discover, Index, DeliverInv
    <3> QED
      BY <3>1 DEF Next, Undisturbed, Receiver
  <2>2. CASE ~(o \notin indexed /\ OnDisk(upload[o]))
    BY <1>2, <1>u, <2>2 DEF Discover, storeVars, dbVars
  <2> QED
    BY <2>1, <2>2
<1>3. CASE RecordSuccess
  <2> DEFINE p == Head(events).package
  <2>1. p \in PackageIDs
    BY <1>3, EventsTyped DEF RecordSuccess, Receive, DeliverInv
  <2>2. CASE delState[p] = "delivering"
    <3>1. OnDisk(payload[p]) /\ OnDisk(manifest[p])
      BY <2>1, <2>2 DEF DeliverInv, IInv, RowInv, RowStates, FileInv, UndeliveredPackageKept, PackageStored, OnDisk
    <3>2. DeliverySucceeds(p)
      BY <1>3, <1>q, <2>2, <3>1 DEF RecordSuccess, DeliverySucceeds
    <3> QED
      BY <2>1, <3>2 DEF Next, Undisturbed, Delivery
  <2>3. CASE delState[p] # "delivering"
    BY <1>3, <1>u, <2>3 DEF RecordSuccess, storeVars, dbVars
  <2> QED
    BY <2>2, <2>3
<1>4. CASE RecordFailure
  <2> DEFINE p == Head(events).package
  <2>1. p \in PackageIDs
    BY <1>4, EventsTyped DEF RecordFailure, Receive, DeliverInv
  <2>2. CASE delState[p] = "delivering"
    <3>1. DeliveryFails(p)
      BY <1>4, <1>q, <2>2 DEF RecordFailure, DeliveryFails
    <3> QED
      BY <2>1, <3>1 DEF Next, Undisturbed, Delivery
  <2>3. CASE delState[p] # "delivering"
    BY <1>4, <1>u, <2>3 DEF RecordFailure, storeVars, dbVars
  <2> QED
    BY <2>2, <2>3
<1>5. ASSUME NEW p \in PackageIDs, Claim(p) PROVE [Next]_vars
  <2>1. DeliveryClaims(p)
    BY <1>5, <1>q DEF Claim, DeliveryClaims
  <2> QED
    BY <2>1 DEF Next, Undisturbed, Delivery
<1>6. CASE \/ DiscoverDone \/ RecordProgress \/ DrainDone \/ ClaimsDone \/ Poll
           \/ PackagingFailed \/ DiscardEvent \/ StopDone
  BY <1>6, <1>u DEF DiscoverDone, RecordProgress, DrainDone, ClaimsDone, Poll, PackagingFailed,
    DiscardEvent, StopDone
<1> QED
  BY <1>1, <1>2, <1>3, <1>4, <1>5, <1>6 DEF DeliveryStep, DeliveryLoop

\* Every step of the process is a step of Packaging or leaves its state alone.
LEMMA DeliverStepRefines == DeliverInv /\ [DeliverNext]_deliverVars => [Next]_vars
<1> SUFFICES ASSUME DeliverInv, [DeliverNext]_deliverVars PROVE [Next]_vars
  OBVIOUS
<1>1. CASE PackagingStep
  BY <1>1 DEF PackagingStep, Next, Undisturbed
<1>2. CASE PackagingDisrupted
  BY <1>2 DEF PackagingDisrupted, Next, Disruption
<1>3. CASE PackagingEnds \/ PackagingEndsEarly
  BY <1>3, LoopIsCrash DEF PackagingEnds, PackagingEndsEarly, PackagingStopped, PackagingFails
<1>4. CASE DeliveryStep
  BY <1>4, DeliveryStepRefines
<1>5. CASE UploadStep \/ DeliveryDisrupted
  BY <1>5 DEF UploadStep, Uploads, ReportProgress, UploadSucceeds, SendOutcome, DeliveryDisrupted,
    DeliveryDisruption, Stop, UploadFails, vars
<1>6. CASE Deadlines
  BY <1>6 DEF Deadlines, DeliveryClock, RetryDelayElapses, ReconcileIntervalElapses, Next, Undisturbed, vars
<1>7. CASE ReceiverStep
  BY <1>7 DEF ReceiverStep, Next, Undisturbed
<1>8. CASE ProcessDies
  BY <1>8, LoopIsCrash DEF ProcessDies
<1>9. CASE MachineDies
  BY <1>9 DEF MachineDies, Next, Disruption
<1>10. CASE UNCHANGED deliverVars
  BY <1>10 DEF deliverVars
<1> QED
  BY <1>1, <1>2, <1>3, <1>4, <1>5, <1>6, <1>7, <1>8, <1>9, <1>10 DEF DeliverNext, DeliverWorks

-----------------------------------------------------------------------------
(* The invariant of the composition *)

\* The goroutine returns to the top of its loop with nothing in hand, and only
\* moves while it runs.
LEMMA ResumesStep == DeliverInv /\ [DeliverNext]_deliverVars => ResumesAtTop'
<1> SUFFICES ASSUME DeliverInv, [DeliverNext]_deliverVars PROVE ResumesAtTop'
  OBVIOUS
<1>1. Loop => ResumesAtTop'
  BY DEF Loop, ResumesAtTop
<1>2. \A step, thing : GoTo(step, thing) /\ step # "claim" /\ packager = "running"
                         /\ UNCHANGED packager => ResumesAtTop'
  BY DEF GoTo, ResumesAtTop
<1>3. UNCHANGED localVars /\ (packager' = "running" \/ packager' = packager) => ResumesAtTop'
  BY DEF DeliverInv, ResumesAtTop, localVars
<1>4. CASE PackagingStep
  <2>1. packager = "running" /\ UNCHANGED packager
    BY <1>4 DEF PackagingStep, deliveryVars, schedulerVars
  <2>2. CASE BuildCycle
    <3>1. NextProject => pc' \in {"scan", "source"}
      BY DEF NextProject
    <3>2. CASE ScanNothing \/ ScanNotReady \/ ScanIdentity \/ ScanReady
      BY <2>1, <3>1, <3>2 DEF ScanNothing, ScanNotReady, ScanIdentity, ScanReady, ResumesAtTop
    <3>3. CASE Reserve
      BY <1>1, <2>1, <3>1, <3>3 DEF Reserve, ResumesAtTop
    <3>4. CASE (\E p \in PackageIDs : NextBuildingPackage(p)) \/ NoBuildingPackage
      BY <1>2, <2>1, <3>4 DEF NextBuildingPackage, NoBuildingPackage
    <3>5. CASE Merge \/ PublishPayload \/ SyncPayload \/ PublishManifest \/ SyncManifest
      BY <1>2, <2>1, <3>5 DEF Merge, PublishPayload, SyncPayload, PublishManifest, SyncManifest
    <3>6. CASE Seal \/ Probe
      BY <1>1, <3>6 DEF Seal, Probe, RetryBuild, Isolate
    <3> QED
      BY <2>2, <3>2, <3>3, <3>4, <3>5, <3>6 DEF BuildCycle
  <2>3. CASE SourcePurgeCycle
    BY <1>1, <1>2, <2>1, <2>3 DEF SourcePurgeCycle, NextSourceToPurge, NoSourceToPurge, UnlinkSource,
      SyncSource, MarkSourcePurged
  <2>4. CASE PackagePurgeCycle
    BY <1>1, <1>2, <2>1, <2>4 DEF PackagePurgeCycle, NextPackagePurge, NoPackageToPurge, UnlinkPackage,
      SyncPackage, MarkPackagePurged
  <2> QED
    BY <1>4, <2>2, <2>3, <2>4 DEF PackagingStep, Scheduler
<1>5. CASE PackagingDisrupted
  <2>1. packager = "running" /\ UNCHANGED packager
    BY <1>5 DEF PackagingDisrupted, deliveryVars, schedulerVars
  <2> QED
    BY <1>1, <1>2, <1>5, <2>1 DEF PackagingDisrupted, BuildFails, ProbeDenied, ProbeMisreads, RetryBuild,
      Isolate, PurgeSourceFails, PurgePackageFails, MarkSourcePurgeRetry, MarkPackagePurgeRetry
<1>6. CASE PackagingEnds \/ PackagingEndsEarly \/ ProcessDies \/ MachineDies
  BY <1>1, <1>6 DEF PackagingEnds, PackagingEndsEarly, ProcessDies, MachineDies, PowerLoss
<1>7. CASE DeliveryStep
  <2>1. UNCHANGED localVars
    BY <1>7 DEF DeliveryStep
  <2>2. CASE PackagingFailed
    BY <2>1, <2>2 DEF PackagingFailed, DeliverInv, ResumesAtTop, localVars
  <2>3. CASE ~PackagingFailed
    <3>1. packager' = "running" \/ packager' = packager
      BY <1>7, <2>3 DEF DeliveryStep, DeliveryLoop, Recover, Discover, DiscoverDone, RecordProgress,
        RecordSuccess, RecordFailure, DrainDone, Claim, ClaimsDone, Poll, DiscardEvent, StopDone
    <3> QED
      BY <1>3, <2>1, <3>1
  <2> QED
    BY <2>2, <2>3
<1>8. CASE UploadStep \/ DeliveryDisrupted
  BY <1>3, <1>8 DEF UploadStep, Uploads, ReportProgress, UploadSucceeds, SendOutcome, DeliveryDisrupted,
    DeliveryDisruption, Stop, UploadFails, schedulerVars
<1>9. CASE Deadlines
  BY <1>3, <1>9 DEF Deadlines, Clock, BuildBackoffElapses, RetentionElapses, SourceBackoffElapses,
    MaxWaitElapses, DeliveryClock, RetryDelayElapses, ReconcileIntervalElapses, deliveryVars, schedulerVars
<1>10. CASE ReceiverStep
  BY <1>3, <1>10 DEF ReceiverStep, Receiver, Accept, Index, deliveryVars, schedulerVars
<1>11. CASE UNCHANGED deliverVars
  BY <1>3, <1>11 DEF deliverVars, vars, deliveryVars, schedulerVars
<1> QED
  BY <1>4, <1>5, <1>6, <1>7, <1>8, <1>9, <1>10, <1>11 DEF DeliverNext, DeliverWorks

\* Receipts stay, and what reconciliation lists are receipts.
LEMMA ReceiptsKept == [Next]_vars => receipts \subseteq receipts'
BY DEF Next, Undisturbed, Scheduler, BuildCycle, SourcePurgeCycle, PackagePurgeCycle, Disruption, Clock,
  Receiver, Delivery, NextBuildingPackage, NoBuildingPackage, ScanNothing, ScanIdentity, ScanNotReady,
  ScanReady, Reserve, Merge, PublishPayload, SyncPayload, PublishManifest, SyncManifest, Seal, Probe,
  RetryBuild, Isolate, NextSourceToPurge, NoSourceToPurge, UnlinkSource, SyncSource, MarkSourcePurged,
  NextPackagePurge, NoPackageToPurge, UnlinkPackage, SyncPackage, MarkPackagePurged, BuildFails,
  ProbeDenied, ProbeMisreads, PurgeSourceFails, PurgePackageFails, Crash, PowerLoss, BuildBackoffElapses,
  SourceBackoffElapses, RetentionElapses, MaxWaitElapses, Accept, Index, DeliveryClaims, DeliverySucceeds,
  DeliveryFails, DeliveriesInterrupted, vars, storeVars, diskVars

\* Reconciliation lists receipts only, and the channel holds events only.
LEMMA ListsStep ==
  ASSUME DeliverInv, [DeliverNext]_deliverVars
  PROVE  (unread \subseteq receipts /\ events \in Seq(Event))'
<1>1. receipts \subseteq receipts'
  BY DeliverStepRefines, ReceiptsKept
<1>2. ASSUME UNCHANGED deliveryVars PROVE (unread \subseteq receipts /\ events \in Seq(Event))'
  BY <1>1, <1>2 DEF DeliverInv, deliveryVars, schedulerVars, uploadVars
<1>3. unread' \subseteq unread \/ unread' \subseteq receipts
  BY DEF DeliverNext, DeliverWorks, PackagingStep, PackagingDisrupted, PackagingEnds, PackagingEndsEarly,
    PackagingStopped, PackagingFails, DeliveryStep, DeliveryLoop, Recover, Discover, DiscoverDone,
    RecordProgress, RecordSuccess, RecordFailure, DrainDone, Claim, ClaimsDone, Poll, PackagingFailed,
    DiscardEvent, StopDone, UploadStep, Uploads, ReportProgress, UploadSucceeds, SendOutcome,
    DeliveryDisrupted, DeliveryDisruption, Stop, UploadFails, Deadlines, DeliveryClock,
    RetryDelayElapses, ReconcileIntervalElapses, ReceiverStep, ProcessDies, MachineDies, ProcessLost,
    deliverVars, deliveryVars, schedulerVars
<1>4. \/ UNCHANGED events
      \/ events' = <<>>
      \/ events # <<>> /\ events' = Tail(events)
      \/ \E p \in PackageIDs, k \in {"progress", "success", "failure"} : events' = Append(events, Note(p, k))
  <2>1. CASE UploadStep
    BY <2>1 DEF UploadStep, Uploads, ReportProgress, UploadSucceeds, SendOutcome
  <2>2. CASE DeliveryStep
    BY <2>2 DEF DeliveryStep, DeliveryLoop, Recover, Discover, DiscoverDone, RecordProgress, RecordSuccess,
      RecordFailure, Receive, DrainDone, Claim, ClaimsDone, Poll, PackagingFailed, DiscardEvent, StopDone,
      uploadVars
  <2>3. CASE ~UploadStep /\ ~DeliveryStep
    BY <2>3 DEF DeliverNext, DeliverWorks, PackagingStep, PackagingDisrupted, PackagingEnds,
      PackagingEndsEarly, PackagingStopped, PackagingFails, DeliveryDisrupted, DeliveryDisruption, Stop,
      UploadFails, Deadlines, DeliveryClock, RetryDelayElapses, ReconcileIntervalElapses, ReceiverStep,
      ProcessDies, MachineDies, ProcessLost, deliverVars, deliveryVars, uploadVars
  <2> QED
    BY <2>1, <2>2, <2>3
<1>5. events' \in Seq(Event)
  <2>1. <<>> \in Seq(Event)
    BY SMT
  <2> QED
    BY <1>4, <2>1, EventsTyped DEF DeliverInv
<1> QED
  BY <1>1, <1>3, <1>5 DEF DeliverInv

\* Every step of the process keeps its invariant.
LEMMA DeliverInvStep == DeliverInv /\ [DeliverNext]_deliverVars => DeliverInv'
<1> SUFFICES ASSUME DeliverInv, [DeliverNext]_deliverVars PROVE DeliverInv'
  OBVIOUS
<1>1. IInv'
  BY DeliverStepRefines, InvariantStep DEF DeliverInv
<1> QED
  BY <1>1, ResumesStep, ListsStep DEF DeliverInv

\* The invariant holds before the first process starts.
LEMMA DeliverInvInit == DeliverInit => DeliverInv
<1>1. <<>> \in Seq(Event)
  BY SMT
<1> QED
  BY <1>1, InvariantInit DEF DeliverInit, DeliveryInit, DeliverInv, Init, ResumesAtTop

-----------------------------------------------------------------------------

\* The deliver process as a whole, with its deliveries, shutdowns, crashes and
\* restarts, implements Packaging: the environment assumed there is this one.
THEOREM DeliverImplementsPackaging == DeliverSpec => ImplementsPackaging
<1>1. DeliverInit => Init
  BY DEF DeliverInit
<1> QED
  BY <1>1, DeliverInvInit, DeliverInvStep, DeliverStepRefines, PTL DEF DeliverSpec, ImplementsPackaging, Spec

\* So the deliver process loses no artifact that has a receipt.
THEOREM DeliverLosesNothing == DeliverSpec => []NoArtifactLost
BY DeliverImplementsPackaging, ArtifactsSafe, PTL DEF ImplementsPackaging

\* And what is proved of packaging alone holds beside deliveries, signals and
\* restarts: no shutdown leaves a half-built package to a delivery, a row without
\* its members or a project that drains without a target.
THEOREM DeliverKeepsPackaging ==
  DeliverSpec => [](/\ UndeliveredPackageKept
                    /\ PurgedStaysGone
                    /\ MembershipConsistent
                    /\ BlockedHoldsFailedOnly
                    /\ ReservationSucceeds
                    /\ PackagesFit
                    /\ DrainingHasTarget)
BY DeliverImplementsPackaging, UndeliveredKept, PurgesFinal, MembershipCorrect, IsolationCorrect,
   ReservationsSucceed, PackagesWithinTarget, DrainingCorrect, PTL DEF ImplementsPackaging

=============================================================================
