------------------------------ MODULE Deliver ------------------------------
(***************************************************************************)
(* The deliver process: the packaging goroutine (Packaging) and the        *)
(* delivery goroutines (Delivery) at work on one store, next to the        *)
(* receiver process, with shutdowns, crashes, power losses and restarts    *)
(* of the whole.                                                           *)
(*                                                                         *)
(* Packaging takes the deliveries as an environment that claims packages   *)
(* and records outcomes.  Here they are the real ones, and the process     *)
(* implements Packaging!Spec: what is shown there holds here.              *)
(***************************************************************************)
EXTENDS Packaging, Delivery

deliverVars == <<vars, deliveryVars>>

DeliverInit == Init /\ DeliveryInit

\* The packaging goroutine runs until its context is cancelled or an error
\* ends it; a statement that is under way then may still take effect.
PackagingStep ==
  /\ packager = "running"
  /\ Scheduler
  /\ UNCHANGED deliveryVars

PackagingDisrupted ==
  /\ packager = "running"
  /\ \/ BuildFails \/ ProbeDenied \/ PurgeSourceFails \/ PurgePackageFails
     \/ \E misread \in SUBSET Misreadable : ProbeMisreads(misread)
  /\ UNCHANGED deliveryVars

\* However the goroutine ends, the next process starts it anew.
PackagingEnds == PackagingStopped /\ Loop /\ UNCHANGED aged
PackagingEndsEarly == PackagingFails /\ Loop /\ UNCHANGED aged

DeliveryStep == DeliveryLoop /\ UNCHANGED <<localVars, aged>>

UploadStep == Uploads /\ UNCHANGED <<localVars, aged>>

DeliveryDisrupted == DeliveryDisruption /\ UNCHANGED <<localVars, aged>>

Deadlines ==
  \/ Clock /\ UNCHANGED deliveryVars
  \/ DeliveryClock /\ UNCHANGED <<localVars, aged>>

\* The receiver is another process, and outlives this one.
ReceiverStep == Receiver /\ UNCHANGED deliveryVars

ProcessDies == ProcessLost /\ Loop /\ UNCHANGED <<storeVars, aged>>

MachineDies == ProcessLost /\ PowerLoss

DeliverWorks ==
  PackagingStep \/ PackagingEnds \/ DeliveryStep \/ UploadStep \/ Deadlines \/ ReceiverStep

DeliverNext ==
  \/ DeliverWorks
  \/ PackagingDisrupted \/ PackagingEndsEarly \/ DeliveryDisrupted \/ ProcessDies \/ MachineDies

DeliverSpec == DeliverInit /\ [][DeliverNext]_deliverVars

-----------------------------------------------------------------------------
(* Fairness *)

\* Both loops run and the process is restarted whenever it is down; an upload
\* ends, within deliveryAttemptTimeout at the latest; a send that waits for
\* room gets it when others have had theirs (channels serve senders in order);
\* deadlines pass.
DeliverFairness ==
  /\ WF_deliverVars(PackagingStep) /\ WF_deliverVars(PackagingEnds)
  /\ WF_deliverVars(DeliveryStep)
  /\ \A p \in PackageIDs :
       /\ WF_deliverVars((UploadSucceeds(p) \/ UploadFails(p)) /\ UNCHANGED <<localVars, aged>>)
       /\ SF_deliverVars(SendOutcome(p) /\ UNCHANGED <<localVars, aged>>)
       /\ WF_deliverVars(RetryDelayElapses(p) /\ UNCHANGED <<localVars, aged>>)
       /\ WF_deliverVars((BuildBackoffElapses(p) \/ RetentionElapses(p)) /\ UNCHANGED deliveryVars)
  /\ \A o \in Objects :
       WF_deliverVars((SourceBackoffElapses(o) \/ MaxWaitElapses(o)) /\ UNCHANGED deliveryVars)
  /\ WF_deliverVars(ReconcileIntervalElapses /\ UNCHANGED <<localVars, aged>>)

\* Failures, signals and crashes stop at some time; nothing bounds how many.
DeliverFairSpec == DeliverSpec /\ DeliverFairness /\ <>[][DeliverWorks]_deliverVars

-----------------------------------------------------------------------------

\* What an upload reads stays there until it has ended: packaging, which removes
\* packages in the same loop as it builds them, never touches this one, and no
\* power loss takes a file of a package that was claimed.
FilesKeptForUpload ==
  \A p \in PackageIDs : task[p] = "uploading" => PackageStored(p)

\* A receipt is a promise of the whole process, not of its rows: the bytes are in
\* the upload, in a sealed package, or in what the archive has really received,
\* whatever was recorded of attempts that failed, were cut off or were repeated.
ReceiptsHonoured ==
  \A o \in receipts :
    \/ OnDisk(upload[o])
    \/ Sealed(o) /\ (PackageStored(packageOf[o]) \/ packageOf[o] \in archive)

\* What the archive receives is final: a sealed package, and the only one that
\* any of its artifacts will ever be in.
ArchivedOnce ==
  \A p \in archive : pkgState[p] = "sealed" /\ \A o \in p : packageOf[o] = p

\* design.md 163-164 has a single scheduler that runs claims, state updates,
\* packaging and cleanup one after the other: no row of deliveries would change
\* while packaging is in the middle of a build or a removal.
OneSchedulerForAll ==
  [][delState' # delState => pc \notin BuildSteps \cup SourceSteps \cup PurgeSteps]_deliverVars

\* The deliveries do to the store only what Packaging allows its environment.
ImplementsPackaging == Spec

\* What the refinement rests on beside Packaging's own invariant: the goroutine
\* is at the top of its loop while it does not run, and reconciliation looks at
\* receipts only.
ResumesAtTop ==
  /\ pc = "claim" => cursor = 1 /\ hand = {} /\ keepDraining = FALSE
  /\ packager # "running" => pc = "claim"
DeliverInv ==
  /\ IInv /\ ResumesAtTop
  /\ unread \subseteq receipts
  /\ events \in Seq(Event)
=============================================================================
