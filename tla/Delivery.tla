------------------------------ MODULE Delivery ------------------------------
(***************************************************************************)
(* The delivery goroutines of the deliver process: the scheduler loop of   *)
(* runScheduler, one goroutine per upload to the archive, and the bounded  *)
(* events channel they report on.  A step is one statement on the          *)
(* database, one channel operation, or the end of an upload.               *)
(*                                                                         *)
(* The packaging goroutine is seen from here only as something that can    *)
(* fail and that a shutdown waits for; Deliver puts both goroutines, the   *)
(* receiver and the failures together.  The plan of a delivery is written  *)
(* by the same program and decodes; the order of created_at between        *)
(* packages of one class is left open.                                     *)
(***************************************************************************)
EXTENDS Store, Sequences

CONSTANT Concurrency \* delivery_concurrency, 0 when deliveries are disabled

ASSUME ConcurrencyAssumption == Concurrency \in Nat

VARIABLES
  stage,           \* where the scheduler is in its loop, "down" without a process
  unread,          \* receipts discoverAccepted has listed and not yet looked at
  reconcileDue,    \* the hour until the next reconciliation is over
  active,          \* the local of that name: uploads without a handled outcome
  events,          \* the channel from the upload goroutines
  task,            \* the goroutine of each package
  packager,        \* the packaging goroutine: off, running, or failed and not yet noticed
  deliveryBackoff, \* packages whose deliveries.next_attempt_at is in the future
  progressed,      \* packages whose deliveries.progress is set
  archive          \* packages the archive has received

schedulerVars == <<stage, unread, reconcileDue, active, packager>>
uploadVars    == <<events, task, archive>>
deliveryVars  == <<schedulerVars, uploadVars, deliveryBackoff, progressed>>

Capacity == 2 * Concurrency
Event == [package : PackageIDs, kind : {"progress", "success", "failure"}]
Note(p, kind) == [package |-> p, kind |-> kind]
Serving == {"drain", "claim", "wait"}

DeliveryTypeOK ==
  /\ stage \in {"down", "discover", "stop"} \cup Serving
  /\ unread \subseteq Objects
  /\ reconcileDue \in BOOLEAN
  /\ active \in 0..Concurrency
  /\ events \in Seq(Event) /\ Len(events) <= Capacity
  /\ task \in [PackageIDs -> {"idle", "uploading", "succeeded", "failed"}]
  /\ packager \in {"off", "running", "failed"}
  /\ deliveryBackoff \subseteq PackageIDs
  /\ progressed \subseteq PackageIDs
  /\ archive \subseteq PackageIDs

DeliveryInit ==
  /\ stage = "down" /\ unread = {} /\ active = 0 /\ packager = "off"
  /\ events = <<>> /\ task = [p \in PackageIDs |-> "idle"]
  /\ reconcileDue = FALSE
  /\ deliveryBackoff = {} /\ progressed = {} /\ archive = {}

-----------------------------------------------------------------------------
(* runDelivery: what a new process does first *)

\* Mutant: rows in state delivering are left to the process that claimed them.
RecoverNothing ==
  /\ stage = "down"
  /\ stage' = "discover" /\ unread' = receipts
  /\ UNCHANGED <<storeVars, reconcileDue, active, packager, uploadVars, deliveryBackoff, progressed>>

\* Mutant: WHERE state!='delivered'.
RecoverEverything ==
  /\ stage = "down"
  /\ delState' = [p \in PackageIDs |-> IF delState[p] \in {"none", "delivered"}
                                       THEN delState[p] ELSE "retry_wait"]
  /\ stage' = "discover" /\ unread' = receipts
  /\ UNCHANGED <<indexed, packageOf, packagingError, sourcePurged, sourceBackoff, pkgState,
                 members, buildBackoff, purge, draining, diskVars, reconcileDue, active,
                 packager, uploadVars, deliveryBackoff, progressed>>

\* With the process lock: deliveries without an outcome may be tried again at
\* once; then the receipts are listed.
Recover ==
  /\ stage = "down"
  /\ recoverInterruptedDeliveries
  /\ LET interrupted == {p \in PackageIDs : delState[p] = "delivering"} IN
       /\ deliveryBackoff' = deliveryBackoff \ interrupted
       /\ progressed' = progressed \ interrupted
  /\ stage' = "discover" /\ unread' = receipts
  /\ UNCHANGED <<indexed, packageOf, packagingError, sourcePurged, sourceBackoff, pkgState,
                 members, buildBackoff, purge, draining, diskVars, reconcileDue, active,
                 packager, uploadVars>>

\* discoverAccepted: a receipt without a row gets one, from the .info file of
\* its upload; a receipt whose upload cannot be read is skipped.
Discover(o) ==
  /\ stage = "discover"
  /\ o \in unread
  /\ unread' = unread \ {o}
  /\ IF o \notin indexed /\ OnDisk(upload[o]) THEN addArtifact(o)
     ELSE UNCHANGED <<indexed, packageOf, packagingError, sourcePurged, sourceBackoff>>
  /\ UNCHANGED <<pkgState, members, buildBackoff, purge, draining, delState, diskVars, stage,
                 reconcileDue, active, packager, uploadVars, deliveryBackoff, progressed>>

\* At the start of the process the packaging goroutine starts now; later the
\* loop goes on with its claims.
DiscoverDone ==
  /\ stage = "discover"
  /\ unread = {}
  /\ stage' = IF packager = "off" THEN "drain" ELSE "claim"
  /\ packager' = IF packager = "off" THEN "running" ELSE packager
  /\ reconcileDue' = FALSE
  /\ UNCHANGED <<storeVars, unread, active, uploadVars, deliveryBackoff, progressed>>

-----------------------------------------------------------------------------
(* runScheduler and handlePackageDeliveryEvent *)

\* The next event is received, in the drain loop or in the final select.
Receive(kind) ==
  /\ stage \in {"drain", "wait"}
  /\ events # <<>>
  /\ Head(events).kind = kind
  /\ events' = Tail(events)

\* A snapshot that finds no row is only logged.
RecordProgress ==
  /\ Receive("progress")
  /\ progressed' = progressed \cup {p \in {Head(events).package} : delState[p] = "delivering"}
  /\ stage' = "drain"
  /\ UNCHANGED <<storeVars, unread, reconcileDue, active, packager, task, archive, deliveryBackoff>>

\* An outcome that finds no row in state delivering stops the process.
RecordSuccess ==
  LET p == Head(events).package IN
  /\ Receive("success")
  /\ active' = active - 1
  /\ IF delState[p] = "delivering"
     THEN /\ markPackageDelivered(p)
          /\ deliveryBackoff' = deliveryBackoff \ {p} /\ progressed' = progressed \ {p}
          /\ stage' = "drain"
     ELSE stage' = "stop" /\ UNCHANGED <<delState, purge, deliveryBackoff, progressed>>
  /\ UNCHANGED <<indexed, packageOf, packagingError, sourcePurged, sourceBackoff, pkgState,
                 members, buildBackoff, draining, diskVars, unread, reconcileDue, packager,
                 task, archive>>

\* Mutant: the slot of a failed upload is not given back.
RecordFailureKeepsSlot ==
  LET p == Head(events).package IN
  /\ Receive("failure")
  /\ markPackageRetry(p)
  /\ deliveryBackoff' = deliveryBackoff \cup {p} /\ progressed' = progressed \ {p}
  /\ stage' = "drain"
  /\ UNCHANGED <<indexed, packageOf, packagingError, sourcePurged, sourceBackoff, pkgState,
                 members, buildBackoff, purge, draining, diskVars, unread, reconcileDue, active,
                 packager, task, archive>>

RecordFailure ==
  LET p == Head(events).package IN
  /\ Receive("failure")
  /\ active' = active - 1
  /\ IF delState[p] = "delivering"
     THEN /\ markPackageRetry(p)
          /\ deliveryBackoff' = deliveryBackoff \cup {p} /\ progressed' = progressed \ {p}
          /\ stage' = "drain"
     ELSE stage' = "stop" /\ UNCHANGED <<delState, deliveryBackoff, progressed>>
  /\ UNCHANGED <<indexed, packageOf, packagingError, sourcePurged, sourceBackoff, pkgState,
                 members, buildBackoff, purge, draining, diskVars, unread, reconcileDue,
                 packager, task, archive>>

\* Mutant: receipts are listed at the start of the process only.
DrainDoneWithoutReconcile ==
  /\ stage = "drain"
  /\ events = <<>> /\ packager = "running"
  /\ stage' = "claim"
  /\ UNCHANGED <<storeVars, unread, reconcileDue, active, packager, uploadVars, deliveryBackoff, progressed>>

DrainDone ==
  /\ stage = "drain"
  /\ events = <<>> /\ packager = "running"
  /\ stage' = IF reconcileDue THEN "discover" ELSE "claim"
  /\ unread' = IF reconcileDue THEN receipts ELSE {}
  /\ UNCHANGED <<storeVars, reconcileDue, active, packager, uploadVars, deliveryBackoff, progressed>>

\* Pending deliveries go before those that are tried again.
Claimable == Deliverable \ deliveryBackoff
FirstClass(p) == delState[p] = "pending" \/ \A q \in Claimable : delState[q] # "pending"

\* A claim and the start of the goroutine that uploads.
Claim(p) ==
  /\ stage = "claim"
  /\ active < Concurrency
  /\ p \in Claimable /\ FirstClass(p)
  /\ claimPackageDelivery(p)
  /\ progressed' = progressed \ {p}
  /\ task' = [task EXCEPT ![p] = "uploading"]
  /\ active' = active + 1
  /\ UNCHANGED <<indexed, packageOf, packagingError, sourcePurged, sourceBackoff, pkgState,
                 members, buildBackoff, purge, draining, diskVars, stage, unread, reconcileDue,
                 packager, events, archive, deliveryBackoff>>

ClaimsDone ==
  /\ stage = "claim"
  /\ active = Concurrency \/ Claimable = {}
  /\ stage' = "wait"
  /\ UNCHANGED <<storeVars, unread, reconcileDue, active, packager, uploadVars, deliveryBackoff, progressed>>

\* deliveryPollInterval
Poll ==
  /\ stage = "wait"
  /\ stage' = "drain"
  /\ UNCHANGED <<storeVars, unread, reconcileDue, active, packager, uploadVars, deliveryBackoff, progressed>>

-----------------------------------------------------------------------------
(* Shutdown *)

\* Mutant: the scheduler starts over without waiting for its uploads.
PackagingFailedRestarts ==
  /\ stage \in {"drain", "wait"}
  /\ packager = "failed"
  /\ stage' = "down" /\ packager' = "off"
  /\ UNCHANGED <<storeVars, unread, reconcileDue, active, uploadVars, deliveryBackoff, progressed>>

\* The packaging goroutine has ended with an error: its result is received.
PackagingFailed ==
  /\ stage \in {"drain", "wait"}
  /\ packager = "failed"
  /\ stage' = "stop" /\ packager' = "off"
  /\ UNCHANGED <<storeVars, unread, reconcileDue, active, uploadVars, deliveryBackoff, progressed>>

PackagingFails ==
  /\ packager = "running"
  /\ packager' = "failed"
  /\ UNCHANGED <<storeVars, stage, unread, reconcileDue, active, uploadVars, deliveryBackoff, progressed>>

\* A signal, or a statement on the database that fails: every context is
\* cancelled, so no statement of the loop takes effect any more.
Stop ==
  /\ stage \in Serving \cup {"discover"}
  /\ stage' = IF packager = "off" THEN "down" ELSE "stop"
  /\ unread' = {}
  /\ UNCHANGED <<storeVars, reconcileDue, active, packager, uploadVars, deliveryBackoff, progressed>>

\* Mutant: every event gives a slot back.
DiscardEventAsOutcome ==
  /\ stage = "stop"
  /\ events # <<>>
  /\ events' = Tail(events)
  /\ active' = active - 1
  /\ UNCHANGED <<storeVars, stage, unread, reconcileDue, packager, task, archive, deliveryBackoff, progressed>>

\* Mutant: no event does.
DiscardEventUncounted ==
  /\ stage = "stop"
  /\ events # <<>>
  /\ events' = Tail(events)
  /\ UNCHANGED <<storeVars, schedulerVars, task, archive, deliveryBackoff, progressed>>

\* stop: outcomes are received and counted, not recorded.
DiscardEvent ==
  /\ stage = "stop"
  /\ events # <<>>
  /\ events' = Tail(events)
  /\ active' = IF Head(events).kind = "progress" THEN active ELSE active - 1
  /\ UNCHANGED <<storeVars, stage, unread, reconcileDue, packager, task, archive, deliveryBackoff, progressed>>

PackagingStopped ==
  /\ stage = "stop"
  /\ packager # "off"
  /\ packager' = "off"
  /\ UNCHANGED <<storeVars, stage, unread, reconcileDue, active, uploadVars, deliveryBackoff, progressed>>

StopDone ==
  /\ stage = "stop"
  /\ active = 0 /\ packager = "off"
  /\ stage' = "down"
  /\ events' = <<>>
  /\ UNCHANGED <<storeVars, unread, reconcileDue, active, packager, task, archive, deliveryBackoff, progressed>>

\* The process dies, whatever becomes of the files; the next one starts later.
ProcessLost ==
  /\ stage # "down"
  /\ stage' = "down" /\ unread' = {} /\ active' = 0 /\ packager' = "off"
  /\ events' = <<>> /\ task' = [p \in PackageIDs |-> "idle"]
  /\ UNCHANGED <<reconcileDue, archive, deliveryBackoff, progressed>>

-----------------------------------------------------------------------------
(* startPackageDelivery: the goroutine of one upload, and the archive *)

\* Mutant: snapshots are forwarded by a goroutine of their own.
ReportProgressDetached(p) ==
  /\ delState[p] = "delivering"
  /\ Len(events) < Capacity
  /\ events' = Append(events, Note(p, "progress"))
  /\ UNCHANGED <<storeVars, schedulerVars, task, archive, deliveryBackoff, progressed>>

\* A snapshot is sent if the channel has room, else dropped.  The last one may
\* be forwarded after the upload has ended, never after its outcome.
ReportProgress(p) ==
  /\ task[p] # "idle"
  /\ Len(events) < Capacity
  /\ events' = Append(events, Note(p, "progress"))
  /\ UNCHANGED <<storeVars, schedulerVars, task, archive, deliveryBackoff, progressed>>

Uploadable(p) == OnDisk(payload[p]) /\ OnDisk(manifest[p])

UploadSucceeds(p) ==
  /\ task[p] = "uploading"
  /\ Uploadable(p)
  /\ task' = [task EXCEPT ![p] = "succeeded"]
  /\ archive' = archive \cup {p}
  /\ UNCHANGED <<storeVars, schedulerVars, events, deliveryBackoff, progressed>>

\* An error, a timeout or a cancelled context; what was sent may have arrived.
UploadFails(p) ==
  /\ task[p] = "uploading"
  /\ task' = [task EXCEPT ![p] = "failed"]
  /\ archive' \in {archive} \cup {archive \cup {q} : q \in {q \in {p} : Uploadable(q)}}
  /\ UNCHANGED <<storeVars, schedulerVars, events, deliveryBackoff, progressed>>

\* Mutant: the error of the upload is not in its event.
SendOutcomeWithoutError(p) ==
  /\ task[p] \in {"succeeded", "failed"}
  /\ Len(events) < Capacity
  /\ events' = Append(events, Note(p, "success"))
  /\ task' = [task EXCEPT ![p] = "idle"]
  /\ UNCHANGED <<storeVars, schedulerVars, archive, deliveryBackoff, progressed>>

\* The outcome waits for room in the channel.
SendOutcome(p) ==
  /\ task[p] \in {"succeeded", "failed"}
  /\ Len(events) < Capacity
  /\ events' = Append(events, Note(p, IF task[p] = "succeeded" THEN "success" ELSE "failure"))
  /\ task' = [task EXCEPT ![p] = "idle"]
  /\ UNCHANGED <<storeVars, schedulerVars, archive, deliveryBackoff, progressed>>

-----------------------------------------------------------------------------
(* Deadlines *)

RetryDelayElapses(p) ==
  /\ p \in deliveryBackoff
  /\ deliveryBackoff' = deliveryBackoff \ {p}
  /\ UNCHANGED <<storeVars, schedulerVars, uploadVars, progressed>>

\* deliveryReconcileInterval
ReconcileIntervalElapses ==
  /\ stage \in Serving /\ ~reconcileDue
  /\ reconcileDue' = TRUE
  /\ UNCHANGED <<storeVars, stage, unread, active, packager, uploadVars, deliveryBackoff, progressed>>

-----------------------------------------------------------------------------

\* The scheduler goroutine, which never blocks but in its final select.
DeliveryLoop ==
  \/ Recover
  \/ \E o \in Objects : Discover(o)
  \/ DiscoverDone
  \/ RecordProgress \/ RecordSuccess \/ RecordFailure \/ DrainDone
  \/ \E p \in PackageIDs : Claim(p)
  \/ ClaimsDone \/ Poll \/ PackagingFailed
  \/ DiscardEvent \/ StopDone

Uploads == \E p \in PackageIDs : ReportProgress(p) \/ UploadSucceeds(p) \/ SendOutcome(p)

DeliveryClock == (\E p \in PackageIDs : RetryDelayElapses(p)) \/ ReconcileIntervalElapses

DeliveryDisruption == Stop \/ \E p \in PackageIDs : UploadFails(p)

-----------------------------------------------------------------------------
(* Safety *)

\* The outcomes of p in the channel, and p's attempts that are under way or
\* have an outcome that is not handled yet.
Outcomes(p) == {i \in DOMAIN events : events[i].package = p /\ events[i].kind # "progress"}
UnderWay(p) == task[p] # "idle" \/ Outcomes(p) # {}

\* A package is uploaded by one goroutine at a time, and its row says so until
\* the outcome is handled: an outcome always finds the row it is for, else
\* exactlyOne would end the process over a delivery that is done.
OneAttemptAtATime ==
  \A p \in PackageIDs :
    UnderWay(p) => /\ delState[p] = "delivering"
                   /\ Cardinality(Outcomes(p)) = IF task[p] = "idle" THEN 1 ELSE 0

\* active counts the attempts under way; concurrency is never exceeded, and no
\* slot is lost over retries (a lost slot would in the end stop all deliveries).
SlotsCounted ==
  /\ active = Cardinality({p \in PackageIDs : UnderWay(p)})
  /\ active <= Concurrency

\* While the loop serves, a row in state delivering has an attempt: otherwise it
\* would stay there until the next restart, as nothing claims such a row.
NothingStranded ==
  stage \in Serving => \A p \in PackageIDs : delState[p] = "delivering" => UnderWay(p)

\* delivered means that the archive has the package, whatever was cancelled,
\* retried, discarded in a shutdown or recovered after a crash before.
DeliveredIsArchived ==
  /\ \A p \in PackageIDs : delState[p] = "delivered" \/ task[p] = "succeeded" => p \in archive
  /\ \A i \in DOMAIN events : events[i].kind = "success" => events[i].package \in archive

\* The progress an operator sees is that of the attempt under way: a snapshot is
\* neither recorded after the outcome of its attempt nor kept for the next one.
ProgressIsCurrent ==
  /\ \A p \in progressed : delState[p] = "delivering"
  /\ \A i \in DOMAIN events : events[i].kind = "progress" =>
       /\ UnderWay(events[i].package)
       /\ \A k \in Outcomes(events[i].package) : i < k

-----------------------------------------------------------------------------
(* Liveness *)

\* Unless deliveries are disabled (Concurrency = 0), every sealed package is
\* delivered, in spite of failures and shutdowns.
EveryPackageDelivered ==
  \A p \in PackageIDs : pkgState[p] = "sealed" ~> delState[p] = "delivered"

\* The row the receiver could not insert is inserted by a reconciliation.
EveryReceiptIndexed == \A o \in Objects : o \in receipts ~> o \in indexed

\* stop ends: no goroutine stays behind on a full channel.
ShutdownEnds == stage = "stop" ~> stage = "down"
=============================================================================
