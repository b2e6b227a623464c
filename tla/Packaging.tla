----------------------------- MODULE Packaging -----------------------------
(***************************************************************************)
(* The packaging goroutine of the deliver process (runPackagingScheduler): *)
(* one loop that builds a package if it can, else removes the upload of a  *)
(* packaged artifact, else removes a delivered package, else sleeps.  A    *)
(* step of the model is one statement on the database, one rename, one     *)
(* directory sync or one removal: the places where another goroutine, the  *)
(* receiver, an I/O failure, a crash or a power loss can come in between.  *)
(*                                                                         *)
(* The rest of the system is the environment here: the receiver accepts    *)
(* and indexes artifacts, the delivery goroutines claim packages and       *)
(* record outcomes, and deadlines pass.  The process is restarted after    *)
(* every crash (restart: unless-stopped), with its locals lost.            *)
(***************************************************************************)
EXTENDS Store, FiniteSetsExt

CONSTANTS
  Size,       \* size_bytes of each object
  Trigger,    \* packaging.trigger_bytes of each project
  Target,     \* packaging.target_package_bytes of each project
  Malformed,  \* objects that are not mergeable WARC-Zstd
  Misreadable \* objects whose read may fail during the probe of a failed build

ASSUME SizesAssumption ==
  /\ Size \in [Objects -> Nat]
  /\ Trigger \in [Projects -> Nat]
  /\ Target \in [Projects -> Nat]
  /\ \A j \in Projects : Target[j] > 0 /\ Trigger[j] >= Target[j]
ASSUME FormatsAssumption == Malformed \subseteq Objects /\ Misreadable \subseteq Objects

VARIABLES
  pc,           \* where the goroutine is in its loop
  cursor,       \* the project reservePackage is called for
  hand,         \* what it is working on: a package, a selection, one source
  keepDraining, \* reservePackage's local of that name
  aged          \* receipts older than packaging.max_wait

localVars == <<pc, cursor, hand, keepDraining>>
vars == <<storeVars, localVars, aged>>

BuildSteps == {"merge", "publishPayload", "syncPayload", "publishManifest", "syncManifest", "seal"}
SourceSteps == {"unlinkSource", "syncSource", "markSource"}
PurgeSteps == {"unlinkPackage", "syncPackage", "markPackage"}
Steps == {"claim", "scan", "reserve", "probe", "source", "package"}
           \cup BuildSteps \cup SourceSteps \cup PurgeSteps
PackageSteps == {"reserve", "probe"} \cup BuildSteps \cup PurgeSteps

LocalTypeOK ==
  /\ pc \in Steps
  /\ cursor \in Projects
  /\ hand \subseteq Objects
  /\ pc \in PackageSteps => hand \in PackageIDs
  /\ keepDraining \in BOOLEAN

TypeOK == StoreTypeOK /\ LocalTypeOK /\ aged \subseteq Objects

Init ==
  /\ StoreInit
  /\ pc = "claim" /\ cursor = 1 /\ hand = {} /\ keepDraining = FALSE
  /\ aged = {}

\* Local control: go to a step with something in hand, or start the loop over.
GoTo(step, thing) == pc' = step /\ hand' = thing /\ UNCHANGED <<cursor, keepDraining>>
Loop == pc' = "claim" /\ hand' = {} /\ cursor' = 1 /\ keepDraining' = FALSE

-----------------------------------------------------------------------------
(* runPackageBuildCycle: a package to build, or a new one to reserve *)

NextBuildingPackage(p) ==
  /\ pc = "claim"
  /\ p \in BuildingPackages
  /\ GoTo("merge", p)
  /\ UNCHANGED <<storeVars, aged>>

NoBuildingPackage ==
  /\ pc = "claim"
  /\ BuildingPackages = {}
  /\ GoTo("scan", {})
  /\ UNCHANGED <<storeVars, aged>>

SizeOf(S) == MapThenSumSet(LAMBDA o : Size[o], S)
IsOldest(o, S) == o \in S /\ \A q \in S : o <= q

\* Mutant: the loop stops once the target is reached, whatever the last one adds.
SelectedBeyond(C, target) ==
  {o \in C : LET before == {q \in C : q < o} IN before = {} \/ SizeOf(before) < target}

\* The selection loop: candidates in order until they reach the target, each
\* only if it still fits, and the first one whatever its size.
Selected(C, target) ==
  {o \in C : LET before == {q \in C : q < o} IN
     \/ before = {}
     \/ SizeOf(before) < target /\ SizeOf(before \cup {o}) <= target}

\* ageTriggered
WaitedLongEnough(C) == \E o \in C : IsOldest(o, C) /\ o \in aged

\* draining as the mergewarc branch recomputes it.
Drains(j, C) == (draining[j] \/ SizeOf(C) >= Trigger[j]) /\ SizeOf(C) >= Target[j]

\* Mutant: the selected bytes are still counted.
DrainsOn(j, C, selected) == Drains(j, C)

\* draining after the selection has left the candidates.
StaysDraining(j, C, selected) == Drains(j, C) /\ SizeOf(C \ selected) >= Target[j]

\* Mutant: no end of the list of projects.
NextProjectEndless == hand' = {} /\ keepDraining' = FALSE /\ cursor' = cursor + 1 /\ pc' = "scan"

\* reservePackage returns false: the next project, or the end of the build cycle.
NextProject ==
  /\ hand' = {} /\ keepDraining' = FALSE
  /\ IF cursor < NProjects THEN cursor' = cursor + 1 /\ pc' = "scan"
                           ELSE cursor' = 1 /\ pc' = "source"

ScanNothing ==
  /\ pc = "scan"
  /\ Candidates(cursor) = {}
  /\ draining' = [draining EXCEPT ![cursor] = FALSE]
  /\ NextProject
  /\ UNCHANGED <<indexed, packageOf, packagingError, sourcePurged, sourceBackoff, pkgState,
                 members, buildBackoff, purge, delState, diskVars, aged>>

ScanIdentity ==
  LET C == Candidates(cursor) IN
  /\ pc = "scan"
  /\ Packager[cursor] = "identity"
  /\ \E o \in C : IsOldest(o, C) /\ hand' = {o}
  /\ pc' = "reserve" /\ keepDraining' = FALSE
  /\ UNCHANGED <<storeVars, cursor, aged>>

ScanNotReady ==
  LET C == Candidates(cursor) IN
  /\ pc = "scan"
  /\ Packager[cursor] = "mergewarc"
  /\ C # {}
  /\ ~Drains(cursor, C) /\ ~WaitedLongEnough(C)
  /\ NextProject
  /\ UNCHANGED <<storeVars, aged>>

ScanReady ==
  LET C == Candidates(cursor)
      selected == Selected(C, Target[cursor]) IN
  /\ pc = "scan"
  /\ Packager[cursor] = "mergewarc"
  /\ selected # {}
  /\ Drains(cursor, C) \/ WaitedLongEnough(C)
  /\ pc' = "reserve" /\ hand' = selected
  /\ keepDraining' = StaysDraining(cursor, C, selected)
  /\ UNCHANGED <<storeVars, cursor, aged>>

\* The rows the transaction writes are free; if not it rolls back.
Reservable(p) == \A o \in p : packageOf[o] = NoPackage /\ \A q \in PackageIDs : o \notin members[q]

\* The reserving transaction.  An ID that exists already gives up on this
\* project; a rollback is an error that ends the process, which starts over.
Reserve ==
  /\ pc = "reserve"
  /\ IF pkgState[hand] # "none"
     THEN NextProject /\ UNCHANGED <<pkgState, members, packageOf, delState, draining>>
     ELSE IF ~Reservable(hand)
     THEN Loop /\ UNCHANGED <<pkgState, members, packageOf, delState, draining>>
     ELSE /\ InsertPackage(hand)
          /\ draining' = [draining EXCEPT ![cursor] = keepDraining]
          /\ pc' = "merge" /\ hand' = hand /\ cursor' = 1 /\ keepDraining' = FALSE
  /\ UNCHANGED <<indexed, packagingError, sourcePurged, sourceBackoff, buildBackoff, purge,
                 diskVars, aged>>

-----------------------------------------------------------------------------
(* materializePackage, materializeIdentityPackage *)

Mergeable(p) == \A o \in p : OnDisk(upload[o]) /\ (IsIdentity(p) \/ o \notin Malformed)

\* The temporary payload and manifest files are written and synced.
Merge ==
  /\ pc = "merge"
  /\ GoTo(IF Mergeable(hand) THEN "publishPayload" ELSE "probe", hand)
  /\ UNCHANGED <<storeVars, aged>>

PublishPayload ==
  /\ pc = "publishPayload"
  /\ payload' = [payload EXCEPT ![hand] = Published(@)]
  /\ GoTo("syncPayload", hand)
  /\ UNCHANGED <<dbVars, receipts, upload, manifest, aged>>

SyncPayload ==
  /\ pc = "syncPayload"
  /\ payload' = SyncDir(payload)
  /\ GoTo("publishManifest", hand)
  /\ UNCHANGED <<dbVars, receipts, upload, manifest, aged>>

\* Mutant: no sync of the manifest directory before the seal.
PublishManifestUnsynced ==
  /\ pc = "publishManifest"
  /\ manifest' = [manifest EXCEPT ![hand] = Published(@)]
  /\ GoTo("seal", hand)
  /\ UNCHANGED <<dbVars, receipts, upload, payload, aged>>

PublishManifest ==
  /\ pc = "publishManifest"
  /\ manifest' = [manifest EXCEPT ![hand] = Published(@)]
  /\ GoTo("syncManifest", hand)
  /\ UNCHANGED <<dbVars, receipts, upload, payload, aged>>

SyncManifest ==
  /\ pc = "syncManifest"
  /\ manifest' = SyncDir(manifest)
  /\ GoTo("seal", hand)
  /\ UNCHANGED <<dbVars, receipts, upload, payload, aged>>

Seal ==
  /\ pc = "seal"
  /\ sealPackage(hand)
  /\ Loop
  /\ UNCHANGED <<indexed, packageOf, packagingError, sourcePurged, sourceBackoff, members,
                 buildBackoff, purge, draining, delState, diskVars, aged>>

-----------------------------------------------------------------------------
(* A build that failed: findInvalidPackageMembers, then retry or isolation *)

RetryBuild ==
  /\ markPackageBuildRetry(hand)
  /\ Loop
  /\ UNCHANGED <<indexed, packageOf, packagingError, sourcePurged, sourceBackoff, pkgState,
                 members, purge, draining, delState, diskVars, aged>>

Isolate(invalid) ==
  /\ isolateInvalidMembers(hand, invalid)
  /\ Loop
  /\ UNCHANGED <<indexed, sourcePurged, sourceBackoff, buildBackoff, purge, draining, delState,
                 diskVars, aged>>

\* Members whose probe fails with a format error.  The probe of an identity
\* package, or of one with a missing upload, finds nothing.
InvalidMembers ==
  IF IsIdentity(hand) \/ \E o \in members[hand] : ~OnDisk(upload[o])
  THEN {} ELSE members[hand] \cap Malformed

\* Mutant: a failed build always blocks the package.
ProbeBlocks == pc = "probe" /\ Isolate(InvalidMembers)

Probe ==
  /\ pc = "probe"
  /\ IF InvalidMembers = {} THEN RetryBuild ELSE Isolate(InvalidMembers)

-----------------------------------------------------------------------------
(* runPackagedSourcePurgeCycle and purgeUpload *)

NextSourceToPurge(o) ==
  /\ pc = "source"
  /\ o \in SourcesToPurge
  /\ GoTo("unlinkSource", {o})
  /\ UNCHANGED <<storeVars, aged>>

NoSourceToPurge ==
  /\ pc = "source"
  /\ SourcesToPurge = {}
  /\ GoTo("package", {})
  /\ UNCHANGED <<storeVars, aged>>

RemoveUpload == upload' = [o \in Objects |-> IF o \in hand THEN Removed(upload[o]) ELSE upload[o]]

\* Mutant: the removal is marked without a sync of the directory.
UnlinkSourceUnsynced ==
  /\ pc = "unlinkSource"
  /\ RemoveUpload
  /\ GoTo("markSource", hand)
  /\ UNCHANGED <<dbVars, receipts, payload, manifest, aged>>

UnlinkSource ==
  /\ pc = "unlinkSource"
  /\ RemoveUpload
  /\ GoTo("syncSource", hand)
  /\ UNCHANGED <<dbVars, receipts, payload, manifest, aged>>

SyncSource ==
  /\ pc = "syncSource"
  /\ upload' = SyncDir(upload)
  /\ GoTo("markSource", hand)
  /\ UNCHANGED <<dbVars, receipts, payload, manifest, aged>>

MarkSourcePurged ==
  /\ pc = "markSource"
  /\ sourcePurged' = sourcePurged \cup hand
  /\ Loop
  /\ UNCHANGED <<indexed, packageOf, packagingError, sourceBackoff, pkgState, members,
                 buildBackoff, purge, draining, delState, diskVars, aged>>

MarkSourcePurgeRetry ==
  /\ sourceBackoff' = sourceBackoff \cup hand
  /\ Loop
  /\ UNCHANGED <<indexed, packageOf, packagingError, sourcePurged, pkgState, members,
                 buildBackoff, purge, draining, delState, aged>>

-----------------------------------------------------------------------------
(* runPackagePurgeCycle *)

NextPackagePurge(p) ==
  /\ pc = "package"
  /\ p \in PackagesToPurge
  /\ GoTo("unlinkPackage", p)
  /\ UNCHANGED <<storeVars, aged>>

\* Nothing to do at all: the loop starts over after packagingPoll.
NoPackageToPurge ==
  /\ pc = "package"
  /\ PackagesToPurge = {}
  /\ Loop
  /\ UNCHANGED <<storeVars, aged>>

UnlinkPackage ==
  /\ pc = "unlinkPackage"
  /\ payload'  = [payload EXCEPT ![hand] = Removed(@)]
  /\ manifest' = [manifest EXCEPT ![hand] = Removed(@)]
  /\ GoTo("syncPackage", hand)
  /\ UNCHANGED <<dbVars, receipts, upload, aged>>

SyncPackage ==
  /\ pc = "syncPackage"
  /\ payload' = SyncDir(payload) /\ manifest' = SyncDir(manifest)
  /\ GoTo("markPackage", hand)
  /\ UNCHANGED <<dbVars, receipts, upload, aged>>

MarkPackagePurged ==
  /\ pc = "markPackage"
  /\ purge' = [purge EXCEPT ![hand] = "done"]
  /\ Loop
  /\ UNCHANGED <<indexed, packageOf, packagingError, sourcePurged, sourceBackoff, pkgState,
                 members, buildBackoff, draining, delState, diskVars, aged>>

\* Mutant: next_purge_attempt_at is cleared after a failure.
MarkPackagePurgeGivesUp ==
  /\ purge' = [purge EXCEPT ![hand] = "unset"]
  /\ Loop
  /\ UNCHANGED <<indexed, packageOf, packagingError, sourcePurged, sourceBackoff, pkgState,
                 members, buildBackoff, draining, delState, aged>>

MarkPackagePurgeRetry ==
  /\ purge' = [purge EXCEPT ![hand] = "waiting"]
  /\ Loop
  /\ UNCHANGED <<indexed, packageOf, packagingError, sourcePurged, sourceBackoff, pkgState,
                 members, buildBackoff, draining, delState, aged>>

-----------------------------------------------------------------------------
(* I/O failures, crashes, power losses *)

\* Any step of the build, a full disk, an unmounted packages volume.
BuildFails ==
  /\ pc \in BuildSteps
  /\ GoTo("probe", hand)
  /\ UNCHANGED <<storeVars, aged>>

\* A member the probe may not open (or finds missing) stops the probe.
ProbeDenied ==
  /\ pc = "probe"
  /\ RetryBuild

\* A read error of any other kind (EIO, EMFILE) counts as an invalid member.
ProbeMisreads(misread) ==
  /\ pc = "probe"
  /\ ~IsIdentity(hand) /\ \A o \in members[hand] : OnDisk(upload[o])
  /\ misread \subseteq members[hand] \cap Misreadable /\ misread # {}
  /\ Isolate((members[hand] \cap Malformed) \cup misread)

\* purgeUpload fails before or after it removed the payload of the upload.
PurgeSourceFails ==
  /\ \/ pc = "unlinkSource" /\ (RemoveUpload \/ UNCHANGED upload)
     \/ pc = "syncSource" /\ UNCHANGED upload
  /\ MarkSourcePurgeRetry
  /\ UNCHANGED <<receipts, payload, manifest>>

\* One of the two files or both cannot be removed, or of the two directories one
\* or both cannot be synced.
PurgePackageFails ==
  /\ \/ /\ pc = "unlinkPackage"
        /\ payload' = [payload EXCEPT ![hand] = Removed(@)]
        /\ UNCHANGED manifest
     \/ /\ pc = "unlinkPackage"
        /\ manifest' = [manifest EXCEPT ![hand] = Removed(@)]
        /\ UNCHANGED payload
     \/ /\ pc = "syncPackage"
        /\ payload' = SyncDir(payload)
        /\ UNCHANGED manifest
     \/ /\ pc = "syncPackage"
        /\ manifest' = SyncDir(manifest)
        /\ UNCHANGED payload
     \/ /\ pc \in {"unlinkPackage", "syncPackage"}
        /\ UNCHANGED <<payload, manifest>>
  /\ MarkPackagePurgeRetry
  /\ UNCHANGED <<receipts, upload>>

\* The process dies, or an error it does not handle ends it, and it is restarted.
Crash ==
  /\ pc # "claim"
  /\ Loop
  /\ UNCHANGED <<storeVars, aged>>

\* The machine dies: every directory entry not yet synced may be there or not.
PowerLoss ==
  /\ \E kept \in SUBSET Unsynced(upload)   : upload'   = AfterPowerLoss(upload, kept)
  /\ \E kept \in SUBSET Unsynced(payload)  : payload'  = AfterPowerLoss(payload, kept)
  /\ \E kept \in SUBSET Unsynced(manifest) : manifest' = AfterPowerLoss(manifest, kept)
  /\ Loop
  /\ UNCHANGED <<dbVars, receipts, aged>>

-----------------------------------------------------------------------------
(* The environment: deadlines, the receiver, the delivery goroutines *)

BuildBackoffElapses(p) ==
  /\ p \in buildBackoff
  /\ buildBackoff' = buildBackoff \ {p}
  /\ UNCHANGED <<indexed, packageOf, packagingError, sourcePurged, sourceBackoff, pkgState,
                 members, purge, draining, delState, diskVars, localVars, aged>>

SourceBackoffElapses(o) ==
  /\ o \in sourceBackoff
  /\ sourceBackoff' = sourceBackoff \ {o}
  /\ UNCHANGED <<indexed, packageOf, packagingError, sourcePurged, pkgState, members,
                 buildBackoff, purge, draining, delState, diskVars, localVars, aged>>

\* local_artifact_retention after the delivery, or a minute after a failed purge.
RetentionElapses(p) ==
  /\ purge[p] = "waiting"
  /\ purge' = [purge EXCEPT ![p] = "due"]
  /\ UNCHANGED <<indexed, packageOf, packagingError, sourcePurged, sourceBackoff, pkgState,
                 members, buildBackoff, draining, delState, diskVars, localVars, aged>>

\* Receipts reach max_wait in the order they were accepted in.
MaxWaitElapses(o) ==
  /\ o \in receipts \ aged
  /\ \A q \in receipts : q < o => q \in aged
  /\ aged' = aged \cup {o}
  /\ UNCHANGED <<storeVars, localVars>>

\* accept: upload files and their directory are synced, then the receipt is
\* published and its directory synced.
Accept(o) ==
  /\ o \notin receipts
  /\ receipts' = receipts \cup {o}
  /\ upload' = [SyncDir(upload) EXCEPT ![o] = "durable"]
  /\ UNCHANGED <<dbVars, payload, manifest, localVars, aged>>

\* indexArtifact in the receiver, or discoverAccepted in the delivery
\* goroutine: both may insert a row that another one has just inserted.
Index(o) ==
  /\ o \in receipts
  /\ addArtifact(o)
  /\ UNCHANGED <<pkgState, members, buildBackoff, purge, draining, delState, diskVars,
                 localVars, aged>>

DeliveryClaims(p) ==
  /\ claimPackageDelivery(p)
  /\ UNCHANGED <<indexed, packageOf, packagingError, sourcePurged, sourceBackoff, pkgState,
                 members, buildBackoff, purge, draining, diskVars, localVars, aged>>

\* The sink has both files, which it could read until the end.
DeliverySucceeds(p) ==
  /\ OnDisk(payload[p]) /\ OnDisk(manifest[p])
  /\ markPackageDelivered(p)
  /\ UNCHANGED <<indexed, packageOf, packagingError, sourcePurged, sourceBackoff, pkgState,
                 members, buildBackoff, draining, diskVars, localVars, aged>>

\* A sink error.
DeliveryFails(p) ==
  /\ markPackageRetry(p)
  /\ UNCHANGED <<indexed, packageOf, packagingError, sourcePurged, sourceBackoff, pkgState,
                 members, buildBackoff, purge, draining, diskVars, localVars, aged>>

\* A restart: deliveries without an outcome will be tried again.
DeliveriesInterrupted ==
  /\ \E p \in PackageIDs : delState[p] = "delivering"
  /\ recoverInterruptedDeliveries
  /\ UNCHANGED <<indexed, packageOf, packagingError, sourcePurged, sourceBackoff, pkgState,
                 members, buildBackoff, purge, draining, diskVars, localVars, aged>>

-----------------------------------------------------------------------------

BuildCycle ==
  \/ \E p \in PackageIDs : NextBuildingPackage(p)
  \/ NoBuildingPackage
  \/ ScanNothing \/ ScanIdentity \/ ScanNotReady \/ ScanReady \/ Reserve
  \/ Merge \/ PublishPayload \/ SyncPayload \/ PublishManifest \/ SyncManifest \/ Seal
  \/ Probe

SourcePurgeCycle ==
  \/ \E o \in Objects : NextSourceToPurge(o)
  \/ NoSourceToPurge \/ UnlinkSource \/ SyncSource \/ MarkSourcePurged

PackagePurgeCycle ==
  \/ \E p \in PackageIDs : NextPackagePurge(p)
  \/ NoPackageToPurge \/ UnlinkPackage \/ SyncPackage \/ MarkPackagePurged

Scheduler == BuildCycle \/ SourcePurgeCycle \/ PackagePurgeCycle

Disruption ==
  \/ BuildFails \/ ProbeDenied \/ PurgeSourceFails \/ PurgePackageFails
  \/ \E misread \in SUBSET Misreadable : ProbeMisreads(misread)
  \/ Crash \/ PowerLoss

Clock ==
  \/ \E p \in PackageIDs : BuildBackoffElapses(p) \/ RetentionElapses(p)
  \/ \E o \in Objects : SourceBackoffElapses(o) \/ MaxWaitElapses(o)

Receiver == \E o \in Objects : Accept(o) \/ Index(o)

Delivery ==
  \/ \E p \in PackageIDs : DeliveryClaims(p) \/ DeliverySucceeds(p) \/ DeliveryFails(p)
  \/ DeliveriesInterrupted

Undisturbed == Scheduler \/ Clock \/ Receiver \/ Delivery

Next == Undisturbed \/ Disruption

Spec == Init /\ [][Next]_vars

\* The goroutine runs, deadlines pass, and reconciliation indexes every receipt.
Fairness ==
  /\ WF_vars(Scheduler)
  /\ \A p \in PackageIDs : WF_vars(BuildBackoffElapses(p)) /\ WF_vars(RetentionElapses(p))
  /\ \A o \in Objects : /\ WF_vars(SourceBackoffElapses(o))
                        /\ WF_vars(MaxWaitElapses(o))
                        /\ WF_vars(Index(o))

\* Failures, crashes and power losses stop at some time; nothing bounds how many.
EventuallyUndisturbed == <>[][Undisturbed]_vars

FairSpec == Spec /\ Fairness /\ EventuallyUndisturbed

-----------------------------------------------------------------------------
(* Safety *)

PackageStored(p) == payload[p] = "durable" /\ manifest[p] = "durable"
Sealed(o) == packageOf[o] # NoPackage /\ pkgState[packageOf[o]] = "sealed"
Archived(o) == Sealed(o) /\ delState[packageOf[o]] = "delivered"

\* A package that still has to be delivered has both its files, whatever power
\* loss follows: materializePackage seals after the renames are synced, and
\* nextPackagePurge wants every delivery done (package.go 541-558, 855).
UndeliveredPackageKept ==
  \A p \in PackageIDs :
    pkgState[p] = "sealed" /\ delState[p] # "delivered" => PackageStored(p)

\* No step of packaging or cleanup loses an artifact that has a receipt: its
\* upload is there, or it is in a sealed package that is stored or delivered.
NoArtifactLost ==
  \A o \in receipts :
    OnDisk(upload[o]) \/ (Sealed(o) /\ (PackageStored(packageOf[o]) \/ Archived(o)))

\* artifacts.package_id and package_members always tell the same story, and a
\* package that is built or sealed has the members its ID was derived from.
MembershipConsistent ==
  \A p \in PackageIDs :
    /\ members[p] = {o \in Objects : packageOf[o] = p}
    /\ pkgState[p] \in {"building", "sealed"} => members[p] = p

\* isolateInvalidMembers leaves an artifact it fails in the blocked package, and
\* nobody else there: a failed artifact is never archived, a good one never stuck.
BlockedHoldsFailedOnly ==
  /\ \A p \in PackageIDs : pkgState[p] = "blocked" => members[p] # {} /\ members[p] \subseteq packagingError
  /\ \A o \in packagingError : packageOf[o] # NoPackage /\ pkgState[packageOf[o]] = "blocked"

\* Between the SELECT of the candidates and the transaction nothing can take
\* them: the transaction never meets an existing package ID (which would stall
\* the project without an error) nor a row it cannot update (which ends deliver).
ReservationSucceeds ==
  pc = "reserve" => /\ pkgState[hand] = "none"
                    /\ Reservable(hand)
                    /\ hand \cap packagingError = {}

\* A project drains only while its candidates can fill a package, though the
\* flag is computed from a candidate list that is stale when it is written.
DrainingHasTarget ==
  \A j \in Projects : draining[j] => SizeOf(Candidates(j)) >= Target[j]

\* Every package that was ever reserved holds artifacts of one project only, and
\* more than one only within the target size, whatever artifacts are indexed
\* between the SELECT and the transaction, and although isolation makes
\* candidates again of those it releases (package.go 178-191).
Fits(p) ==
  \E j \in Projects :
    /\ \A o \in p : ProjectOf[o] = j
    /\ \/ \E o \in p : p = {o}
       \/ Packager[j] = "mergewarc" /\ SizeOf(p) <= Target[j]

PackagesFit == \A p \in PackageIDs : pkgState[p] # "none" => Fits(p)

\* What is marked as purged can never come back: the removal was synced before
\* the mark, and nothing publishes the file again (a file that came back would
\* stay for ever, because a marked row is not visited again).
PurgedStaysGone ==
  /\ \A o \in sourcePurged : upload[o] = "absent"
  /\ \A p \in PackageIDs : purge[p] = "done" => payload[p] = "absent" /\ manifest[p] = "absent"

\* Isolation is for artifacts with a bad format; after an I/O failure the package
\* keeps its members and the build is retried (design.md 173-175).
OnlyMalformedIsolated == packagingError \subseteq Malformed

-----------------------------------------------------------------------------
(* The inductive invariant behind the safety properties *)

\* Rows: an artifact is packaged only once indexed and accepted, the members
\* of a package are among those it was derived from, deliveries and purges
\* only ever concern sealed packages.
RowStates ==
  /\ indexed \subseteq receipts /\ sourcePurged \subseteq receipts
  /\ \A o \in Objects : packageOf[o] # NoPackage => o \in indexed
  /\ \A p \in PackageIDs :
       /\ members[p] \subseteq p
       /\ pkgState[p] = "none" => members[p] = {}
       /\ delState[p] \in {"delivering", "retry_wait", "delivered"} => pkgState[p] = "sealed"
       /\ purge[p] # "unset" => delState[p] = "delivered"

\* The rows of what the goroutine has in hand.
HandRows ==
  /\ pc = "reserve" => hand \subseteq Candidates(cursor)
  /\ pc \in BuildSteps \cup {"probe"} => pkgState[hand] = "building"
  /\ pc \in SourceSteps => \A o \in hand : Sealed(o)
  /\ pc \in PurgeSteps => /\ pkgState[hand] = "sealed"
                          /\ delState[hand] = "delivered"
                          /\ purge[hand] = "due"

\* Files: an upload is durable until its package is sealed, and the files of a
\* sealed package are past their publication.
FileStates ==
  /\ \A o \in Objects : /\ upload[o] # "visible"
                        /\ o \in receipts => upload[o] = "durable" \/ Sealed(o)
  /\ \A p \in PackageIDs : pkgState[p] = "sealed" => payload[p] # "visible" /\ manifest[p] # "visible"

\* How far the files of what it has in hand are.
HandFiles ==
  /\ pc = "syncPayload" => OnDisk(payload[hand])
  /\ pc \in {"publishManifest", "syncManifest", "seal"} => payload[hand] = "durable"
  /\ pc = "syncManifest" => OnDisk(manifest[hand])
  /\ pc = "seal" => manifest[hand] = "durable"
  /\ pc = "syncSource" => \A o \in hand : ~OnDisk(upload[o])
  /\ pc = "markSource" => \A o \in hand : upload[o] = "absent"
  /\ pc = "syncPackage" => ~OnDisk(payload[hand]) /\ ~OnDisk(manifest[hand])
  /\ pc = "markPackage" => payload[hand] = "absent" /\ manifest[hand] = "absent"

RowInv  == MembershipConsistent /\ BlockedHoldsFailedOnly /\ RowStates /\ HandRows
FileInv == UndeliveredPackageKept /\ PurgedStaysGone /\ FileStates /\ HandFiles
IInv    == TypeOK /\ RowInv /\ FileInv

\* Sizes: what is selected fits, and the flag that will be written with it is
\* true of the candidates it leaves.
HandFits ==
  pc = "reserve" => /\ Fits(hand)
                    /\ keepDraining => SizeOf(Candidates(cursor) \ hand) >= Target[cursor]

SizeInv == IsFiniteSet(indexed) /\ PackagesFit /\ DrainingHasTarget /\ HandFits

-----------------------------------------------------------------------------
(* Refinement *)

custody == [o \in Objects |->
  (IF o \in receipts /\ OnDisk(upload[o]) THEN {"upload"} ELSE {})
    \cup (IF Sealed(o) /\ PackageStored(packageOf[o]) THEN {"package"} ELSE {})
    \cup (IF Archived(o) THEN {"archive"} ELSE {})]

Custody == INSTANCE ArtifactCustody WITH Objects <- Objects, custody <- custody

\* Every step of the goroutine, its failures and its environment moves artifacts
\* down the chain upload, package, archive without ever dropping one.
KeepsCustody == Custody!Spec

-----------------------------------------------------------------------------
(* Liveness *)

Packageable(o) == Packager[ProjectOf[o]] = "identity" \/ o \notin Malformed

\* Every accepted artifact that can be packaged ends up in a sealed package, in
\* spite of failures, malformed neighbours, thresholds and lost index rows.
EveryArtifactPackaged ==
  \A o \in Objects : o \in receipts /\ Packageable(o) /\ o \notin packagingError ~> Sealed(o) \/ o \in packagingError

\* The upload of a packaged artifact is removed and marked.
EverySourceFreed == \A o \in Objects : Sealed(o) ~> o \in sourcePurged

\* A delivered package is removed after its retention and marked.
EveryPackageFreed == \A p \in PackageIDs : delState[p] = "delivered" ~> purge[p] = "done"
=============================================================================
