------------------------------- MODULE Upload -------------------------------
(***************************************************************************)
(* One upload from its creation to the removal of its files: the PATCH     *)
(* requests of the receiver, the acceptance at the end of the one that     *)
(* completes it, the receiver's cleanup of stale partial uploads, and the  *)
(* deliver process, which removes the upload once a package holds the      *)
(* artifact.  All of them take the upload's lock, a file that outlives its *)
(* owner; either process and the machine may die at any step.              *)
(*                                                                         *)
(* Packaging takes acceptance as one step; here it is taken apart.  The    *)
(* artifacts row and the package are reduced to the flags indexed and      *)
(* sealed.  tusd and its file store are external, modelled by what the     *)
(* handlers around them rely on: a PATCH is served under the lock, must    *)
(* name the current offset, calls beforeFinish when it wrote the last      *)
(* byte, and does nothing to an upload that is complete already.           *)
(***************************************************************************)
EXTENDS Integers, Disk

CONSTANTS
  Requests, \* PATCH requests the receiver handles at a time
  Size      \* Upload-Length

ASSUME UploadAssumption ==
  /\ Size \in Nat \ {0}
  /\ Requests \cap {"free", "reused", "head", "cleanup", "deliver"} = {}

VARIABLES
  created,  \* the object ID was issued; tusd never issues one twice
  file,     \* uploads/{id}, {id}.info and {id}.attempt
  received, \* length of uploads/{id}
  synced,   \* its content is on disk
  intact,   \* its content is so far that of the declared checksum
  stale,    \* none of the three files was modified within the retention
  receipt,  \* receipts/{id}.json
  lock,     \* uploads/{id}.lock: its owner, "free" (no file, or the file of a
            \* dead process, which TryLock takes over), or "reused": the owner
            \* died and its PID is that of another process, 1 in a container
  up,       \* the receiver runs
  req,      \* progress of each request; not "none": in activeAttempts
  offset,   \* Upload-Offset of each request, until tusd has looked at it
  cleaner,  \* progress of the cleanup goroutine
  indexed,  \* the object has a row in artifacts
  sealed,   \* its package is sealed
  purged,   \* source_purged_at is set
  purger,   \* progress of purgeUpload in the deliver process
  acked,    \* history: a request was answered with a receipt
  lapsed,   \* history: the retention has passed since the last attempt that
            \* reached the upload ended, or the end of it left no trace
  untraced, \* history: since the last attempt that reached the upload, or ever, one
            \* ended whose end no durable marker tells
  taken     \* history: a power loss took the receipt of a row

objectVars   == <<created, file, received, synced, intact, stale, receipt>>
requestVars  == <<req, offset>>
receiverVars == <<up, cleaner>>
deliverVars  == <<indexed, sealed, purged, purger>>
historyVars  == <<acked, lapsed, untraced, taken>>
uploadVars   == <<objectVars, lock, requestVars, receiverVars, deliverVars, historyVars>>

UploadFiles == {"data", "info", "attempt"}

Present  == OnDisk(file["data"]) /\ OnDisk(file["info"])
Accepted == OnDisk(receipt)

\* What a receipt vouches for, as a power loss would leave it.
Stored ==
  /\ file["data"] = "durable" /\ file["info"] = "durable"
  /\ received = Size /\ synced /\ intact

uploadAttemptActive == \E r \in Requests : req[r] # "none"

\* The lock of a process that died.
Orphaned == {"free", "reused"}

UploadTypeOK ==
  /\ created \in BOOLEAN /\ synced \in BOOLEAN /\ intact \in BOOLEAN /\ stale \in BOOLEAN
  /\ up \in BOOLEAN /\ indexed \in BOOLEAN /\ sealed \in BOOLEAN /\ purged \in BOOLEAN
  /\ acked \in BOOLEAN /\ lapsed \in BOOLEAN /\ untraced \in BOOLEAN /\ taken \in BOOLEAN
  /\ file \in [UploadFiles -> Entry] /\ receipt \in Entry
  /\ received \in 0..Size
  /\ lock \in {"head", "cleanup", "deliver"} \cup Requests \cup Orphaned
  /\ req \in [Requests -> {"none", "tracked", "looking", "writing", "complete", "synced",
                           "renamed", "committed", "ended", "marking"}]
  /\ offset \in [Requests -> 0..Size]
  /\ cleaner \in {"idle", "waiting", "checking", "unlinking"}
  /\ purger \in {"idle", "unlinking", "unlocked"}

UploadInit ==
  /\ created = FALSE /\ received = 0 /\ synced = FALSE /\ intact = TRUE /\ stale = FALSE
  /\ file = [f \in UploadFiles |-> "absent"] /\ receipt = "absent" /\ lock = "free"
  /\ up = TRUE /\ cleaner = "idle"
  /\ req = [r \in Requests |-> "none"]
  /\ offset = [r \in Requests |-> 0]
  /\ indexed = FALSE /\ sealed = FALSE /\ purged = FALSE /\ purger = "idle"
  /\ acked = FALSE /\ lapsed = FALSE /\ untraced = TRUE /\ taken = FALSE

-----------------------------------------------------------------------------
(* Requests *)

Moves(r, from, to) == req[r] = from /\ req' = [req EXCEPT ![r] = to]

\* The answer is sent; the actions that send one say which.
Answered(r, from) ==
  /\ Moves(r, from, "ended")
  /\ offset' = [offset EXCEPT ![r] = 0]

\* beforeCreate lets a POST for a configured project through.
Create ==
  /\ up /\ ~created
  /\ created' = TRUE
  /\ file' = [file EXCEPT !["data"] = "visible", !["info"] = "visible"]
  /\ UNCHANGED <<received, synced, intact, stale, receipt, lock, requestVars,
                 receiverVars, deliverVars, historyVars>>

\* trackUploadAttempts counts the request before anything else looks at it.
Arrive(r, from) ==
  /\ up /\ created
  /\ Moves(r, "none", "tracked")
  /\ offset' = [offset EXCEPT ![r] = from]
  /\ UNCHANGED <<objectVars, lock, receiverVars, deliverVars, historyVars>>

\* storageBackpressure: 429, or 503 when the free space cannot be told.
Backpressure(r) ==
  /\ Answered(r, "tracked")
  /\ UNCHANGED <<objectVars, lock, receiverVars, deliverVars, historyVars>>

\* tusd gives up on the lock.
LockTimeout(r) ==
  /\ lock # "free"
  /\ Answered(r, "tracked")
  /\ UNCHANGED <<objectVars, lock, receiverVars, deliverVars, historyVars>>

\* Or takes it.
TakeLock(r) ==
  /\ lock = "free"
  /\ Moves(r, "tracked", "looking")
  /\ lock' = r
  /\ UNCHANGED <<objectVars, offset, receiverVars, deliverVars, historyVars>>

\* Under the lock tusd finds no upload, another offset, or nothing to write.
TurnAway(r) ==
  /\ Answered(r, "looking")
  /\ ~Present \/ offset[r] # received \/ received = Size
  /\ lock' = "free"
  /\ UNCHANGED <<objectVars, receiverVars, deliverVars, historyVars>>

\* Mutant: a complete upload is opened, too.
OpenComplete(r) ==
  /\ Present /\ offset[r] = received
  /\ Moves(r, "looking", "writing")
  /\ offset' = [offset EXCEPT ![r] = 0]
  /\ lapsed' = FALSE /\ untraced' = FALSE
  /\ UNCHANGED <<objectVars, lock, receiverVars, deliverVars, acked, taken>>

Open(r) ==
  /\ Present /\ offset[r] = received /\ received < Size
  /\ Moves(r, "looking", "writing")
  /\ offset' = [offset EXCEPT ![r] = 0]
  /\ lapsed' = FALSE /\ untraced' = FALSE
  /\ UNCHANGED <<objectVars, lock, receiverVars, deliverVars, acked, taken>>

\* A piece of the body, of the artifact or not, reaches uploads/{id}.
Write(r) ==
  /\ Moves(r, "writing", IF received + 1 = Size THEN "complete" ELSE "writing")
  /\ received' = received + 1
  /\ intact' \in {intact, FALSE}
  /\ synced' = FALSE /\ stale' = FALSE
  /\ UNCHANGED <<created, file, receipt, lock, offset, receiverVars,
                 deliverVars, historyVars>>

\* The body ends early: the connection breaks, or tusd hands the lock to
\* another request that asks for it.
Break(r) ==
  /\ Answered(r, "writing")
  /\ lock' = "free"
  /\ UNCHANGED <<objectVars, receiverVars, deliverVars, historyVars>>

\* A HEAD, which tusd answers under the lock, too.
HeadTakes ==
  /\ up /\ created /\ lock = "free"
  /\ lock' = "head"
  /\ UNCHANGED <<objectVars, requestVars, receiverVars, deliverVars, historyVars>>

HeadEnds ==
  /\ lock = "head"
  /\ lock' = "free"
  /\ UNCHANGED <<objectVars, requestVars, receiverVars, deliverVars, historyVars>>

-----------------------------------------------------------------------------
(* beforeFinish and accept *)

\* Mutant: uploads/ is not synced.
SyncUploadFileOnly(r) ==
  /\ Moves(r, "complete", IF Accepted THEN "committed" ELSE "synced")
  /\ synced' = (synced \/ ~Accepted)
  /\ UNCHANGED <<created, file, received, intact, stale, receipt, lock, offset,
                 receiverVars, deliverVars, historyVars>>

\* Mutant: the row is inserted before there is a receipt.
SyncUploadIndexing(r) ==
  /\ Moves(r, "complete", IF Accepted THEN "committed" ELSE "synced")
  /\ synced' = (synced \/ ~Accepted)
  /\ file' = IF Accepted THEN file ELSE SyncDir(file)
  /\ indexed' = TRUE
  /\ UNCHANGED <<created, received, intact, stale, receipt, lock, offset,
                 receiverVars, sealed, purged, purger, historyVars>>

\* accept: a receipt that exists is the answer; otherwise the data, its
\* metadata and the directory are synced before anything is looked at.
SyncUpload(r) ==
  /\ Moves(r, "complete", IF Accepted THEN "committed" ELSE "synced")
  /\ synced' = (synced \/ ~Accepted)
  /\ file' = IF Accepted THEN file ELSE SyncDir(file)
  /\ UNCHANGED <<created, received, intact, stale, receipt, lock, offset,
                 receiverVars, deliverVars, historyVars>>

ChecksumMismatch(r) ==
  /\ ~intact
  /\ Answered(r, "synced")
  /\ lock' = "free"
  /\ UNCHANGED <<objectVars, receiverVars, deliverVars, historyVars>>

\* writeReceipt: the synced temporary file is renamed into place, ...
RenameReceipt(r) ==
  /\ intact
  /\ Moves(r, "synced", "renamed")
  /\ receipt' = Published(receipt)
  /\ UNCHANGED <<created, file, received, synced, intact, stale, lock, offset,
                 receiverVars, deliverVars, historyVars>>

\* Mutant: receipts/ is not synced.
ReceiptsUnsynced(r) ==
  /\ Moves(r, "renamed", "committed")
  /\ UNCHANGED <<objectVars, lock, offset, receiverVars, deliverVars, historyVars>>

\* ... and receipts/ is synced.
SyncReceipts(r) ==
  /\ Moves(r, "renamed", "committed")
  /\ receipt' = Synced(receipt)
  /\ UNCHANGED <<created, file, received, synced, intact, stale, lock, offset,
                 receiverVars, deliverVars, historyVars>>

\* Any of these steps may fail instead; and the receiver may have been started
\* again without the project, which beforeFinish looks up first.
AcceptFails(r) ==
  /\ \/ Answered(r, "complete")
     \/ Answered(r, "synced")
     \/ Answered(r, "renamed")
  /\ lock' = "free"
  /\ UNCHANGED <<objectVars, receiverVars, deliverVars, historyVars>>

\* indexArtifact, whose failure is only logged, and the answer.
Index(r) ==
  /\ Answered(r, "committed")
  /\ lock' = "free"
  /\ indexed' \in {indexed, TRUE}
  /\ acked' = TRUE
  /\ UNCHANGED <<objectVars, receiverVars, sealed, purged, purger, lapsed, untraced, taken>>

-----------------------------------------------------------------------------
(* recordUploadAttemptEnd *)

\* It looks for the receipt and for the metadata first.
EndAttempt(r) ==
  /\ Moves(r, "ended", IF ~Accepted /\ OnDisk(file["info"]) THEN "marking" ELSE "none")
  /\ file' = IF Accepted THEN [file EXCEPT !["attempt"] = Removed(@)] ELSE file
  /\ untraced' = (untraced \/ Accepted \/ ~OnDisk(file["info"]))
  /\ UNCHANGED <<created, received, synced, intact, stale, receipt, lock, offset, receiverVars,
                 deliverVars, acked, lapsed, taken>>

\* Mutant: the marker keeps the time of the last byte.
MarkLastByte(r) ==
  /\ Moves(r, "marking", "none")
  /\ file' = SyncDir([file EXCEPT !["attempt"] = Published(@)])
  /\ UNCHANGED <<created, received, synced, intact, stale, receipt, lock, offset,
                 receiverVars, deliverVars, historyVars>>

\* The marker, with the time of the end, is renamed into place and synced.
MarkAttempt(r) ==
  /\ Moves(r, "marking", "none")
  /\ file' = SyncDir([file EXCEPT !["attempt"] = Published(@)])
  /\ stale' = FALSE
  /\ UNCHANGED <<created, received, synced, intact, receipt, lock, offset,
                 receiverVars, deliverVars, historyVars>>

\* An error is logged; the times of the data and the metadata remain.
MarkFails(r) ==
  /\ Moves(r, "ended", "none") \/ Moves(r, "marking", "none")
  /\ lapsed' = (lapsed \/ stale) /\ untraced' = TRUE
  /\ UNCHANGED <<objectVars, lock, offset, receiverVars, deliverVars, acked, taken>>

-----------------------------------------------------------------------------
(* The cleanup of partial uploads *)

RetentionPasses ==
  /\ created /\ ~stale
  /\ stale' = TRUE
  /\ lapsed' = (lapsed \/ ~uploadAttemptActive)
  /\ UNCHANGED <<created, file, received, synced, intact, receipt, lock, requestVars,
                 receiverVars, deliverVars, acked, untraced, taken>>

Partial == OnDisk(file["info"]) /\ ~Accepted

\* cleanupStalePartialUploads takes the upload for stale, and
\* cleanupStalePartialUpload sees no attempt before it asks for the lock.
Scan ==
  /\ up /\ cleaner = "idle"
  /\ Partial /\ ~uploadAttemptActive /\ stale
  /\ cleaner' = "waiting"
  /\ UNCHANGED <<objectVars, lock, requestVars, up, deliverVars, historyVars>>

CleanupTimeout ==
  /\ cleaner = "waiting" /\ lock # "free"
  /\ cleaner' = "idle"
  /\ UNCHANGED <<objectVars, lock, requestVars, up, deliverVars, historyVars>>

\* Mutant: how long ago the last attempt ended is not asked again.
RemovableOnceStale ==
  /\ ~uploadAttemptActive /\ ~Accepted
  /\ \E f \in UploadFiles : OnDisk(file[f])

\* Mutant: the receipt is not looked for again.
RemovableAccepted ==
  /\ ~uploadAttemptActive /\ stale
  /\ \E f \in UploadFiles : OnDisk(file[f])

\* What it asks again when it has the lock.
Removable ==
  /\ ~uploadAttemptActive /\ ~Accepted /\ stale
  /\ \E f \in UploadFiles : OnDisk(file[f])

\* Mutant: what follows happens without the lock.
CleanupUnlocked ==
  /\ cleaner = "waiting" /\ lock = "free"
  /\ cleaner' = "checking"
  /\ UNCHANGED <<objectVars, lock, requestVars, up, deliverVars, historyVars>>

CleanupLock ==
  /\ cleaner = "waiting" /\ lock = "free"
  /\ cleaner' = "checking" /\ lock' = "cleanup"
  /\ UNCHANGED <<objectVars, requestVars, up, deliverVars, historyVars>>

CleanupSpares ==
  /\ cleaner = "checking" /\ ~Removable
  /\ cleaner' = "idle" /\ lock' = "free"
  /\ UNCHANGED <<objectVars, requestVars, up, deliverVars, historyVars>>

CleanupRemoves ==
  /\ cleaner = "checking" /\ Removable
  /\ cleaner' = "unlinking"
  /\ UNCHANGED <<objectVars, lock, requestVars, up, deliverVars, historyVars>>

\* Files are removed one after the other.
UnlinkFirst(order) ==
  \E i \in DOMAIN order :
    /\ OnDisk(file[order[i]])
    /\ \A h \in 1..(i - 1) : ~OnDisk(file[order[h]])
    /\ file' = [file EXCEPT ![order[i]] = Removed(@)]

CleanupUnlink ==
  /\ cleaner = "unlinking"
  /\ UnlinkFirst(<<"data", "info", "attempt">>)
  /\ UNCHANGED <<created, received, synced, intact, stale, receipt, lock, requestVars,
                 receiverVars, deliverVars, historyVars>>

CleanupDone ==
  /\ cleaner = "unlinking"
  /\ \A f \in UploadFiles : ~OnDisk(file[f])
  /\ file' = SyncDir(file)
  /\ cleaner' = "idle" /\ lock' = "free"
  /\ UNCHANGED <<created, received, synced, intact, stale, receipt, requestVars, up,
                 deliverVars, historyVars>>

\* Looking for one of the files, a remove or the sync fails.
CleanupFails ==
  /\ cleaner \in {"checking", "unlinking"}
  /\ cleaner' = "idle" /\ lock' = "free"
  /\ UNCHANGED <<objectVars, requestVars, up, deliverVars, historyVars>>

-----------------------------------------------------------------------------
(* The deliver process *)

\* Reconciliation reads receipts/ and the metadata.
Reconcile ==
  /\ ~indexed /\ Accepted /\ OnDisk(file["info"])
  /\ indexed' = TRUE
  /\ UNCHANGED <<objectVars, lock, requestVars, receiverVars, sealed, purged, purger, historyVars>>

\* A package with a copy, or a hard link, of the data is built and sealed.
Seal ==
  /\ indexed /\ ~sealed /\ OnDisk(file["data"])
  /\ sealed' = TRUE
  /\ UNCHANGED <<objectVars, lock, requestVars, receiverVars, indexed, purged, purger, historyVars>>

\* purgeUpload waits for the lock without a limit.
PurgeLock ==
  /\ purger = "idle" /\ sealed /\ ~purged /\ lock = "free"
  /\ purger' = "unlinking" /\ lock' = "deliver"
  /\ UNCHANGED <<objectVars, requestVars, receiverVars, indexed, sealed, purged, historyVars>>

PurgeUnlink ==
  /\ purger = "unlinking"
  /\ UnlinkFirst(<<"data", "info">>)
  /\ UNCHANGED <<created, received, synced, intact, stale, receipt, lock, requestVars,
                 receiverVars, deliverVars, historyVars>>

PurgeDone ==
  /\ purger = "unlinking" /\ ~OnDisk(file["data"]) /\ ~OnDisk(file["info"])
  /\ file' = SyncDir(file)
  /\ purger' = "unlocked" /\ lock' = "free"
  /\ UNCHANGED <<created, received, synced, intact, stale, receipt, requestVars,
                 receiverVars, indexed, sealed, purged, historyVars>>

\* Mutant: an error returns without the unlock.
PurgeFailsLocked ==
  /\ purger = "unlinking"
  /\ purger' = "idle"
  /\ UNCHANGED <<objectVars, lock, requestVars, receiverVars, indexed, sealed, purged, historyVars>>

PurgeFails ==
  /\ purger = "unlinking"
  /\ purger' = "idle" /\ lock' = "free"
  /\ UNCHANGED <<objectVars, requestVars, receiverVars, indexed, sealed, purged, historyVars>>

MarkSourcePurged ==
  /\ purger = "unlocked"
  /\ purged' = TRUE /\ purger' = "idle"
  /\ UNCHANGED <<objectVars, lock, requestVars, receiverVars, indexed, sealed, historyVars>>

-----------------------------------------------------------------------------
(* Crashes *)

RequestsLost ==
  /\ req' = [r \in Requests |-> "none"]
  /\ offset' = [r \in Requests |-> 0]

ReceiverCrash ==
  /\ up
  /\ up' = FALSE /\ cleaner' = "idle"
  /\ RequestsLost
  /\ IF lock \in Requests \cup {"head", "cleanup"} THEN lock' \in Orphaned ELSE UNCHANGED lock
  /\ lapsed' = (lapsed \/ stale) /\ untraced' = (untraced \/ uploadAttemptActive)
  /\ UNCHANGED <<objectVars, deliverVars, acked, taken>>

\* Mutant: no lock is released.
ReceiverStartLocked ==
  /\ ~up
  /\ up' = TRUE
  /\ UNCHANGED <<objectVars, lock, requestVars, cleaner, deliverVars, historyVars>>

\* Mutant: the test for the receipt is the wrong way round.
ReceiverStartInverted ==
  /\ ~up
  /\ up' = TRUE
  /\ lock' = IF Accepted THEN "free" ELSE lock
  /\ file' = SyncDir(file)
  /\ UNCHANGED <<created, received, synced, intact, stale, receipt, requestVars, cleaner,
                 deliverVars, historyVars>>

\* releaseOrphanedUploadLocks: before it serves, the receiver removes the lock
\* of an upload that has no receipt, and syncs the directory.
ReceiverStart ==
  /\ ~up
  /\ up' = TRUE
  /\ lock' = IF Accepted THEN lock ELSE "free"
  /\ file' = SyncDir(file)
  /\ UNCHANGED <<created, received, synced, intact, stale, receipt, requestVars, cleaner,
                 deliverVars, historyVars>>

\* The deliver process dies and is started again.
DeliverCrash ==
  /\ purger # "idle"
  /\ purger' = "idle"
  /\ IF lock = "deliver" THEN lock' \in Orphaned ELSE UNCHANGED lock
  /\ UNCHANGED <<objectVars, requestVars, receiverVars, indexed, sealed, purged, historyVars>>

\* The database keeps what was committed; of the files, what was not synced may
\* be lost, the end of the data or its content too, and the times of all files but
\* a durable marker.
PowerLoss ==
  /\ up' = FALSE /\ cleaner' = "idle" /\ purger' = "idle"
  /\ RequestsLost
  /\ \E kept \in SUBSET Unsynced(file) : file' = AfterPowerLoss(file, kept)
  /\ receipt' \in IF receipt = "visible" THEN {"durable", "absent"} ELSE {receipt}
  /\ IF synced THEN UNCHANGED <<received, intact>>
     ELSE /\ received' \in 0..received
          /\ intact' \in IF received' = 0 THEN {TRUE}
                         ELSE IF received' < received THEN BOOLEAN ELSE {intact, FALSE}
  /\ IF lock = "free" THEN UNCHANGED lock ELSE lock' \in Orphaned
  /\ lapsed' = (lapsed \/ untraced \/ uploadAttemptActive)
  /\ untraced' = (untraced \/ uploadAttemptActive)
  /\ taken' = (taken \/ (indexed /\ Accepted /\ ~OnDisk(receipt')))
  /\ UNCHANGED <<created, synced, stale, indexed, sealed, purged, acked>>

-----------------------------------------------------------------------------

\* What a request does by itself once it has arrived.
Handle(r) ==
  \/ LockTimeout(r) \/ TakeLock(r) \/ TurnAway(r) \/ Open(r) \/ Write(r) \/ Break(r)
  \/ SyncUpload(r) \/ ChecksumMismatch(r) \/ RenameReceipt(r)
  \/ SyncReceipts(r) \/ Index(r) \/ EndAttempt(r) \/ MarkAttempt(r)

Cleanup ==
  \/ Scan \/ CleanupTimeout \/ CleanupLock \/ CleanupSpares \/ CleanupRemoves
  \/ CleanupUnlink \/ CleanupDone

Purge == PurgeLock \/ PurgeUnlink \/ PurgeDone \/ MarkSourcePurged

GoesOn ==
  \/ Create \/ HeadTakes \/ HeadEnds \/ RetentionPasses \/ Cleanup
  \/ Reconcile \/ Seal \/ Purge \/ ReceiverStart
  \/ \E r \in Requests : Handle(r)

Works == GoesOn \/ \E r \in Requests, from \in 0..Size : Arrive(r, from)

Fails ==
  \/ \E r \in Requests : Backpressure(r) \/ AcceptFails(r) \/ MarkFails(r)
  \/ CleanupFails \/ PurgeFails \/ ReceiverCrash \/ DeliverCrash \/ PowerLoss

UploadNext == Works \/ Fails

UploadSpec == UploadInit /\ [][UploadNext]_uploadVars

\* Handlers, the cleanup and the deliver process go on, the receiver is started
\* again, and time passes.  purgeUpload polls the lock until it finds it free, if
\* others give it back again and again.
UploadFairness ==
  /\ \A r \in Requests : WF_uploadVars(Handle(r))
  /\ WF_uploadVars(HeadEnds) /\ WF_uploadVars(Cleanup) /\ SF_uploadVars(Purge)
  /\ WF_uploadVars(RetentionPasses) /\ WF_uploadVars(ReceiverStart)

\* A look at the upload is over before others give up on the lock.
LookedAt == lock = "head" \/ cleaner = "checking" \/ \E r \in Requests : req[r] = "looking"

Prompt == LookedAt => ~CleanupTimeout /\ \A r \in Requests : ~LockTimeout(r)

\* Failures stop at some time.
Undisturbed == <>[][Works /\ Prompt]_uploadVars

UploadFairSpec == UploadSpec /\ UploadFairness /\ Undisturbed

-----------------------------------------------------------------------------
(* Safety *)

\* Whoever sees a receipt, the deliver process before any sync included, finds
\* the artifact: the upload is whole, on disk and of the declared checksum, or a
\* package is sealed (server.go 184-218: everything is synced and hashed before
\* the receipt appears, and cleanup asks for it under the lock).
ReceiptIsBacked == Accepted => sealed \/ Stored

\* The upload a request has opened stays there until the request gives the lock
\* back: neither cleanup nor purgeUpload removes a file under it, whatever
\* orphaned locks crashes left and the receiver released.
AttemptKeepsFiles ==
  \A r \in Requests : req[r] \in {"writing", "complete", "synced"} => Present /\ lock = r

\* README.md 40-41: a partial upload "remains resumable for
\* partial_upload_retention after the most recent PATCH attempt ends".  What
\* cleanup goes by, file times, markers and active requests, never lets it remove
\* an upload whose last attempt ended less than that ago.
ResumableIsSpared == cleaner = "unlinking" => lapsed

\* A row in artifacts, which is never deleted, has its artifact: else the build of
\* its package fails for ever, and with it that of all its members (package.go
\* 448-454 retries a missing upload).  Deliver may have read the receipt before it
\* was synced (delivery.go 464-522): only a power loss that takes such a receipt
\* leaves a row that cleanup knows nothing of.
RowIsBacked == indexed => sealed \/ Stored \/ taken

\* upload_cleanup.go 155-159: a restarted receiver would never reclaim the lock of
\* its predecessor.  As soon as it serves, only the lock of an upload that has a
\* receipt or a package is in the hands of a dead process: no worker that resumes,
\* and no cleanup, waits for one in vain, whoever died with it, and when.
OrphansReleased == lock = "reused" /\ up => Accepted \/ sealed

-----------------------------------------------------------------------------
(* Refinement *)

status ==
  CASE ~created -> "none"
    [] created /\ receipt = "durable" ->
         IF sealed THEN "packaged" ELSE IF Stored THEN "accepted" ELSE "broken"
    [] created /\ receipt # "durable" ->
         IF ~Accepted /\ file["data"] = "absent" /\ file["info"] = "absent"
         THEN "gone" ELSE "partial"

Contract == INSTANCE UploadContract WITH status <- status

\* A receipt that is on disk is a promise kept through every crash and power
\* loss (server.go 184-218 sync everything before the receipt is written; the
\* cleanup and purgeUpload remove files under the lock only).
KeepsContract == Contract!Spec

\* A client that was answered with a receipt never finds it gone, nor the artifact
\* (server.go 217-222: the answer comes after receipts/ was synced).
AnswerIsKept == acked => status \in {"accepted", "packaged"}

-----------------------------------------------------------------------------
(* Liveness *)

\* A partial upload nobody continues is removed, even when the receiver died
\* while it held the lock and its PID is in use again (upload_cleanup.go 155-159).
StaleIsRemoved ==
  Partial ~> (~Partial \/ uploadAttemptActive \/ sealed)

\* The source of a sealed package is removed unless the lock was orphaned under a
\* PID that is in use again.
SourceIsFreed == sealed ~> (purged \/ lock = "reused")

\* design.md 207: "Canner restarts recover from tus metadata and receipt
\* sidecars, no in-memory state is authoritative".
RestartsRecover == sealed ~> purged
=============================================================================
