---------------------------- MODULE UploadProofs ----------------------------
(***************************************************************************)
(* Theorems about Upload, for any number of requests and every size.       *)
(***************************************************************************)
EXTENDS Upload, TLAPS

(* The inductive invariant *)

\* From Open to the answer a request holds the lock.
Holding == {"writing", "complete", "synced", "renamed", "committed"}

\* A power loss took the receipt of a row.
Lost == indexed /\ ~Accepted

\* Who is at work has the lock, and nobody of a receiver that does not run is.  (A
\* receiver that starts releases even deliver's lock of an upload whose receipt is
\* lost; after that locks of that upload are given back by others, too.)
LockInv ==
  /\ ~up => cleaner = "idle" /\ ~uploadAttemptActive
  /\ \A r \in Requests : req[r] \in Holding => lock = r
  /\ \A r \in Requests : req[r] = "looking" => lock = r \/ Lost
  /\ cleaner \in {"checking", "unlinking"} => lock = "cleanup" \/ Lost
  /\ purger = "unlinking" => lock = "deliver" \/ Lost
  /\ OrphansReleased

\* What is certain at each step of a request that holds the lock.
RequestInv ==
  \A r \in Requests :
    /\ req[r] = "writing" => received < Size
    /\ req[r] \in {"complete", "synced"} => received = Size
    /\ req[r] \in {"writing", "complete", "synced"} => Present /\ ~Accepted /\ ~indexed
    /\ req[r] = "synced" => synced /\ file["data"] = "durable" /\ file["info"] = "durable"
    /\ req[r] = "renamed" => Accepted
    /\ req[r] = "committed" => receipt = "durable"

\* An upload that does not exist has left no trace.
NothingYet ==
  ~created => /\ \A f \in UploadFiles : file[f] = "absent"
              /\ receipt = "absent" /\ ~stale /\ ~uploadAttemptActive /\ untraced

\* What a receipt, a row and a package tell about the upload.
AcceptInv ==
  /\ receipt # "unlinked"
  /\ Accepted \/ indexed => received = Size /\ synced /\ intact
  /\ sealed => indexed
  /\ purger # "idle" => sealed
  /\ cleaner = "unlinking" => ~Accepted
  /\ acked => receipt = "durable"
  /\ Lost => taken
  /\ ReceiptIsBacked

\* Why a stale upload may be removed: nobody has tried for long, or whoever did
\* left no marker that a power loss spares.
TraceInv ==
  /\ stale => lapsed \/ uploadAttemptActive \/ Accepted
  /\ created => Present \/ lapsed \/ Accepted
  /\ created => \/ file["data"] = "durable" /\ file["info"] = "durable"
                \/ untraced \/ uploadAttemptActive \/ lapsed
  /\ Accepted => untraced \/ \E r \in Requests : req[r] \in {"renamed", "committed", "ended"}
  /\ Lost => lapsed
  /\ ResumableIsSpared

UploadInv == UploadTypeOK /\ LockInv /\ RequestInv /\ NothingYet /\ AcceptInv /\ TraceInv

-----------------------------------------------------------------------------
(* Files *)

\* The names of an upload's files.
LEMMA Files == "data" \in UploadFiles /\ "info" \in UploadFiles /\ "attempt" \in UploadFiles
BY DEF UploadFiles

\* A sync of uploads/ leaves the files there are, on disk.
LEMMA SyncFacts ==
  ASSUME NEW dir \in [UploadFiles -> Entry]
  PROVE  /\ SyncDir(dir) \in [UploadFiles -> Entry]
         /\ \A f \in UploadFiles : SyncDir(dir)[f] = Synced(dir[f])
BY DEF SyncDir, Synced, OnDisk, Entry

\* The marker of an attempt leaves the other files as a sync does.
LEMMA MarkFacts ==
  ASSUME file \in [UploadFiles -> Entry],
         NEW dir, dir = SyncDir([file EXCEPT !["attempt"] = Published(@)])
  PROVE  /\ dir \in [UploadFiles -> Entry]
         /\ \A f \in UploadFiles \ {"attempt"} : dir[f] = Synced(file[f])
<1> DEFINE marked == [file EXCEPT !["attempt"] = Published(@)]
<1>1. marked \in [UploadFiles -> Entry]
  BY Files DEF Published, Entry
<1>2. \A f \in UploadFiles \ {"attempt"} : marked[f] = file[f]
  BY DEF UploadFiles
<1> QED
  BY <1>1, <1>2, SyncFacts

\* So does the step that writes it.
LEMMA MarkStep ==
  ASSUME UploadTypeOK, NEW r \in Requests, MarkAttempt(r)
  PROVE  /\ UploadTypeOK'
         /\ file' \in [UploadFiles -> Entry]
         /\ \A f \in UploadFiles \ {"attempt"} : file'[f] = Synced(file[f])
<1>1. file \in [UploadFiles -> Entry]
  BY DEF UploadTypeOK
<1>2. file' = SyncDir([file EXCEPT !["attempt"] = Published(@)])
  BY DEF MarkAttempt
<1>3. /\ file' \in [UploadFiles -> Entry]
      /\ \A f \in UploadFiles \ {"attempt"} : file'[f] = Synced(file[f])
  BY <1>1, <1>2, MarkFacts
<1>4. stale' \in BOOLEAN
  BY DEF MarkAttempt
<1>5. req' \in [Requests -> {"none", "tracked", "looking", "writing", "complete", "synced",
                            "renamed", "committed", "ended", "marking"}]
  BY DEF UploadTypeOK, MarkAttempt, Moves
<1>6. UNCHANGED <<created, received, synced, intact, receipt, lock, offset, up, cleaner,
                  indexed, sealed, purged, purger, acked, lapsed, untraced, taken>>
  BY DEF MarkAttempt, receiverVars, deliverVars, historyVars
<1>7. UploadTypeOK'
  BY <1>3, <1>4, <1>5, <1>6 DEF UploadTypeOK
<1> QED
  BY <1>3, <1>7

\* A power loss takes nothing that is durable and brings nothing back.
LEMMA LossFacts ==
  ASSUME file \in [UploadFiles -> Entry], NEW kept
  PROVE  /\ AfterPowerLoss(file, kept) \in [UploadFiles -> Entry]
         /\ \A f \in UploadFiles :
              file[f] \in {"absent", "durable"} => AfterPowerLoss(file, kept)[f] = file[f]
BY DEF AfterPowerLoss, Unsynced, Entry

-----------------------------------------------------------------------------
(* The invariant *)

\* Before an upload is created the invariant holds.
LEMMA InvInit == UploadInit => UploadInv
<1> SUFFICES ASSUME UploadInit PROVE UploadInv
  OBVIOUS
<1> USE UploadAssumption
    DEF UploadInit, Stored, Present, Accepted, uploadAttemptActive, Holding, Lost, OrphansReleased,
       Orphaned,
        Entry, OnDisk
<1>1. UploadTypeOK
  <2>1. created \in BOOLEAN /\ synced \in BOOLEAN /\ intact \in BOOLEAN /\ stale \in BOOLEAN
    OBVIOUS
  <2>2. /\ up \in BOOLEAN /\ indexed \in BOOLEAN /\ sealed \in BOOLEAN /\ purged \in BOOLEAN
        /\ acked \in BOOLEAN /\ lapsed \in BOOLEAN /\ untraced \in BOOLEAN /\ taken \in BOOLEAN
    OBVIOUS
  <2> QED
    BY <2>1, <2>2 DEF UploadTypeOK
<1>2. LockInv /\ RequestInv
  BY DEF LockInv, RequestInv
<1>3. NothingYet
  BY DEF NothingYet
<1>4. AcceptInv
  BY DEF AcceptInv, ReceiptIsBacked
<1>5. TraceInv
  BY DEF TraceInv, ResumableIsSpared
<1> QED
  BY <1>1, <1>2, <1>3, <1>4, <1>5 DEF UploadInv

\* No step of a request, of cleanup, of the deliver process and no failure breaks it.
LEMMA InvStep == UploadInv /\ [UploadNext]_uploadVars => UploadInv'
<1> SUFFICES ASSUME UploadInv, [UploadNext]_uploadVars PROVE UploadInv'
  OBVIOUS
<1> USE UploadAssumption
    DEF UploadInv, UploadTypeOK, LockInv, RequestInv, NothingYet, AcceptInv, TraceInv,
        ReceiptIsBacked, ResumableIsSpared, Stored, Present, Accepted, uploadAttemptActive,
        Holding, Lost, OrphansReleased, Orphaned, Entry, OnDisk, objectVars, requestVars, receiverVars,
        deliverVars,
        historyVars
<1>1. ASSUME Create PROVE UploadInv'
  BY <1>1, Files DEF Create
<1>2. ASSUME NEW r \in Requests, NEW from \in 0..Size, Arrive(r, from) PROVE UploadInv'
  BY <1>2, Files DEF Arrive, Moves
<1>3. ASSUME NEW r \in Requests, Backpressure(r) PROVE UploadInv'
  BY <1>3, Files DEF Backpressure, Moves, Answered
<1>4. ASSUME NEW r \in Requests, LockTimeout(r) PROVE UploadInv'
  BY <1>4, Files DEF LockTimeout, Moves, Answered
<1>5. ASSUME NEW r \in Requests, TurnAway(r) PROVE UploadInv'
  BY <1>5, Files DEF TurnAway, Moves, Answered
<1>37. ASSUME NEW r \in Requests, TakeLock(r) PROVE UploadInv'
  BY <1>37, Files DEF TakeLock, Moves
<1>38. CASE HeadTakes
  BY <1>38, Files DEF HeadTakes
<1>39. CASE HeadEnds
  BY <1>39, Files DEF HeadEnds
<1>40. CASE CleanupSpares
  BY <1>40, Files DEF CleanupSpares, Removable
<1>41. CASE CleanupRemoves
  BY <1>41, Files DEF CleanupRemoves, Removable
<1>6. ASSUME NEW r \in Requests, Open(r) PROVE UploadInv'
  <2>1. lapsed' \in BOOLEAN /\ untraced' \in BOOLEAN
    BY <1>6 DEF Open
  <2>2. UploadTypeOK'
    BY <1>6, <2>1, Files DEF Open, Moves
  <2> QED
    BY <1>6, <2>2, Files DEF Open, Moves
<1>7. ASSUME NEW r \in Requests, Write(r) PROVE UploadInv'
  <2>1. intact' \in BOOLEAN
    BY <1>7 DEF Write
  <2>2. synced' \in BOOLEAN
    BY <1>7 DEF Write
  <2>3. stale' \in BOOLEAN
    BY <1>7 DEF Write
  <2>4. UploadTypeOK'
    BY <1>7, <2>1, <2>2, <2>3, Files DEF Write, Moves
  <2> QED
    BY <1>7, <2>4, Files DEF Write, Moves
<1>8. ASSUME NEW r \in Requests, Break(r) PROVE UploadInv'
  BY <1>8, Files DEF Break, Moves, Answered
<1>9. ASSUME NEW r \in Requests, SyncUpload(r) PROVE UploadInv'
  BY <1>9, Files, SyncFacts DEF SyncUpload, Moves, Synced
<1>10. ASSUME NEW r \in Requests, ChecksumMismatch(r) PROVE UploadInv'
  BY <1>10, Files DEF ChecksumMismatch, Moves, Answered
<1>11. ASSUME NEW r \in Requests, RenameReceipt(r) PROVE UploadInv'
  BY <1>11, Files DEF RenameReceipt, Moves, Published
<1>12. ASSUME NEW r \in Requests, SyncReceipts(r) PROVE UploadInv'
  BY <1>12, Files DEF SyncReceipts, Moves, Synced
<1>13. ASSUME NEW r \in Requests, AcceptFails(r) PROVE UploadInv'
  BY <1>13, Files DEF AcceptFails, Moves, Answered
<1>14. ASSUME NEW r \in Requests, Index(r) PROVE UploadInv'
  <2>1. indexed' \in BOOLEAN
    BY <1>14 DEF Index
  <2>2. acked' \in BOOLEAN
    BY <1>14 DEF Index
  <2>3. UploadTypeOK'
    BY <1>14, <2>1, <2>2, Files DEF Index, Moves, Answered
  <2>4. LockInv' /\ RequestInv'
    BY <1>14, <2>3, Files DEF Index, Moves, Answered
  <2>5. NothingYet' /\ AcceptInv'
    BY <1>14, <2>3, Files DEF Index, Moves, Answered
  <2>6. TraceInv'
    BY <1>14, <2>3, Files DEF Index, Moves, Answered
  <2> QED
    BY <2>3, <2>4, <2>5, <2>6 DEF UploadInv
<1>15. ASSUME NEW r \in Requests, EndAttempt(r) PROVE UploadInv'
  <2>1. untraced' \in BOOLEAN
    BY <1>15 DEF EndAttempt
  <2>2. UploadTypeOK'
    BY <1>15, <2>1, Files DEF EndAttempt, Moves, Removed
  <2> QED
    BY <1>15, <2>2, Files DEF EndAttempt, Moves, Removed
<1>16. ASSUME NEW r \in Requests, MarkAttempt(r) PROVE UploadInv'
  <2>1. UploadTypeOK'
    BY <1>16, MarkStep
  <2>2. /\ file' \in [UploadFiles -> Entry]
        /\ \A f \in UploadFiles \ {"attempt"} : file'[f] = Synced(file[f])
    BY <1>16, MarkStep
  <2>3. file'["data"] = Synced(file["data"]) /\ file'["info"] = Synced(file["info"])
    BY <2>2, Files
  <2>4. LockInv' /\ RequestInv'
    BY <1>16, <2>1, <2>3, Files DEF MarkAttempt, Moves, Synced
  <2>5. NothingYet' /\ AcceptInv'
    BY <1>16, <2>1, <2>3, Files DEF MarkAttempt, Moves, Synced
  <2>6. TraceInv'
    BY <1>16, <2>1, <2>3, Files DEF MarkAttempt, Moves, Synced
  <2> QED
    BY <2>1, <2>4, <2>5, <2>6 DEF UploadInv
<1>17. ASSUME NEW r \in Requests, MarkFails(r) PROVE UploadInv'
  <2>1. lapsed' \in BOOLEAN /\ untraced' \in BOOLEAN
    BY <1>17 DEF MarkFails
  <2>2. UploadTypeOK'
    BY <1>17, <2>1, Files DEF MarkFails, Moves
  <2> QED
    BY <1>17, <2>2, Files DEF MarkFails, Moves
<1>18. ASSUME RetentionPasses PROVE UploadInv'
  <2>1. stale' \in BOOLEAN
    BY <1>18 DEF RetentionPasses
  <2>2. lapsed' \in BOOLEAN
    BY <1>18 DEF RetentionPasses
  <2>3. UploadTypeOK'
    BY <1>18, <2>1, <2>2, Files DEF RetentionPasses
  <2>4. LockInv' /\ RequestInv'
    BY <1>18, <2>3, Files DEF RetentionPasses
  <2>5. NothingYet' /\ AcceptInv'
    BY <1>18, <2>3, Files DEF RetentionPasses
  <2>6. TraceInv'
    BY <1>18, <2>3, Files DEF RetentionPasses
  <2> QED
    BY <2>3, <2>4, <2>5, <2>6 DEF UploadInv
<1>19. ASSUME Scan PROVE UploadInv'
  BY <1>19, Files DEF Scan, Partial
<1>20. ASSUME CleanupTimeout PROVE UploadInv'
  BY <1>20, Files DEF CleanupTimeout
<1>21. ASSUME CleanupLock PROVE UploadInv'
  BY <1>21, Files DEF CleanupLock
<1>22. ASSUME CleanupUnlink PROVE UploadInv'
  BY <1>22, Files DEF CleanupUnlink, UnlinkFirst, Removed
<1>23. ASSUME CleanupDone PROVE UploadInv'
  BY <1>23, Files, SyncFacts DEF CleanupDone, Synced
<1>24. ASSUME CleanupFails PROVE UploadInv'
  BY <1>24, Files DEF CleanupFails
<1>25. ASSUME Reconcile PROVE UploadInv'
  BY <1>25, Files DEF Reconcile
<1>26. ASSUME Seal PROVE UploadInv'
  BY <1>26, Files DEF Seal
<1>27. ASSUME PurgeLock PROVE UploadInv'
  BY <1>27, Files DEF PurgeLock
<1>28. ASSUME PurgeUnlink PROVE UploadInv'
  BY <1>28, Files DEF PurgeUnlink, UnlinkFirst, Removed
<1>29. ASSUME PurgeDone PROVE UploadInv'
  BY <1>29, Files, SyncFacts DEF PurgeDone, Synced
<1>30. ASSUME PurgeFails PROVE UploadInv'
  BY <1>30, Files DEF PurgeFails
<1>31. ASSUME MarkSourcePurged PROVE UploadInv'
  BY <1>31, Files DEF MarkSourcePurged
<1>32. ASSUME ReceiverCrash PROVE UploadInv'
  <2>1. up' \in BOOLEAN
    BY <1>32 DEF ReceiverCrash
  <2>2. lapsed' \in BOOLEAN /\ untraced' \in BOOLEAN
    BY <1>32 DEF ReceiverCrash
  <2>3. UploadTypeOK'
    BY <1>32, <2>1, <2>2, Files DEF ReceiverCrash, RequestsLost
  <2> QED
    BY <1>32, <2>3, Files DEF ReceiverCrash, RequestsLost
<1>33. ASSUME ReceiverStart PROVE UploadInv'
  BY <1>33, Files, SyncFacts DEF ReceiverStart, Synced
<1>34. ASSUME DeliverCrash PROVE UploadInv'
  BY <1>34, Files DEF DeliverCrash
<1>35. ASSUME PowerLoss PROVE UploadInv'
  <2>1. up' \in BOOLEAN /\ lapsed' \in BOOLEAN /\ untraced' \in BOOLEAN /\ taken' \in BOOLEAN
    BY <1>35 DEF PowerLoss
  <2>2. received' \in 0..Size
    <3>1. received' = received \/ received' \in 0..received
      BY <1>35 DEF PowerLoss
    <3> QED
      BY <3>1
  <2>3. intact' \in BOOLEAN
    BY <1>35 DEF PowerLoss
  <2>4. /\ file' \in [UploadFiles -> Entry]
        /\ \A f \in UploadFiles : file[f] \in {"absent", "durable"} => file'[f] = file[f]
    BY <1>35, LossFacts DEF PowerLoss
  <2>5. UploadTypeOK'
    BY <1>35, <2>1, <2>2, <2>3, <2>4 DEF PowerLoss, RequestsLost
  <2>6. Accepted' => Accepted
    BY <1>35 DEF PowerLoss
  <2>7. Stored => Stored'
    BY <1>35, <2>4, Files DEF PowerLoss
  <2>8. AcceptInv'
    BY <1>35, <2>6, <2>7 DEF PowerLoss
  <2> QED
    BY <1>35, <2>4, <2>5, <2>8, Files DEF PowerLoss, RequestsLost
<1>36. CASE UNCHANGED uploadVars
  BY <1>36 DEF uploadVars
<1> QED
  BY <1>1, <1>2, <1>3, <1>4, <1>5, <1>6, <1>7, <1>8, <1>9, <1>10, <1>11, <1>12,
     <1>13, <1>14, <1>15, <1>16, <1>17, <1>18, <1>19, <1>20, <1>21, <1>22, <1>23, <1>24,
     <1>25, <1>26, <1>27, <1>28, <1>29, <1>30, <1>31, <1>32, <1>33, <1>34, <1>35, <1>36,
     <1>37, <1>38, <1>39, <1>40, <1>41
  DEF UploadNext, Works, GoesOn, Fails, Handle, Cleanup, Purge

-----------------------------------------------------------------------------
(* Safety *)

\* The invariant holds in every state, for any requests and any size.
THEOREM UploadInvariant == UploadSpec => []UploadInv
BY InvInit, InvStep, PTL DEF UploadSpec

\* Every variable of Upload keeps its type.
THEOREM UploadTypeCorrect == UploadSpec => []UploadTypeOK
<1>1. UploadInv => UploadTypeOK
  BY DEF UploadInv
<1> QED
  BY <1>1, UploadInvariant, PTL

\* A receipt that can be seen stands for an upload that is whole and on disk, or
\* for a sealed package: a crash or a power loss at any step of accept, of
\* cleanup or of purgeUpload leaves no receipt without its artifact.
THEOREM ReceiptsBacked == UploadSpec => []ReceiptIsBacked
<1>1. UploadInv => ReceiptIsBacked
  BY DEF UploadInv, AcceptInv
<1> QED
  BY <1>1, UploadInvariant, PTL

\* An upload that a PATCH has opened is there, and locked for it, until the
\* request is answered, with any number of requests at once.
THEOREM AttemptsKeepFiles == UploadSpec => []AttemptKeepsFiles
<1>1. UploadInv => AttemptKeepsFiles
  BY DEF UploadInv, LockInv, RequestInv, AttemptKeepsFiles, Holding
<1> QED
  BY <1>1, UploadInvariant, PTL

\* Cleanup removes no upload whose last attempt ended within the retention,
\* unless the end left no trace.
THEOREM ResumablesSpared == UploadSpec => []ResumableIsSpared
<1>1. UploadInv => ResumableIsSpared
  BY DEF UploadInv, TraceInv
<1> QED
  BY <1>1, UploadInvariant, PTL

\* The receipt a client was answered with, and the artifact it stands for, are
\* never lost.
THEOREM AnswersKept == UploadSpec => []AnswerIsKept
<1>1. UploadInv => AnswerIsKept
  BY DEF UploadInv, AcceptInv, NothingYet, ReceiptIsBacked, Accepted, OnDisk, AnswerIsKept, status
<1> QED
  BY <1>1, UploadInvariant, PTL

\* No row loses its artifact before its package is sealed, to cleanup, to deliver
\* or to any crash, unless a power loss took the receipt it was made of.
THEOREM RowsBacked == UploadSpec => []RowIsBacked
<1>1. UploadInv => RowIsBacked
  BY DEF UploadInv, AcceptInv, ReceiptIsBacked, Lost, RowIsBacked
<1> QED
  BY <1>1, UploadInvariant, PTL

\* While the receiver runs, the lock of a dead process whose PID is in use again is
\* that of an upload which has a receipt or a package, whoever died, HEAD requests
\* and cleanup included.
THEOREM OrphansAlwaysReleased == UploadSpec => []OrphansReleased
<1>1. UploadInv => OrphansReleased
  BY DEF UploadInv, LockInv
<1> QED
  BY <1>1, UploadInvariant, PTL

-----------------------------------------------------------------------------
(* Refinement *)

\* The steps that touch what the contract speaks of.
LEMMA Quiet ==
  ASSUME UploadNext
  PROVE  \/ UNCHANGED <<created, file, receipt, sealed>>
         \/ Create \/ CleanupUnlink \/ CleanupDone \/ Seal \/ PurgeUnlink \/ PurgeDone
         \/ ReceiverStart \/ PowerLoss
         \/ \E r \in Requests : SyncUpload(r) \/ RenameReceipt(r) \/ SyncReceipts(r)
                                \/ EndAttempt(r) \/ MarkAttempt(r)
BY DEF UploadNext, Works, GoesOn, Fails, Handle, Cleanup, Purge, objectVars, deliverVars,
       Arrive, Backpressure, LockTimeout, TakeLock, TurnAway, Open, Write, Break, HeadTakes,
       HeadEnds, ChecksumMismatch, AcceptFails, Index, MarkFails, RetentionPasses, Scan,
       CleanupTimeout, CleanupLock, CleanupSpares, CleanupRemoves, CleanupFails, Reconcile, PurgeLock,
       PurgeFails, MarkSourcePurged, ReceiverCrash,
       DeliverCrash

\* An upload that is removed.
Gone == ~Accepted /\ file["data"] = "absent" /\ file["info"] = "absent"

\* What one step may do to an upload that exists.
Onward ==
  /\ created'
  /\ receipt = "durable" => receipt' = "durable"
  /\ sealed => sealed'
  /\ Gone => Gone'

\* No step takes back a durable receipt or a sealed package, or brings an upload
\* that was removed back.
LEMMA StepOnward == UploadInv /\ created /\ UploadNext => Onward
<1> SUFFICES ASSUME UploadInv, created, UploadNext PROVE Onward
  OBVIOUS
<1> USE Files
    DEF Onward, Gone, Accepted, OnDisk, UploadInv, UploadTypeOK, Entry, objectVars, deliverVars
<1>1. CASE UNCHANGED <<created, file, receipt, sealed>>
  BY <1>1
<1>2. CASE Create
  BY <1>2 DEF Create
<1>3. CASE CleanupUnlink
  BY <1>3 DEF CleanupUnlink, UnlinkFirst, Removed
<1>4. CASE CleanupDone
  BY <1>4, SyncFacts DEF CleanupDone, Synced
<1>5. CASE Seal
  BY <1>5 DEF Seal
<1>6. CASE PurgeUnlink
  BY <1>6 DEF PurgeUnlink, UnlinkFirst, Removed
<1>7. CASE PurgeDone
  BY <1>7, SyncFacts DEF PurgeDone, Synced
<1>8. CASE ReceiverStart
  BY <1>8, SyncFacts DEF ReceiverStart, Synced
<1>9. CASE PowerLoss
  BY <1>9, LossFacts DEF PowerLoss
<1>10. ASSUME NEW r \in Requests, SyncUpload(r) PROVE Onward
  BY <1>10, SyncFacts DEF SyncUpload, Synced
<1>11. ASSUME NEW r \in Requests, RenameReceipt(r) PROVE Onward
  BY <1>11 DEF RenameReceipt, Moves, RequestInv, Present, Published
<1>12. ASSUME NEW r \in Requests, SyncReceipts(r) PROVE Onward
  BY <1>12 DEF SyncReceipts, Moves, RequestInv, Synced
<1>13. ASSUME NEW r \in Requests, EndAttempt(r) PROVE Onward
  BY <1>13 DEF EndAttempt, Removed
<1>14. ASSUME NEW r \in Requests, MarkAttempt(r) PROVE Onward
  <2>1. file'["data"] = Synced(file["data"]) /\ file'["info"] = Synced(file["info"])
    BY <1>14, MarkFacts DEF MarkAttempt, UploadFiles
  <2> QED
    BY <1>14, <2>1 DEF MarkAttempt, Synced
<1> QED
  BY Quiet, <1>1, <1>2, <1>3, <1>4, <1>5, <1>6, <1>7, <1>8, <1>9, <1>10, <1>11, <1>12, <1>13, <1>14

\* Only Create brings an upload about.
LEMMA OnlyCreate ==
  ASSUME UploadNext
  PROVE  created' = created \/ Create
BY Quiet DEF objectVars, CleanupUnlink, CleanupDone, Seal, PurgeUnlink, PurgeDone, ReceiverStart,
   PowerLoss, SyncUpload, RenameReceipt, SyncReceipts, EndAttempt, MarkAttempt

\* A new upload is not accepted.
LEMMA StepCreates ==
  ASSUME UploadInv, ~created, UploadNext
  PROVE  ~created' \/ status' = "partial"
<1>1. CASE Create
  <2>1. receipt' = "absent" /\ file'["data"] = "visible"
    BY <1>1, Files DEF Create, UploadInv, NothingYet, UploadTypeOK
  <2> QED
    BY <2>1 DEF status, Accepted, OnDisk
<1> QED
  BY <1>1, OnlyCreate

\* What the status says of an upload in a state the system can be in.
LEMMA StatusIs ==
  UploadInv => status = IF ~created THEN "none"
                        ELSE IF receipt = "durable" THEN IF sealed THEN "packaged" ELSE "accepted"
                        ELSE IF Gone THEN "gone" ELSE "partial"
BY DEF UploadInv, UploadTypeOK, AcceptInv, ReceiptIsBacked, Accepted, OnDisk, Gone, status

\* Every step of the upload is one of the contract, or none.
LEMMA ContractStep == UploadInv /\ UploadInv' /\ [UploadNext]_uploadVars => [Contract!Next]_status
<1> SUFFICES ASSUME UploadInv, UploadInv', [UploadNext]_uploadVars PROVE [Contract!Next]_status
  OBVIOUS
<1> USE DEF Contract!Next, Contract!Create, Contract!GiveUp, Contract!Accept, Contract!Package
<1>1. CASE UNCHANGED uploadVars
  BY <1>1 DEF uploadVars, objectVars, deliverVars, status, Stored, Accepted
<1>2. CASE UploadNext /\ ~created
  <2>1. status = "none"
    BY <1>2 DEF status
  <2>2. status' \in {"none", "partial"}
    BY <1>2, StepCreates DEF status
  <2> QED
    BY <2>1, <2>2
<1>3. CASE UploadNext /\ created
  <2>1. Onward
    BY <1>3, StepOnward
  <2>2. status' = IF ~created' THEN "none"
                  ELSE IF receipt' = "durable" THEN IF sealed' THEN "packaged" ELSE "accepted"
                  ELSE IF Gone' THEN "gone" ELSE "partial"
    BY DEF UploadInv, UploadTypeOK, AcceptInv, ReceiptIsBacked, Accepted, OnDisk, Gone, status
  <2> QED
    BY <1>3, <2>1, <2>2, StatusIs DEF Onward, Gone, Accepted, OnDisk
<1> QED
  BY <1>1, <1>2, <1>3

\* Every behaviour of the upload is one of its contract: what a receipt on disk
\* promises is never taken back, and an upload that was given up never returns.
THEOREM ContractKept == UploadSpec => KeepsContract
<1>1. UploadInit => Contract!Init
  BY DEF UploadInit, Contract!Init, status
<1> QED
  BY <1>1, ContractStep, UploadInvariant, PTL DEF UploadSpec, KeepsContract, Contract!Spec

=============================================================================
