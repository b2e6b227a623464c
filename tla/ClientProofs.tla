---------------------------- MODULE ClientProofs ----------------------------
(***************************************************************************)
(* Theorems about the client and the receiver together.                    *)
(***************************************************************************)
EXTENDS ClientUpload, UploadProofs

-----------------------------------------------------------------------------
(* The receiver under this client *)

\* What the client does is nothing to the receiver, or a request of its own.
LEMMA ClientStepIsUploadStep == ClientTypeOK /\ [ClientNext]_allVars => [UploadNext]_uploadVars
<1> SUFFICES ASSUME ClientTypeOK, ClientNext PROVE [UploadNext]_uploadVars
  BY DEF allVars
<1> USE DEF UploadNext, Works, GoesOn, Fails, Handle
<1>1. CASE ClientMoves
  <2>1. CASE Post
    BY <2>1 DEF Post
  <2>2. CASE Patch
    BY <2>2 DEF Patch, ClientTypeOK
  <2>3. CASE Head \/ HeadAnswer \/ HeadNotFound
    BY <2>3 DEF Head, HeadAnswer, HeadNotFound
  <2>4. CASE ~Post /\ ~Patch /\ ~Head /\ ~HeadAnswer /\ ~HeadNotFound
    BY <1>1, <2>4 DEF ClientMoves, HeadLocked, HeadLost, FetchReceipt, Resume, PatchLost,
       AnswerLost
  <2> QED
    BY <2>1, <2>2, <2>3, <2>4
<1>2. CASE Background \/ Disruption
  BY <1>2 DEF Background, Disruption
<1>3. CASE PostFails \/ HeadLost \/ PatchLost \/ AnswerLost \/ FetchLost \/ Cancel
  BY <1>3 DEF PostFails, HeadLost, PatchLost, AnswerLost, FetchLost, Cancel
<1>4. ASSUME NEW r \in Requests, Hears(r) PROVE UploadNext
  BY <1>4 DEF Hears, Retries, AlreadyComplete, Refused, ReceiptInHeader
<1>5. ASSUME NEW r \in Requests, Unheard(r) PROVE UploadNext
  BY <1>5 DEF Unheard
<1>6. CASE PowerLoss
  BY <1>6
<1> QED
  BY <1>1, <1>2, <1>3, <1>4, <1>5, <1>6 DEF ClientNext, PoweredNext

-----------------------------------------------------------------------------
(* Types *)

\* Before the first call the client's variables have their types, ...
LEMMA ClientTypeInit == ClientInit => ClientTypeOK
<1> SUFFICES ASSUME ClientInit PROVE ClientTypeOK
  OBVIOUS
<1> USE DEF ClientInit, None
<1>1. session \in BOOLEAN
  OBVIOUS
<1>2. seen \in 0..Size
  BY UploadAssumption
<1> QED
  BY <1>1, <1>2 DEF ClientTypeOK

\* ... and no step takes them out of those.
LEMMA ClientTypeStep == UploadTypeOK /\ ClientTypeOK /\ [ClientNext]_allVars => ClientTypeOK'
<1> SUFFICES ASSUME UploadTypeOK, ClientTypeOK, [ClientNext]_allVars PROVE ClientTypeOK'
  OBVIOUS
<1> USE ClientAssumption, UploadAssumption DEF ClientTypeOK, None, Goes, clientVars
<1>1. CASE Post \/ PostFails
  <2>1. session' \in BOOLEAN
    BY <1>1 DEF Post, PostFails, Returns
  <2> QED
    BY <1>1, <2>1 DEF Post, PostFails, Returns
<1>2. CASE Head \/ HeadLost
  BY <1>2 DEF Head, HeadLost
<1>9. CASE HeadAnswer
  BY <1>9 DEF HeadAnswer, UploadTypeOK
<1>3. CASE HeadNotFound \/ HeadLocked
  BY <1>3 DEF HeadNotFound, HeadLocked, Returns
<1>4. CASE Patch \/ PatchLost \/ AnswerLost
  BY <1>4 DEF Patch, PatchLost, AnswerLost
<1>5. CASE FetchReceipt \/ FetchLost
  BY <1>5 DEF FetchReceipt, FetchLost, Returns
<1>6. CASE Cancel \/ Resume
  BY <1>6 DEF Cancel, Resume, Returns
<1>7. ASSUME NEW r \in Requests, Hears(r) PROVE ClientTypeOK'
  <2>1. CASE Retries(r) \/ AlreadyComplete(r) \/ ReceiptInHeader(r)
    BY <2>1 DEF Retries, AlreadyComplete, ReceiptInHeader
  <2>2. CASE Refused(r)
    BY <2>2 DEF Refused, Returns
  <2> QED
    BY <1>7, <2>1, <2>2 DEF Hears
<1>8. CASE UNCHANGED clientVars
  BY <1>8
<1> QED
  BY <1>1, <1>2, <1>3, <1>4, <1>5, <1>6, <1>7, <1>8, <1>9
  DEF ClientNext, PoweredNext, ClientMoves, Background, Disruption, Unheard, allVars

-----------------------------------------------------------------------------
(* An upload that is not found *)

\* An upload that was created is found, unless it may have been removed.
Findable == created => Present \/ lapsed \/ sealed

\* That is so in every state of the receiver.
LEMMA AlwaysFindable == UploadInv => Findable
BY DEF UploadInv, AcceptInv, TraceInv, ReceiptIsBacked, Stored, Present, OnDisk, Findable

\* Without the client no attempt begins.
LEMMA UnheardAttempts ==
  ASSUME ClientTypeOK, [ClientNext]_allVars, UploadNext, failure = "notfound", UNCHANGED clientVars
  PROVE  uploadAttemptActive' => uploadAttemptActive
<1> USE DEF uploadAttemptActive
<1>1. CASE Background \/ Disruption
  BY <1>1 DEF Background, Disruption, Cleanup, Purge, requestVars, RequestsLost, RetentionPasses,
     HeadEnds, Scan, CleanupTimeout, CleanupLock, CleanupSpares, CleanupRemoves, CleanupUnlink, CleanupDone,
     CleanupFails, Reconcile, Seal, PurgeLock, PurgeUnlink, PurgeDone, PurgeFails, MarkSourcePurged,
     ReceiverCrash,
     ReceiverStart, DeliverCrash
<1>2. ASSUME NEW r \in Requests, Unheard(r) PROVE uploadAttemptActive
  <2>1. req[r] # "none"
    BY <1>2 DEF Unheard, Handle, Moves, Answered, Backpressure, LockTimeout, TakeLock, TurnAway, Open,
       Write, Break, SyncUpload, ChecksumMismatch, RenameReceipt, SyncReceipts, AcceptFails, Index,
       EndAttempt, MarkAttempt, MarkFails
  <2> QED
    BY <2>1
<1>3. CASE PowerLoss
  BY <1>3 DEF PowerLoss, RequestsLost
<1>4. CASE UNCHANGED uploadVars
  BY <1>4 DEF uploadVars, requestVars
<1>5. client = "failed" /\ client' = "failed" /\ failure' = "notfound"
  BY DEF ClientTypeOK, clientVars, None
<1> QED
  BY <1>1, <1>2, <1>3, <1>4, <1>5
  DEF ClientNext, PoweredNext, ClientMoves, Hears, Post, Head, HeadAnswer, HeadNotFound, HeadLocked,
     HeadLost, Patch,
      PatchLost, AnswerLost, PostFails, FetchReceipt, FetchLost, Cancel, Resume, Retries,
      AlreadyComplete, Refused, ReceiptInHeader, Returns, Goes, allVars

\* Who has a session has created the upload, and who is told that it is not
\* found is right, and nobody works on it until a power loss brings it back.
SessionInv ==
  /\ session \/ client \notin {"create", "failed"} => created
  /\ failure = "notfound" => created /\ (~Present \/ ~uploadAttemptActive)

ClientInv == UploadInv /\ ClientTypeOK /\ SessionInv /\ NotFoundIsJustified

\* Only an attempt that reaches the upload resets the retention.
LEMMA LapsedUntilOpen ==
  ASSUME UploadNext
  PROVE  (lapsed => lapsed') \/ \E r \in Requests : Open(r)
BY DEF UploadNext, Works, GoesOn, Fails, Handle, Cleanup, Purge, historyVars,
       Create, Arrive, Backpressure, LockTimeout, TakeLock, TurnAway, Write, Break, HeadTakes, HeadEnds,
       SyncUpload,
       ChecksumMismatch, RenameReceipt, SyncReceipts, AcceptFails, Index, EndAttempt,
       MarkAttempt, MarkFails, RetentionPasses, Scan, CleanupTimeout, CleanupLock,
       CleanupSpares, CleanupRemoves, CleanupUnlink, CleanupDone, CleanupFails, Reconcile, Seal,
       PurgeLock, PurgeUnlink,
       PurgeDone, PurgeFails, MarkSourcePurged, ReceiverCrash, ReceiverStart, DeliverCrash,
       PowerLoss

\* The files of an upload come back with a power loss only.
LEMMA PresentStep ==
  ASSUME UploadInv, created, UploadNext
  PROVE  Present' => Present \/ ~uploadAttemptActive'
<1> USE Files DEF Present, OnDisk, UploadInv, UploadTypeOK, Entry, objectVars, deliverVars
<1>1. CASE UNCHANGED <<created, file, receipt, sealed>>
  BY <1>1
<1>2. CASE Create
  BY <1>2 DEF Create
<1>3. CASE CleanupUnlink
  BY <1>3 DEF CleanupUnlink, UnlinkFirst, Removed, TraceInv, ResumableIsSpared, historyVars
<1>4. CASE CleanupDone
  BY <1>4, SyncFacts DEF CleanupDone, Synced
<1>5. CASE Seal
  BY <1>5 DEF Seal
<1>6. CASE PurgeUnlink
  BY <1>6 DEF PurgeUnlink, UnlinkFirst, Removed, AcceptInv
<1>7. CASE PurgeDone
  BY <1>7, SyncFacts DEF PurgeDone, Synced
<1>8. CASE ReceiverStart
  BY <1>8, SyncFacts DEF ReceiverStart, Synced
<1>9. CASE PowerLoss
  BY <1>9 DEF PowerLoss, RequestsLost, uploadAttemptActive
<1>10. ASSUME NEW r \in Requests, SyncUpload(r) PROVE Present <=> Present'
  BY <1>10, SyncFacts DEF SyncUpload, Synced
<1>11. ASSUME NEW r \in Requests, RenameReceipt(r) \/ SyncReceipts(r) PROVE Present <=> Present'
  BY <1>11 DEF RenameReceipt, SyncReceipts
<1>12. ASSUME NEW r \in Requests, EndAttempt(r) PROVE Present <=> Present'
  BY <1>12 DEF EndAttempt, Removed
<1>13. ASSUME NEW r \in Requests, MarkAttempt(r) PROVE Present <=> Present'
  <2>1. file'["data"] = Synced(file["data"]) /\ file'["info"] = Synced(file["info"])
    BY <1>13, MarkFacts DEF MarkAttempt, UploadFiles
  <2> QED
    BY <1>13, <2>1 DEF Synced
<1> QED
  BY Quiet, <1>1, <1>2, <1>3, <1>4, <1>5, <1>6, <1>7, <1>8, <1>9, <1>10, <1>11, <1>12, <1>13

\* Who has a session has created the upload, and "not found" is what it is.
LEMMA SessionStep ==
  UploadInv /\ ClientTypeOK /\ SessionInv /\ NotFoundIsJustified /\ [ClientNext]_allVars
    => SessionInv' /\ NotFoundIsJustified'
<1> SUFFICES ASSUME UploadInv, ClientTypeOK, SessionInv, NotFoundIsJustified,
                    [ClientNext]_allVars
             PROVE  SessionInv' /\ NotFoundIsJustified'
  OBVIOUS
<1>1. [UploadNext]_uploadVars
  BY ClientStepIsUploadStep
<1>2. created => created'
  BY <1>1, StepOnward DEF Onward, uploadVars, objectVars
<1>3. session' \/ client' \notin {"create", "failed"} => created'
  <2>1. CASE Post
    BY <2>1 DEF Post, Create
  <2>2. CASE ~Post
    BY <1>2, <2>2
    DEF SessionInv, ClientNext, PoweredNext, ClientMoves, Background, Disruption, Unheard, Hears,
        Head, HeadAnswer, HeadNotFound, HeadLocked, HeadLost, Patch, PatchLost, AnswerLost, PostFails,
        FetchReceipt,
        FetchLost, Cancel, Resume, Retries, AlreadyComplete, Refused, ReceiptInHeader, Returns, Goes,
        allVars,
        clientVars
  <2> QED
    BY <2>1, <2>2
<1>4. CASE failure' # "notfound"
  BY <1>3, <1>4 DEF SessionInv, NotFoundIsJustified
<1>5. CASE HeadNotFound
  <2>1. UNCHANGED <<objectVars, requestVars, deliverVars, historyVars>> /\ ~Present /\ created
    BY <1>5 DEF HeadNotFound, HeadEnds, Returns, Goes, SessionInv
  <2> QED
    BY <1>3, <2>1, AlwaysFindable DEF SessionInv, NotFoundIsJustified, Findable, Present,
       uploadAttemptActive,
       objectVars, requestVars, deliverVars, historyVars
<1>6. ASSUME NEW r \in Requests, TurnAway(r), ~Present PROVE SessionInv' /\ NotFoundIsJustified'
  <2>1. created
    BY <1>6 DEF TurnAway, Answered, Moves, UploadInv, NothingYet, uploadAttemptActive
  <2>2. UNCHANGED <<objectVars, deliverVars, historyVars>>
    BY <1>6 DEF TurnAway
  <2> QED
    BY <1>3, <1>6, <2>1, <2>2, AlwaysFindable DEF SessionInv, NotFoundIsJustified, Findable, Present,
       objectVars,
       deliverVars, historyVars
<1>7. CASE failure = "notfound" /\ UNCHANGED clientVars
  <2>1. created /\ (~Present \/ ~uploadAttemptActive) /\ (lapsed \/ sealed)
    BY <1>7 DEF SessionInv, NotFoundIsJustified
  <2>2. CASE UNCHANGED uploadVars
    BY <1>3, <1>7, <2>1, <2>2 DEF SessionInv, NotFoundIsJustified, Present, uploadAttemptActive,
       uploadVars, objectVars, requestVars, deliverVars, historyVars
  <2>3. CASE UploadNext
    <3>1. uploadAttemptActive' => uploadAttemptActive
      BY <1>7, <2>3, UnheardAttempts
    <3>2. ~Present' \/ ~uploadAttemptActive'
      BY <2>1, <2>3, <3>1, PresentStep
    <3>3. sealed => sealed'
      BY <2>1, <2>3, StepOnward DEF Onward
    <3>4. lapsed => lapsed'
      BY <2>1, <2>3, LapsedUntilOpen DEF Open, Moves, uploadAttemptActive
    <3> QED
      BY <1>2, <1>3, <2>1, <3>2, <3>3, <3>4 DEF SessionInv, NotFoundIsJustified
  <2> QED
    BY <1>1, <2>2, <2>3
<1> QED
  BY <1>4, <1>5, <1>6, <1>7
  DEF ClientTypeOK, ClientNext, PoweredNext, ClientMoves, Background, Disruption, Unheard, Hears,
      Post, Head, HeadAnswer, HeadLocked, HeadLost, Patch, PatchLost, AnswerLost, PostFails,
      FetchReceipt, FetchLost, Cancel, Resume, Retries, AlreadyComplete, Refused, ReceiptInHeader,
      Returns, Goes, allVars,
      clientVars, None

-----------------------------------------------------------------------------
(* Theorems *)

\* The invariant holds before the upload is created.
LEMMA ClientInvInit == ClientInit => ClientInv
<1> SUFFICES ASSUME ClientInit PROVE ClientInv
  OBVIOUS
<1>1. UploadInv
  BY InvInit DEF ClientInit
<1>2. ClientTypeOK
  BY ClientTypeInit
<1>3. SessionInv /\ NotFoundIsJustified
  BY DEF ClientInit, UploadInit, SessionInv, NotFoundIsJustified, None
<1> QED
  BY <1>1, <1>2, <1>3 DEF ClientInv

\* No step of the client, of the receiver or of deliver breaks it.
LEMMA ClientInvStep == ClientInv /\ [ClientNext]_allVars => ClientInv'
<1> SUFFICES ASSUME ClientInv, [ClientNext]_allVars PROVE ClientInv'
  OBVIOUS
<1>1. [UploadNext]_uploadVars
  BY ClientStepIsUploadStep DEF ClientInv
<1>2. UploadInv'
  BY <1>1, InvStep DEF ClientInv
<1>3. ClientTypeOK'
  BY ClientTypeStep DEF ClientInv, UploadInv
<1>5. SessionInv' /\ NotFoundIsJustified'
  BY SessionStep DEF ClientInv
<1> QED
  BY <1>2, <1>3, <1>5 DEF ClientInv

\* The invariant holds in every state.
THEOREM ClientInvariant == ClientSpec => []ClientInv
BY ClientInvInit, ClientInvStep, PTL DEF ClientSpec

\* Every variable of the client keeps its type; it waits for a request exactly
\* when one is open, and has a reason exactly when it returned an error.
THEOREM ClientTypeCorrect == ClientSpec => []ClientTypeOK
<1>1. ClientInv => ClientTypeOK
  BY DEF ClientInv
<1> QED
  BY <1>1, ClientInvariant, PTL

\* The Go client is one of the clients Upload allows, so whatever is proved of
\* Upload holds for the two together: lost messages, retries and resumes are
\* nothing new to the receiver.
THEOREM ClientUsesUpload == ClientSpec => UploadSpec
<1>1. ClientInit => UploadInit
  BY DEF ClientInit
<1>2. ClientInv /\ [ClientNext]_allVars => [UploadNext]_uploadVars
  BY ClientStepIsUploadStep DEF ClientInv
<1> QED
  BY <1>1, <1>2, ClientInvariant, PTL DEF ClientSpec, UploadSpec

\* A worker is told that its upload is not found only when the retention has
\* passed since its last attempt, the end of that left no trace, or a package
\* holds the artifact.  Power losses included.
THEOREM NotFoundCorrect == ClientSpec => []NotFoundIsJustified
<1>1. ClientInv => NotFoundIsJustified
  BY DEF ClientInv
<1> QED
  BY <1>1, ClientInvariant, PTL

\* Under this client the contract of an upload is kept.
COROLLARY ClientSeesContract == ClientSpec => KeepsContract /\ []AnswerIsKept
BY ClientUsesUpload, ContractKept, AnswersKept, PTL

-----------------------------------------------------------------------------
(* Why an interrupted upload may not continue *)

\* Requests between the last byte and the sync of receipts/.
Accepting == {"complete", "synced", "renamed"}

\* What takes part in an acceptance.
acceptVars == <<receipt, received, synced, intact>>

\* The steps of an acceptance; any other step but a crash leaves it alone.
LEMMA AcceptanceAlone ==
  ASSUME UploadTypeOK, UploadNext
  PROVE  \/ UNCHANGED acceptVars /\ \A q \in Requests : req[q] \in Accepting => req'[q] = req[q]
         \/ ReceiverCrash \/ PowerLoss
         \/ \E r \in Requests : \/ Write(r) \/ SyncUpload(r) \/ ChecksumMismatch(r) \/ AcceptFails(r)
                                \/ RenameReceipt(r) \/ SyncReceipts(r)
<1> USE DEF acceptVars, Accepting, objectVars, requestVars, UploadTypeOK
<1>1. CASE \E r \in Requests : \/ Backpressure(r) \/ MarkFails(r) \/ LockTimeout(r) \/ TakeLock(r)
                               \/ TurnAway(r) \/ Open(r)
                               \/ Break(r) \/ Index(r) \/ EndAttempt(r) \/ MarkAttempt(r)
                               \/ \E from \in 0..Size : Arrive(r, from)
  BY <1>1 DEF Backpressure, MarkFails, LockTimeout, TakeLock, TurnAway, Open, Break, Index, EndAttempt,
     MarkAttempt, Arrive, Moves, Answered
<1>2. CASE \/ Create \/ HeadTakes \/ HeadEnds \/ RetentionPasses \/ Cleanup \/ Reconcile \/ Seal
           \/ Purge \/ ReceiverStart
             \/ CleanupFails \/ PurgeFails \/ DeliverCrash
  BY <1>2 DEF Create, HeadTakes, HeadEnds, RetentionPasses, Cleanup, Purge, Scan, CleanupTimeout,
     CleanupLock,
     CleanupSpares, CleanupRemoves, CleanupUnlink, CleanupDone, CleanupFails, Reconcile, Seal,
     PurgeLock, PurgeUnlink, PurgeDone, PurgeFails,
     MarkSourcePurged, ReceiverStart, DeliverCrash
<1> QED
  BY <1>1, <1>2 DEF UploadNext, Works, GoesOn, Fails, Handle

\* A step that does not cut an acceptance off leaves every complete upload with a
\* receipt, a request that accepts it, or the wrong content.
LEMMA AcceptanceStep ==
  ASSUME UploadInv, AcceptanceInv, UploadNext, ~AcceptanceCutOff
  PROVE  AcceptanceInv' /\ (receipt = "durable" => receipt' = "durable") /\ (Rejected => Rejected')
<1> USE DEF UploadInv, UploadTypeOK, AcceptanceInv, Rejected, Accepted, OnDisk
<1>1. CASE UNCHANGED acceptVars /\ \A q \in Requests : req[q] \in Accepting => req'[q] = req[q]
  BY <1>1 DEF acceptVars, Accepting
<1>2. CASE ReceiverCrash
  BY <1>2 DEF AcceptanceCutOff, ReceiverCrash, objectVars
<1>3. CASE PowerLoss
  <2>1. receipt # "visible" /\ UNCHANGED receipt
    BY <1>3 DEF AcceptanceCutOff, PowerLoss
  <2>2. received = Size => Accepted \/ Rejected
    BY <1>3 DEF AcceptanceCutOff
  <2>3. CASE received = Size
    <3>1. synced
      BY <2>2, <2>3 DEF AcceptInv
    <3> QED
      BY <1>3, <2>1, <2>2, <2>3, <3>1 DEF PowerLoss
  <2>4. CASE received # Size
    <3>1. received' = received \/ received' \in 0..received
      BY <1>3 DEF PowerLoss
    <3>2. received' # Size
      BY <2>4, <3>1, UploadAssumption
    <3> QED
      BY <2>1, <2>4, <3>2
  <2> QED
    BY <2>3, <2>4
<1>4. ASSUME NEW r \in Requests, Write(r)
      PROVE  AcceptanceInv' /\ (receipt = "durable" => receipt' = "durable") /\ (Rejected => Rejected')
  <2>1. received # Size
    BY <1>4, UploadAssumption DEF Write, Moves, RequestInv
  <2>2. received' = Size => req'[r] = "complete"
    BY <1>4 DEF Write, Moves
  <2>3. \A q \in Requests : req[q] = "renamed" => req'[q] = "renamed"
    BY <1>4 DEF Write, Moves
  <2> QED
    BY <1>4, <2>1, <2>2, <2>3 DEF Write
<1>5. ASSUME NEW r \in Requests, SyncUpload(r)
      PROVE  AcceptanceInv' /\ (receipt = "durable" => receipt' = "durable") /\ (Rejected => Rejected')
  BY <1>5 DEF SyncUpload, Moves, RequestInv
<1>6. ASSUME NEW r \in Requests, ChecksumMismatch(r)
      PROVE  AcceptanceInv' /\ (receipt = "durable" => receipt' = "durable") /\ (Rejected => Rejected')
  <2>1. Rejected /\ Rejected' /\ UNCHANGED receipt
    BY <1>6 DEF ChecksumMismatch, Answered, Moves, RequestInv, objectVars
  <2>2. \A q \in Requests : req[q] = "renamed" => req'[q] = "renamed"
    BY <1>6 DEF ChecksumMismatch, Answered, Moves
  <2> QED
    BY <2>1, <2>2
<1>7. ASSUME NEW r \in Requests, AcceptFails(r)
      PROVE  AcceptanceInv' /\ (receipt = "durable" => receipt' = "durable") /\ (Rejected => Rejected')
  <2>1. req[r] \in {"complete", "synced", "renamed"}
    BY <1>7 DEF AcceptFails, Answered, Moves
  <2> QED
    BY <1>6, <1>7, <2>1 DEF AcceptanceCutOff
<1>8. ASSUME NEW r \in Requests, RenameReceipt(r)
      PROVE  AcceptanceInv' /\ (receipt = "durable" => receipt' = "durable") /\ (Rejected => Rejected')
  <2>1. receipt # "durable" /\ receipt' = "visible" /\ req'[r] = "renamed"
    BY <1>8 DEF RenameReceipt, Moves, RequestInv, Published, Entry
  <2> QED
    BY <1>8, <2>1 DEF RenameReceipt
<1>9. ASSUME NEW r \in Requests, SyncReceipts(r)
      PROVE  AcceptanceInv' /\ (receipt = "durable" => receipt' = "durable") /\ (Rejected => Rejected')
  <2>1. receipt' = "durable"
    BY <1>9 DEF SyncReceipts, Moves, RequestInv, Synced
  <2> QED
    BY <1>9, <2>1 DEF SyncReceipts
<1> QED
  BY AcceptanceAlone, <1>1, <1>2, <1>3, <1>4, <1>5, <1>6, <1>7, <1>8, <1>9

\* Under the lock of a complete upload nobody is at its acceptance: a client that
\* finds it complete asks for a receipt that was synced, or that will never be.
LEMMA CompleteUnderLock ==
  ASSUME UploadInv, AcceptanceInv, received = Size,
         HeadEnds \/ \E r \in Requests : TurnAway(r)
  PROVE  receipt = "durable" \/ Rejected
<1>1. ~Lost
  BY DEF Lost, AcceptanceInv, Rejected, UploadInv, AcceptInv, RequestInv
<1>2. \A r \in Requests : req[r] \notin Holding
  BY <1>1, UploadAssumption DEF HeadEnds, TurnAway, Answered, Moves, Holding, UploadInv, LockInv
<1> QED
  BY <1>2 DEF Holding, AcceptanceInv, Accepted, OnDisk

\* What the client is told, over one step.
LEMMA AnswerStep ==
  ASSUME ClientInv, AcceptanceInv, AnswerInv, [ClientNext /\ ~AcceptanceCutOff]_allVars
  PROVE  AcceptanceInv' /\ AnswerInv'
<1>1. CASE UNCHANGED allVars
  BY <1>1 DEF AcceptanceInv, AnswerInv, Rejected, Accepted, allVars, uploadVars, objectVars, requestVars,
     clientVars
<1>2. CASE ClientNext /\ ~AcceptanceCutOff
  <2>1. /\ AcceptanceInv'
        /\ receipt = "durable" => receipt' = "durable"
        /\ Rejected => Rejected'
    <3>1. [UploadNext]_uploadVars
      BY <1>2, ClientStepIsUploadStep DEF ClientInv
    <3>2. CASE UNCHANGED uploadVars
      BY <3>2 DEF AcceptanceInv, Rejected, Accepted, uploadVars, objectVars, requestVars
    <3> QED
      BY <1>2, <3>1, <3>2, AcceptanceStep DEF ClientInv
  <2>2. CASE UNCHANGED <<client, failure>>
    BY <2>1, <2>2 DEF AnswerInv
  <2>3. CASE HeadAnswer
    BY <2>1, <2>3, CompleteUnderLock DEF HeadAnswer, Goes, AnswerInv, ClientInv, ClientTypeOK, None
  <2>4. CASE FetchReceipt
    <3>1. UNCHANGED uploadVars /\ client' # "receipt"
      BY <2>4 DEF FetchReceipt, Returns, Goes
    <3>2. client = "receipt" /\ failure # "unaccepted" /\ (receipt = "durable" \/ Rejected)
      BY <2>4 DEF FetchReceipt, Returns, Goes, AnswerInv, ClientInv, ClientTypeOK, None
    <3>3. Accepted => ~Rejected
      BY DEF Rejected, ClientInv, UploadInv, AcceptInv
    <3>4. client' = "done" => Accepted
      BY <2>4 DEF FetchReceipt, Returns, Goes
    <3>5. failure' = "unaccepted" => ~Accepted
      BY <2>4, <3>2 DEF FetchReceipt, Returns, Goes
    <3> QED
      BY <2>1, <3>1, <3>2, <3>3, <3>4, <3>5 DEF AnswerInv, Accepted, OnDisk
  <2>5. ASSUME NEW r \in Requests, AlreadyComplete(r) PROVE AnswerInv'
    <3>1. TurnAway(r) /\ received = Size
      BY <2>5 DEF AlreadyComplete, TurnAway
    <3>2. failure' # "unaccepted" /\ client' = "receipt"
      BY <2>5 DEF AlreadyComplete, Goes, ClientInv, ClientTypeOK, None
    <3> QED
      BY <2>1, <3>1, <3>2, CompleteUnderLock DEF AnswerInv, ClientInv
  <2>6. ASSUME NEW r \in Requests, ReceiptInHeader(r) PROVE AnswerInv'
    <3>1. receipt = "durable"
      BY <2>6 DEF ReceiptInHeader, Index, Answered, Moves, ClientInv, UploadInv, RequestInv
    <3>2. failure' # "unaccepted" /\ client' = "done"
      BY <2>6 DEF ReceiptInHeader, Goes, ClientInv, ClientTypeOK, None
    <3> QED
      BY <2>1, <3>1, <3>2 DEF AnswerInv
  <2>7. CASE client' \notin {"receipt", "done"} /\ failure' # "unaccepted"
    BY <2>1, <2>7 DEF AnswerInv
  <2> QED
    BY <1>2, <2>1, <2>2, <2>3, <2>4, <2>5, <2>6, <2>7 DEF ClientInv, ClientTypeOK, ClientNext, PoweredNext,
      ClientMoves, Background, Disruption, Unheard, Hears, Post, Head, HeadNotFound, HeadLocked,
      HeadLost, Patch,
      PatchLost, AnswerLost, PostFails, FetchLost, Cancel, Resume, Retries, Refused, ReceiptInHeader,
      Returns, Goes, clientVars, None
<1> QED
  BY <1>1, <1>2

\* Without such a cut the client is told the truth.  What is complete and not
\* accepted has the wrong content, and a receipt that is answered or fetched was
\* synced before, whatever else fails or dies, at any time, and however often the
\* client is interrupted: the runs that show an interrupted upload stuck and a
\* fetched receipt lost show the only cause there is.
THEOREM CutsAreTheCause == UncutSpec => [](UnacceptedIsWrong /\ InterruptedContinues /\ ReceivedIsKept)
<1>1. UncutSpec => ClientSpec
  BY PTL DEF UncutSpec, ClientSpec
<1>2. ClientInit => AcceptanceInv /\ AnswerInv
  BY UploadAssumption DEF ClientInit, UploadInit, AcceptanceInv, AnswerInv, None
<1>3. ClientInv /\ AcceptanceInv /\ AnswerInv /\ [ClientNext /\ ~AcceptanceCutOff]_allVars
        => AcceptanceInv' /\ AnswerInv'
  BY AnswerStep
<1>4. UncutSpec => [](AcceptanceInv /\ AnswerInv)
  BY <1>1, <1>2, <1>3, ClientInvariant, PTL DEF UncutSpec
<1>5. AnswerInv => UnacceptedIsWrong /\ InterruptedContinues /\ ReceivedIsKept
  BY DEF AnswerInv, Rejected, UnacceptedIsWrong, InterruptedContinues, ReceivedIsKept, Accepted, OnDisk
<1> QED
  BY <1>4, <1>5, PTL
=============================================================================
