---------------------------- MODULE ClientUpload ----------------------------
(***************************************************************************)
(* The Go client at work on the upload of module Upload: it creates the    *)
(* upload, asks for the offset, sends what is missing, and takes the       *)
(* receipt from the answer or fetches it.  Requests and answers get lost   *)
(* at any time; the handler of a request whose answer is lost goes on, so  *)
(* an earlier request may run next to the current one.  A worker that kept *)
(* the session resumes an upload that failed.                              *)
(*                                                                         *)
(* All requests for the upload are the client's.  Waiting for Retry-After  *)
(* or RetryDelay is the step that follows; a retry that changes nothing is *)
(* a stuttering step.                                                      *)
(***************************************************************************)
EXTENDS Upload

VARIABLES
  client,  \* what the client does next
  session, \* it knows the upload URL
  seen,    \* the offset it was told
  current, \* the request it waits for
  failure  \* why it returned an error

clientVars == <<client, session, seen, current, failure>>
allVars    == <<uploadVars, clientVars>>

None == "none"

ASSUME ClientAssumption == None \notin Requests

ClientTypeOK ==
  /\ client \in {"create", "head", "offset", "patch", "await", "receipt", "done", "failed"}
  /\ session \in BOOLEAN
  /\ seen \in 0..Size
  /\ current \in Requests \cup {None}
  /\ failure \in {None, "notfound", "unaccepted", "other"}
  /\ (current # None) <=> (client = "await")
  /\ (failure # None) <=> (client = "failed")

ClientInit ==
  /\ UploadInit
  /\ client = "create" /\ session = FALSE /\ seen = 0 /\ current = None /\ failure = None

-----------------------------------------------------------------------------

Goes(from, to) == client = from /\ client' = to

\* Mutant: the request stays open.
ReturnsWaiting(from, why) ==
  /\ Goes(from, "failed")
  /\ failure' = why
  /\ seen' = 0
  /\ UNCHANGED <<session, current>>

\* The client returns an error.
Returns(from, why) ==
  /\ Goes(from, "failed")
  /\ failure' = why
  /\ seen' = 0 /\ current' = None
  /\ UNCHANGED session

\* CreateWithProgress: a 201 starts the session.
Post ==
  /\ Create
  /\ Goes("create", "head")
  /\ session' = TRUE
  /\ UNCHANGED <<seen, current, failure>>

\* Any other outcome but 429 and 503 is returned, lost answers included: the
\* upload may exist all the same, under an ID nobody knows.
PostFails ==
  /\ Returns("create", "other")
  /\ Create \/ UNCHANGED uploadVars

\* The HEAD request gets the lock, ...
Head ==
  /\ HeadTakes
  /\ Goes("head", "offset")
  /\ UNCHANGED <<session, seen, current, failure>>

\* ... and is answered under it.
HeadAnswer ==
  /\ HeadEnds /\ Present
  /\ Goes("offset", IF received = Size THEN "receipt" ELSE "patch")
  /\ seen' = received
  /\ UNCHANGED <<session, current, failure>>

HeadNotFound ==
  /\ HeadEnds /\ ~Present
  /\ Returns("offset", "notfound")

\* tusd gives up on the lock.
HeadLocked ==
  /\ up /\ lock # "free"
  /\ Returns("head", "other")
  /\ UNCHANGED uploadVars

\* No answer: the client asks again.
HeadLost ==
  /\ Goes("offset", "head")
  /\ UNCHANGED <<uploadVars, session, seen, current, failure>>

\* The PATCH with all the bytes from the offset on arrives, or gets lost.
Patch == \E r \in Requests :
  /\ Arrive(r, seen)
  /\ Goes("patch", "await")
  /\ current' = r /\ seen' = 0
  /\ UNCHANGED <<session, failure>>

PatchLost ==
  /\ Goes("patch", "head")
  /\ seen' = 0
  /\ UNCHANGED <<uploadVars, session, current, failure>>

\* No answer, while the receiver may still be at work on the request.
AnswerLost ==
  /\ Goes("await", "head")
  /\ current' = None
  /\ UNCHANGED <<uploadVars, session, seen, failure>>

\* Mutant: the retry sends everything again, without asking for the offset.
RetriesFromStart(r) ==
  /\ \/ Backpressure(r) \/ Break(r)
     \/ TurnAway(r) /\ Present /\ offset[r] # received
  /\ Goes("await", "patch")
  /\ current' = None
  /\ UNCHANGED <<session, seen, failure>>

\* 409, 429 and 503 are retried, and so is a broken connection (tusd's answer to
\* a request it interrupts for another one is not).
Retries(r) ==
  /\ \/ Backpressure(r) \/ Break(r)
     \/ TurnAway(r) /\ Present /\ offset[r] # received
  /\ Goes("await", "head")
  /\ current' = None
  /\ UNCHANGED <<session, seen, failure>>

\* 204 without a receipt: it is fetched.
AlreadyComplete(r) ==
  /\ TurnAway(r) /\ Present /\ offset[r] = received
  /\ Goes("await", "receipt")
  /\ current' = None
  /\ UNCHANGED <<session, seen, failure>>

\* Every other status is returned.
Refused(r) ==
  \/ TurnAway(r) /\ ~Present /\ Returns("await", "notfound")
  \/ (LockTimeout(r) \/ Break(r) \/ ChecksumMismatch(r) \/ AcceptFails(r))
       /\ Returns("await", "other")

ReceiptInHeader(r) ==
  /\ Index(r)
  /\ Goes("await", "done")
  /\ current' = None
  /\ UNCHANGED <<session, seen, failure>>

\* GET /api/v1/receipts/{id}, 200, 409 or 404; a lost answer is returned, too.
FetchReceipt ==
  /\ up
  /\ IF Accepted
     THEN Goes("receipt", "done") /\ seen' = 0 /\ UNCHANGED <<session, current, failure>>
     ELSE Returns("receipt", "unaccepted")
  /\ UNCHANGED uploadVars

FetchLost == Returns("receipt", "other") /\ UNCHANGED uploadVars

\* The context of the call ends.
Cancel ==
  /\ client \in {"head", "offset", "patch", "await"}
  /\ Returns(client, "other")
  /\ UNCHANGED uploadVars

\* Resume with a session that was kept.
Resume ==
  /\ session
  /\ Goes("failed", "head")
  /\ failure' = None
  /\ UNCHANGED <<uploadVars, session, seen, current>>

-----------------------------------------------------------------------------

\* The answer to the request the client waits for.
Hears(r) == current = r /\ (Retries(r) \/ AlreadyComplete(r) \/ Refused(r) \/ ReceiptInHeader(r))

\* A handler's step that answers nobody, or no one who waits.
Unheard(r) ==
  /\ Handle(r) \/ Backpressure(r) \/ AcceptFails(r) \/ MarkFails(r)
  /\ current = r => req'[r] # "ended"
  /\ UNCHANGED clientVars

\* A HEAD nobody waits for any more ends here, too.
Background ==
  /\ \/ HeadEnds /\ client # "offset"
     \/ RetentionPasses \/ Cleanup \/ Reconcile \/ Seal \/ Purge \/ ReceiverStart
  /\ UNCHANGED clientVars

Disruption ==
  /\ CleanupFails \/ PurgeFails \/ ReceiverCrash \/ DeliverCrash
  /\ UNCHANGED clientVars

\* What the client does when nothing gets lost but what a dead receiver loses.
ClientMoves ==
  \/ Post \/ Head \/ HeadAnswer \/ HeadNotFound \/ HeadLocked \/ Patch \/ FetchReceipt \/ Resume
  \/ lock # "head" /\ HeadLost
  \/ ~up /\ PatchLost
  \/ current # None /\ req[current] = "none" /\ AnswerLost

\* As long as the receiver's machine keeps its power.
PoweredNext ==
  \/ ClientMoves \/ Background \/ Disruption
  \/ PostFails \/ HeadLost \/ PatchLost \/ AnswerLost \/ FetchLost \/ Cancel
  \/ \E r \in Requests : Hears(r) \/ Unheard(r)

ClientNext == PoweredNext \/ (PowerLoss /\ UNCHANGED clientVars)

ClientSpec == ClientInit /\ [][ClientNext]_allVars

\* Nothing fails, nothing gets lost and no call is given up.
Calm ==
  /\ Prompt
  /\ \/ ClientMoves
     \/ Works /\ (UNCHANGED clientVars \/ (current # None /\ ~Break(current)))

\* The worker goes on, with the session it kept, until it has a receipt.
ClientFairness == UploadFairness /\ WF_allVars(ClientMoves) /\ <>[][Calm]_allVars

-----------------------------------------------------------------------------

\* An upload the worker resumes gets all its bytes, however often answers are
\* lost and receivers die with the lock in hand (client.go 274-353: the offset is
\* asked for again after every failure).
WorkerFinishes == session ~> (client = "done" \/ ~Present \/ received = Size)

\* README.md 40-41, seen from the worker: the upload is "not found" only when its
\* retention has passed or a package holds the artifact.
NotFoundIsJustified == failure = "notfound" => lapsed \/ sealed

\* design.md 200: "an interrupted upload can still be continued through tus".  A
\* worker that resumes one whose content is right is told that it is unaccepted
\* only while a request is at work on it.
InterruptedContinues == failure = "unaccepted" /\ intact => uploadAttemptActive

\* README.md 8-9: a receipt means that canner has "durably stored the receipt".  A
\* worker that has one, from the answer or fetched, still finds it at the receiver.
ReceivedIsKept == client = "done" => Accepted

\* What it takes to break either: the receiver or the machine dies, or a step of
\* accept fails, between the last byte and the sync of receipts/.  A wrong
\* checksum ends a request there, too, as it should.
AcceptanceCutOff ==
  \E r \in Requests :
    /\ req[r] \in {"complete", "synced", "renamed"}
    /\ ReceiverCrash \/ PowerLoss \/ (AcceptFails(r) /\ ~ChecksumMismatch(r))

\* Everything else may still fail or die, at any other time.
UncutSpec == ClientInit /\ [][ClientNext /\ ~AcceptanceCutOff]_allVars

\* Only an upload with the wrong content is complete and never accepted.
UnacceptedIsWrong == failure = "unaccepted" => received = Size /\ ~intact

\* Its inductive form: a complete upload has a receipt, a request that is at its
\* acceptance, or the wrong content on disk, ...
Rejected == received = Size /\ synced /\ ~intact

AcceptanceInv ==
  /\ receipt = "visible" => \E r \in Requests : req[r] = "renamed"
  /\ received = Size =>
       Accepted \/ Rejected \/ \E r \in Requests : req[r] \in {"complete", "synced"}

\* ... the client asks for a receipt, or has asked, only then, and what it gets
\* was synced before.
AnswerInv ==
  /\ client = "receipt" => receipt = "durable" \/ Rejected
  /\ client = "done" => receipt = "durable"
  /\ failure = "unaccepted" => Rejected
=============================================================================
