# canner: a formal model of receiving, packaging and delivering

canner is a Go program with two long-running processes that share one data
directory. `serve` (the receiver) takes artifacts over tus and answers with a
receipt. `deliver` packs accepted artifacts into packages, uploads the packages
to the Internet Archive and removes what is no longer needed. A Go client uploads
with retries. These modules model the life of an artifact from the first request
of its upload to the removal of its delivered package, check it with TLC on small
instances, and prove its safety properties with TLAPS.

Paths below are relative to the repository; `design.md` is its design document.

## 1. The system

### Components, state, operations

| component | source | state | operations |
|---|---|---|---|
| receiver | `server.go` | `receipts/*.json`, `uploads/*` | create, accept (sync, hash, receipt), index, get receipt |
| partial upload cleanup | `upload_cleanup.go` | `.attempt` markers, active attempts in memory | track attempts, scan, remove stale uploads, release orphaned locks |
| delivery store | `delivery.go`, `package.go` | five SQLite tables | one method per statement or transaction |
| packaging goroutine | `delivery.go` `runPackagingScheduler`, `package.go` | locals; files in `packages/`, `package-manifests/` | reserve, build, seal, retry, isolate, purge upload, purge package |
| delivery scheduler | `delivery.go` `runDelivery`, `runScheduler` | `active`, `nextReconcile`, channel `events` | recover, discover, claim, record progress and outcome, stop |
| upload goroutines | `package.go` `startPackageDelivery`, `ia_sink.go` | the attempt | forward progress, upload, send the outcome |
| client | `client/client.go` | position in the upload | create, resume, fetch receipt |
| configuration, dashboard, CLI | `config.go`, `dashboard.go`, `main.go` | none | validate, render, dispatch |

### Interactions

- Receiver and deliver share the database and the files, and no lock but tusd's
  lock file of an upload. `accept` publishes a receipt, then inserts the row; the
  insert may fail, or the process may die before it. `discoverAccepted` in
  deliver repairs that, at the start and every hour.
- PATCH and HEAD requests, the cleanup of stale uploads and `purgeUpload` (deliver)
  exclude each other by the upload's lock file, which names a PID and outlives its owner.
  Whether an attempt is active is known in the receiver's memory only; when the
  last one ended is told by file times and the `.attempt` marker.
- The client holds a session (URL) and talks to the receiver by requests and
  answers that may be lost, while the handler of a lost request goes on.
- Within deliver there is one scheduler goroutine, one packaging goroutine and
  up to `delivery_concurrency` upload goroutines. They meet in the database
  (one connection, so statements and transactions are serial), in the files of a
  package, in the channel `events` (capacity twice the concurrency) and in
  `packagingDone`.
- A process lock keeps a second deliver out; a container policy restarts both
  processes.

### What is hard

Interleaving of goroutines and of the two processes between any two statements;
the order of renames, directory syncs and rows with respect to a power loss;
errors in the middle of a step; retries after partial effects; a shutdown that
throws outcomes away; a bounded channel; liveness of retry and reconciliation.
`PROJECT.json` lists each hazard at its line, with the properties that cover it
or the reason why none does yet.

### What makes each component correct

- *Packaging*: no artifact with a receipt is ever in nobody's hands; a package
  to be delivered is complete on disk; what is removed stays removed; rows and
  memberships agree; a package is of one project and within its target size;
  malformed artifacts never take others with them; everything that can be
  packaged is, and is cleaned up in the end.
- *Delivery*: one attempt per package; slots are conserved; no delivery is
  stranded; "delivered" means that the archive has the package, and a package in
  the archive is final; every package is delivered in the end; shutdown ends.
- *Receiver*: a receipt anybody can see is backed by the whole upload with the
  declared checksum, on disk, or by a sealed package; one that was answered is
  never lost, power losses included; a row in `artifacts` has its artifact; an
  upload goes through its states once and in order (`UploadContract`).
- *Cleanup and locks*: nothing is removed under an attempt, nothing is removed
  within its retention; what is stale is removed, what is packaged is freed, after
  any crash of a lock's owner.
- *Client*: "not found" is never caused by a lost message; a worker that keeps its
  session gets all bytes across in spite of losses and crashes.

## 2. Modules

| module | role |
|---|---|
| `Disk` | directory entries, renames, syncs and power losses |
| `Store` | the shared durable state: rows and directory entries; one operator per SQL statement |
| `Packaging` | the packaging goroutine step by step; receiver, deliveries and time are its environment |
| `ArtifactCustody` | abstract specification: who holds an artifact |
| `Delivery` | the scheduler goroutine, the upload goroutines, the channel |
| `Deliver` | the deliver process: `Packaging` and `Delivery` on one store, with the receiver, shutdowns, crashes and restarts |
| `Upload` | one upload: concurrent PATCH and HEAD requests, acceptance, attempt markers, the lock file, cleanup, purge, crashes of each process and of the machine |
| `UploadContract` | abstract specification: what the receiver promises about an upload |
| `ClientUpload` | the Go client at work on that upload over a network that loses messages |
| `MCPackaging`, `MCDeliver`, `MCUpload`, `MCClient` | instances for TLC |
| `PackagingProofs`, `SelectionProofs` | theorems about `Packaging`: rows and files; the selection and its sums |
| `DeliverProofs`, `DeliveryProofs` | theorems about `Deliver`: refinement; attempts, slots, the archive |
| `UploadProofs`, `ClientProofs` | theorems about `Upload`, and about it with the client |

`Store` and `Upload` extend `Disk`; `Packaging` and `Delivery` extend `Store`;
`Deliver` extends both; `ClientUpload` extends `Upload`. Refinements:

- `Deliver` implements `Packaging!Spec` (`ImplementsPackaging`);
- `Packaging` implements `ArtifactCustody` (`KeepsCustody`);
- `ClientUpload` implements `UploadSpec` (theorem `ClientUsesUpload`);
- `Upload` implements `UploadContract` (`KeepsContract`).

The two halves meet at acceptance. `Packaging` takes it as one step, a durable
upload together with its receipt; `ReceiptIsBacked` of `Upload` is what makes that
sound: at whatever moment deliver reads a receipt, the upload behind it is whole
and on disk. In the other direction `Upload` reduces packaging to the flags
`indexed` and `sealed`. No instance puts both in full together: one difference
is listed among the limits below.

### State and code

- `indexed`, `packageOf`, `packagingError`, `sourcePurged`, `sourceBackoff` are
  the columns of `artifacts`; `members` is `package_members`; `pkgState`,
  `buildBackoff` and `purge` are columns of `packages`; `draining` is
  `packaging_projects.draining`; `delState` is `deliveries.state`.
- `upload`, `payload` and `manifest` are directory entries: `absent`, `visible`
  (renamed, not synced), `durable`, `unlinked` (removed, not synced). A power
  loss decides every `visible` and `unlinked` entry either way;
  `syncDirectory` decides all entries of its directory.
- `pc`, `cursor`, `hand`, `keepDraining` are the locals of the packaging
  goroutine. `stage`, `unread`, `active`, `packager` are those of the scheduler,
  `events` is the channel, `task` has one goroutine per package, `archive` is
  what the Internet Archive received.

- In `Upload`, `file` has the entries `uploads/{id}`, `{id}.info` and
  `{id}.attempt`, `receipt` is that of `receipts/{id}.json`. `received`, `synced`
  and `intact` are what tells two contents apart: the length, whether it is on
  disk, and whether it is so far the declared artifact. `lock` is the lock file:
  `free` (none, or one whose owner is dead, which `TryLock` takes over), its
  owner, or `reused` (the owner is dead, but its PID is in use again: in a
  container every receiver has PID 1). Whoever looks at the upload under the lock has
  it from one step to a later one, the HEAD request, the PATCH that is turned away and
  the cleanup that finds the upload accepted included: each of them may die with it. `req[r]` is the progress of one handler;
  it is in `activeAttempts` from `tracked` to the end of `recordUploadAttemptEnd`.
  `stale` stands for the three file times: none is within the retention.
  `acked`, `lapsed`, `untraced` and `taken` are history that properties use and no
  guard does: an answer had a receipt; the retention has passed since the last attempt,
  or the end of it left no trace; an attempt ended of which no durable marker tells (so a
  power loss may take the file times it left, but not those of a marker); a power loss
  took the receipt of a row.
- In `ClientUpload`, `client` is where the worker is, `session` says it knows the
  URL, `seen` is the offset it was told, `current` the request it waits for,
  `failure` the error it returned.

A step is one SQL statement or transaction, one rename, one directory sync, one
removal, one channel operation or the end of an upload. `Packaging` models the
path `claim -> scan -> reserve -> merge -> publishPayload -> syncPayload ->
publishManifest -> syncManifest -> seal`, and `probe` after a failure; then the
source purge `source -> unlinkSource -> syncSource -> markSource` and the package
purge `package -> unlinkPackage -> syncPackage -> markPackage`, each with its
failures. `Delivery` models `down -> discover -> drain -> (discover) -> claim ->
wait -> drain ...` and `stop -> down`. `Upload` models `tracked -> looking ->
writing -> complete -> synced -> renamed -> committed -> ended -> marking` for each
request, `idle -> waiting -> checking -> unlinking` for the cleanup goroutine and
`idle -> unlinking -> unlocked` for `purgeUpload`. `ClientUpload` models `create -> head ->
offset -> patch -> await -> receipt -> done`, with every way back and out. The `map` of `PROJECT.json` gives the
lines of every definition.

### Abstractions

- Objects are numbered in the order of `(accepted_at, object_id)`, the order
  `reservePackage` selects in. An object with a smaller number may still be
  indexed later, which is what happens when an insert fails.
- A package ID is the set of its members: `derivePackageID` hashes packager,
  project and the members with attributes that never change, in that order.
  Two member sets have the same ID only if SHA-256 collides.
- Time is a flag per deadline (`buildBackoff`, `sourceBackoff`,
  `deliveryBackoff`, `purge` = `waiting`, `aged`, `reconcileDue`) and an action
  that lets it pass. The lengths of the back-offs are not modelled.
- SQLite commits are durable (WAL with the default `synchronous=FULL`).
- Writing and syncing a temporary file is part of the step `Merge`: it is
  invisible until the rename. A leftover temporary file is not modelled.
- `Accept` is one step in `Packaging` and `Deliver`; `Upload` takes it apart.
- tusd and its file store are external. What the handlers rely on is modelled: a
  PATCH is served under the lock, must name the current offset, calls
  `beforeFinish` exactly when it wrote the last byte, and does nothing to an
  upload that is complete already.
- Free space is left open: `Backpressure` may answer any request before tusd sees
  it. Likewise the removal of a project from the configuration is one of the
  reasons for `AcceptFails`.
- The sync of uploads/ after an attempt marker is part of `MarkAttempt`; that it
  fails after the rename is not modelled apart from `MarkFails`. The marker has the
  time at which the handler returned; that writing it takes less than the retention is
  assumed (`MarkAttempt` resets `stale`).
- What cleanup asks under the lock (`upload_cleanup.go:263-280`) is asked in one step, but
  the lock is held from `CleanupLock` on. What could change between the questions,
  the start of a request, waits for that lock, too.
- One HEAD at a time has the lock, and one that waits for it is not modelled except
  in `ClientUpload`.
- All requests for an upload are those of its client; waiting for `Retry-After` or
  `RetryDelay` is part of the step that follows.
- The liveness of cleanup in `Packaging` (`EverySourceFreed`) presumes that the
  lock of an upload can be taken; `Upload` says when it cannot (finding 3).
- An I/O failure is possible at every step that does I/O. A failing database
  statement ends the process: it is `Crash` in `Packaging`, and `Stop` or
  `PackagingEndsEarly` in `Deliver`.
- `created_at` between packages is left open: any of the packages the SQL
  statement may pick is picked. Pending before retried is kept (`FirstClass`).
- A delivery plan always decodes, since the program wrote it; the plan, the
  remote names and the metadata are not modelled.
- An upload that fails may have delivered its data all the same (`UploadFails`),
  so a package can reach the archive more than once, as it can in the code.

## 3. Runs

Twelve runs, with 2 workers less than two minutes each, but for `packaging_backlog`,
`upload` and `client` with up to four. Deadlock is checked in
all but `upload_orphan_lock`, `client`, `client_interrupted` and `client_fetched`:
there the system may stop, the worker when it has its receipt, everybody when the
upload is gone.

| run | instance | question |
|---|---|---|
| `packaging` | 2 artifacts, one in an identity and one in a mergewarc project, all failures | is anything accepted ever lost, un-kept, or resurrected? does packaging implement the custody chain? |
| `packaging_backlog` | 3 artifacts of sizes 1, 1, 2, target 2, trigger 3, one malformed and one misreadable | do tables, isolation, reservation, draining and package sizes agree? is everything packaged, and are the uploads of what is packaged removed and marked, in the end? |
| `packaging_isolation` | 2 artifacts, one malformed and one misreadable, target 1 | *violation*: can a good artifact be failed for ever? |
| `deliver_attempts` | 2 sealed packages, 2 slots, channel of 4 | attempts, slots, recovery, outcomes, progress |
| `deliver_queue` | 2 packages, 1 slot | is every package delivered? |
| `deliver_live` | 1 artifact through everything, fair | refinement of `Packaging`, files under an upload, receipts honoured by the archive, index repair, shutdown, removal of delivered packages |
| `deliver_serial` | as `deliver_live` | *violation*: is there one serial scheduler? |
| `upload` | 2 concurrent requests, 2 pieces of data, power losses | are receipts and rows backed, attempts undisturbed, answers kept? are orphaned locks released? does the receiver implement its contract? is what is stale or packaged removed? |
| `client` | the same with the client, no power loss | does the worker get its bytes across, and is "not found" justified? |
| `upload_orphan_lock` | 1 request, 1 piece | *violation*: does a restart always recover? |
| `client_interrupted` | 1 request, 2 pieces | *violation*: can an interrupted upload always be continued? |
| `client_fetched` | 1 request, 2 pieces | *violation*: is a receipt the client has kept? |

### Why the bounds are enough

- Packaging treats artifacts of one project alike except for order, size and
  format, so the interesting cases are: a package of one, a package of several,
  one that overflows, a malformed member beside a good one, a rest below the
  trigger. Three artifacts give all of them (`packaging_backlog`); two give the
  rest of the life cycle with two kinds of packager, each in a package of one member
  that may go through all of its steps beside the other. The proofs then do away with
  the bound for the safety properties.
- In `packaging` the trigger is what there is, so that `max_wait` changes nothing;
  it never passes there (`LivesSpec`). It does in `packaging_backlog`.
- In `packaging_backlog` the sink never answers: what it checks are the tables
  up to the seal, and that everything gets there, and every upload is removed
  (`EverySourceFreed`), by the fairness of `Packaging` (`FairBacklogSpec`) whatever
  the sink does; deliveries would only multiply the states. Uploads of several members
  and of several packages compete there for the goroutine that builds and purges. That
  delivered packages are removed (`EveryPackageFreed`) is asked in `deliver_live`,
  where the purge runs beside the delivery scheduler.
- `deliver_live` has one artifact, so `ArchivedOnce` can only fail there by a
  package that is replaced or isolated after it was archived. That two packages
  never share an artifact is `ArchivedPackagesFinal`, for any number of them.
- Two packages and two slots reach two uploads at once, a full channel (four
  events, where snapshots are dropped and an outcome has to wait), a shutdown with
  an upload, an outcome and a snapshot pending, and a crash in each of these. `deliver_queue`
  has one slot, so that packages queue for it; `deliver_attempts`,
  `deliver_queue` start on two sealed packages whose uploads are removed
  (`SealedInit`), a state `packaging` reaches.
- `deliver_queue` leaves out progress events and crashes: it keeps failures,
  signals and restarts, and asks what happens to two packages. With crashes and
  progress the same question is asked of one artifact in the other runs.
- Two requests give every race of two handlers for the lock, a retry beside the
  handler of the request it repeats, and one that arrives at each step of the
  cleanup; a third would wait for the same lock. Two pieces give an empty, a partial
  and a complete upload, an offset behind and an offset ahead.
- In `upload` a PATCH names the offset 0 or the one the upload has when it is sent
  (`OffsetsNamed` in `MCUpload`): what clients name, and either may be wrong by the
  time tusd looks. Proofs and the other runs have every offset.
- `client` leaves power losses out (`PoweredSpec`): a worker whose upload loses
  bytes starts again at a smaller offset, which needs no new step of the client.
  `NotFoundCorrect` is proved with them.
- No counter is capped: the models are finite by themselves.

### Every property can fail

`PROJECT.json` names for each property of a passing run a mutation of the code's
model that breaks it: a dropped sync, `INSERT OR REPLACE`, a missing join, a slot
not given back, a recovery left out. The mutated operators stand beside the
originals, marked `Mutant`.

### Findings

1. *A read error is taken for a malformed artifact* (`packaging_isolation`).
   After a failed build `findInvalidPackageMembers` merges every member by
   itself and counts every error except cancellation, not-exist and permission as
   invalid (`package.go:452-458`). An EIO or EMFILE in that probe sets
   `packaging_error`, which nothing ever clears: the artifact is never packaged.
   `design.md:173-175` promises that transient I/O failures keep the membership
   and are retried.
2. *Packaging is not serial with deliveries* (`deliver_serial`). `design.md:163-164`
   and `README.md:181-182` (of the repository) describe one scheduler that runs claims,
   state updates, packaging and cleanup one after the other; `runScheduler` starts packaging as a goroutine
   (`delivery.go:271`). The documents are out of date; `ImplementsPackaging` and
   `FilesKeptForUpload` show that the concurrency does no harm.
3. *A lock that nobody releases* (`upload_orphan_lock`). A receiver that dies
   between the rename of a receipt and the unlock leaves a lock file with its PID. So
   does one that dies in a HEAD or in a PATCH of an upload that is complete, or
   in the cleanup's check under the lock (`upload_cleanup.go:256-268`), of an upload that
   has been accepted; and a deliver process that dies in `purgeUpload`, whose
   successor finds its own PID in use.
   `releaseOrphanedUploadLocks` was written for that case
   (`upload_cleanup.go:155-158`) but skips uploads with a receipt (`:170`);
   `purgeUpload` takes the lock with a context that only a shutdown ends
   (`delivery.go:431`), so the packaging goroutine waits for ever, and with it
   every other project. `design.md:207` promises that restarts recover.
   `SourceIsFreed` shows that nothing but such a lock can hold a purge up, and
   `OrphansReleased` that it is the lock of an accepted upload: every other one is gone
   as soon as a receiver serves.
4. *A complete upload that is never accepted* (`client_interrupted`).
   `beforeFinish` (`server.go:143`) runs in the PATCH that writes the last byte and
   never again. If the receiver dies there, or `accept` fails once, every resume
   finds the upload complete and no receipt, and the client returns "upload has not
   been accepted" (`client.go:292-297`) until cleanup removes the upload.
   `design.md:200` says an interrupted upload can still be continued.

5. *A fetched receipt that is not durable* (`client_fetched`). `writeReceipt` makes
   the receipt visible (`server.go:265`) and then syncs `receipts/` (`:268`);
   `getReceipt` (`server.go:341`) serves it in between, and for good when that sync
   fails and the PATCH is answered with a 500. A client whose connection broke finds
   the upload complete, fetches the receipt and is done (`client.go:292-297`); a
   power loss takes the receipt, and cleanup takes the upload after its retention.
   `README.md:8-9` (of the repository) says that a receipt means canner has "durably
   stored the receipt". An *answered* receipt is kept (`AnswerIsKept`).

What these findings need is proved, too: `ReadableKept` (1: without a read error no
wrong isolation), `OrphansAlwaysReleased` (3: only accepted uploads are concerned) and
`CutsAreTheCause` (4 and 5: without a failure or a death between the last byte and the
sync of the receipt no stuck upload and no lost receipt), see section 5.

One hazard has no finding, because no document promises the opposite: deliver may read a
receipt before it is synced and insert its row (`delivery.go:464`); a power loss takes the
receipt, cleanup the upload, and the package of that row can never be built.
`RowIsBacked` has this one exception (`taken`) and holds otherwise with every crash and
power loss.

A smaller disagreement, without a run: `design.md:165` gives `delivery_concurrency`
a default of 2; the code, its tests and the README have 0 (deliveries disabled).
`Concurrency` is any natural number here.

## 4. Fairness

`Packaging!Fairness`: weak fairness of the goroutine's loop (`Scheduler`), which
is restarted when it dies (`restart: unless-stopped`); of each deadline, since
clocks go on; of `Index`, since `discoverAccepted` repeats every hour. The sink is
given no fairness there: cleanup must not depend on it.

`Deliver!DeliverFairness`: weak fairness of both loops, of the end of each upload
(`deliveryAttemptTimeout` ends it at the latest) and of deadlines; strong
fairness of the send of an outcome, because a full channel may have room again
and again, and Go serves blocked senders in order. Nothing is assumed of
progress, signals, failures or the receiver: `EveryReceiptIndexed` holds
although the receiver never indexes.

`Upload!UploadFairness`: weak fairness of each handler once its request has
arrived, of the end of a HEAD, of the cleanup goroutine and of the receiver's restart, and
time passes. Purge is strongly fair: `purgeUpload` polls the lock, which others may take
and give back again and again, and one of its polls finds it free. Nobody has to send a
request. `ClientUpload!ClientFairness` adds weak fairness of the client's own steps.

All add that failures, signals, crashes and power losses are finitely many, with
no bound on how many (`EventuallyUndisturbed`, `<>[][DeliverWorks]`,
`Undisturbed`, `<>[][Calm]`). Without that nothing is live: a disk that always
fails is never done, a network that always loses the answer neither. `Calm` keeps
everything the receiver does by itself, the interruption of an earlier request
included, and only rules out that the client's open request breaks. `Undisturbed` and `Calm` also
say (`Prompt`) that a look at the upload under the lock, which is a few file operations,
ends before others give up on the lock after seconds; before that, and as long as a
request writes, they may give up at any time.

## 5. Proofs

All theorems hold for every set of objects, any number and kind of projects, all
sizes, thresholds and concurrency, and any choice of malformed and misreadable
artifacts, from the assumptions the modules name (`ObjectsAssumption`,
`ProjectsAssumption`, `SizesAssumption`, `FormatsAssumption`,
`ConcurrencyAssumption`); `config.go` validates what these say of the
configuration. Those about uploads hold for any number of concurrent requests and
any length (`UploadAssumption`, `ClientAssumption`).

`PackagingProofs`:

- `TypeCorrect`. Besides the types it says that a step that works on a package
  has one in hand.
- `Invariant`: `Spec => []IInv`. `IInv` is `TypeOK /\ RowInv /\ FileInv`.
  - `RowInv` strengthens `MembershipConsistent` and `BlockedHoldsFailedOnly` by
    `RowStates` (only sealed packages are delivered or purged, a row that does not
    exist has no members) and by `HandRows` (what the rows of the thing in hand
    are at each step). The latter is needed because a selection is stale when it
    is written: it is a set of candidates all the same, as nobody else takes
    candidates.
  - `FileInv` strengthens `UndeliveredPackageKept` and `PurgedStaysGone` by
    `FileStates` (an upload is durable until its package is sealed) and
    `HandFiles` (which entries are durable or gone at each step). It is what makes
    the order of rename, sync, seal and mark matter.
- `ArtifactsSafe`, `UndeliveredKept`, `PurgesFinal`, `MembershipCorrect`,
  `IsolationCorrect`, `ReservationsSucceed` are read off `IInv`.
  The last says that a project never stalls on an ID that exists already: a
  blocked package has a failed member, so its ID is never derived again
  (`SelectionIsNew`).
- `CustodyKept` is the refinement of `ArtifactCustody`, one lemma per abstract
  action; `NothingDropped` draws the conclusion: an artifact once held is held
  for ever, and the archive keeps what it has.

`SelectionProofs`, about the sizes:

- `SizeOf` is a fold over a set, about which the provers know nothing but its
  value on the empty set and one step. That is enough for `SizeUnion` (the sizes of
  disjoint sets add) by a minimal counterexample: of the subsets for which it is
  false take one of least cardinality (`MinimalSubset`). Monotonicity follows.
- `SelectionCorrect` is what the loop of `reservePackage` returns for any finite list
  of candidates: something if there is something, in order and without a gap, one
  artifact of any size or several within the target, and no fewer than fit.
- `DrainingCorrect` and `PackagesWithinTarget` are read off `SizeInv`. It is needed
  because both say something of rows, while what makes them true is computed before
  the transaction: `HandFits` says that the selection in hand fits, and that the
  candidates it leaves still have the target if the flag in hand says so. That
  stays true because candidates are only added until the transaction
  (`CandidatesOnlyGrow`), and an isolation adds to them, too (`IsolationKeepsCandidates`).
- `IsolationHasCause`: whatever fails, only a malformed artifact or one with a read
  error is isolated. `ReadableKept`: where there are no read errors
  (`Misreadable = {}`), `OnlyMalformedIsolated`, which finding 1 refutes, holds.

`DeliverProofs`:

- `DeliverImplementsPackaging`: every step of the deliver process, shutdowns,
  crashes and restarts included, is a step `Packaging` allows. Needed besides
  `IInv`: the goroutine is at the top of its loop while it does not run
  (`ResumesAtTop`), and reconciliation lists receipts only.
- `DeliverLosesNothing`: so the process as it is loses no artifact.
- `DeliverKeepsPackaging`: and every other safety invariant of packaging holds of it,
  for free, by the refinement.

`DeliveryProofs`, about the same process (`AttemptInvariant`):

- `AttemptInv` relates four things that are each changed at another time: the
  goroutines, the channel, the rows and the counter `active`.
  - `ChannelInv` is about the channel: at most one outcome of a package, and none
    while its goroutine runs (`OneOutcome`); every snapshot is followed by the
    outcome of its attempt, or its goroutine still runs (`SnapshotsFirst`); a
    success is of a package the archive has (`SuccessesArchived`). `Taken` and
    `Sent` say once what receiving and sending do to it.
  - `AttemptRows`: a package with an attempt (`Busy`) is in state `delivering`, and
    while the loop runs only those are.
  - `SlotInv`: `active` is the number of such packages.
  - `IdleInv`: a process that has not started packaging yet has no attempt, which
    is why `Recover` may take every row in state `delivering`, and why `Stop` may go
    straight to the end.
- `DeliveryTypeCorrect`, `OneAttempt`, `SlotsExact`, `NoneStranded`,
  `ArchivedFirst` and `ProgressCurrent` are read off it. With
  `UndeliveredPackageKept` from `IInv` it gives `UploadsReadWholePackages`: this is
  where both goroutines are needed.
- `ReceiptsAlwaysHonoured` combines `ArtifactsSafe` with `ArchivedFirst`: "delivered" in
  a row can be replaced by "the archive has it".
- `ArchivedPackagesFinal`: an attempt is of a sealed package only, a sealed package
  is never isolated and its members never move (`SealedForever`), and the archive
  grows by packages under way (`ArchiveGrows`). So an artifact is in the archive
  in one package, however often that one is sent.
- `DeliverKeepsCustody`: the refinements compose, `Deliver` implements `ArtifactCustody`.

`UploadProofs`:

- `UploadInvariant`. `UploadInv` strengthens the properties by: who holds the lock
  at each step (`LockInv`; it is not simply exclusive: when a power loss has taken
  the receipt of an indexed upload, a receiver that starts releases even the lock
  deliver holds, and after that others give back locks that are not theirs), what is on
  disk at each step of a
  request (`RequestInv`), that there is nothing before the POST (`NothingYet`), that
  a receipt or a row means that the content is whole and synced (`AcceptInv`), and
  that a stale upload has an attempt, a receipt, or a reason to be stale
  (`TraceInv`). None is inductive alone: that a rename publishes only what is
  stored depends on who held the lock since the hash; that a power loss does not make
  a resumable upload look stale depends on the marker of its last attempt being durable.
- `ReceiptsBacked`, `AttemptsKeepFiles`, `ResumablesSpared`, `AnswersKept`.
- `ContractKept`: the refinement of `UploadContract`; a step either leaves the
  abstract status alone (`Quiet`) or is one of its four actions.
- `RowsBacked`: a row in `artifacts` has its upload or a sealed package, in every
  behaviour. The exception in the property is needed: reconciliation may read a receipt
  that is not synced, and once a power loss took it (`taken`) the row stays and cleanup
  sees no receipt. That only such a power loss does it is the part of `AcceptInv` that
  says a row without a receipt is one whose receipt was `taken`.
- `OrphansAlwaysReleased`: whoever dies with the lock, at whatever step, and whatever
  the PID: once a receiver serves, the lock of an upload that has neither a receipt nor a
  package is not in the hands of the dead. It needs that deliver takes the lock of
  packaged uploads only.

`ClientProofs`:

- `ClientUsesUpload`: the client is one of those `Upload` allows, so all of the
  above holds with it (`ClientSeesContract`).
- `ClientTypeCorrect`, `NotFoundCorrect`. `Findable` says that an upload that was
  created is present unless its retention has passed or it is packaged; it follows from
  `UploadInv`. `SessionInv` says that a client past its POST has one.
- `CutsAreTheCause` is about `UncutSpec`, everything but `AcceptanceCutOff`: that the
  receiver dies, the machine loses power or a step of `accept` fails (other than by a
  wrong checksum) while a request is between the last byte and the sync of
  `receipts/`. Everything may fail or die at any other time, messages get lost, and
  calls are cancelled. Then "upload has not been accepted" means that the
  content was wrong, an interrupted upload continues, and a receipt the client has is
  kept. `AcceptanceInv` is the invariant: a complete upload has a receipt, a request
  at its acceptance, or the wrong content.

### Checked only by TLC

- All liveness properties, and that shutdowns end: the proof system does not reach
  fairness. Every invariant and every refinement a passing run checks is proved.
- The violations: a theorem cannot show that a behaviour exists.

## 6. Not modelled

- Migration of old schemas. Two hazards are recorded: both processes may add the
  same missing column at once (`delivery.go:139`), and `dropLegacyDeliveries`
  decides on a schema it read before (`delivery.go:198`). They concern the first
  start after an upgrade only.
- A row that reconciliation inserts for a receipt which a power loss then takes
  (`delivery.go:464`): in `Upload` (`RowIsBacked`), not in `Packaging`, whose `Accept`
  is atomic.
- Configuration, dashboard, CLI, templates, file names, IA metadata: parsing and
  rendering without state that the properties speak of.
- `runPackageDeliveryCycle`: only tests call it.
- Progress reports, hashing and the decoding of answers in the client.

## 7. Plan

1. Done: packaging, deliveries and the deliver process, with their proofs.
2. Done: the upload with its requests, acceptance, cleanup, locks and purge; the
   contract it keeps; the client; their proofs.
3. Done: the selection and its sums; what the archive has is final; the causes of the
   findings.
4. The two halves in one theorem: as long as nothing is `taken`, `Upload` implements for
   its one object what `Packaging` assumes of `Accept`, `Index` and the purge.
5. `StoreMigration`: two processes on one old database.
