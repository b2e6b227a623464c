--------------------------- MODULE DeliveryProofs ---------------------------
(***************************************************************************)
(* Theorems about the deliveries of the deliver process: attempts, slots,  *)
(* rows and the archive agree, for any number of packages and any          *)
(* concurrency.                                                            *)
(***************************************************************************)
EXTENDS DeliverProofs, FiniteSetTheorems

(* The inductive invariant *)

\* The event at i is the outcome of an attempt of p.
IsOutcome(chan, i, p) ==
  i \in 1..Len(chan) /\ chan[i].package = p /\ chan[i].kind # "progress"

\* UnderWay, without the set.
Attempted(chan, tasks, p) == tasks[p] # "idle" \/ \E i \in 1..Len(chan) : IsOutcome(chan, i, p)

\* What the channel holds: one outcome at most of each package, after its
\* goroutine has ended, ...
OneOutcome(chan, tasks) ==
  /\ \A p \in PackageIDs : \A i, j \in 1..Len(chan) :
       IsOutcome(chan, i, p) /\ IsOutcome(chan, j, p) => i = j
  /\ \A p \in PackageIDs : \A i \in 1..Len(chan) : IsOutcome(chan, i, p) => tasks[p] = "idle"

\* ... snapshots before the outcome only, ...
SnapshotsFirst(chan, tasks) ==
  \A i \in 1..Len(chan) : chan[i].kind = "progress" =>
    \/ tasks[chan[i].package] # "idle"
    \/ \E k \in 1..Len(chan) : i < k /\ IsOutcome(chan, k, chan[i].package)

\* ... and no success of what the archive does not have.
SuccessesArchived(chan, tasks, received) ==
  /\ \A i \in 1..Len(chan) : chan[i].kind = "success" => chan[i].package \in received
  /\ \A p \in PackageIDs : tasks[p] = "succeeded" => p \in received

ChannelInv ==
  OneOutcome(events, task) /\ SnapshotsFirst(events, task) /\ SuccessesArchived(events, task, archive)

Busy == {p \in PackageIDs : Attempted(events, task, p)}

\* What the rows say of the attempts.
AttemptRows ==
  /\ \A p \in Busy : delState[p] = "delivering"
  /\ stage \in Serving \cup {"discover"} =>
       \A p \in PackageIDs : delState[p] = "delivering" => p \in Busy
  /\ \A p \in PackageIDs : delState[p] = "delivered" => p \in archive
  /\ \A p \in progressed : delState[p] = "delivering"

SlotInv == IsFiniteSet(Busy) /\ active = Cardinality(Busy)

\* Without a packaging goroutine, except in a shutdown, nothing is under way.
IdleInv ==
  /\ stage = "down" => packager = "off"
  /\ packager = "off" /\ stage # "stop" => stage \in {"down", "discover"} /\ events = <<>> /\ Busy = {}

AttemptInv == DeliveryTypeOK /\ ChannelInv /\ AttemptRows /\ SlotInv /\ IdleInv

-----------------------------------------------------------------------------
(* The channel *)

\* The events behind the first one.
LEMMA TailFacts ==
  ASSUME NEW chan \in Seq(Event), chan # <<>>
  PROVE  /\ Len(chan) \in Nat \ {0} /\ Head(chan) = chan[1] /\ chan[1] \in Event
         /\ Tail(chan) \in Seq(Event) /\ Len(Tail(chan)) = Len(chan) - 1
         /\ \A i \in 1..(Len(chan) - 1) : Tail(chan)[i] = chan[i + 1]
OBVIOUS

\* The events with one more.
LEMMA AppendFacts ==
  ASSUME NEW chan \in Seq(Event), NEW e \in Event
  PROVE  /\ Len(chan) \in Nat /\ Append(chan, e) \in Seq(Event) /\ Len(Append(chan, e)) = Len(chan) + 1
         /\ Append(chan, e)[Len(chan) + 1] = e
         /\ \A i \in 1..Len(chan) : Append(chan, e)[i] = chan[i]
OBVIOUS

\* Receiving the first event moves the others up by one.
LEMMA TailOutcomes ==
  ASSUME NEW chan \in Seq(Event), chan # <<>>
  PROVE  \A i, p : IsOutcome(Tail(chan), i, p) <=> i \in 1..(Len(chan) - 1) /\ IsOutcome(chan, i + 1, p)
BY TailFacts DEF IsOutcome

\* An event that is received: an outcome ends its attempt, a snapshot none.
LEMMA Taken ==
  ASSUME NEW chan \in Seq(Event), chan # <<>>, NEW tasks, NEW received,
         OneOutcome(chan, tasks), SnapshotsFirst(chan, tasks), SuccessesArchived(chan, tasks, received)
  PROVE  /\ OneOutcome(Tail(chan), tasks) /\ SnapshotsFirst(Tail(chan), tasks)
         /\ SuccessesArchived(Tail(chan), tasks, received)
         /\ \A p \in PackageIDs : Attempted(Tail(chan), tasks, p) <=>
                                     Attempted(chan, tasks, p) /\ ~IsOutcome(chan, 1, p)
<1> DEFINE n == Len(chan)
           rest == Tail(chan)
<1>1. /\ n \in Nat \ {0} /\ Len(rest) = n - 1
      /\ \A i \in 1..(n - 1) : rest[i] = chan[i + 1] /\ i + 1 \in 1..n
      /\ \A i \in 1..n : i = 1 \/ (i - 1 \in 1..(n - 1) /\ (i - 1) + 1 = i)
  BY TailFacts
<1>2. \A i, p : IsOutcome(rest, i, p) <=> i \in 1..(n - 1) /\ IsOutcome(chan, i + 1, p)
  BY TailOutcomes
<1> HIDE DEF n, rest
<1>3. OneOutcome(rest, tasks)
  <2>1. ASSUME NEW p \in PackageIDs, NEW i \in 1..(n - 1), NEW j \in 1..(n - 1), IsOutcome(rest, i, p),
               IsOutcome(rest, j, p)
        PROVE  i = j
    <3>1. i + 1 = j + 1
      BY <1>1, <1>2, <2>1 DEF OneOutcome, n
    <3> QED
      BY <3>1
  <2>2. ASSUME NEW p \in PackageIDs, NEW i \in 1..(n - 1), IsOutcome(rest, i, p)
        PROVE  tasks[p] = "idle"
    BY <1>1, <1>2, <2>2 DEF OneOutcome, n
  <2> QED
    BY <1>1, <2>1, <2>2 DEF OneOutcome
<1>4. SnapshotsFirst(rest, tasks)
  <2> SUFFICES ASSUME NEW i \in 1..(n - 1), rest[i].kind = "progress", tasks[rest[i].package] = "idle"
               PROVE  \E k \in 1..(n - 1) : i < k /\ IsOutcome(rest, k, rest[i].package)
    BY <1>1 DEF SnapshotsFirst
  <2>1. PICK k \in 1..n : i + 1 < k /\ IsOutcome(chan, k, chan[i + 1].package)
    BY <1>1 DEF SnapshotsFirst, n
  <2>2. k - 1 \in 1..(n - 1) /\ i < k - 1 /\ (k - 1) + 1 = k
    BY <1>1, <2>1
  <2> QED
    BY <1>1, <1>2, <2>1, <2>2
<1>5. SuccessesArchived(rest, tasks, received)
  BY <1>1 DEF SuccessesArchived, n
<1>6. ASSUME NEW p \in PackageIDs
      PROVE  Attempted(rest, tasks, p) <=> Attempted(chan, tasks, p) /\ ~IsOutcome(chan, 1, p)
  <2>1. ASSUME NEW i \in 1..(n - 1), IsOutcome(rest, i, p)
        PROVE  i + 1 \in 1..n /\ IsOutcome(chan, i + 1, p) /\ i + 1 # 1
    BY <1>1, <1>2, <2>1
  <2>2. ASSUME NEW i \in 1..n, IsOutcome(chan, i, p), i # 1
        PROVE  i - 1 \in 1..(n - 1) /\ IsOutcome(rest, i - 1, p)
    BY <1>1, <1>2, <2>2
  <2>3. IsOutcome(chan, 1, p) => tasks[p] = "idle" /\ \A i \in 1..n : IsOutcome(chan, i, p) => i = 1
    BY <1>1 DEF OneOutcome, n
  <2> QED
    BY <1>1, <2>1, <2>2, <2>3 DEF Attempted, n
<1> QED
  BY <1>3, <1>4, <1>5, <1>6 DEF rest

\* An event that is sent: a snapshot of an attempt under way, or the outcome of
\* one, which ends its goroutine.
LEMMA Sent ==
  ASSUME NEW chan \in Seq(Event), NEW tasks, NEW received, NEW p \in PackageIDs, tasks[p] # "idle",
         NEW kind \in {"progress", "success", "failure"}, NEW then,
         kind = "success" => tasks[p] = "succeeded",
         \A q \in PackageIDs : q # p => then[q] = tasks[q],
         then[p] = IF kind = "progress" THEN tasks[p] ELSE "idle",
         OneOutcome(chan, tasks), SnapshotsFirst(chan, tasks), SuccessesArchived(chan, tasks, received)
  PROVE  LET more == Append(chan, Note(p, kind)) IN
         /\ OneOutcome(more, then) /\ SnapshotsFirst(more, then) /\ SuccessesArchived(more, then, received)
         /\ \A q \in PackageIDs : Attempted(more, then, q) <=> Attempted(chan, tasks, q)
<1> DEFINE n == Len(chan)
           more == Append(chan, Note(p, kind))
<1>0. Note(p, kind) \in Event /\ Note(p, kind).package = p /\ Note(p, kind).kind = kind
  BY DEF Note, Event
<1>1. /\ n \in Nat /\ Len(more) = n + 1 /\ more[n + 1] = Note(p, kind)
      /\ \A i \in 1..n : more[i] = chan[i] /\ i \in 1..(n + 1) /\ i < n + 1
      /\ \A i \in 1..n : chan[i] \in Event /\ chan[i].package \in PackageIDs
      /\ \A i \in 1..(n + 1) : i \in 1..n \/ i = n + 1
      /\ n + 1 \in 1..(n + 1)
  <2>1. \A i \in 1..n : chan[i] \in Event
    OBVIOUS
  <2>2. \A e \in Event : e.package \in PackageIDs
    BY DEF Event
  <2> QED
    BY <1>0, <2>1, <2>2, AppendFacts
<1> HIDE DEF n, more
<1>2. \A q : \A i \in 1..n : IsOutcome(more, i, q) <=> IsOutcome(chan, i, q)
  BY <1>1 DEF IsOutcome, n
<1>3. \A q : IsOutcome(more, n + 1, q) <=> q = p /\ kind # "progress"
  BY <1>0, <1>1 DEF IsOutcome
<1>4. \A i \in 1..n : ~IsOutcome(chan, i, p)
  BY DEF OneOutcome, n
<1>5. OneOutcome(more, then)
  BY <1>1, <1>2, <1>3, <1>4 DEF OneOutcome, n
<1>6. SnapshotsFirst(more, then)
  <2> SUFFICES ASSUME NEW i \in 1..(n + 1), more[i].kind = "progress"
               PROVE  \/ then[more[i].package] # "idle"
                      \/ \E k \in 1..(n + 1) : i < k /\ IsOutcome(more, k, more[i].package)
    BY <1>1 DEF SnapshotsFirst
  <2>1. CASE i = n + 1
    BY <1>0, <1>1, <2>1
  <2>2. CASE i \in 1..n /\ chan[i].package = p
    BY <1>1, <1>3, <2>2
  <2>3. CASE i \in 1..n /\ chan[i].package # p
    BY <1>1, <1>2, <2>3 DEF SnapshotsFirst, n
  <2> QED
    BY <1>1, <2>1, <2>2, <2>3
<1>7. SuccessesArchived(more, then, received)
  BY <1>0, <1>1 DEF SuccessesArchived, n
<1>8. ASSUME NEW q \in PackageIDs PROVE Attempted(more, then, q) <=> Attempted(chan, tasks, q)
  BY <1>1, <1>2, <1>3, <1>4 DEF Attempted, n
<1> QED
  BY <1>5, <1>6, <1>7, <1>8 DEF more

-----------------------------------------------------------------------------
(* Steps *)

\* Packaging, the receiver and the deadlines of the store touch no row of an
\* attempt: a package that is reserved is new.
LEMMA OtherRows ==
  ASSUME DeliverInv, PackagingStep \/ PackagingDisrupted \/ ReceiverStep \/ Clock
  PROVE  \A p \in PackageIDs :
           \/ delState'[p] = delState[p]
           \/ delState[p] \notin {"delivering", "delivered"} /\ delState'[p] = "pending"
<1>1. CASE Reserve
  <2>1. CASE UNCHANGED delState
    BY <2>1
  <2>2. CASE pkgState[hand] = "none" /\ InsertPackage(hand)
    BY <2>2 DEF InsertPackage, DeliverInv, IInv, RowInv, RowStates, TypeOK, StoreTypeOK
  <2> QED
    BY <1>1, <2>1, <2>2 DEF Reserve
<1>2. CASE ~Reserve
  <2>1. UNCHANGED delState
    BY <1>2
    DEF PackagingStep, Scheduler, BuildCycle, SourcePurgeCycle, PackagePurgeCycle, PackagingDisrupted,
        ReceiverStep, Receiver, Clock, NextBuildingPackage, NoBuildingPackage, ScanNothing, ScanIdentity,
        ScanNotReady, ScanReady, Merge, PublishPayload, SyncPayload, PublishManifest, SyncManifest,
        Seal, Probe, RetryBuild, Isolate, NextSourceToPurge, NoSourceToPurge, UnlinkSource, SyncSource,
        MarkSourcePurged, NextPackagePurge, NoPackageToPurge, UnlinkPackage, SyncPackage,
        MarkPackagePurged, MarkSourcePurgeRetry, MarkPackagePurgeRetry, BuildFails, ProbeDenied,
        ProbeMisreads, PurgeSourceFails, PurgePackageFails,
        BuildBackoffElapses, SourceBackoffElapses, RetentionElapses, MaxWaitElapses, Accept, Index,
        storeVars, dbVars
  <2> QED
    BY <2>1
<1> QED
  BY <1>1, <1>2

\* Counting the attempts under way.
LEMMA SlotFacts ==
  ASSUME DeliveryTypeOK, SlotInv
  PROVE  /\ \A p \in Busy : /\ IsFiniteSet(Busy \ {p}) /\ Cardinality(Busy \ {p}) = active - 1
                            /\ active - 1 \in 0..Concurrency
         /\ \A p : p \notin Busy => /\ IsFiniteSet(Busy \cup {p})
                                    /\ Cardinality(Busy \cup {p}) = active + 1
         /\ active = 0 => Busy = {}
<1>1. IsFiniteSet(Busy) /\ Cardinality(Busy) = active /\ active \in 0..Concurrency /\ Concurrency \in Nat
  BY ConcurrencyAssumption DEF SlotInv, DeliveryTypeOK
<1>2. \A p \in Busy : IsFiniteSet(Busy \ {p}) /\ Cardinality(Busy \ {p}) = active - 1
  BY <1>1, FS_RemoveElement
<1>3. \A p \in Busy : Cardinality(Busy \ {p}) \in Nat
  BY <1>2, FS_CardinalityType
<1>4. \A p : p \notin Busy => IsFiniteSet(Busy \cup {p}) /\ Cardinality(Busy \cup {p}) = active + 1
  BY <1>1, FS_AddElement
<1>5. active = 0 => Busy = {}
  BY <1>1, FS_EmptySet
<1> QED
  BY <1>1, <1>2, <1>3, <1>4, <1>5

\* When the first process starts nothing is under way.
LEMMA AttemptInit == DeliverInit => AttemptInv
<1> SUFFICES ASSUME DeliverInit PROVE AttemptInv
  OBVIOUS
<1>1. events = <<>> /\ Len(events) = 0 /\ <<>> \in Seq(Event)
  BY SMT DEF DeliverInit, DeliveryInit
<1>2. Busy = {}
  BY <1>1 DEF DeliverInit, DeliveryInit, Busy, Attempted
<1>3. DeliveryTypeOK
  <2>1. reconcileDue \in BOOLEAN
    BY DEF DeliverInit, DeliveryInit
  <2> QED
    BY <1>1, <2>1, ConcurrencyAssumption DEF DeliverInit, DeliveryInit, DeliveryTypeOK, Capacity
<1>4. ChannelInv
  BY <1>1 DEF DeliverInit, DeliveryInit, ChannelInv, OneOutcome, SnapshotsFirst, SuccessesArchived
<1>5. AttemptRows
  BY <1>2 DEF DeliverInit, DeliveryInit, Init, StoreInit, AttemptRows, Serving
<1>6. SlotInv
  BY <1>2, FS_EmptySet DEF DeliverInit, DeliveryInit, SlotInv
<1>7. IdleInv
  BY <1>1, <1>2 DEF DeliverInit, DeliveryInit, IdleInv
<1> QED
  BY <1>3, <1>4, <1>5, <1>6, <1>7 DEF AttemptInv

\* A step that leaves the attempts and the channel alone.
LEMMA AttemptsSame ==
  ASSUME AttemptInv, UNCHANGED <<events, task, archive, active>>
  PROVE  ChannelInv' /\ Busy' = Busy /\ SlotInv'
BY DEF AttemptInv, ChannelInv, Busy, SlotInv

\* A new process: no row says that an attempt is under way, and none is.
LEMMA RecoverStep ==
  ASSUME DeliverInv, AttemptInv, Recover
  PROVE  AttemptInv'
<1>1. ChannelInv' /\ Busy' = Busy /\ SlotInv'
  BY AttemptsSame DEF Recover, uploadVars
<1>2. DeliveryTypeOK'
  BY DEF Recover, AttemptInv, DeliveryTypeOK, uploadVars, DeliverInv, IInv, TypeOK, StoreTypeOK
<1>3. Busy = {}
  BY DEF Recover, AttemptInv, IdleInv
<1>4. \A p \in PackageIDs : /\ delState'[p] # "delivering"
                            /\ delState'[p] = "delivered" => delState[p] = "delivered"
  BY DEF Recover, recoverInterruptedDeliveries, DeliverInv, IInv, TypeOK, StoreTypeOK
<1>5. progressed' = {}
  BY DEF Recover, AttemptInv, AttemptRows, DeliveryTypeOK
<1>6. AttemptRows'
  BY <1>1, <1>3, <1>4, <1>5 DEF AttemptRows, AttemptInv, Recover, uploadVars
<1>7. IdleInv'
  BY <1>1 DEF AttemptInv, IdleInv, Recover, uploadVars
<1> QED
  BY <1>1, <1>2, <1>6, <1>7 DEF AttemptInv

\* Packaging, the receiver and the deadlines of the store leave them alone.
LEMMA QuietStep ==
  ASSUME DeliverInv, AttemptInv, PackagingStep \/ PackagingDisrupted \/ ReceiverStep \/ Clock,
         UNCHANGED deliveryVars
  PROVE  AttemptInv'
<1>q. UNCHANGED <<stage, unread, reconcileDue, active, packager, events, task, archive,
                  deliveryBackoff, progressed>>
  BY DEF deliveryVars, schedulerVars, uploadVars
<1>1. ChannelInv' /\ Busy' = Busy /\ SlotInv'
  BY <1>q, AttemptsSame
<1>2. DeliveryTypeOK'
  BY <1>q DEF AttemptInv, DeliveryTypeOK
<1>3. AttemptRows'
  BY <1>q, <1>1, OtherRows DEF AttemptInv, AttemptRows, DeliveryTypeOK, Busy
<1>4. IdleInv'
  BY <1>q, <1>1 DEF AttemptInv, IdleInv
<1> QED
  BY <1>1, <1>2, <1>3, <1>4 DEF AttemptInv

\* The steps of the scheduler that handle no attempt.
LEMMA LoopStep ==
  ASSUME AttemptInv,
         \/ \E o \in Objects : Discover(o)
         \/ DiscoverDone \/ DrainDone \/ ClaimsDone \/ Poll \/ PackagingFailed \/ Stop
         \/ PackagingStopped \/ PackagingFails
         \/ (\E p \in PackageIDs : RetryDelayElapses(p)) \/ ReconcileIntervalElapses,
         StoreTypeOK
  PROVE  AttemptInv'
<1>q. UNCHANGED <<delState, events, task, archive, active, progressed>>
  BY DEF Discover, DiscoverDone, DrainDone, ClaimsDone, Poll, PackagingFailed, Stop, PackagingStopped,
    PackagingFails, RetryDelayElapses, ReconcileIntervalElapses, storeVars, dbVars, schedulerVars,
    uploadVars
<1>1. ChannelInv' /\ Busy' = Busy /\ SlotInv'
  BY <1>q, AttemptsSame
<1>2. /\ stage' \in {"down", "discover", "stop"} \cup Serving
      /\ unread' \subseteq Objects
      /\ packager' \in {"off", "running", "failed"}
      /\ deliveryBackoff' \subseteq PackageIDs
  BY DEF AttemptInv, DeliveryTypeOK, StoreTypeOK, Serving, Discover, DiscoverDone, DrainDone, ClaimsDone,
    Poll, PackagingFailed, Stop, PackagingStopped, PackagingFails, RetryDelayElapses,
    ReconcileIntervalElapses, schedulerVars
<1>3. reconcileDue' \in BOOLEAN
  <2>1. reconcileDue' \in {reconcileDue, TRUE, FALSE}
    BY DEF Discover, DiscoverDone, DrainDone, ClaimsDone, Poll, PackagingFailed, Stop, PackagingStopped,
      PackagingFails, RetryDelayElapses, ReconcileIntervalElapses, schedulerVars
  <2> QED
    BY <2>1 DEF AttemptInv, DeliveryTypeOK
<1>4. DeliveryTypeOK'
  BY <1>q, <1>2, <1>3 DEF AttemptInv, DeliveryTypeOK
<1>5. \/ /\ stage' = stage
         /\ \/ packager' = packager
            \/ stage = "stop"
            \/ packager = "running" /\ packager' = "failed"
      \/ stage' = "stop"
      \/ stage' = "down" /\ packager = "off" /\ packager' = "off" /\ stage \in Serving \cup {"discover"}
      \/ stage = "discover" /\ stage' \in Serving /\ packager' # "off"
      \/ stage \in Serving /\ stage' \in Serving \cup {"discover"} /\ packager' = packager
  <2>1. CASE DiscoverDone
    BY <2>1 DEF DiscoverDone, Serving
  <2>2. CASE DrainDone \/ ClaimsDone \/ Poll
    BY <2>2 DEF DrainDone, ClaimsDone, Poll, Serving
  <2>3. CASE PackagingFailed \/ PackagingStopped \/ PackagingFails
    BY <2>3 DEF PackagingFailed, PackagingStopped, PackagingFails
  <2>4. CASE Stop
    BY <2>4 DEF Stop
  <2>5. CASE \/ \E o \in Objects : Discover(o)
             \/ \E p \in PackageIDs : RetryDelayElapses(p)
             \/ ReconcileIntervalElapses
    BY <2>5 DEF Discover, RetryDelayElapses, ReconcileIntervalElapses, schedulerVars
  <2> QED
    BY <2>1, <2>2, <2>3, <2>4, <2>5
<1>6. AttemptRows'
  BY <1>q, <1>1, <1>5 DEF AttemptInv, AttemptRows, Serving
<1>7. IdleInv'
  BY <1>q, <1>1, <1>5 DEF AttemptInv, IdleInv, Serving
<1> QED
  BY <1>1, <1>4, <1>6, <1>7 DEF AttemptInv

\* An event is received: an outcome gives back the slot of its attempt.
LEMMA Received ==
  ASSUME AttemptInv, events # <<>>, events' = Tail(events), UNCHANGED <<task, archive>>,
         active' = IF Head(events).kind = "progress" THEN active ELSE active - 1
  PROVE  /\ ChannelInv' /\ SlotInv'
         /\ events' \in Seq(Event) /\ Len(events') <= Capacity /\ active' \in 0..Concurrency
         /\ Head(events).package \in PackageIDs
         /\ Busy' = IF Head(events).kind = "progress" THEN Busy ELSE Busy \ {Head(events).package}
         /\ Head(events).kind # "progress" => Head(events).package \in Busy
         /\ Head(events).kind = "success" => Head(events).package \in archive
<1> DEFINE p == Head(events).package
<1>1. events \in Seq(Event) /\ Len(events) <= Capacity /\ Capacity \in Nat /\ active \in 0..Concurrency
  BY ConcurrencyAssumption DEF AttemptInv, DeliveryTypeOK, Capacity
<1>2. p \in PackageIDs /\ events' \in Seq(Event) /\ Len(events') <= Capacity
  BY <1>1, TailFacts, EventsTyped
<1>3. /\ ChannelInv'
      /\ \A q \in PackageIDs : Attempted(events', task', q) <=>
                                 Attempted(events, task, q) /\ ~IsOutcome(events, 1, q)
  BY <1>1, Taken DEF AttemptInv, ChannelInv
<1>4. 1 \in 1..Len(events) /\ Head(events) = events[1]
  BY <1>1, TailFacts
<1>5. \A q \in PackageIDs : IsOutcome(events, 1, q) <=> q = p /\ Head(events).kind # "progress"
  BY <1>4 DEF IsOutcome
<1>6. Busy' = IF Head(events).kind = "progress" THEN Busy ELSE Busy \ {p}
  BY <1>3, <1>5 DEF Busy
<1>7. Head(events).kind # "progress" => p \in Busy
  BY <1>2, <1>4, <1>5 DEF Busy, Attempted
<1>8. Head(events).kind = "success" => p \in archive
  BY <1>4 DEF AttemptInv, ChannelInv, SuccessesArchived
<1>9. SlotInv' /\ active' \in 0..Concurrency
  BY <1>1, <1>6, <1>7, SlotFacts DEF AttemptInv, SlotInv
<1> QED
  BY <1>2, <1>3, <1>6, <1>7, <1>8, <1>9

\* An event that is handled: its outcome finds the row of its attempt.
LEMMA RecordStep ==
  ASSUME AttemptInv, RecordProgress \/ RecordSuccess \/ RecordFailure \/ DiscardEvent, StoreTypeOK
  PROVE  AttemptInv'
<1> DEFINE p == Head(events).package
<1>1. /\ events # <<>> /\ events' = Tail(events)
      /\ UNCHANGED <<task, archive, unread, reconcileDue, packager>>
      /\ active' = IF Head(events).kind = "progress" THEN active ELSE active - 1
  BY DEF RecordProgress, RecordSuccess, RecordFailure, DiscardEvent, Receive
<1>2. /\ ChannelInv' /\ SlotInv' /\ p \in PackageIDs
      /\ events' \in Seq(Event) /\ Len(events') <= Capacity /\ active' \in 0..Concurrency
      /\ Busy' = IF Head(events).kind = "progress" THEN Busy ELSE Busy \ {p}
      /\ Head(events).kind # "progress" => p \in Busy
      /\ Head(events).kind = "success" => p \in archive
  BY <1>1, Received
<1>3. Head(events).kind # "progress" => delState[p] = "delivering"
  BY <1>2 DEF AttemptInv, AttemptRows
<1>4. \/ /\ Head(events).kind = "progress" /\ stage' = "drain" /\ stage \in Serving
         /\ delState' = delState /\ deliveryBackoff' = deliveryBackoff
         /\ progressed' = progressed \cup {q \in {p} : delState[q] = "delivering"}
      \/ /\ Head(events).kind = "success" /\ stage' = "drain" /\ stage \in Serving
         /\ delState' = [delState EXCEPT ![p] = "delivered"]
         /\ deliveryBackoff' \subseteq PackageIDs /\ progressed' = progressed \ {p}
      \/ /\ Head(events).kind = "failure" /\ stage' = "drain" /\ stage \in Serving
         /\ delState' = [delState EXCEPT ![p] = "retry_wait"]
         /\ deliveryBackoff' \subseteq PackageIDs /\ progressed' = progressed \ {p}
      \/ /\ stage = "stop" /\ stage' = "stop"
         /\ delState' = delState /\ deliveryBackoff' = deliveryBackoff /\ progressed' = progressed
  <2>1. deliveryBackoff \subseteq PackageIDs
    BY DEF AttemptInv, DeliveryTypeOK
  <2>2. CASE RecordProgress
    BY <2>2, <1>2 DEF RecordProgress, Receive, Serving, storeVars, dbVars
  <2>3. CASE RecordSuccess
    BY <2>1, <2>3, <1>2, <1>3 DEF RecordSuccess, Receive, Serving, markPackageDelivered
  <2>4. CASE RecordFailure
    BY <2>1, <2>4, <1>2, <1>3 DEF RecordFailure, Receive, Serving, markPackageRetry
  <2>5. CASE DiscardEvent
    BY <2>5 DEF DiscardEvent, storeVars, dbVars
  <2> QED
    BY <2>2, <2>3, <2>4, <2>5
<1>5. DeliveryTypeOK'
  <2>1. deliveryBackoff' \subseteq PackageIDs /\ progressed' \subseteq PackageIDs
        /\ stage' \in {"down", "discover", "stop"} \cup Serving
    BY <1>2, <1>4 DEF AttemptInv, DeliveryTypeOK, Serving
  <2>2. Capacity' = Capacity
    BY DEF Capacity
  <2> QED
    BY <1>1, <1>2, <2>1, <2>2 DEF AttemptInv, DeliveryTypeOK
<1>6. AttemptRows'
  <2>1. CASE delState' = delState /\ stage' = "stop" /\ progressed' = progressed
    BY <1>1, <1>2, <2>1 DEF AttemptInv, AttemptRows, Serving
  <2>3. CASE /\ Head(events).kind = "progress" /\ delState' = delState /\ stage \in Serving
             /\ progressed' = progressed \cup {q \in {p} : delState[q] = "delivering"}
    BY <1>1, <1>2, <2>3 DEF AttemptInv, AttemptRows
  <2>2. CASE /\ Head(events).kind \in {"success", "failure"} /\ stage \in Serving
             /\ progressed' = progressed \ {p}
             /\ delState' = [delState EXCEPT ![p] = IF Head(events).kind = "success"
                                                    THEN "delivered" ELSE "retry_wait"]
    <3>1. /\ \A q \in PackageIDs : q # p => delState'[q] = delState[q]
          /\ delState'[p] # "delivering" /\ (delState'[p] = "delivered" => Head(events).kind = "success")
      BY <1>2, <2>2 DEF StoreTypeOK
    <3>2. Busy' = Busy \ {p} /\ Busy \subseteq PackageIDs /\ progressed \subseteq PackageIDs
      BY <1>2, <2>2 DEF Busy, AttemptInv, DeliveryTypeOK
    <3> QED
      BY <1>1, <1>2, <2>2, <3>1, <3>2 DEF AttemptInv, AttemptRows
  <2> QED
    BY <1>4, <2>1, <2>2, <2>3
<1>7. IdleInv'
  BY <1>1, <1>4 DEF AttemptInv, IdleInv, Serving
<1> QED
  BY <1>2, <1>5, <1>6, <1>7 DEF AttemptInv

\* A claim takes a row no attempt is under way for, and a free slot.
LEMMA ClaimStep ==
  ASSUME AttemptInv, NEW p \in PackageIDs, Claim(p), StoreTypeOK
  PROVE  AttemptInv'
<1>q. /\ UNCHANGED <<stage, unread, reconcileDue, packager, events, archive, deliveryBackoff>>
      /\ stage = "claim" /\ active < Concurrency /\ active' = active + 1
      /\ task' = [task EXCEPT ![p] = "uploading"] /\ progressed' = progressed \ {p}
      /\ delState[p] \in {"pending", "retry_wait"} /\ delState' = [delState EXCEPT ![p] = "delivering"]
  BY DEF Claim, claimPackageDelivery, Deliverable
<1>t. /\ task \in [PackageIDs -> {"idle", "uploading", "succeeded", "failed"}]
      /\ events \in Seq(Event) /\ Len(events) \in Nat
      /\ \A i \in 1..Len(events) : events[i].package \in PackageIDs
  <2>1. events \in Seq(Event) /\ task \in [PackageIDs -> {"idle", "uploading", "succeeded", "failed"}]
    BY DEF AttemptInv, DeliveryTypeOK
  <2>2. \A i \in 1..Len(events) : events[i] \in Event
    BY <2>1
  <2> QED
    BY <2>1, <2>2 DEF Event
<1>1. p \notin Busy
  BY <1>q DEF AttemptInv, AttemptRows
<1>2. \A i \in 1..Len(events) : ~IsOutcome(events, i, p)
  BY <1>1 DEF Busy, Attempted
<1>3. ChannelInv'
  <2>1. OneOutcome(events', task')
    BY <1>q, <1>t, <1>2 DEF AttemptInv, ChannelInv, OneOutcome
  <2>2. SnapshotsFirst(events', task')
    BY <1>q, <1>t DEF AttemptInv, ChannelInv, SnapshotsFirst
  <2>3. SuccessesArchived(events', task', archive')
    BY <1>q, <1>t DEF AttemptInv, ChannelInv, SuccessesArchived
  <2> QED
    BY <2>1, <2>2, <2>3 DEF ChannelInv
<1>4. Busy' = Busy \cup {p}
  BY <1>q, <1>t DEF Busy, Attempted
<1>5. SlotInv' /\ active' \in 0..Concurrency
  BY <1>q, <1>1, <1>4, SlotFacts, ConcurrencyAssumption DEF AttemptInv, SlotInv, DeliveryTypeOK
<1>6. DeliveryTypeOK'
  BY <1>q, <1>t, <1>5 DEF AttemptInv, DeliveryTypeOK, Capacity
<1>7. AttemptRows'
  <2>1. delState'[p] = "delivering" /\ \A q \in PackageIDs : q # p => delState'[q] = delState[q]
    BY <1>q DEF StoreTypeOK
  <2>2. progressed \subseteq PackageIDs /\ Busy \subseteq PackageIDs
    BY DEF AttemptInv, DeliveryTypeOK, Busy
  <2> QED
    BY <1>q, <1>4, <2>1, <2>2 DEF AttemptInv, AttemptRows, Serving
<1>8. IdleInv'
  BY <1>q DEF AttemptInv, IdleInv
<1> QED
  BY <1>3, <1>5, <1>6, <1>7, <1>8 DEF AttemptInv

\* What follows when a step leaves the rows and the loop alone, and the attempts
\* under way stay the same.
LEMMA RowsSame ==
  ASSUME AttemptInv, UNCHANGED <<delState, stage, packager, active, progressed>>, Busy' = Busy,
         archive \subseteq archive', packager = "off" /\ stage # "stop" => events' = <<>>
  PROVE  AttemptRows' /\ SlotInv' /\ IdleInv'
BY DEF AttemptInv, AttemptRows, SlotInv, IdleInv, Serving

\* The goroutine of an upload: it ends, or sends.
LEMMA UploadStepKeeps ==
  ASSUME AttemptInv, NEW p \in PackageIDs,
         ReportProgress(p) \/ UploadSucceeds(p) \/ UploadFails(p) \/ SendOutcome(p)
  PROVE  AttemptInv'
<1>q. UNCHANGED <<delState, stage, unread, reconcileDue, packager, active, progressed, deliveryBackoff>>
  BY DEF ReportProgress, UploadSucceeds, UploadFails, SendOutcome, storeVars, dbVars, schedulerVars
<1>t. /\ task \in [PackageIDs -> {"idle", "uploading", "succeeded", "failed"}]
      /\ events \in Seq(Event) /\ Len(events) \in Nat /\ archive \subseteq PackageIDs
      /\ \A i \in 1..Len(events) : events[i].package \in PackageIDs
  <2>1. /\ events \in Seq(Event) /\ archive \subseteq PackageIDs
        /\ task \in [PackageIDs -> {"idle", "uploading", "succeeded", "failed"}]
    BY DEF AttemptInv, DeliveryTypeOK
  <2>2. \A i \in 1..Len(events) : events[i] \in Event
    BY <2>1
  <2> QED
    BY <2>1, <2>2 DEF Event
<1>b. task[p] # "idle" /\ p \in Busy
  BY DEF ReportProgress, UploadSucceeds, UploadFails, SendOutcome, Busy, Attempted
<1>i. ~(packager = "off" /\ stage # "stop")
  BY <1>b DEF AttemptInv, IdleInv
<1>1. ASSUME NEW kind \in {"progress", "success", "failure"},
             kind = "success" => task[p] = "succeeded",
             events' = Append(events, Note(p, kind)), Len(events) < Capacity,
             task' \in [PackageIDs -> {"idle", "uploading", "succeeded", "failed"}],
             \A q \in PackageIDs : q # p => task'[q] = task[q],
             task'[p] = IF kind = "progress" THEN task[p] ELSE "idle", UNCHANGED archive
      PROVE  AttemptInv'
  <2>1. /\ ChannelInv'
        /\ \A q \in PackageIDs : Attempted(events', task', q) <=> Attempted(events, task, q)
    BY <1>1, <1>t, <1>b, Sent DEF AttemptInv, ChannelInv
  <2>2. Busy' = Busy
    BY <2>1 DEF Busy
  <2>3. events' \in Seq(Event) /\ Len(events') <= Capacity
    BY <1>1, <1>t, AppendFacts, EventsTyped, ConcurrencyAssumption DEF Capacity, Note, Event
  <2>4. DeliveryTypeOK'
    BY <1>q, <1>t, <1>1, <2>3 DEF AttemptInv, DeliveryTypeOK, Capacity
  <2> QED
    BY <1>q, <1>i, <1>1, <2>1, <2>2, <2>4, RowsSame DEF AttemptInv
<1>2. ASSUME NEW end \in {"succeeded", "failed"}, task[p] = "uploading",
             task' = [task EXCEPT ![p] = end], UNCHANGED events,
             archive' \in {archive, archive \cup {p}}, end = "succeeded" => p \in archive'
      PROVE  AttemptInv'
  <2>1. Busy' = Busy
    BY <1>2, <1>t DEF Busy, Attempted
  <2>2. OneOutcome(events', task')
    BY <1>2, <1>t DEF AttemptInv, ChannelInv, OneOutcome
  <2>3. SnapshotsFirst(events', task')
    BY <1>2, <1>t DEF AttemptInv, ChannelInv, SnapshotsFirst
  <2>4. SuccessesArchived(events', task', archive')
    BY <1>2, <1>t DEF AttemptInv, ChannelInv, SuccessesArchived
  <2>5. DeliveryTypeOK'
    BY <1>q, <1>t, <1>2 DEF AttemptInv, DeliveryTypeOK, Capacity
  <2> QED
    BY <1>q, <1>i, <1>2, <2>1, <2>2, <2>3, <2>4, <2>5, RowsSame DEF AttemptInv, ChannelInv
<1>3. CASE ReportProgress(p)
  BY <1>1, <1>3, <1>t DEF ReportProgress
<1>4. CASE UploadSucceeds(p)
  BY <1>2, <1>4 DEF UploadSucceeds
<1>5. CASE UploadFails(p)
  <2>1. archive' \in {archive, archive \cup {p}}
    BY <1>5 DEF UploadFails
  <2> QED
    BY <1>2, <1>5, <2>1 DEF UploadFails
<1>6. CASE SendOutcome(p)
  BY <1>1, <1>6, <1>t DEF SendOutcome
<1> QED
  BY <1>3, <1>4, <1>5, <1>6

\* The end of a shutdown, which has waited for every outcome, and a crash.
LEMMA EndStep ==
  ASSUME AttemptInv, StopDone \/ (ProcessLost /\ UNCHANGED delState)
  PROVE  AttemptInv'
<1>q. UNCHANGED <<reconcileDue, archive, deliveryBackoff, progressed, delState>>
  BY DEF StopDone, ProcessLost, storeVars, dbVars
<1>1. /\ stage' = "down" /\ packager' = "off" /\ active' = 0 /\ events' = <<>>
      /\ unread' \subseteq Objects
      /\ task' \in [PackageIDs -> {"idle", "uploading", "succeeded", "failed"}]
      /\ \A p \in PackageIDs : task'[p] = "idle"
  <2>1. CASE StopDone
    <3>1. Busy = {}
      BY <2>1, SlotFacts DEF StopDone, AttemptInv
    <3> QED
      BY <2>1, <3>1 DEF StopDone, AttemptInv, DeliveryTypeOK, Busy, Attempted
  <2>2. CASE ProcessLost
    BY <2>2 DEF ProcessLost
  <2> QED
    BY <2>1, <2>2
<1>2. Len(events') = 0 /\ events' \in Seq(Event)
  BY <1>1
<1>3. Busy' = {}
  BY <1>1, <1>2 DEF Busy, Attempted
<1>4. DeliveryTypeOK'
  <2>1. reconcileDue' \in BOOLEAN
    BY <1>q DEF AttemptInv, DeliveryTypeOK
  <2> QED
    BY <1>q, <1>1, <1>2, <2>1, ConcurrencyAssumption DEF AttemptInv, DeliveryTypeOK, Capacity
<1>5. ChannelInv'
  BY <1>1, <1>2 DEF ChannelInv, OneOutcome, SnapshotsFirst, SuccessesArchived
<1>6. AttemptRows' /\ SlotInv' /\ IdleInv'
  BY <1>q, <1>1, <1>3, FS_EmptySet DEF AttemptInv, AttemptRows, SlotInv, IdleInv, Serving
<1> QED
  BY <1>4, <1>5, <1>6 DEF AttemptInv

\* Every step of the process.
LEMMA AttemptStep == DeliverInv /\ AttemptInv /\ [DeliverNext]_deliverVars => AttemptInv'
<1> SUFFICES ASSUME DeliverInv, AttemptInv, [DeliverNext]_deliverVars
             PROVE  AttemptInv'
  OBVIOUS
<1>t. StoreTypeOK
  BY DEF DeliverInv, IInv, TypeOK
<1>1. CASE PackagingStep \/ PackagingDisrupted \/ ReceiverStep \/ (Clock /\ UNCHANGED deliveryVars)
  BY <1>1, QuietStep DEF PackagingStep, PackagingDisrupted, ReceiverStep
<1>2. CASE DeliveryStep
  <2>1. ASSUME NEW p \in PackageIDs, Claim(p) PROVE AttemptInv'
    BY <1>t, <2>1, ClaimStep
  <2>2. CASE Recover
    BY <2>2, RecoverStep
  <2>3. CASE \/ \E o \in Objects : Discover(o)
             \/ DiscoverDone \/ DrainDone \/ ClaimsDone \/ Poll \/ PackagingFailed
    BY <1>t, <2>3, LoopStep
  <2>4. CASE RecordProgress \/ RecordSuccess \/ RecordFailure \/ DiscardEvent
    BY <1>t, <2>4, RecordStep
  <2>5. CASE StopDone
    BY <2>5, EndStep
  <2> QED
    BY <1>2, <2>1, <2>2, <2>3, <2>4, <2>5 DEF DeliveryStep, DeliveryLoop
<1>3. CASE UploadStep \/ DeliveryDisrupted
  BY <1>3, <1>t, LoopStep, UploadStepKeeps DEF UploadStep, Uploads, DeliveryDisrupted, DeliveryDisruption
<1>4. CASE PackagingEnds \/ PackagingEndsEarly \/ (DeliveryClock /\ UNCHANGED <<localVars, aged>>)
  BY <1>4, <1>t, LoopStep DEF PackagingEnds, PackagingEndsEarly, DeliveryClock
<1>5. CASE ProcessDies \/ MachineDies
  BY <1>5, EndStep DEF ProcessDies, MachineDies, PowerLoss, storeVars, dbVars
<1>6. CASE UNCHANGED deliverVars
  <2>1. UNCHANGED <<stage, unread, reconcileDue, active, packager, events, task, archive,
                    deliveryBackoff, progressed, delState>>
    BY <1>6 DEF deliverVars, deliveryVars, schedulerVars, uploadVars, vars, storeVars, dbVars
  <2> QED
    BY <2>1 DEF AttemptInv, DeliveryTypeOK, ChannelInv, AttemptRows, Busy, SlotInv, IdleInv
<1> QED
  BY <1>1, <1>2, <1>3, <1>4, <1>5, <1>6 DEF DeliverNext, DeliverWorks, Deadlines

-----------------------------------------------------------------------------
(* The theorems *)

\* The deliver process keeps the store, the rows, the channel and the slots in
\* agreement through every step, failure, shutdown and crash.
THEOREM AttemptInvariant == DeliverSpec => [](DeliverInv /\ AttemptInv)
<1>1. DeliverInit => DeliverInv /\ AttemptInv
  BY DeliverInvInit, AttemptInit
<1>2. DeliverInv /\ AttemptInv /\ [DeliverNext]_deliverVars => (DeliverInv /\ AttemptInv)'
  BY DeliverInvStep, AttemptStep
<1> QED
  BY <1>1, <1>2, PTL DEF DeliverSpec

\* The delivery goroutines' state stays of its type: the channel never holds
\* more than its capacity and active never exceeds the concurrency.
THEOREM DeliveryTypeCorrect == DeliverSpec => []DeliveryTypeOK
<1>1. DeliverInv /\ AttemptInv => DeliveryTypeOK
  BY DEF AttemptInv
<1> QED
  BY <1>1, AttemptInvariant, PTL

\* The attempts of a package, as the properties name them.
LEMMA AttemptsNamed ==
  ASSUME AttemptInv, NEW p \in PackageIDs
  PROVE  /\ Outcomes(p) = {i \in 1..Len(events) : IsOutcome(events, i, p)}
         /\ UnderWay(p) <=> p \in Busy
<1>1. DOMAIN events = 1..Len(events)
  BY DEF AttemptInv, DeliveryTypeOK
<1>2. Outcomes(p) = {i \in 1..Len(events) : IsOutcome(events, i, p)}
  BY <1>1 DEF Outcomes, IsOutcome
<1> QED
  BY <1>2 DEF UnderWay, Busy, Attempted

\* No package is ever uploaded twice at a time, and every outcome finds its row
\* in state delivering: markPackageDelivered and markPackageRetry never fail
\* with no row (delivery.go exactlyOne), for any number of uploads at once.
THEOREM OneAttempt == DeliverSpec => []OneAttemptAtATime
<1>1. AttemptInv => OneAttemptAtATime
  <2> SUFFICES ASSUME AttemptInv, NEW p \in PackageIDs, UnderWay(p)
               PROVE  /\ delState[p] = "delivering"
                      /\ Cardinality(Outcomes(p)) = IF task[p] = "idle" THEN 1 ELSE 0
    BY DEF OneAttemptAtATime
  <2>1. delState[p] = "delivering"
    BY AttemptsNamed DEF AttemptInv, AttemptRows
  <2>2. CASE task[p] # "idle"
    <3>1. Outcomes(p) = {}
      BY <2>2, AttemptsNamed DEF AttemptInv, ChannelInv, OneOutcome
    <3> QED
      BY <2>1, <2>2, <3>1, FS_EmptySet
  <2>3. CASE task[p] = "idle"
    <3>1. PICK i \in Outcomes(p) : TRUE
      BY <2>3 DEF UnderWay
    <3>2. Outcomes(p) = {i}
      BY <3>1, AttemptsNamed DEF AttemptInv, ChannelInv, OneOutcome
    <3> QED
      BY <2>1, <2>3, <3>2, FS_Singleton
  <2> QED
    BY <2>2, <2>3
<1> QED
  BY <1>1, AttemptInvariant, PTL

\* active, the only bound on the uploads that run at once, is exact: no slot is
\* lost or given back twice over retries, shutdowns and restarts.
THEOREM SlotsExact == DeliverSpec => []SlotsCounted
<1>1. AttemptInv => SlotsCounted
  <2> SUFFICES ASSUME AttemptInv PROVE SlotsCounted
    OBVIOUS
  <2>1. {p \in PackageIDs : UnderWay(p)} = Busy
    BY AttemptsNamed DEF Busy
  <2>2. active = Cardinality({p \in PackageIDs : UnderWay(p)})
    BY <2>1 DEF AttemptInv, SlotInv
  <2>3. active <= Concurrency
    BY ConcurrencyAssumption DEF AttemptInv, DeliveryTypeOK
  <2> QED
    BY <2>2, <2>3 DEF SlotsCounted
<1> QED
  BY <1>1, AttemptInvariant, PTL

\* While the scheduler serves, no package is left in state delivering without
\* an attempt that will end and be handled.
THEOREM NoneStranded == DeliverSpec => []NothingStranded
<1>1. AttemptInv => NothingStranded
  BY AttemptsNamed DEF AttemptInv, AttemptRows, NothingStranded
<1> QED
  BY <1>1, AttemptInvariant, PTL

\* The archive has every package whose delivery is recorded, or about to be.
THEOREM ArchivedFirst == DeliverSpec => []DeliveredIsArchived
<1>1. AttemptInv => DeliveredIsArchived
  <2> SUFFICES ASSUME AttemptInv PROVE DeliveredIsArchived
    OBVIOUS
  <2>1. DOMAIN events = 1..Len(events)
    BY DEF AttemptInv, DeliveryTypeOK
  <2> QED
    BY <2>1 DEF AttemptInv, AttemptRows, ChannelInv, SuccessesArchived, DeliveredIsArchived
<1> QED
  BY <1>1, AttemptInvariant, PTL

\* A snapshot in the channel or in a row is one of the attempt under way.
THEOREM ProgressCurrent == DeliverSpec => []ProgressIsCurrent
<1>1. AttemptInv => ProgressIsCurrent
  <2> SUFFICES ASSUME AttemptInv PROVE ProgressIsCurrent
    OBVIOUS
  <2>1. DOMAIN events = 1..Len(events) /\ Len(events) \in Nat
    BY DEF AttemptInv, DeliveryTypeOK
  <2>2. ASSUME NEW i \in DOMAIN events, events[i].kind = "progress"
        PROVE  /\ UnderWay(events[i].package)
               /\ \A k \in Outcomes(events[i].package) : i < k
    <3>1. events[i] \in Event /\ events[i].package \in PackageIDs
      <4>1. events[i] \in Event
        BY <2>1 DEF AttemptInv, DeliveryTypeOK
      <4> QED
        BY <4>1 DEF Event
    <3>2. \/ task[events[i].package] # "idle"
          \/ \E k \in 1..Len(events) : i < k /\ IsOutcome(events, k, events[i].package)
      BY <2>1, <2>2 DEF AttemptInv, ChannelInv, SnapshotsFirst
    <3>3. /\ Outcomes(events[i].package) = {k \in 1..Len(events) : IsOutcome(events, k, events[i].package)}
          /\ UnderWay(events[i].package) <=> events[i].package \in Busy
      BY <3>1, AttemptsNamed
    <3>4. UnderWay(events[i].package)
      BY <3>1, <3>2, <3>3 DEF Busy, Attempted
    <3>5. ASSUME NEW k \in Outcomes(events[i].package) PROVE i < k
      BY <3>1, <3>2, <3>3 DEF AttemptInv, ChannelInv, OneOutcome
    <3> QED
      BY <3>4, <3>5
  <2> QED
    BY <2>2 DEF AttemptInv, AttemptRows, ProgressIsCurrent
<1> QED
  BY <1>1, AttemptInvariant, PTL

\* The two files of a package stay on disk while an upload reads them, although
\* the packaging goroutine removes files in its own time and the power may fail.
THEOREM UploadsReadWholePackages == DeliverSpec => []FilesKeptForUpload
<1>1. DeliverInv /\ AttemptInv => FilesKeptForUpload
  <2> SUFFICES ASSUME DeliverInv, AttemptInv, NEW p \in PackageIDs, task[p] = "uploading"
               PROVE  PackageStored(p)
    BY DEF FilesKeptForUpload
  <2>1. delState[p] = "delivering"
    BY DEF AttemptInv, AttemptRows, Busy, Attempted
  <2> QED
    BY <2>1 DEF DeliverInv, IInv, RowInv, RowStates, FileInv, UndeliveredPackageKept
<1> QED
  BY <1>1, AttemptInvariant, PTL

-----------------------------------------------------------------------------
(* The archive and the store *)

\* A receipt is honoured by the whole process, whatever became of the attempts:
\* the upload, a stored sealed package, or the archive itself has the artifact.
\* What the rows promise (NoArtifactLost) and what the archive has received
\* (DeliveredIsArchived) were shown apart; together they are the promise.
THEOREM ReceiptsAlwaysHonoured == DeliverSpec => []ReceiptsHonoured
<1>1. DeliverInv /\ NoArtifactLost /\ DeliveredIsArchived => ReceiptsHonoured
  <2> SUFFICES ASSUME DeliverInv, NoArtifactLost, DeliveredIsArchived, NEW o \in receipts,
                      ~OnDisk(upload[o])
               PROVE  Sealed(o) /\ (PackageStored(packageOf[o]) \/ packageOf[o] \in archive)
    BY DEF ReceiptsHonoured
  <2>1. Sealed(o) /\ (PackageStored(packageOf[o]) \/ Archived(o))
    BY DEF NoArtifactLost
  <2>2. packageOf[o] \in PackageIDs
    BY <2>1, PackageIDsFact DEF Sealed, NoPackage, DeliverInv, IInv, TypeOK, StoreTypeOK
  <2> QED
    BY <2>1, <2>2 DEF Archived, DeliveredIsArchived
<1> QED
  BY <1>1, AttemptInvariant, DeliverLosesNothing, ArchivedFirst, PTL

\* A package that is sealed stays sealed: its ID is never reserved again, and
\* neither a build nor an isolation is ever of a sealed one.
LEMMA SealedForever ==
  ASSUME IInv, [Next]_vars, NEW p \in PackageIDs, pkgState[p] = "sealed"
  PROVE  pkgState'[p] = "sealed"
<1>t. pkgState \in [PackageIDs -> {"none", "building", "sealed", "blocked"}]
  BY DEF IInv, TypeOK, StoreTypeOK
<1>0. ASSUME UNCHANGED pkgState PROVE pkgState'[p] = "sealed"
  BY <1>0
<1>1. ASSUME pc \in BuildSteps \cup {"probe"} PROVE hand # p
  BY <1>1 DEF IInv, RowInv, HandRows
<1>2. CASE Reserve
  <2>1. hand # p
    BY <1>2, SelectionIsNew DEF Reserve, IInv, RowInv, RowTables
  <2> QED
    BY <1>0, <1>2, <1>t, <2>1 DEF Reserve, InsertPackage
<1>3. CASE Seal
  BY <1>3, <1>t DEF Seal, sealPackage
<1>4. CASE Probe \/ ProbeDenied \/ \E misread \in SUBSET Misreadable : ProbeMisreads(misread)
  BY <1>0, <1>1, <1>4, <1>t DEF Probe, ProbeDenied, ProbeMisreads, RetryBuild, Isolate, isolateInvalidMembers
<1>5. ASSUME Next, ~Reserve, ~Seal, ~Probe, ~ProbeDenied,
             ~\E misread \in SUBSET Misreadable : ProbeMisreads(misread)
      PROVE  UNCHANGED pkgState
  BY <1>5 DEF Next, Undisturbed, Scheduler, BuildCycle, SourcePurgeCycle, PackagePurgeCycle, Disruption, Clock,
    Receiver, Delivery, NextBuildingPackage, NoBuildingPackage, ScanNothing, ScanIdentity, ScanNotReady,
    ScanReady, Merge, PublishPayload, SyncPayload, PublishManifest, SyncManifest,
    NextSourceToPurge, NoSourceToPurge, UnlinkSource, SyncSource, MarkSourcePurged, MarkSourcePurgeRetry,
    NextPackagePurge, NoPackageToPurge, UnlinkPackage, SyncPackage, MarkPackagePurged, BuildFails,
    MarkPackagePurgeRetry, PurgeSourceFails, PurgePackageFails, Crash, PowerLoss, BuildBackoffElapses,
    SourceBackoffElapses, RetentionElapses, MaxWaitElapses, Accept, Index, DeliveryClaims, DeliverySucceeds,
    DeliveryFails, DeliveriesInterrupted, storeVars, dbVars
<1> QED
  BY <1>0, <1>2, <1>3, <1>4, <1>5 DEF vars, storeVars, dbVars

\* The archive only receives packages that a goroutine is uploading.
LEMMA ArchiveGrows ==
  ASSUME [DeliverNext]_deliverVars
  PROVE  \A p \in archive' : p \in archive \/ (p \in PackageIDs /\ task[p] = "uploading")
<1>1. UNCHANGED archive \/ \E p \in PackageIDs : task[p] = "uploading" /\ archive' \subseteq archive \cup {p}
  <2>1. CASE \E p \in PackageIDs : UploadSucceeds(p) \/ UploadFails(p)
    BY <2>1 DEF UploadSucceeds, UploadFails
  <2>2. CASE ~\E p \in PackageIDs : UploadSucceeds(p) \/ UploadFails(p)
    <3>1. CASE DeliveryStep
      BY <3>1 DEF DeliveryStep, DeliveryLoop, Recover, Discover, DiscoverDone, RecordProgress, RecordSuccess,
        RecordFailure, DrainDone, Claim, ClaimsDone, Poll, PackagingFailed, DiscardEvent, StopDone, uploadVars
    <3>2. CASE ~DeliveryStep
      BY <2>2, <3>2 DEF DeliverNext, DeliverWorks, PackagingStep, PackagingDisrupted, PackagingEnds,
        PackagingEndsEarly, PackagingStopped, PackagingFails, UploadStep, Uploads, ReportProgress, SendOutcome,
        DeliveryDisrupted, DeliveryDisruption, Stop, Deadlines, DeliveryClock, RetryDelayElapses,
        ReconcileIntervalElapses, ReceiverStep, ProcessDies, MachineDies, ProcessLost, deliverVars,
        deliveryVars, uploadVars
    <3> QED
      BY <3>1, <3>2
  <2> QED
    BY <2>1, <2>2
<1> QED
  BY <1>1

\* No artifact ever reaches the archive in two packages, nor in one that is not
\* sealed: retries, isolation and re-packaging never send what was sent before
\* in another package.  Inductive is that what is archived is sealed; a sealed
\* package holds its members for good.
THEOREM ArchivedPackagesFinal == DeliverSpec => []ArchivedOnce
<1> DEFINE ArchiveSealed == \A p \in archive : p \in PackageIDs /\ pkgState[p] = "sealed"
<1>1. DeliverInit => ArchiveSealed
  BY DEF DeliverInit, DeliveryInit
<1>2. DeliverInv /\ AttemptInv /\ ArchiveSealed /\ [DeliverNext]_deliverVars => ArchiveSealed'
  <2> SUFFICES ASSUME DeliverInv, AttemptInv, ArchiveSealed, [DeliverNext]_deliverVars, NEW p \in archive'
               PROVE  p \in PackageIDs /\ pkgState'[p] = "sealed"
    OBVIOUS
  <2>1. p \in archive \/ (p \in PackageIDs /\ task[p] = "uploading")
    BY ArchiveGrows
  <2>2. p \in PackageIDs /\ pkgState[p] = "sealed"
    BY <2>1 DEF AttemptInv, AttemptRows, Busy, Attempted, DeliverInv, IInv, RowInv, RowStates
  <2> QED
    BY <2>2, DeliverStepRefines, SealedForever DEF DeliverInv
<1>3. DeliverInv /\ ArchiveSealed => ArchivedOnce
  BY DEF DeliverInv, IInv, RowInv, MembershipConsistent, ArchivedOnce
<1> HIDE DEF ArchiveSealed
<1>4. DeliverSpec => []ArchiveSealed
  BY <1>1, <1>2, AttemptInvariant, PTL DEF DeliverSpec
<1> QED
  BY <1>3, <1>4, AttemptInvariant, PTL

\* Every step of the deliver process, with the deliveries it makes itself, hands
\* artifacts from upload to package to archive and never drops one.
THEOREM DeliverKeepsCustody == DeliverSpec => KeepsCustody
BY DeliverImplementsPackaging, CustodyKept, PTL DEF ImplementsPackaging
=============================================================================
