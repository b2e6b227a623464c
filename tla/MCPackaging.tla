---------------------------- MODULE MCPackaging ----------------------------
(* Instances of Packaging for TLC: projects, sizes and thresholds. *)
EXTENDS Packaging

\* One mergewarc project whose two artifacts are each as large as a package.
PairObjects  == {1, 2}
PairProject  == [o \in PairObjects |-> 1]
PairSize     == <<1, 1>>

\* Two projects: an identity one and a mergewarc one, with an artifact each.
MixedProject == <<1, 2>>

\* One mergewarc project with three artifacts: the first two fill a package,
\* the third is as large as one.
TrioObjects  == {1, 2, 3}
TrioProject  == [o \in TrioObjects |-> 1]
TrioSize     == <<1, 1, 2>>

OnlyMerge == <<"mergewarc">>
Mixed     == <<"identity", "mergewarc">>
One       == <<1>>
Two       == <<2>>
Three     == <<3>>
OneEach   == <<1, 1>>

\* The trigger is what the artifacts fill: max_wait, which changes nothing then,
\* never passes.
LivesNext ==
  \/ Scheduler \/ Receiver \/ Delivery \/ Disruption
  \/ \E p \in PackageIDs : BuildBackoffElapses(p) \/ RetentionElapses(p)
  \/ \E o \in Objects : SourceBackoffElapses(o)

LivesSpec == Init /\ [][LivesNext]_vars

\* deliver starts on a backlog: receipts are there, not all of them indexed,
\* no package yet, and the sink never answers.
BacklogInit ==
  /\ receipts = Objects /\ indexed \in SUBSET Objects
  /\ upload = [o \in Objects |-> "durable"]
  /\ packageOf = [o \in Objects |-> NoPackage]
  /\ packagingError = {} /\ sourcePurged = {} /\ sourceBackoff = {}
  /\ pkgState = [p \in PackageIDs |-> "none"]
  /\ members = [p \in PackageIDs |-> {}]
  /\ buildBackoff = {}
  /\ purge = [p \in PackageIDs |-> "unset"]
  /\ draining = [j \in Projects |-> FALSE]
  /\ delState = [p \in PackageIDs |-> "none"]
  /\ payload = [p \in PackageIDs |-> "absent"] /\ manifest = payload
  /\ pc = "claim" /\ cursor = 1 /\ hand = {} /\ keepDraining = FALSE
  /\ aged = {}

BacklogNext == Scheduler \/ Clock \/ Receiver \/ Disruption

BacklogSpec == BacklogInit /\ [][BacklogNext]_vars

\* Fair like Packaging: what is packaged in the end must not depend on the sink.
FairBacklogSpec == BacklogSpec /\ Fairness /\ EventuallyUndisturbed
=============================================================================
