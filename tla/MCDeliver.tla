----------------------------- MODULE MCDeliver -----------------------------
(* Instances of Deliver for TLC. *)
EXTENDS Deliver

OneProject   == [o \in Objects |-> 1]
OneByte      == [o \in Objects |-> 1]
OnlyIdentity == <<"identity">>
OnlyMerge    == <<"mergewarc">>
One          == <<1>>

\* The process starts on two sealed packages of one artifact each whose uploads
\* are removed: what is left are their deliveries and the removal of the files.
SealedInit ==
  /\ receipts = Objects /\ indexed = Objects /\ packagingError = {}
  /\ sourcePurged = Objects /\ sourceBackoff = {} /\ buildBackoff = {}
  /\ upload = [o \in Objects |-> "absent"]
  /\ packageOf = [o \in Objects |-> {o}]
  /\ pkgState = [p \in PackageIDs |-> IF Cardinality(p) = 1 THEN "sealed" ELSE "none"]
  /\ members = [p \in PackageIDs |-> IF Cardinality(p) = 1 THEN p ELSE {}]
  /\ payload = [p \in PackageIDs |-> IF Cardinality(p) = 1 THEN "durable" ELSE "absent"]
  /\ manifest = payload
  /\ delState = [p \in PackageIDs |-> IF Cardinality(p) = 1 THEN "pending" ELSE "none"]
  /\ purge = [p \in PackageIDs |-> "unset"]
  /\ draining = [j \in Projects |-> FALSE]
  /\ pc = "claim" /\ cursor = 1 /\ hand = {} /\ keepDraining = FALSE
  /\ aged = Objects
  /\ DeliveryInit

SealedSpec == SealedInit /\ [][DeliverNext]_deliverVars

\* The same, with an archive client that never reports progress, and with
\* signals but no crash.
SilentNext ==
  /\ DeliverWorks \/ PackagingDisrupted \/ PackagingEndsEarly \/ DeliveryDisrupted
  /\ \A i \in DOMAIN events' : events'[i].kind # "progress"

SilentFairSpec ==
  SealedInit /\ [][SilentNext]_deliverVars /\ DeliverFairness /\ <>[][DeliverWorks]_deliverVars
=============================================================================
