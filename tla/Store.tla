------------------------------- MODULE Store -------------------------------
(***************************************************************************)
(* The durable state the receiver and the deliver process share in         *)
(* data_dir: the rows of delivery.sqlite and the files under receipts/,    *)
(* uploads/, packages/ and package-manifests/.  Each SQL statement of the  *)
(* delivery store is an operator here; the modules of the goroutines that  *)
(* run the statements, Packaging and Delivery, extend this module.         *)
(*                                                                         *)
(* Abstractions:                                                           *)
(*  - Objects are numbered in the order of (accepted_at, object_id), the   *)
(*    order reservePackage selects in.                                     *)
(*  - A package ID is the set of its members: derivePackageID hashes the   *)
(*    members in that fixed order, with attributes that never change.      *)
(*  - Time is a flag per deadline: a row is in its back-off, or waits for  *)
(*    its retention, until a timer step says the deadline has passed.      *)
(*  - The database is durable at every commit (WAL, synchronous=FULL).  A  *)
(*    directory entry is durable only after an fsync of its directory.     *)
(***************************************************************************)
EXTENDS Integers, FiniteSets, Disk

CONSTANTS
  Objects,    \* accepted artifacts, numbered in selection order
  NProjects,  \* projects of config.json, numbered in sorted-name order
  ProjectOf,  \* the project of each object
  Packager    \* packaging.type of each project

Projects == 1..NProjects

ASSUME ObjectsAssumption == Objects \subseteq Nat
ASSUME ProjectsAssumption ==
  /\ NProjects \in Nat \ {0}
  /\ ProjectOf \in [Objects -> Projects]
  /\ Packager \in [Projects -> {"identity", "mergewarc"}]

PackageIDs == {p \in SUBSET Objects : p # {}}
NoPackage  == {}

VARIABLES
  indexed,        \* objects with a row in artifacts
  packageOf,      \* artifacts.package_id
  packagingError, \* objects whose artifacts.packaging_error is set
  sourcePurged,   \* objects whose artifacts.source_purged_at is set
  sourceBackoff,  \* objects whose next_source_purge_at is in the future
  pkgState,       \* packages.state, "none" while there is no row
  members,        \* rows of package_members
  buildBackoff,   \* packages whose next_build_at is in the future
  purge,          \* packages.next_purge_attempt_at and purged_at
  draining,       \* packaging_projects.draining
  delState,       \* deliveries.state, "none" while there is no row
  receipts,       \* objects with a receipt file
  upload,         \* the files of an object under uploads/
  payload,        \* the payload file of a package under packages/
  manifest        \* its manifest under package-manifests/

dbVars   == <<indexed, packageOf, packagingError, sourcePurged, sourceBackoff,
              pkgState, members, buildBackoff, purge, draining, delState>>
diskVars == <<receipts, upload, payload, manifest>>
storeVars == <<dbVars, diskVars>>

StoreTypeOK ==
  /\ indexed \subseteq Objects
  /\ packageOf \in [Objects -> SUBSET Objects]
  /\ packagingError \subseteq Objects
  /\ sourcePurged \subseteq Objects
  /\ sourceBackoff \subseteq Objects
  /\ pkgState \in [PackageIDs -> {"none", "building", "sealed", "blocked"}]
  /\ members \in [PackageIDs -> SUBSET Objects]
  /\ buildBackoff \subseteq PackageIDs
  /\ purge \in [PackageIDs -> {"unset", "waiting", "due", "done"}]
  /\ draining \in [Projects -> BOOLEAN]
  /\ delState \in [PackageIDs -> {"none", "pending", "delivering", "retry_wait", "delivered"}]
  /\ receipts \subseteq Objects
  /\ upload \in [Objects -> Entry]
  /\ payload \in [PackageIDs -> Entry]
  /\ manifest \in [PackageIDs -> Entry]

StoreInit ==
  /\ indexed = {} /\ packagingError = {} /\ sourcePurged = {} /\ sourceBackoff = {}
  /\ packageOf = [o \in Objects |-> NoPackage]
  /\ pkgState = [p \in PackageIDs |-> "none"]
  /\ members = [p \in PackageIDs |-> {}]
  /\ buildBackoff = {}
  /\ purge = [p \in PackageIDs |-> "unset"]
  /\ draining = [j \in Projects |-> FALSE]
  /\ delState = [p \in PackageIDs |-> "none"]
  /\ receipts = {}
  /\ upload = [o \in Objects |-> "absent"]
  /\ payload = [p \in PackageIDs |-> "absent"]
  /\ manifest = [p \in PackageIDs |-> "absent"]

-----------------------------------------------------------------------------
(* artifacts *)

\* Mutant: INSERT OR REPLACE, which gives an existing row its defaults again.
addArtifactReplaces(o) ==
  /\ indexed' = indexed \cup {o}
  /\ packageOf' = [packageOf EXCEPT ![o] = NoPackage]
  /\ packagingError' = packagingError \ {o}
  /\ sourcePurged' = sourcePurged \ {o}
  /\ sourceBackoff' = sourceBackoff \ {o}

\* INSERT ... ON CONFLICT(object_id) DO NOTHING: a new row has no package, no
\* error and no purge; a row that exists already is left as it is.
addArtifact(o) ==
  /\ indexed' = indexed \cup {o}
  /\ UNCHANGED <<packageOf, packagingError, sourcePurged, sourceBackoff>>

Candidates(j) == {o \in indexed : /\ ProjectOf[o] = j
                                  /\ packageOf[o] = NoPackage
                                  /\ o \notin packagingError}

\* Mutant: the state of the package is not asked for.
SourcesOfAnyPackage == {o \in indexed : /\ packageOf[o] # NoPackage
                                        /\ o \notin sourcePurged
                                        /\ o \notin sourceBackoff}

\* Mutant: the upload is kept until its package is delivered.
SourcesOfDelivered == {o \in indexed : /\ packageOf[o] # NoPackage
                                       /\ delState[packageOf[o]] = "delivered"
                                       /\ o \notin sourcePurged
                                       /\ o \notin sourceBackoff}

SourcesToPurge == {o \in indexed : /\ packageOf[o] # NoPackage
                                   /\ pkgState[packageOf[o]] = "sealed"
                                   /\ o \notin sourcePurged
                                   /\ o \notin sourceBackoff}

-----------------------------------------------------------------------------
(* packages and package_members *)

IsIdentity(p) == \E o \in p : Packager[ProjectOf[o]] = "identity"

BuildingPackages == {p \in PackageIDs : pkgState[p] = "building" /\ p \notin buildBackoff}

\* The INSERTs and UPDATEs of the reserving transaction.
InsertPackage(p) ==
  /\ pkgState'  = [pkgState EXCEPT ![p] = "building"]
  /\ members'   = [members EXCEPT ![p] = p]
  /\ packageOf' = [o \in Objects |-> IF o \in p THEN p ELSE packageOf[o]]
  /\ delState'  = [delState EXCEPT ![p] = "pending"]

sealPackage(p) == pkgState' = [pkgState EXCEPT ![p] = "sealed"]

markPackageBuildRetry(p) == buildBackoff' = buildBackoff \cup {p}

\* Mutant: the DELETE of the released member rows is missing.
isolateKeepsMemberRows(p, invalid) ==
  LET failed == packagingError \cup invalid IN
  /\ packagingError' = failed
  /\ packageOf' = [o \in Objects |-> IF packageOf[o] = p /\ o \notin failed
                                     THEN NoPackage ELSE packageOf[o]]
  /\ pkgState'  = [pkgState EXCEPT ![p] = "blocked"]
  /\ UNCHANGED members

\* Mutant: the package is blocked with all its members.
isolateReleasesNobody(p, invalid) ==
  /\ packagingError' = packagingError \cup invalid
  /\ pkgState' = [pkgState EXCEPT ![p] = "blocked"]
  /\ UNCHANGED <<members, packageOf>>

\* Members that cannot be merged keep their row and get an error; the others
\* are candidates again.
isolateInvalidMembers(p, invalid) ==
  LET failed == packagingError \cup invalid IN
  /\ packagingError' = failed
  /\ members'   = [members EXCEPT ![p] = @ \cap failed]
  /\ packageOf' = [o \in Objects |-> IF packageOf[o] = p /\ o \notin failed
                                     THEN NoPackage ELSE packageOf[o]]
  /\ pkgState'  = [pkgState EXCEPT ![p] = "blocked"]

PackagesToPurge == {p \in PackageIDs : /\ pkgState[p] = "sealed"
                                       /\ purge[p] = "due"
                                       /\ delState[p] = "delivered"}

-----------------------------------------------------------------------------
(* deliveries *)

\* Mutant: the join on packages.state is missing.
DeliverableUnsealed == {p \in PackageIDs : delState[p] \in {"pending", "retry_wait"}}

Deliverable == {p \in PackageIDs : /\ pkgState[p] = "sealed"
                                   /\ delState[p] \in {"pending", "retry_wait"}}

claimPackageDelivery(p) ==
  /\ p \in Deliverable
  /\ delState' = [delState EXCEPT ![p] = "delivering"]

\* One transaction: the outcome, and the start of the retention period.
markPackageDelivered(p) ==
  /\ delState[p] = "delivering"
  /\ delState' = [delState EXCEPT ![p] = "delivered"]
  /\ purge' = [purge EXCEPT ![p] = IF @ = "unset" THEN "waiting" ELSE @]

markPackageRetry(p) ==
  /\ delState[p] = "delivering"
  /\ delState' = [delState EXCEPT ![p] = "retry_wait"]

recoverInterruptedDeliveries ==
  delState' = [p \in PackageIDs |-> IF delState[p] = "delivering" THEN "retry_wait" ELSE delState[p]]
=============================================================================
