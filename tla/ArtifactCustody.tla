-------------------------- MODULE ArtifactCustody --------------------------
(***************************************************************************)
(* What canner promises about an artifact it has issued a receipt for: at  *)
(* every moment, power losses included, it is held by at least one of the  *)
(* upload the client sent, a sealed package, and the archive.  A holder is *)
(* given up only when one further down the chain has the artifact, and the *)
(* archive, which canner never deletes from, is not given up at all.       *)
(***************************************************************************)
EXTENDS FiniteSets

CONSTANT Objects

VARIABLE custody \* the holders of each artifact

Holders == {"upload", "package", "archive"}

Init == custody = [o \in Objects |-> {}]

\* A receipt is issued for an upload.
Receive == \E o \in Objects :
  /\ custody[o] = {}
  /\ custody' = [custody EXCEPT ![o] = {"upload"}]

\* Local copies are made of artifacts canner holds: a package is sealed, or a
\* power loss undoes a removal that was not yet on disk.
Copy ==
  /\ custody' \in [Objects -> SUBSET Holders]
  /\ \A o \in Objects :
       /\ custody[o] \subseteq custody'[o]
       /\ custody[o] = {} => custody'[o] = {}
       /\ "archive" \in custody'[o] => "archive" \in custody[o]

\* A package is delivered with all its members.
Archive == \E S \in SUBSET Objects :
  /\ \A o \in S : "package" \in custody[o]
  /\ custody' = [o \in Objects |-> IF o \in S THEN custody[o] \cup {"archive"} ELSE custody[o]]

DropUpload == \E S \in SUBSET Objects :
  /\ \A o \in S : custody[o] \cap {"package", "archive"} # {}
  /\ custody' = [o \in Objects |-> IF o \in S THEN custody[o] \ {"upload"} ELSE custody[o]]

DropPackage == \E S \in SUBSET Objects :
  /\ \A o \in S : "archive" \in custody[o]
  /\ custody' = [o \in Objects |-> IF o \in S THEN custody[o] \ {"package"} ELSE custody[o]]

Next == Receive \/ Copy \/ Archive \/ DropUpload \/ DropPackage

Spec == Init /\ [][Next]_custody

\* An artifact once held is held for ever: the promise behind a receipt.
NeverDropped == [][\A o \in Objects : custody[o] # {} => custody'[o] # {}]_custody

\* The archive is the end of the chain.
ArchiveKeeps == [][\A o \in Objects : "archive" \in custody[o] => "archive" \in custody'[o]]_custody
=============================================================================
