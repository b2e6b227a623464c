--------------------------- MODULE UploadContract ---------------------------
(***************************************************************************)
(* What the receiver promises about one upload.  Until it is accepted it   *)
(* may be given up at any time.  Once it is accepted it is kept, whole and *)
(* with the declared content, until a package holds the artifact.          *)
(***************************************************************************)

VARIABLE status

Init == status = "none"

Create  == status = "none" /\ status' = "partial"
GiveUp  == status = "partial" /\ status' = "gone"
Accept  == status = "partial" /\ status' \in {"accepted", "packaged"}
Package == status = "accepted" /\ status' = "packaged"

Next == Create \/ GiveUp \/ Accept \/ Package

Spec == Init /\ [][Next]_status
=============================================================================
