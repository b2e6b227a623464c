------------------------------ MODULE MCUpload ------------------------------
(* An instance of Upload for TLC.  Requests that come one after the other are *)
(* given one name, and a request names the offset 0, or the one the upload    *)
(* has when it is sent.  It may be wrong all the same by the time tusd looks. *)
EXTENDS Upload

One == CHOOSE r \in Requests : TRUE

NamedNext ==
  \/ GoesOn \/ Fails
  \/ \E r \in Requests, from \in {0, received} :
       (r = One \/ req[One] # "none") /\ Arrive(r, from)

NamedSpec ==
  UploadInit /\ [][NamedNext]_uploadVars /\ UploadFairness /\ Undisturbed
=============================================================================
