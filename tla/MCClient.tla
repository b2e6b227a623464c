------------------------------ MODULE MCClient ------------------------------
(* An instance of ClientUpload for TLC: processes die and messages get lost, *)
(* but the machine keeps its power.                                          *)
EXTENDS ClientUpload

PoweredSpec == ClientInit /\ [][PoweredNext]_allVars /\ ClientFairness
=============================================================================
