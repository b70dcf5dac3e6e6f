------------------------------ MODULE MCCluster ------------------------------
(* Instance for TLC *)
EXTENDS ClusterProcessProxy, TLC

Symmetry == Permutations(Attempts) \cup Permutations(Ids)
=============================================================================
