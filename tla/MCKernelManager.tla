--------------------------- MODULE MCKernelManager ---------------------------
(* Model-checking instances of RemoteMappingKernelManager. *)
EXTENDS RemoteMappingKernelManager, TLC

\* requests, ids, users and operation slots are interchangeable in safety runs
Symmetry ==
    Permutations(Requests) \cup Permutations(Ids) \cup Permutations(Users) \cup Permutations(Ops)
=============================================================================
