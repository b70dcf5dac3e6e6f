----------------------------- MODULE MCContainer -----------------------------
(* Instance for TLC *)
EXTENDS ContainerProcessProxy, TLC

Symmetry == Permutations(Attempts)
=============================================================================
