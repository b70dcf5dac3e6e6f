------------------------------ MODULE MCSessions ------------------------------
(* Instance for TLC: POSTs with an env, session POSTs and DELETEs are interchangeable. *)
EXTENDS SessionManager

Symmetry == Permutations(WithEnv) \cup Permutations(SessionPosts) \cup Permutations(Deletes)
=============================================================================
