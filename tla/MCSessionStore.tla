--------------------------- MODULE MCSessionStore ---------------------------
(* Finite instances of SessionStore for TLC. *)
EXTENDS SessionStore, TLC

Symmetric == Permutations(Replicas) \cup Permutations(Calls) \cup Permutations(Sessions)
=============================================================================
