-------------------------- MODULE MCRefreshTokens --------------------------
(* Finite instances of RefreshTokens for TLC. *)
EXTENDS RefreshTokens, TLC

Symmetric == Permutations(Requests) \cup Permutations(Chains)
                 \cup Permutations(Tokens) \cup Permutations(Subs)
=============================================================================
