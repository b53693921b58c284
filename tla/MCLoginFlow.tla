---------------------------- MODULE MCLoginFlow ----------------------------
(* Finite instances of LoginFlow for TLC. *)
EXTENDS LoginFlow, TLC

\* A page on the web and one on the user's machine.
Web == [kind |-> "https", page |-> "web", port |-> 443]
Local == [kind |-> "loopback", page |-> "cb", port |-> 1]

MCUris == {Web, Local}
MCRegistrations == {{Web}}

Symmetric == Permutations(Requests) \cup Permutations(States) \cup Permutations(Codes)
    \cup Permutations(Subs)
=============================================================================
