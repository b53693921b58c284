--------------------------- MODULE MCAdminWrites ---------------------------
(* A finite instance of AdminWrites for TLC. *)
EXTENDS AdminWrites, TLC

CONSTANTS alice, bob, carl, a1, a2, b1, b2, c1, c2, db1, db2, g1, g2, u, v,
          pa, pb, pc, pd

MCSubs == {alice, bob, carl}
MCUserRows == {a1, a2, b1, b2, c1, c2}
MCRowSub == (a1 :> alice) @@ (a2 :> alice) @@ (b1 :> bob) @@ (b2 :> bob) @@ (c1 :> carl) @@ (c2 :> carl)
MCGrants == {g1, g2}
MCGrantRow == (g1 :> c1) @@ (g2 :> c2)
MCGrantDb == (g1 :> db1) @@ (g2 :> Wildcard)
MCSnapshot == (alice :> <<u, v>>) @@ (bob :> <<u, u>>)
MCCreateArgs == {<<v, v>>}
MCPatchArgs == {1 :> v, 2 :> v}
MCPolicyOf == (<<u, u>> :> pa) @@ (<<u, v>> :> pb) @@ (<<v, u>> :> pc) @@ (<<v, v>> :> pd)

\* alice, carl, db1 and carl's grant are there; bob has no row yet.
MCInit ==
    /\ rows = [x \in Rows |-> [st |-> IF x \in {a1, c1, db1, g1} THEN "live" ELSE "absent",
                               val |-> <<u, u>>]]
    /\ Init

MCSpec == MCInit /\ [][Next]_vars /\ Fairness

=============================================================================
