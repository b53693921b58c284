------------------------- MODULE MCPermissionsCache -------------------------
(* A finite instance of PermissionsCache for TLC. *)
EXTENDS PermissionsCache, TLC

CONSTANTS alice, root, a1, a2, r1, db1, db2, n1, n2, g1, g2, p1, p2

MCSubs == {alice, root}
MCUserRows == {a1, a2, r1}
MCRowSub == (a1 :> alice) @@ (a2 :> alice) @@ (r1 :> root)
MCGrants == {g1, g2}
MCGrantRow == (g1 :> a1) @@ (g2 :> r1)
MCGrantDb == (g1 :> db1) @@ (g2 :> Wildcard)

\* The tables hold alice's grant on db1 and root's own row when the gateway
\* starts; db2 and root's wildcard grant are still to be created.
MCInit ==
    /\ Init
    /\ users = (a1 :> "live") @@ (a2 :> "absent") @@ (r1 :> "live")
    /\ databases = (db1 :> n1) @@ (db2 :> "absent")
    /\ grants[g1] = p1
    /\ grants[g2] = "absent"

MCSpec == MCInit /\ [][Next]_vars
MCFairSpec == MCSpec /\ Fairness
=============================================================================
