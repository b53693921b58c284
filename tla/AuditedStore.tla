---------------------------- MODULE AuditedStore ----------------------------
(***************************************************************************)
(* What the admin API promises of the permission tables: every write is    *)
(* one atomic change made by one administrator, and it leaves exactly one  *)
(* permissions_audit row about the row it changed. src/transport/admin/    *)
(* mod.rs: "Every write commits a permissions_audit row in the same        *)
(* transaction as the data write. Audit failure rolls back."               *)
(* PermissionsCache takes the writes to be atomic in just this sense.      *)
(***************************************************************************)
EXTENDS PermissionsStore

VARIABLE audit  \* the audit rows: id, who, about which row

auditedVars == <<storeVars, audit>>

AuditedInit == StoreInit /\ audit = {}

\* The write Write of actor a about row x, with its audit row.
Audited(a, x, Write) ==
    /\ Write
    /\ \E e \in audit' :
         /\ audit' = audit \cup {e}
         /\ e.actor = a /\ e.target = x
         /\ \A f \in audit : f.id # e.id

AuditedUserWrite(a, x) ==
    \/ Audited(a, x, UserCreate(a, RowSub[x]) /\ users'[x] = "live")
    \/ Audited(a, x, UserPatch(a, x))
    \/ Audited(a, x, UserDelete(a, x))

AuditedGrantWrite(a, g) ==
    \/ \E p \in Policies : Audited(a, g, GrantCreate(a, g, p)) \/ Audited(a, g, GrantPatch(a, g, p))
    \/ Audited(a, g, GrantDelete(a, g))

AuditedDatabaseWrite(a, d) ==
    \/ \E n \in Names : \/ Audited(a, d, DatabaseCreate(a, d, n))
                        \/ Audited(a, d, DatabasePatch(a, d, n))
    \/ Audited(a, d, DatabaseDelete(a, d))

AuditedNext == \E a \in Admins :
    \/ \E x \in UserRows : AuditedUserWrite(a, x)
    \/ \E g \in Grants : AuditedGrantWrite(a, g)
    \/ \E d \in Databases : AuditedDatabaseWrite(a, d)

AuditedSpec == AuditedInit /\ [][AuditedNext]_auditedVars
=============================================================================
