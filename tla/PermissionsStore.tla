-------------------------- MODULE PermissionsStore --------------------------
(***************************************************************************)
(* The dynamic-permission tables of the state database and the writes the  *)
(* admin API commits to them: src/transport/admin/{users,grants,databases} *)
(* and the read side the resolver uses, src/state/permissions/pg.rs and    *)
(* src/authz/loader.rs.                                                    *)
(*                                                                         *)
(* A row is never removed: a user or database is soft-deleted, a grant is  *)
(* revoked, and registering the same subject again inserts a fresh row.    *)
(* One action is one committed admin transaction; a request the handler    *)
(* turns away (404, 409, 422, a rolled-back transaction) changes nothing   *)
(* and is not an action.                                                   *)
(***************************************************************************)
EXTENDS Naturals, FiniteSets

CONSTANTS
    Subs,       \* SSO subjects
    Admins,     \* the subjects that call the admin API
    UserRows,   \* ids of permissions_users rows
    RowSub,     \* [UserRows -> Subs]: user_sub of a row
    Databases,  \* ids of permissions_databases rows
    Names,      \* (server, db_name) pairs
    Grants,     \* ids of permissions_grants rows
    GrantRow,   \* [Grants -> UserRows]: user_id of a grant
    GrantDb,    \* [Grants -> Databases \cup {Wildcard}]: its target
    Wildcard,   \* target of a db_name_wildcard grant
    Policies    \* (action, constraints) of a grant

ASSUME StoreAssumption ==
    /\ Admins \subseteq Subs
    /\ RowSub \in [UserRows -> Subs]
    /\ GrantRow \in [Grants -> UserRows]
    /\ GrantDb \in [Grants -> Databases \cup {Wildcard}]
    /\ Wildcard \notin Databases
    /\ Policies \cap {"absent", "revoked"} = {}
    /\ Names \cap {"absent", "deleted"} = {}

VARIABLES
    users,      \* row state: not yet inserted, live, or soft-deleted
    grants,     \* grant state; a live grant is its policy
    databases   \* database state; a live database is its name

storeVars == <<users, grants, databases>>

StoreTypeOK ==
    /\ users \in [UserRows -> {"absent", "live", "deleted"}]
    /\ grants \in [Grants -> {"absent", "revoked"} \cup Policies]
    /\ databases \in [Databases -> {"absent", "deleted"} \cup Names]

LiveRows(us, u) == {x \in UserRows : RowSub[x] = u /\ us[x] = "live"}

\* What the schema enforces: permissions_users_user_sub_live_idx and the
\* two foreign keys of permissions_grants.
OneLiveRow == \A x, y \in UserRows :
    (users[x] = "live" /\ users[y] = "live" /\ RowSub[x] = RowSub[y]) => x = y

ForeignKeys == \A g \in Grants : grants[g] # "absent" =>
    /\ users[GrantRow[g]] # "absent"
    /\ GrantDb[g] # Wildcard => databases[GrantDb[g]] # "absent"

NamesUnique == \A c, d \in Databases :
    (databases[c] \in Names /\ databases[c] = databases[d]) => c = d

\* A gateway may start over any database the schema admits.
StoreInit ==
    /\ StoreTypeOK
    /\ OneLiveRow
    /\ ForeignKeys
    /\ NamesUnique

-----------------------------------------------------------------------------
\* INSERT ... ON CONFLICT (user_sub) WHERE deleted_at IS NULL DO UPDATE: a
\* live row keeps its id, otherwise a fresh row is inserted.
Upserted(us, u) ==
    IF LiveRows(us, u) # {}
    THEN {us}
    ELSE {[z \in UserRows |-> IF z = x THEN "live" ELSE us[z]] :
            x \in {y \in UserRows : RowSub[y] = u /\ us[y] = "absent"}}

\* The users handlers skip the actor upsert when the actor is the target.
WithActor(us, actor, target) ==
    IF actor = target THEN {us} ELSE Upserted(us, actor)

UserCreate(actor, u) ==
    /\ \E us \in Upserted(users, u) : users' \in WithActor(us, actor, u)
    /\ UNCHANGED <<grants, databases>>

\* Email and groups are columns the resolver never reads.
UserPatch(actor, x) ==
    /\ users[x] = "live"
    /\ users' \in WithActor(users, actor, RowSub[x])
    /\ UNCHANGED <<grants, databases>>

UserDelete(actor, x) ==
    /\ users[x] = "live"
    /\ users' \in WithActor([users EXCEPT ![x] = "deleted"], actor, RowSub[x])
    /\ UNCHANGED <<grants, databases>>

\* The foreign keys ask for a row, not for a live one.
GrantCreate(actor, g, p) ==
    /\ grants[g] = "absent"
    /\ users[GrantRow[g]] # "absent"
    /\ GrantDb[g] # Wildcard => databases[GrantDb[g]] # "absent"
    /\ grants' = [grants EXCEPT ![g] = p]
    /\ users' \in Upserted(users, actor)
    /\ UNCHANGED databases

GrantPatch(actor, g, p) ==
    /\ grants[g] \in Policies
    /\ grants' = [grants EXCEPT ![g] = p]
    /\ users' \in Upserted(users, actor)
    /\ UNCHANGED databases

GrantDelete(actor, g) ==
    /\ grants[g] \in Policies
    /\ grants' = [grants EXCEPT ![g] = "revoked"]
    /\ users' \in Upserted(users, actor)
    /\ UNCHANGED databases

DatabaseCreate(actor, d, n) ==
    /\ databases[d] = "absent"
    /\ \A c \in Databases : databases[c] # n
    /\ databases' = [databases EXCEPT ![d] = n]
    /\ users' \in Upserted(users, actor)
    /\ UNCHANGED grants

DatabasePatch(actor, d, n) ==
    /\ databases[d] \in Names
    /\ \A c \in Databases \ {d} : databases[c] # n
    /\ databases' = [databases EXCEPT ![d] = n]
    /\ users' \in Upserted(users, actor)
    /\ UNCHANGED grants

DatabaseDelete(actor, d) ==
    /\ databases[d] \in Names
    /\ databases' = [databases EXCEPT ![d] = "deleted"]
    /\ users' \in Upserted(users, actor)
    /\ UNCHANGED grants

-----------------------------------------------------------------------------
\* list_grants_for_user and the projection of load_db_grants_for. A grant on
\* a database that is not live is dropped.
ListGrants(x) ==
    {[grant |-> g, policy |-> grants[g]] :
        g \in {h \in Grants : GrantRow[h] = x /\ grants[h] \in Policies}}

Resolve(list) ==
    {[grant |-> e.grant, policy |-> e.policy,
      place |-> IF GrantDb[e.grant] = Wildcard THEN Wildcard
                                               ELSE databases[GrantDb[e.grant]]] :
        e \in {f \in list : \/ GrantDb[f.grant] = Wildcard
                            \/ databases[GrantDb[f.grant]] \in Names}}

\* The grants an uninterrupted load would return now.
Effective(u) == UNION {Resolve(ListGrants(x)) : x \in LiveRows(users, u)}
=============================================================================
