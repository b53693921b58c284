---------------------------- MODULE AdminWrites ----------------------------
(***************************************************************************)
(* The write handlers of the admin API as the transactions they run:       *)
(* src/transport/admin/{users,grants,databases}, the actor upsert of       *)
(* admin/middleware.rs and the audit row of src/audit/permissions.rs.      *)
(*                                                                         *)
(* A handler opens a transaction, reads the row as it was (the `before` of *)
(* the audit row), writes the row, upserts the administrator's own user    *)
(* row, inserts the audit row and commits. PostgreSQL runs it at READ      *)
(* COMMITTED: a SELECT takes no lock and sees what is committed at that    *)
(* moment; a write takes the row's lock, waits for the transaction that    *)
(* holds it, and then works on the row's newest version. A transaction may *)
(* fail or its client may leave at any step, which rolls it back, and a    *)
(* cycle of waiting transactions is broken by aborting one of them.        *)
(*                                                                         *)
(* A row has two columns: email and groups of a user, action and           *)
(* constraints of a grant, name and type of a database.                    *)
(***************************************************************************)
EXTENDS Integers, FiniteSets

CONSTANTS
    Txs,          \* slots for requests that run at the same time
    Subs, Admins, UserRows, RowSub, Databases, Grants, GrantRow, GrantDb, Wildcard,
    Vals,         \* values of a column
    Snapshot,     \* [Admins -> Columns]: email and groups of the admin's session
    CreateArgs,   \* bodies of POST: both columns
    PatchArgs,    \* bodies of PATCH: one column or both
    Policies,     \* the grants' columns as PermissionsStore has them
    PolicyOf,     \* [Columns -> Policies]
    None,
    MaxRequests   \* bound on the requests served

Columns == [1..2 -> Vals]
Rows == UserRows \cup Grants \cup Databases

ASSUME AdminAssumption ==
    /\ Admins \subseteq Subs
    /\ RowSub \in [UserRows -> Subs]
    /\ GrantRow \in [Grants -> UserRows]
    /\ GrantDb \in [Grants -> Databases \cup {Wildcard}]
    /\ Wildcard \notin Databases
    /\ UserRows \cap (Grants \cup Databases) = {}
    /\ Grants \cap Databases = {}
    /\ Subs \cap Rows = {}
    /\ None \notin Rows \cup Txs
    /\ Snapshot \in [Admins -> Columns]
    /\ CreateArgs \subseteq Columns
    /\ PatchArgs \subseteq UNION {[S -> Vals] : S \in (SUBSET (1..2)) \ {{}}}
    /\ PolicyOf \in [Columns -> Policies]
    /\ Policies \cap {"absent", "revoked"} = {}
    /\ Vals \cap {"absent", "deleted"} = {}
    /\ MaxRequests \in Nat

VARIABLES
    rows,    \* the committed version of each row
    newest,  \* its newest version: the lock holder's, if it wrote one
    lock,    \* the transaction that wrote the row and has not ended, or None
    log,     \* the committed rows of permissions_audit
    nextId,  \* the BIGSERIAL of permissions_audit, which no rollback resets
    tx,      \* the transaction in each slot
    served,  \* number of requests begun
    touched  \* history: rows an actor upsert wrote after their last audit row

vars == <<rows, newest, lock, log, nextId, tx, served, touched>>

Image == [st : {"absent", "live", "gone"}, val : Columns]
Live(val) == [st |-> "live", val |-> val]

\* A request as the handler holds it. on is the subject for POST /users, the
\* row for every other request; row is the one it wrote.
Idle == [pc |-> "idle", actor |-> None, op |-> None, on |-> None, arg |-> <<>>,
         before |-> None, was |-> <<>>, row |-> None, id |-> 0, raced |-> FALSE]

-----------------------------------------------------------------------------
RowsOf(u) == {x \in UserRows : RowSub[x] = u}
Seen(t, x) == IF lock[x] = t THEN newest[x] ELSE rows[x]
LiveRowsOf(t, u) == {x \in RowsOf(u) : Seen(t, x).st = "live"}
UsersRequest(t) == tx[t].on \in Subs \cup UserRows
TargetSub(t) == IF tx[t].on \in Subs THEN tx[t].on ELSE RowSub[tx[t].on]

\* COALESCE($n, column) of the UPDATEs: the columns the body leaves out keep
\* the value of the version the UPDATE found.
Coalesce(arg, val) == [c \in 1..2 |-> IF c \in DOMAIN arg THEN arg[c] ELSE val[c]]

\* The name a database gets from the request.
NewName(t) == Coalesce(tx[t].arg, Seen(t, tx[t].on).val)[1]

\* permissions_databases_server_db_name_live_idx: another live row has it.
NameTaken(t) == \E d \in Databases \ {tx[t].on} :
    Seen(t, d).st = "live" /\ Seen(t, d).val[1] = NewName(t)

\* What the next statement of t must have to itself: the row it writes, all
\* rows of a subject it upserts, every row that has or had the name it sets.
Named(n) == {d \in Databases : \E im \in {rows[d], newest[d]} : im.st = "live" /\ im.val[1] = n}
Needed(t) ==
    IF tx[t].pc = "write"
    THEN IF tx[t].on \in Subs THEN RowsOf(tx[t].on)
         ELSE IF tx[t].on \in Databases /\ tx[t].op # "delete" THEN {tx[t].on} \cup Named(NewName(t))
         ELSE {tx[t].on}
    ELSE IF tx[t].pc = "actor" THEN RowsOf(tx[t].actor) ELSE {}

WaitsFor(t, o) == o # t /\ \E x \in Needed(t) : lock[x] = o
Blocked(t) == \E o \in Txs : WaitsFor(t, o)

\* Transactions that each wait for another of the set, and no smaller set.
Closed(C) == \A t \in C : \E o \in C : WaitsFor(t, o)
Deadlocked(C) == Closed(C) /\ \A D \in (SUBSET C) \ {{}, C} : ~Closed(D)

-----------------------------------------------------------------------------
Init ==
    /\ rows \in [Rows -> Image]
    /\ \A x, y \in UserRows :
         (rows[x].st = "live" /\ rows[y].st = "live" /\ RowSub[x] = RowSub[y]) => x = y
    /\ \A g \in Grants : rows[g].st # "absent" =>
         /\ rows[GrantRow[g]].st # "absent"
         /\ GrantDb[g] # Wildcard => rows[GrantDb[g]].st # "absent"
    /\ \A c, d \in Databases :
         (rows[c].st = "live" /\ rows[d].st = "live" /\ rows[c].val[1] = rows[d].val[1]) => c = d
    /\ newest = rows
    /\ lock = [x \in Rows |-> None]
    /\ log = {}
    /\ nextId = 1
    /\ tx = [t \in Txs |-> Idle]
    /\ served = 0
    /\ touched = {}

\* A request that passed the admin gate and the body checks opens its
\* transaction. POST /grants and /databases have no row to read first; their
\* row gets an id no row and no other request has.
Begin(t, a, op, on, arg) ==
    /\ tx[t] = Idle /\ served < MaxRequests
    /\ op = "create" => /\ on \notin UserRows
                        /\ on \in Rows => /\ rows[on].st = "absent"
                                          /\ \A o \in Txs : tx[o].op = "create" => tx[o].on # on
    /\ on \in Subs => op = "create"
    /\ served' = served + 1
    /\ tx' = [tx EXCEPT ![t] = [Idle EXCEPT !.pc = IF op = "create" /\ on \notin Subs
                                                   THEN "write" ELSE "read",
                                            !.actor = a, !.op = op, !.on = on, !.arg = arg]]
    /\ UNCHANGED <<rows, newest, lock, log, nextId, touched>>

\* Mutant of Rollback: the handler returns and keeps its transaction open.
RollbackLeaks(t) ==
    /\ newest' = [x \in Rows |-> IF lock[x] = t THEN rows[x] ELSE newest[x]]
    /\ tx' = [tx EXCEPT ![t] = Idle]
    /\ UNCHANGED <<rows, lock, log, nextId, served, touched>>

\* The transaction ends without effect: an early return with 400 or 404, a
\* failed statement (500), the client gone, or the abort of a deadlock.
Rollback(t) ==
    /\ newest' = [x \in Rows |-> IF lock[x] = t THEN rows[x] ELSE newest[x]]
    /\ lock' = [x \in Rows |-> IF lock[x] = t THEN None ELSE lock[x]]
    /\ tx' = [tx EXCEPT ![t] = Idle]
    /\ UNCHANGED <<rows, log, nextId, served, touched>>

\* Mutant of ReadBefore: the SELECT forgets deleted_at IS NULL.
ReadBeforeAny(t) ==
    /\ tx[t].pc = "read"
    /\ LET found == {x \in IF tx[t].on \in Subs THEN RowsOf(tx[t].on) ELSE {tx[t].on} :
                        rows[x].st # "absent"}
       IN IF found = {} /\ tx[t].op # "create"
          THEN Rollback(t)
          ELSE /\ tx' = [tx EXCEPT ![t].pc = "write",
                                   ![t].before = IF found = {} THEN None
                                                 ELSE CHOOSE x \in found : TRUE,
                                   ![t].was = IF found = {} THEN <<>>
                                              ELSE rows[CHOOSE x \in found : TRUE].val]
               /\ UNCHANGED <<rows, newest, lock, log, nextId, served, touched>>

\* tx_get_user_by_sub, tx_get_user_by_id and their two siblings: the live
\* row, by a plain SELECT. 404 when there is none, except on POST /users.
ReadBefore(t) ==
    /\ tx[t].pc = "read"
    /\ LET found == IF tx[t].on \in Subs THEN LiveRowsOf(t, tx[t].on)
                    ELSE {x \in {tx[t].on} : Seen(t, x).st = "live"}
       IN IF found = {} /\ tx[t].op # "create"
          THEN Rollback(t)
          ELSE /\ tx' = [tx EXCEPT ![t].pc = "write",
                                   ![t].before = IF found = {} THEN None
                                                 ELSE CHOOSE x \in found : TRUE,
                                   ![t].was = IF found = {} THEN <<>>
                                              ELSE rows[CHOOSE x \in found : TRUE].val]
               /\ UNCHANGED <<rows, newest, lock, log, nextId, served, touched>>

\* t writes version im of row x and goes on to pc.
Wrote(t, x, im, pc) ==
    /\ newest' = [newest EXCEPT ![x] = im]
    /\ lock' = [lock EXCEPT ![x] = t]
    /\ tx' = [tx EXCEPT ![t].pc = pc, ![t].row = IF tx[t].pc = "write" THEN x ELSE @]
    /\ UNCHANGED <<rows, log, nextId, served, touched>>

\* INSERT ... ON CONFLICT (user_sub) WHERE deleted_at IS NULL DO UPDATE.
Upsert(t, u, val, pc) ==
    \E x \in RowsOf(u) :
        /\ IF LiveRowsOf(t, u) # {} THEN x \in LiveRowsOf(t, u) ELSE Seen(t, x).st = "absent"
        /\ Wrote(t, x, Live(val), pc)

\* Mutant of AfterWrite: no users request upserts its actor.
AfterWriteNoActor(t) == IF UsersRequest(t) THEN "audit" ELSE "actor"

\* The users handlers do not upsert the actor when the row is the actor's.
AfterWrite(t) == IF UsersRequest(t) /\ tx[t].actor = TargetSub(t) THEN "audit" ELSE "actor"

UpsertUser(t) ==
    /\ tx[t].pc = "write" /\ tx[t].on \in Subs /\ ~Blocked(t)
    /\ Upsert(t, tx[t].on, tx[t].arg, AfterWrite(t))

\* tx_create_grant: the foreign keys ask for a row, live or not (23503: 400).
InsertGrant(t) ==
    /\ tx[t].pc = "write" /\ tx[t].op = "create" /\ tx[t].on \in Grants /\ ~Blocked(t)
    /\ rows[tx[t].on].st = "absent"
    /\ LET d == GrantDb[tx[t].on]
       IN IF /\ rows[GrantRow[tx[t].on]].st # "absent"
             /\ d # Wildcard => rows[d].st # "absent"
          THEN Wrote(t, tx[t].on, Live(tx[t].arg), AfterWrite(t))
          ELSE Rollback(t)

\* tx_create_database: the name must be free (23505: 400).
InsertDatabase(t) ==
    /\ tx[t].pc = "write" /\ tx[t].op = "create" /\ tx[t].on \in Databases /\ ~Blocked(t)
    /\ rows[tx[t].on].st = "absent"
    /\ IF NameTaken(t) THEN Rollback(t)
                       ELSE Wrote(t, tx[t].on, Live(tx[t].arg), AfterWrite(t))

\* Mutant of UpdateRow: the new row is made from the one the handler read.
UpdateRowFromRead(t) ==
    /\ tx[t].pc = "write" /\ tx[t].op = "patch" /\ ~Blocked(t)
    /\ LET x == tx[t].on
       IN IF Seen(t, x).st # "live" \/ (x \in Databases /\ NameTaken(t))
          THEN Rollback(t)
          ELSE Wrote(t, x, Live(Coalesce(tx[t].arg, tx[t].was)), AfterWrite(t))

\* tx_update_*: 404 when the row is no longer live, 400 when its new name is
\* another database's.
UpdateRow(t) ==
    /\ tx[t].pc = "write" /\ tx[t].op = "patch" /\ ~Blocked(t)
    /\ LET x == tx[t].on
       IN IF Seen(t, x).st # "live" \/ (x \in Databases /\ NameTaken(t))
          THEN Rollback(t)
          ELSE Wrote(t, x, Live(Coalesce(tx[t].arg, Seen(t, x).val)), AfterWrite(t))

\* tx_soft_delete_user, tx_revoke_grant, tx_soft_delete_database.
SoftDelete(t) ==
    /\ tx[t].pc = "write" /\ tx[t].op = "delete" /\ ~Blocked(t)
    /\ LET x == tx[t].on
       IN IF Seen(t, x).st # "live"
          THEN Rollback(t)
          ELSE Wrote(t, x, [st |-> "gone", val |-> Seen(t, x).val], AfterWrite(t))

\* tx_upsert_actor: the administrator's row gets the session's columns.
UpsertActor(t) ==
    /\ tx[t].pc = "actor" /\ ~Blocked(t)
    /\ Upsert(t, tx[t].actor, Snapshot[tx[t].actor], "audit")

\* Mutant of Entry: `after` is what the handler expects, not what RETURNING
\* gave back.
EntryExpected(t) ==
    [id |-> tx[t].id, actor |-> tx[t].actor, target |-> tx[t].row,
     action |-> IF tx[t].op = "delete" THEN "delete"
                ELSE IF tx[t].before = None THEN "create" ELSE "update",
     before |-> tx[t].before, was |-> tx[t].was,
     after |-> IF tx[t].op = "delete" THEN <<>> ELSE Coalesce(tx[t].arg, tx[t].was)]

\* The audit row: POST /users is an update when it read a row, a create else;
\* `before` is NULL (None) on a create and `after` NULL (<<>>) on a delete.
Entry(t) ==
    [id |-> tx[t].id, actor |-> tx[t].actor, target |-> tx[t].row,
     action |-> IF tx[t].op = "delete" THEN "delete"
                ELSE IF tx[t].before = None THEN "create" ELSE "update",
     before |-> tx[t].before, was |-> tx[t].was,
     after |-> IF tx[t].op = "delete" THEN <<>> ELSE newest[tx[t].row].val]

\* permissions::log: the INSERT draws an id, which stays drawn.
LogAudit(t) ==
    /\ tx[t].pc = "audit"
    /\ tx' = [tx EXCEPT ![t].pc = "commit", ![t].id = nextId]
    /\ nextId' = nextId + 1
    /\ UNCHANGED <<rows, newest, lock, log, served, touched>>

\* COMMIT: the versions t wrote become the committed ones and its locks are
\* released. Others that read one of these rows now hold a stale `before`.
Commit(t) ==
    /\ tx[t].pc = "commit"
    /\ LET mine == {x \in Rows : lock[x] = t}
           Stale(o) == /\ tx[o].pc = "write"
                       /\ \/ tx[o].on \in mine
                          \/ tx[o].on \in Subs /\ RowsOf(tx[o].on) \cap mine # {}
       IN /\ rows' = [x \in Rows |-> IF x \in mine THEN newest[x] ELSE rows[x]]
          /\ lock' = [x \in Rows |-> IF x \in mine THEN None ELSE lock[x]]
          /\ log' = log \cup {Entry(t)}
          /\ touched' = (touched \ {tx[t].row}) \cup (mine \ {tx[t].row})
          /\ tx' = [o \in Txs |-> IF o = t THEN Idle
                                  ELSE IF Stale(o) THEN [tx[o] EXCEPT !.raced = TRUE] ELSE tx[o]]
    /\ UNCHANGED <<newest, nextId, served>>

\* A statement fails, the handler's future is dropped, or PostgreSQL breaks
\* a deadlock by aborting a transaction of it.
Fail(t) == tx[t] # Idle /\ Rollback(t)
DeadlockVictim(t) == (\E C \in SUBSET Txs : t \in C /\ Deadlocked(C)) /\ Rollback(t)

Args(op) == CASE op = "create" -> CreateArgs [] op = "patch" -> PatchArgs [] OTHER -> {<<>>}

\* The statements of a running transaction, in the handler's order.
Step(t) ==
    \/ ReadBefore(t)
    \/ UpsertUser(t) \/ InsertGrant(t) \/ InsertDatabase(t) \/ UpdateRow(t) \/ SoftDelete(t)
    \/ UpsertActor(t)
    \/ LogAudit(t)
    \/ Commit(t)

Next == \E t \in Txs :
    \/ \E a \in Admins, op \in {"create", "patch", "delete"}, on \in Subs \cup Rows :
         \E arg \in Args(op) : Begin(t, a, op, on, arg)
    \/ Step(t)
    \/ Fail(t)
    \/ DeadlockVictim(t)

Spec == Init /\ [][Next]_vars

\* The runtime drives every handler on that does not wait for a lock, and
\* PostgreSQL's deadlock detector runs after deadlock_timeout.
Fairness == \A t \in Txs : WF_vars(Step(t)) /\ WF_vars(DeadlockVictim(t))

-----------------------------------------------------------------------------
\* A transaction of the admin handlers at one of its statements.
TxRec == [pc : {"idle", "read", "write", "actor", "audit", "commit"},
          actor : Admins \cup {None}, op : {"create", "patch", "delete", None},
          on : Subs \cup Rows \cup {None}, arg : CreateArgs \cup PatchArgs \cup {<<>>},
          before : Rows \cup {None}, was : Columns \cup {<<>>}, row : Rows \cup {None},
          id : Nat, raced : BOOLEAN]

\* Types of the tables, the locks, the audit trail and the transactions.
TypeOK ==
    /\ rows \in [Rows -> Image]
    /\ newest \in [Rows -> Image]
    /\ lock \in [Rows -> Txs \cup {None}]
    /\ nextId \in Nat
    /\ tx \in [Txs -> TxRec]
    /\ touched \subseteq Rows
    /\ \A e \in log : e.id \in Nat /\ e.id < nextId /\ e.target \in Rows

\* The audit trail says what is in the tables: the audit row with the highest
\* id about a row records the row as it stands, however transactions overlap,
\* unless the row is an administrator's own and a later request of theirs
\* refreshed it, which tx_upsert_actor does without an audit row.
AuditTracksRow == \A e \in log :
    (\A f \in log : f.target = e.target => f.id <= e.id) =>
        \/ e.target \in touched
        \/ IF e.action = "delete" THEN rows[e.target].st = "gone"
                                  ELSE rows[e.target] = Live(e.after)

Committing(t) == tx[t].pc = "commit" /\ tx'[t] = Idle /\ log' # log

\* `before` is the row as the change found it, and `create` means there was
\* none, unless another administrator's transaction committed a change to the
\* row between the handler's SELECT and its UPDATE.
AuditExact == [][\A t \in Txs : (Committing(t) /\ ~tx[t].raced) =>
    LET e == Entry(t) IN
        IF rows[e.target].st = "absent" THEN e.action = "create"
        ELSE e.before = e.target /\ e.was = rows[e.target].val]_vars

\* Two administrators who patch different columns of one row both succeed: a
\* PATCH changes no column its body leaves out, against the version committed
\* just before it, not the one the handler had read.
PatchKeepsOthers == [][\A t \in Txs : (Committing(t) /\ tx[t].op = "patch") =>
        \A c \in (1..2) \ DOMAIN tx[t].arg : rows'[tx[t].on].val[c] = rows[tx[t].on].val[c]]_vars

\* Every request ends, two administrators editing each other's rows included.
RequestEnds == \A t \in Txs : (tx[t] # Idle) ~> (tx[t] = Idle)

-----------------------------------------------------------------------------
\* The committed tables as PermissionsStore sees them.
AsSeen(im, live, gone) == IF im.st = "live" THEN live ELSE IF im.st = "gone" THEN gone ELSE "absent"

Store == INSTANCE AuditedStore WITH
    Names <- Vals,
    users <- [x \in UserRows |-> AsSeen(rows[x], "live", "deleted")],
    grants <- [g \in Grants |-> AsSeen(rows[g], PolicyOf[rows[g].val], "revoked")],
    databases <- [d \in Databases |-> AsSeen(rows[d], rows[d].val[1], "deleted")],
    audit <- {[id |-> e.id, actor |-> e.actor, target |-> e.target] : e \in log}

\* However the transactions of the handlers interleave, fail or deadlock, the
\* committed tables change only by whole admin writes, one at a time, each
\* with exactly one audit row of its author about the row it changed: the
\* atomic writes PermissionsStore and PermissionsCache are built on.
ImplementsAuditedStore == Store!AuditedSpec
=============================================================================
