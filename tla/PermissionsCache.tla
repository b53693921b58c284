-------------------------- MODULE PermissionsCache --------------------------
(***************************************************************************)
(* The per-subject TTL cache in front of the grant loader                  *)
(* (src/authz/cache.rs, src/authz/loader.rs) of one gateway process, with  *)
(* the tool calls that read it and the detached invalidations that admin   *)
(* writes spawn after their commit.                                        *)
(*                                                                         *)
(* A step is what runs between two await points, except that the revision  *)
(* is an atomic outside the lock: the check under the write lock and the   *)
(* insert are two steps, so that a revision bump can fall between them.    *)
(* An entry carries its age instead of its loaded_at instant; Tick ages    *)
(* every entry and saturates at Ttl, past which ages are alike.            *)
(***************************************************************************)
EXTENDS PermissionsStore

CONSTANTS
    Requests,   \* tool calls in flight
    Writers,    \* admin requests in flight, with the task each one spawns
    Ttl,        \* permissions cache TTL, in ticks
    MaxWrites,  \* bound: admin writes in one behaviour
    None

ASSUME CacheAssumption == Ttl \in Nat /\ MaxWrites \in Nat /\ None \notin Requests

VARIABLES
    cache,      \* [Subs -> None or an entry]
    revision,   \* AtomicU64
    lock,       \* the request holding the map's write lock, or None
    req,        \* [Requests -> what the call is doing]
    inval,      \* [Writers -> what is left to do after a commit]
    missed,     \* history: subjects some write changed without invalidating
    writes      \* history: writes committed so far, for MaxWrites

cacheVars == <<cache, revision, lock, req, inval, missed, writes>>
vars == <<storeVars, cacheVars>>

Listed == [grant : Grants, policy : Policies]
Granted == [grant : Grants, policy : Policies, place : Names \cup {Wildcard}]

Entries == [grants : SUBSET Granted, age : 0..Ttl]

\* pc names the next step of get_for; in "done" the result is out. The other
\* fields are the locals of get_for and load_db_grants_for.
Calls == [pc : {"idle", "rev", "user", "grants", "dbs", "check", "lock",
                "insert", "done", "failed"},
          sub : Subs \cup {None}, rev : Nat, row : UserRows \cup {None},
          list : SUBSET Listed, out : SUBSET Granted]

Idle == [pc |-> "idle", sub |-> None, rev |-> 0, row |-> None,
         list |-> {}, out |-> {}]

\* A writer is quiet, or its handler has committed, has spawned the detached
\* invalidation and answered, or the invalidation has bumped the revision.
Tasks == [stage : {"quiet", "committed", "spawned", "bumped"}, subs : SUBSET Subs]

Quiet == [stage |-> "quiet", subs |-> {}]

Init ==
    /\ StoreInit
    /\ cache = [u \in Subs |-> None]
    /\ revision = 0
    /\ lock = None
    /\ req = [r \in Requests |-> Idle]
    /\ inval = [w \in Writers |-> Quiet]
    /\ missed = {}
    /\ writes = 0

Fresh(u) == cache[u] # None /\ cache[u].age < Ttl

-----------------------------------------------------------------------------
\* PermissionsCache::get_for

\* Mutant: a hit renews loaded_at.
LookupSliding(r, u) ==
    /\ req[r] = Idle
    /\ lock = None
    /\ req' = [req EXCEPT ![r] =
                 IF Fresh(u)
                 THEN [Idle EXCEPT !.pc = "done", !.sub = u, !.out = cache[u].grants]
                 ELSE [Idle EXCEPT !.pc = "rev", !.sub = u]]
    /\ cache' = IF Fresh(u) THEN [cache EXCEPT ![u] = [@ EXCEPT !.age = 0]] ELSE cache
    /\ UNCHANGED <<storeVars, revision, lock, inval, missed, writes>>

Lookup(r, u) ==
    /\ req[r] = Idle
    /\ lock = None
    /\ req' = [req EXCEPT ![r] =
                 IF Fresh(u)
                 THEN [Idle EXCEPT !.pc = "done", !.sub = u, !.out = cache[u].grants]
                 ELSE [Idle EXCEPT !.pc = "rev", !.sub = u]]
    /\ UNCHANGED <<storeVars, cache, revision, lock, inval, missed, writes>>

LoadRevision(r) ==
    /\ req[r].pc = "rev"
    /\ req' = [req EXCEPT ![r] = [@ EXCEPT !.pc = "user", !.rev = revision]]
    /\ UNCHANGED <<storeVars, cache, revision, lock, inval, missed, writes>>

Loaded(call, out) ==
    [call EXCEPT !.pc = "check", !.row = None, !.list = {}, !.out = out]

Retry(call) == [Idle EXCEPT !.pc = "rev", !.sub = call.sub]

\* load_db_grants_for: three queries on the pool, no transaction around them.
GetUserBySub(r) ==
    /\ req[r].pc = "user"
    /\ LET rows == LiveRows(users, req[r].sub) IN
       req' = [req EXCEPT ![r] =
                 IF rows = {} THEN Loaded(@, {})
                 ELSE [@ EXCEPT !.pc = "grants", !.row = CHOOSE x \in rows : TRUE]]
    /\ UNCHANGED <<storeVars, cache, revision, lock, inval, missed, writes>>

ListGrantsForUser(r) ==
    /\ req[r].pc = "grants"
    /\ LET list == ListGrants(req[r].row) IN
       req' = [req EXCEPT ![r] =
                 IF list = {} THEN Loaded(@, {})
                 ELSE [@ EXCEPT !.pc = "dbs", !.list = list]]
    /\ UNCHANGED <<storeVars, cache, revision, lock, inval, missed, writes>>

AllLiveDatabases(r) ==
    /\ req[r].pc = "dbs"
    /\ req' = [req EXCEPT ![r] = Loaded(@, Resolve(req[r].list))]
    /\ UNCHANGED <<storeVars, cache, revision, lock, inval, missed, writes>>

\* A repository or decode error propagates: the call is denied.
LoadFails(r) ==
    /\ req[r].pc \in {"user", "grants", "dbs"}
    /\ req' = [req EXCEPT ![r] = [Idle EXCEPT !.pc = "failed"]]
    /\ UNCHANGED <<storeVars, cache, revision, lock, inval, missed, writes>>

\* Mutant: the retry reloads the grants but not the revision.
CheckOldRevision(r) ==
    /\ req[r].pc = "check"
    /\ req' = [req EXCEPT ![r] =
                 [@ EXCEPT !.pc = IF revision # req[r].rev THEN "user" ELSE "lock"]]
    /\ UNCHANGED <<storeVars, cache, revision, lock, inval, missed, writes>>

Check(r) ==
    /\ req[r].pc = "check"
    /\ req' = [req EXCEPT ![r] =
                 IF revision # req[r].rev THEN Retry(@)
                                          ELSE [@ EXCEPT !.pc = "lock"]]
    /\ UNCHANGED <<storeVars, cache, revision, lock, inval, missed, writes>>

\* Mutant: no second look at the revision once the lock is held.
LockOnly(r) ==
    /\ req[r].pc = "lock"
    /\ lock = None
    /\ lock' = r
    /\ req' = [req EXCEPT ![r] = [@ EXCEPT !.pc = "insert"]]
    /\ UNCHANGED <<storeVars, cache, revision, inval, missed, writes>>

LockAndCheck(r) ==
    /\ req[r].pc = "lock"
    /\ lock = None
    /\ \/ /\ revision = req[r].rev
          /\ lock' = r
          /\ req' = [req EXCEPT ![r] = [@ EXCEPT !.pc = "insert"]]
       \/ /\ revision # req[r].rev
          /\ req' = [req EXCEPT ![r] = Retry(@)]
          /\ UNCHANGED lock
    /\ UNCHANGED <<storeVars, cache, revision, inval, missed, writes>>

Insert(r) ==
    /\ req[r].pc = "insert"
    /\ cache' = [cache EXCEPT ![req[r].sub] = [grants |-> req[r].out, age |-> 0]]
    /\ lock' = None
    /\ req' = [req EXCEPT ![r] = [@ EXCEPT !.pc = "done", !.rev = 0]]
    /\ UNCHANGED <<storeVars, revision, inval, missed, writes>>

\* The call is over, or its client went away while it was awaiting.
Finish(r) ==
    /\ req[r].pc \notin {"idle", "insert"}
    /\ req' = [req EXCEPT ![r] = Idle]
    /\ UNCHANGED <<storeVars, cache, revision, lock, inval, missed, writes>>

-----------------------------------------------------------------------------
\* An admin transaction commits. subs is what its handler will invalidate:
\* the affected subject, or every subject for a databases write.
Commit(w, subs, Write) ==
    /\ inval[w] = Quiet
    /\ writes < MaxWrites
    /\ Write
    /\ inval' = [inval EXCEPT ![w] = [stage |-> "committed", subs |-> subs]]
    /\ writes' = writes + 1
    /\ UNCHANGED <<cache, revision, lock, req, missed>>

\* users::handlers::create alone has no invalidation hook.
CommitUserCreate(w) ==
    /\ inval[w] = Quiet
    /\ writes < MaxWrites
    /\ \E a \in Admins, u \in Subs : UserCreate(a, u)
    /\ writes' = writes + 1
    /\ UNCHANGED <<cache, revision, lock, req, inval, missed>>

CommitUserWrite(w) == \E a \in Admins, x \in UserRows :
    \/ Commit(w, {RowSub[x]}, UserPatch(a, x))
    \/ Commit(w, {RowSub[x]}, UserDelete(a, x))

CommitGrantWrite(w) == \E a \in Admins, g \in Grants :
    \/ \E p \in Policies : Commit(w, {RowSub[GrantRow[g]]}, GrantCreate(a, g, p))
    \/ \E p \in Policies : Commit(w, {RowSub[GrantRow[g]]}, GrantPatch(a, g, p))
    \/ Commit(w, {RowSub[GrantRow[g]]}, GrantDelete(a, g))

CommitDatabaseWrite(w) == \E a \in Admins, d \in Databases :
    \/ \E n \in Names : Commit(w, Subs, DatabaseCreate(a, d, n))
    \/ \E n \in Names : Commit(w, Subs, DatabasePatch(a, d, n))
    \/ Commit(w, Subs, DatabaseDelete(a, d))

\* spawn_invalidate / spawn_invalidate_all, after which the handler answers.
Spawn(w) ==
    /\ inval[w].stage = "committed"
    /\ inval' = [inval EXCEPT ![w] = [@ EXCEPT !.stage = "spawned"]]
    /\ UNCHANGED <<storeVars, cache, revision, lock, req, missed, writes>>

\* The handler was dropped while it awaited its commit, or the write is
\* another replica's or a batch tool's: no invalidation reaches this process.
Unnotified(w) ==
    /\ inval[w].stage = "committed"
    /\ inval' = [inval EXCEPT ![w] = Quiet]
    /\ missed' = missed \cup inval[w].subs
    /\ UNCHANGED <<storeVars, cache, revision, lock, req, writes>>

\* invalidate / invalidate_all: the bump, then the removal under the lock.
BumpRevision(w) ==
    /\ inval[w].stage = "spawned"
    /\ revision' = revision + 1
    /\ inval' = [inval EXCEPT ![w] = [@ EXCEPT !.stage = "bumped"]]
    /\ UNCHANGED <<storeVars, cache, lock, req, missed, writes>>

RemoveEntries(w) ==
    /\ inval[w].stage = "bumped"
    /\ lock = None
    /\ cache' = [u \in Subs |-> IF u \in inval[w].subs THEN None ELSE cache[u]]
    /\ inval' = [inval EXCEPT ![w] = Quiet]
    /\ UNCHANGED <<storeVars, revision, lock, req, missed, writes>>

Tick ==
    /\ cache' = [u \in Subs |->
                   IF Fresh(u) THEN [cache[u] EXCEPT !.age = @ + 1] ELSE cache[u]]
    /\ UNCHANGED <<storeVars, revision, lock, req, inval, missed, writes>>

-----------------------------------------------------------------------------
GetForStep(r) ==
    \/ LoadRevision(r) \/ GetUserBySub(r) \/ ListGrantsForUser(r)
    \/ AllLiveDatabases(r) \/ Check(r) \/ LockAndCheck(r) \/ Insert(r)

InvalidateStep(w) == Spawn(w) \/ BumpRevision(w) \/ RemoveEntries(w)

Next ==
    \/ \E r \in Requests :
         \/ \E u \in Subs : Lookup(r, u)
         \/ GetForStep(r)
         \/ LoadFails(r)
         \/ Finish(r)
    \/ \E w \in Writers :
         \/ CommitUserCreate(w) \/ CommitUserWrite(w)
         \/ CommitGrantWrite(w) \/ CommitDatabaseWrite(w)
         \/ InvalidateStep(w)
         \/ Unnotified(w)
    \/ Tick

Spec == Init /\ [][Next]_vars

\* The runtime polls every ready task, and time passes. Nothing is assumed
\* of clients, of the state database failing, or of new writes.
Fairness ==
    /\ \A r \in Requests : SF_vars(GetForStep(r))
    /\ \A w \in Writers : SF_vars(InvalidateStep(w))
    /\ WF_vars(Tick)

FairSpec == Spec /\ Fairness

-----------------------------------------------------------------------------
\* Types of the tables, the cache with its revision and lock (PermissionsCache in cache.rs),
\* the calls of get_for and the invalidations.
TypeOK ==
    /\ StoreTypeOK
    /\ cache \in [Subs -> {None} \cup Entries]
    /\ revision \in Nat
    /\ lock \in {None} \cup Requests
    /\ req \in [Requests -> Calls]
    /\ inval \in [Writers -> Tasks]
    /\ missed \in SUBSET Subs
    /\ writes \in 0..MaxWrites

\* An invalidation of u that has committed its write but not yet removed the
\* entry.
Pending(u) == \E w \in Writers : inval[w].stage # "quiet" /\ u \in inval[w].subs

\* No load that raced an admin write leaves its result in the cache: once
\* every invalidation concerning u has run, the entry of u is exactly what
\* the tables say. This is what the revision guard of get_for is for.
Coherent == \A u \in Subs \ missed :
    (cache[u] # None /\ ~Pending(u)) => cache[u].grants = Effective(u)

\* Whatever was missed (another replica's write, a handler dropped before it
\* could spawn), the TTL heals: when writes stop, stale grants stop being
\* served for good.
EventuallyCoherent ==
    <>[](\A u \in Subs : Fresh(u) => cache[u].grants = Effective(u))

\* The retry loop of get_for ends: no call keeps reloading for ever once the
\* writes stop.
GetForReturns == \A r \in Requests :
    req[r].pc = "rev" ~> req[r].pc \in {"idle", "done", "failed"}
=============================================================================
