---------------------------- MODULE SessionStore ----------------------------
(***************************************************************************)
(* The session store of src/auth/session.rs and its bounded, TTL-fresh     *)
(* cache, src/auth/session_cache.rs: several gateway replicas over one     *)
(* sessions table. A replica caches what it reads, a logout evicts only on *)
(* the replica that handled it, and the TTL bounds what the others serve.  *)
(*                                                                         *)
(* Time is relative: an entry carries its age and a session what is left   *)
(* of its life, both in ticks. A cached session is always an active one,   *)
(* so an entry is its age.                                                 *)
(***************************************************************************)
EXTENDS Integers, FiniteSets

CONSTANTS
    Replicas, Sessions,
    Calls,       \* create and lookup calls in flight
    Logouts,     \* revoke calls in flight
    Ttl,         \* SESSION_CACHE_TTL_SECONDS, in ticks
    Life,        \* session TTL, in ticks
    MaxEntries,  \* max_entries of the cache
    None

ASSUME SessionAssumption ==
    /\ Ttl \in Nat /\ Life \in Nat \ {0} /\ MaxEntries \in Nat \ {0}
    /\ None \notin Nat /\ None \notin Replicas \cup Sessions
    /\ IsFiniteSet(Sessions)

VARIABLES
    rows,     \* sessions table: absent, active, revoked
    life,     \* ticks until expires_at
    issued,   \* sessions whose token a client holds
    cache,    \* [Replicas -> [Sessions -> None or the age of the entry]]
    call,     \* [Calls -> a create or lookup call]
    logout,   \* [Logouts -> a revoke call]
    evicted,  \* history: [Replicas -> sessions whose revoke returned there]
    raced,    \* history: those that a call there still held as active
    quiet     \* history: ticks since the revocation of a session settled

vars == <<rows, life, issued, cache, call, logout, evicted, raced, quiet>>

\* alive and late are what the call saw when it started: late is history.
CallStates ==
    [pc : {"idle", "get", "select", "row", "insert", "remove", "granted"},
     kind : {"lookup", "create"}, rep : Replicas \cup {None},
     sess : Sessions \cup {None}, alive : BOOLEAN, late : BOOLEAN, age : 0..Ttl]

Idle == [pc |-> "idle", kind |-> "lookup", rep |-> None, sess |-> None,
         alive |-> FALSE, late |-> FALSE, age |-> 0]

LogoutStates ==
    [pc : {"idle", "remove"}, rep : Replicas \cup {None},
     sess : Sessions \cup {None}]

NoLogout == [pc |-> "idle", rep |-> None, sess |-> None]

Init ==
    /\ rows = [s \in Sessions |-> "absent"]
    /\ life = [s \in Sessions |-> Life]
    /\ issued = {}
    /\ cache = [r \in Replicas |-> [s \in Sessions |-> None]]
    /\ call = [c \in Calls |-> Idle]
    /\ logout = [v \in Logouts |-> NoLogout]
    /\ evicted = [r \in Replicas |-> {}]
    /\ raced = [r \in Replicas |-> {}]
    /\ quiet = [s \in Sessions |-> 0]

Older(age) == IF age < Ttl THEN age + 1 ELSE age

\* A revocation has settled once no query answered before it is under way.
Settled(s) ==
    rows[s] = "revoked" /\ ~\E c \in Calls : call[c].pc = "row" /\ call[c].sess = s

-----------------------------------------------------------------------------
\* SessionCache

Cached(r) == {s \in Sessions : cache[r][s] # None}

Fresh(r, s) == cache[r][s] # None /\ cache[r][s] < Ttl

\* evict_one: every stale entry, or else the oldest one. Entries of the same
\* age in ticks differ in their instants, in either order.
Evicted(r) ==
    LET stale == {s \in Cached(r) : ~Fresh(r, s)} IN
    IF stale # {}
    THEN {stale}
    ELSE {{s} : s \in {t \in Cached(r) : \A u \in Cached(r) : cache[r][u] <= cache[r][t]}}

\* SessionCache::insert of an entry stamped age ticks ago.
CacheInsert(r, s, age) ==
    \E out \in IF Cardinality(Cached(r)) >= MaxEntries /\ s \notin Cached(r)
               THEN Evicted(r) ELSE {{}} :
        cache' = [cache EXCEPT ![r] = [t \in Sessions |->
                    IF t = s THEN age ELSE IF t \in out THEN None ELSE @[t]]]

CacheRemove(r, s) == cache' = [cache EXCEPT ![r] = [@ EXCEPT ![s] = None]]

-----------------------------------------------------------------------------
\* SessionStore::create: the row, then the warm cache, then the token.

CreateRow(c, r, s) ==
    /\ call[c] = Idle
    /\ rows[s] = "absent"
    /\ rows' = [rows EXCEPT ![s] = "active"]
    /\ call' = [call EXCEPT ![c] = [Idle EXCEPT !.pc = "row", !.kind = "create",
                                    !.rep = r, !.sess = s, !.alive = TRUE]]
    /\ UNCHANGED <<life, issued, cache, logout, evicted, raced, quiet>>

\* SessionStore::lookup: now is read first, everything else later.
BeginLookup(c, r, s) ==
    /\ call[c] = Idle
    /\ s \in issued
    /\ call' = [call EXCEPT ![c] = [Idle EXCEPT !.pc = "get", !.rep = r, !.sess = s,
                  !.alive = life[s] > 0, !.late = life[s] = 0 \/ (Settled(s) /\ quiet[s] = Ttl)]]
    /\ UNCHANGED <<rows, life, issued, cache, logout, evicted, raced, quiet>>

\* Mutant: a fresh entry is served without asking is_active(now).
GetFreshOnly(c) ==
    /\ call[c].pc = "get"
    /\ call' = [call EXCEPT ![c].pc =
                  IF Fresh(call[c].rep, call[c].sess) THEN "granted" ELSE "select"]
    /\ UNCHANGED <<rows, life, issued, cache, logout, evicted, raced, quiet>>

Get(c) ==
    /\ call[c].pc = "get"
    /\ call' = [call EXCEPT ![c].pc =
                  IF Fresh(call[c].rep, call[c].sess) /\ call[c].alive
                  THEN "granted" ELSE "select"]
    /\ UNCHANGED <<rows, life, issued, cache, logout, evicted, raced, quiet>>

\* Mutant: a row is good until it expires, revoked or not.
SelectUnexpired(c) ==
    /\ call[c].pc = "select"
    /\ call' = [call EXCEPT ![c].pc =
                  IF rows[call[c].sess] # "absent" /\ call[c].alive THEN "row" ELSE "remove"]
    /\ UNCHANGED <<rows, life, issued, cache, logout, evicted, raced, quiet>>

Select(c) ==
    /\ call[c].pc = "select"
    /\ call' = [call EXCEPT ![c].pc =
                  IF rows[call[c].sess] = "active" /\ call[c].alive
                  THEN "row" ELSE "remove"]
    /\ UNCHANGED <<rows, life, issued, cache, logout, evicted, raced, quiet>>

\* The answer has arrived: SessionCache::insert stamps cached_at and queues
\* for the write lock.
Stamp(c) ==
    /\ call[c].pc = "row"
    /\ call' = [call EXCEPT ![c].pc = "insert", ![c].age = 0]
    /\ UNCHANGED <<rows, life, issued, cache, logout, evicted, raced, quiet>>

Insert(c) ==
    LET r == call[c].rep
        s == call[c].sess
    IN  /\ call[c].pc = "insert"
        /\ CacheInsert(r, s, call[c].age)
        /\ \/ /\ call[c].kind = "lookup"
              /\ call' = [call EXCEPT ![c].pc = "granted", ![c].age = 0]
              /\ UNCHANGED issued
           \/ /\ call[c].kind = "create"
              /\ call' = [call EXCEPT ![c] = Idle]
              /\ issued' = issued \cup {s}
        /\ UNCHANGED <<rows, life, logout, evicted, raced, quiet>>

RemoveInactive(c) ==
    /\ call[c].pc = "remove"
    /\ CacheRemove(call[c].rep, call[c].sess)
    /\ call' = [call EXCEPT ![c] = Idle]
    /\ UNCHANGED <<rows, life, issued, logout, evicted, raced, quiet>>

\* The call has answered, its query failed, or its client went away.
Finish(c) ==
    /\ call[c].pc # "idle"
    /\ call' = [call EXCEPT ![c] = Idle]
    /\ UNCHANGED <<rows, life, issued, cache, logout, evicted, raced, quiet>>

-----------------------------------------------------------------------------
\* SessionStore::revoke: UPDATE ... WHERE revoked_at IS NULL, then the local
\* eviction.

RevokeRow(v, r, s) ==
    /\ logout[v] = NoLogout
    /\ s \in issued
    /\ rows' = [rows EXCEPT ![s] = "revoked"]
    /\ logout' = [logout EXCEPT ![v] = [pc |-> "remove", rep |-> r, sess |-> s]]
    /\ UNCHANGED <<life, issued, cache, call, evicted, raced, quiet>>

\* A call on r that read s while it was active and will cache it.
HeldBy(c, r, s) ==
    call[c].pc \in {"row", "insert"} /\ call[c].rep = r /\ call[c].sess = s

RevokeLocal(v) ==
    LET r == logout[v].rep
        s == logout[v].sess
    IN  /\ logout[v].pc = "remove"
        /\ CacheRemove(r, s)
        /\ evicted' = [evicted EXCEPT ![r] = @ \cup {s}]
        /\ raced' = [raced EXCEPT ![r] =
                       @ \cup (IF \E c \in Calls : HeldBy(c, r, s) THEN {s} ELSE {})]
        /\ logout' = [logout EXCEPT ![v] = NoLogout]
        /\ UNCHANGED <<rows, life, issued, call, quiet>>

\* The handler is dropped between the UPDATE and the eviction.
RevokeDropped(v) ==
    /\ logout[v].pc = "remove"
    /\ logout' = [logout EXCEPT ![v] = NoLogout]
    /\ UNCHANGED <<rows, life, issued, cache, call, evicted, raced, quiet>>

-----------------------------------------------------------------------------
Restart(r) ==
    /\ cache' = [cache EXCEPT ![r] = [s \in Sessions |-> None]]
    /\ call' = [c \in Calls |-> IF call[c].rep = r THEN Idle ELSE call[c]]
    /\ logout' = [v \in Logouts |-> IF logout[v].rep = r THEN NoLogout ELSE logout[v]]
    /\ UNCHANGED <<rows, life, issued, evicted, raced, quiet>>

Tick ==
    /\ life' = [s \in Sessions |->
                  IF rows[s] # "absent" /\ life[s] > 0 THEN life[s] - 1 ELSE life[s]]
    /\ cache' = [r \in Replicas |-> [s \in Sessions |->
                   IF cache[r][s] = None THEN None ELSE Older(cache[r][s])]]
    /\ call' = [c \in Calls |->
                  IF call[c].pc = "insert" THEN [call[c] EXCEPT !.age = Older(@)]
                                           ELSE call[c]]
    /\ quiet' = [s \in Sessions |-> IF Settled(s) THEN Older(quiet[s]) ELSE 0]
    /\ UNCHANGED <<rows, issued, logout, evicted, raced>>

Next ==
    \/ \E c \in Calls :
         \/ \E r \in Replicas, s \in Sessions : CreateRow(c, r, s) \/ BeginLookup(c, r, s)
         \/ Get(c) \/ Select(c) \/ Stamp(c) \/ Insert(c) \/ RemoveInactive(c)
         \/ Finish(c)
    \/ \E v \in Logouts :
         \/ \E r \in Replicas, s \in Sessions : RevokeRow(v, r, s)
         \/ RevokeLocal(v) \/ RevokeDropped(v)
    \/ \E r \in Replicas : Restart(r)
    \/ Tick

Spec == Init /\ [][Next]_vars

-----------------------------------------------------------------------------
\* Types of the sessions table, the caches (SessionCache), the lookups and the logouts.
TypeOK ==
    /\ rows \in [Sessions -> {"absent", "active", "revoked"}]
    /\ life \in [Sessions -> 0..Life]
    /\ issued \in SUBSET Sessions
    /\ cache \in [Replicas -> [Sessions -> {None} \cup 0..Ttl]]
    /\ call \in [Calls -> CallStates]
    /\ logout \in [Logouts -> LogoutStates]
    /\ evicted \in [Replicas -> SUBSET Sessions]
    /\ raced \in [Replicas -> SUBSET Sessions]
    /\ quiet \in [Sessions -> 0..Ttl]

\* max_entries is a hard ceiling on every replica (session_cache.rs:18-20).
CacheBounded == \A r \in Replicas : Cardinality(Cached(r)) <= MaxEntries

\* "The TTL caps that window" (session_cache.rs:9-16), end to end: a request
\* that starts after the session expired, or a full TTL after its revocation
\* settled anywhere, is not authenticated by any replica.
GrantsInTime == \A c \in Calls : call[c].pc = "granted" => ~call[c].late

\* A replica that completed a logout does not cache the session again, unless
\* one of its lookups had read the row before the logout's UPDATE.
RevokedLocally == \A r \in Replicas :
    \A s \in evicted[r] \ raced[r] : cache[r][s] = None

=============================================================================
