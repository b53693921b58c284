------------------------- MODULE ConcurrencyLimiter -------------------------
(***************************************************************************)
(* The two concurrency caps of the router (src/transport/limit.rs). A      *)
(* permit lives in the request's future, so a semaphore's free permits are *)
(* its limit less the requests that have one. try_identity clones the      *)
(* identity's semaphore under the map's lock and acquires after the lock   *)
(* is released: on the multi-threaded runtime another request may look up, *)
(* and sweep, in between.                                                  *)
(***************************************************************************)
EXTENDS Naturals, FiniteSets

CONSTANTS
    Requests,
    Identities,
    Sems,          \* semaphores that may be allocated
    Global,        \* max_concurrent_requests
    PerIdentity,   \* max_concurrent_per_identity
    MaxTracked,    \* MAX_TRACKED_IDENTITIES
    None

ASSUME LimiterAssumption ==
    /\ IsFiniteSet(Requests) /\ IsFiniteSet(Identities)
    /\ Global \in Nat /\ PerIdentity \in Nat /\ MaxTracked \in Nat
    /\ None \notin Identities \cup Sems

VARIABLES
    map,       \* per_identity: identity -> semaphore, or None
    req,       \* requests: where they are, whose they are, the semaphore they cloned
    forgotten  \* history: identities swept between a clone and its acquire

vars == <<map, req, forgotten>>

Idle == [pc |-> "idle", id |-> None, sem |-> None]

InFlight == {r \in Requests : req[r].pc # "idle"}
HoldersOf(sem) == {r \in Requests : req[r].pc = "running" /\ req[r].sem = sem}
Running(id) == {r \in Requests : req[r].pc = "running" /\ req[r].id = id}
Tracked == {id \in Identities : map[id] # None}

\* An Arc<Semaphore> nobody has: its memory may be allocated again.
Unused(sem) == /\ \A id \in Identities : map[id] # sem
               /\ \A r \in Requests : req[r].sem # sem

Init ==
    /\ map = [id \in Identities |-> None]
    /\ req = [r \in Requests |-> Idle]
    /\ forgotten = {}

-----------------------------------------------------------------------------
\* enforce: the global permit, or 503. A request without an identity (the open
\* OAuth routes) goes on with the global permit alone.
TryGlobal(r, id) ==
    /\ req[r].pc = "idle"
    /\ Cardinality(InFlight) < Global
    /\ req' = [req EXCEPT ![r] =
         [Idle EXCEPT !.pc = IF id = None THEN "running" ELSE "admitted", !.id = id]]
    /\ UNCHANGED <<map, forgotten>>

\* map.retain: identities with a permit out stay.
Swept == [id \in Identities |->
            IF map[id] # None /\ HoldersOf(map[id]) # {} THEN map[id] ELSE None]

\* Identities a sweep drops while a request has their semaphore and no permit.
Forgets(kept) == {id \in Identities : map[id] # None /\ kept[id] = None /\
                    \E r \in Requests : req[r].pc = "cloned" /\ req[r].sem = map[id]}

NeedsSweep(id) == map[id] = None /\ Cardinality(Tracked) >= MaxTracked

\* Mutant: a new identity is given any semaphore.
LookUpShared(r, sem) ==
    LET id == req[r].id
        kept == IF NeedsSweep(id) THEN Swept ELSE map
    IN  /\ req[r].pc = "admitted"
        /\ kept[id] # None => sem = kept[id]
        /\ map' = [kept EXCEPT ![id] = sem]
        /\ req' = [req EXCEPT ![r].pc = "cloned", ![r].sem = sem]
        /\ forgotten' = forgotten \cup Forgets(kept)

\* try_identity, under the lock: sweep if the map is full, look up or create.
LookUp(r, sem) ==
    LET id == req[r].id
        kept == IF NeedsSweep(id) THEN Swept ELSE map
    IN  /\ req[r].pc = "admitted"
        /\ IF kept[id] = None THEN Unused(sem) ELSE sem = kept[id]
        /\ map' = [kept EXCEPT ![id] = sem]
        /\ req' = [req EXCEPT ![r].pc = "cloned", ![r].sem = sem]
        /\ forgotten' = forgotten \cup Forgets(kept)

\* Mutant: one permit too many.
AcquireOneMore(r) ==
    /\ req[r].pc = "cloned"
    /\ Cardinality(HoldersOf(req[r].sem)) <= PerIdentity
    /\ req' = [req EXCEPT ![r].pc = "running"]
    /\ UNCHANGED <<map, forgotten>>

\* try_acquire_owned, after the lock.
Acquire(r) ==
    /\ req[r].pc = "cloned"
    /\ Cardinality(HoldersOf(req[r].sem)) < PerIdentity
    /\ req' = [req EXCEPT ![r].pc = "running"]
    /\ UNCHANGED <<map, forgotten>>

\* 429: the global permit is dropped with the response.
RateLimited(r) ==
    /\ req[r].pc = "cloned"
    /\ Cardinality(HoldersOf(req[r].sem)) >= PerIdentity
    /\ req' = [req EXCEPT ![r] = Idle]
    /\ UNCHANGED <<map, forgotten>>

\* The response is complete, or the client went away at an await.
Release(r) ==
    /\ req[r].pc \in {"admitted", "running"}
    /\ req' = [req EXCEPT ![r] = Idle]
    /\ UNCHANGED <<map, forgotten>>

Next == \E r \in Requests :
    \/ \E id \in Identities \cup {None} : TryGlobal(r, id)
    \/ \E sem \in Sems : LookUp(r, sem)
    \/ Acquire(r) \/ RateLimited(r) \/ Release(r)

Spec == Init /\ [][Next]_vars

-----------------------------------------------------------------------------
\* "stops a single caller from monopolizing the global budget" (limit.rs:38-41):
\* an identity runs at most PerIdentity requests at once, unless a sweep fell
\* between the clone and the acquire of one of its requests.
IdentityCeiling == \A id \in Identities \ forgotten : Cardinality(Running(id)) <= PerIdentity

\* "one noisy agent can't ... starve other users": a 429 says that this very
\* identity has its limit of requests running.
OwnLimitOnly == [][\A r \in Requests :
    RateLimited(r) => Cardinality(Running(req[r].id)) >= PerIdentity]_vars

=============================================================================
