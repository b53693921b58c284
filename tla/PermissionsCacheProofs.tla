----------------------- MODULE PermissionsCacheProofs -----------------------
(***************************************************************************)
(* Coherent holds for every number of subjects, rows, requests and         *)
(* writers. Coherent alone is not inductive: it says nothing of a load in  *)
(* flight, which becomes the entry. The strengthening follows the load.    *)
(***************************************************************************)
EXTENDS PermissionsCache, TLAPS

\* An invalidation of u that has not bumped the revision yet.
Unbumped(u) == \E w \in Writers :
    inval[w].stage \in {"committed", "spawned"} /\ u \in inval[w].subs

\* Exactly the request about to insert holds the write lock.
LockInv == \A r \in Requests : req[r].pc = "insert" <=> lock = r

RevInv == \A r \in Requests : req[r].rev <= revision

\* As long as the revision a load started from stands, and nobody who changed
\* its subject is still to bump it, what the load has read is current.
Current(call) ==
    (/\ call.rev = revision
     /\ call.sub \notin missed
     /\ ~Unbumped(call.sub)) =>
        /\ call.pc \in {"grants", "dbs"} => LiveRows(users, call.sub) = {call.row}
        /\ call.pc = "dbs" => call.list = ListGrants(call.row)
        /\ call.pc \in {"check", "lock"} => call.out = Effective(call.sub)

LoadInv == \A r \in Requests : Current(req[r])

\* Past the check under the lock, a bump may come, but no removal before the
\* insert: that removal is still pending.
InsertInv == \A r \in Requests :
    (req[r].pc = "insert" /\ req[r].sub \notin missed /\ ~Pending(req[r].sub))
        => req[r].out = Effective(req[r].sub)

ActiveInv == \A r \in Requests :
    req[r].pc \notin {"idle", "failed"} => req[r].sub \in Subs

StoreInv == StoreTypeOK /\ OneLiveRow /\ ForeignKeys

IInv ==
    /\ TypeOK /\ StoreInv
    /\ LockInv /\ RevInv /\ ActiveInv
    /\ LoadInv /\ InsertInv /\ Coherent

-----------------------------------------------------------------------------
\* What an upsert does to the users table: only a subject without a live row
\* gets one, and that row is new.
Grown(us, vs) ==
    /\ vs \in [UserRows -> {"absent", "live", "deleted"}]
    /\ \A x \in UserRows : vs[x] = us[x] \/ (us[x] = "absent" /\ vs[x] = "live"
                                            /\ LiveRows(us, RowSub[x]) = {})
    /\ \A x, y \in UserRows :
         (vs[x] # us[x] /\ vs[y] # us[y] /\ RowSub[x] = RowSub[y]) => x = y

\* What a write that does not concern u leaves as it was for u.
Frame(u) ==
    /\ LiveRows(users, u) # {} => LiveRows(users', u) = LiveRows(users, u)
    /\ \A x \in UserRows : RowSub[x] = u => ListGrants(x)' = ListGrants(x)
    /\ Effective(u)' = Effective(u)

\* An upsert only adds a fresh row for a subject that has no live one.
LEMMA UpsertGrows ==
    ASSUME NEW us \in [UserRows -> {"absent", "live", "deleted"}],
           NEW u \in Subs, NEW vs \in Upserted(us, u)
    PROVE  Grown(us, vs)
<1>1. CASE LiveRows(us, u) # {}
  BY <1>1, Zenon DEF Upserted, Grown
<1>2. CASE LiveRows(us, u) = {}
  <2>1. PICK x \in UserRows : /\ RowSub[x] = u /\ us[x] = "absent"
                              /\ vs = [us EXCEPT ![x] = "live"]
    BY <1>2 DEF Upserted
  <2>2. QED  BY <1>2, <2>1, Zenon DEF Grown
<1>3. QED  BY <1>1, <1>2, Zenon

\* The actor upsert of the users handlers is an upsert or nothing.
LEMMA ActorGrows ==
    ASSUME NEW us \in [UserRows -> {"absent", "live", "deleted"}],
           NEW a \in Subs, NEW t \in Subs, NEW vs \in WithActor(us, a, t)
    PROVE  Grown(us, vs)
<1>1. CASE a = t
  BY <1>1 DEF WithActor, Grown
<1>2. CASE a # t
  BY <1>2, UpsertGrows, Zenon DEF WithActor
<1>3. QED  BY <1>1, <1>2, Zenon

\* Rows of u that at most grow, and unchanged grants and databases change none of
\* u's effective grants, because a fresh row has no grants (ForeignKeys).
LEMMA GrownFrame ==
    ASSUME StoreInv, NEW u \in Subs,
           \A x \in UserRows : RowSub[x] = u =>
              users'[x] = users[x] \/ (users[x] = "absent" /\ users'[x] = "live"
                                       /\ LiveRows(users, u) = {}),
           UNCHANGED databases,
           \A g \in Grants : RowSub[GrantRow[g]] = u => grants'[g] = grants[g]
    PROVE  Frame(u)
<1> USE StoreAssumption
<1>1. LiveRows(users, u) # {} => LiveRows(users', u) = LiveRows(users, u)
  BY Zenon DEF LiveRows, StoreInv, StoreTypeOK
<1>2. ASSUME NEW x \in UserRows, RowSub[x] = u
      PROVE  ListGrants(x)' = ListGrants(x)
  BY <1>2, Zenon DEF ListGrants
<1>3. ASSUME NEW list PROVE Resolve(list)' = Resolve(list)
  BY ZenonT(30) DEF Resolve
<1>4. CASE LiveRows(users, u) # {}
  <2>1. \A x \in LiveRows(users, u) : x \in UserRows /\ RowSub[x] = u
    BY Zenon DEF LiveRows
  <2>2. \A x \in LiveRows(users, u) : Resolve(ListGrants(x))' = Resolve(ListGrants(x))
    BY <1>2, <1>3, <2>1, Zenon DEF Resolve
  <2>3. Effective(u)' = Effective(u)
    BY <1>1, <1>4, <2>2, Zenon DEF Effective
  <2>4. QED  BY <1>1, <1>2, <2>3, Zenon DEF Frame
<1>5. CASE LiveRows(users, u) = {}
  <2>1. ASSUME NEW x \in LiveRows(users', u) PROVE Resolve(ListGrants(x))' = {}
    <3>1. x \in UserRows /\ RowSub[x] = u /\ users[x] = "absent"
      BY <1>5, <2>1, Zenon DEF LiveRows
    <3>2. ListGrants(x) = {}
      BY <3>1 DEF ListGrants, StoreInv, ForeignKeys
    <3>3. ListGrants(x)' = {}
      BY <1>2, <3>1, <3>2, Zenon
    <3>4. QED  BY <3>3, Zenon DEF Resolve
  <2>2. Effective(u) = {}
    BY <1>5, Zenon DEF Effective
  <2>3. Effective(u)' = {}
    BY <2>1, Zenon DEF Effective
  <2>4. QED  BY <1>1, <1>2, <2>2, <2>3, Zenon DEF Frame
<1>6. QED  BY <1>4, <1>5, Zenon

\* Two upserts in one transaction (target, then actor) are one growth.
LEMMA GrownTwice ==
    ASSUME NEW us \in [UserRows -> {"absent", "live", "deleted"}],
           NEW vs, NEW ws, Grown(us, vs), Grown(vs, ws)
    PROVE  Grown(us, ws)
<1>1. \A x \in UserRows : ws[x] = us[x] \/ (us[x] = "absent" /\ ws[x] = "live"
                                          /\ LiveRows(us, RowSub[x]) = {})
  BY DEF Grown, LiveRows
<1>2. \A x, y \in UserRows :
         (ws[x] # us[x] /\ ws[y] # us[y] /\ RowSub[x] = RowSub[y]) => x = y
  BY DEF Grown, LiveRows
<1>3. QED  BY <1>1, <1>2, Zenon DEF Grown

\* The partial unique index: growth keeps one live row per subject.
LEMMA GrownOneLive ==
    ASSUME NEW us \in [UserRows -> {"absent", "live", "deleted"}], NEW vs,
           Grown(us, vs),
           \A x, y \in UserRows :
              (us[x] = "live" /\ us[y] = "live" /\ RowSub[x] = RowSub[y]) => x = y
    PROVE  \A x, y \in UserRows :
              (vs[x] = "live" /\ vs[y] = "live" /\ RowSub[x] = RowSub[y]) => x = y
BY ZenonT(30) DEF Grown, LiveRows

\* users::handlers::create.
LEMMA UserCreateStep ==
    ASSUME StoreInv, NEW a \in Admins, NEW t \in Subs, UserCreate(a, t)
    PROVE  StoreInv' /\ \A u \in Subs : Frame(u)
<1> USE StoreAssumption
<1>1. PICK us \in Upserted(users, t) : users' \in WithActor(us, a, t)
  BY Zenon DEF UserCreate
<1>2. Grown(users, us)
  BY <1>1, UpsertGrows, Zenon DEF StoreInv, StoreTypeOK
<1>3. Grown(us, users')
  BY <1>1, <1>2, ActorGrows DEF Grown
<1>4. Grown(users, users')
  BY <1>2, <1>3, GrownTwice, Zenon DEF StoreInv, StoreTypeOK
<1>5. StoreInv'
  <2>1. OneLiveRow'
    BY <1>4, GrownOneLive, Zenon DEF StoreInv, StoreTypeOK, OneLiveRow
  <2>2. QED
    BY <1>4, <2>1, Zenon DEF StoreInv, StoreTypeOK, ForeignKeys, Grown, UserCreate
<1>6. ASSUME NEW u \in Subs PROVE Frame(u)
  BY <1>4, GrownFrame, Zenon DEF UserCreate, Grown
<1>7. QED  BY <1>5, <1>6, Zenon

\* users::handlers::patch and delete concern the row's own subject.
LEMMA UserWriteStep ==
    ASSUME StoreInv, NEW a \in Admins, NEW x \in UserRows,
           UserPatch(a, x) \/ UserDelete(a, x)
    PROVE  StoreInv' /\ \A u \in Subs \ {RowSub[x]} : Frame(u)
<1> USE StoreAssumption
<1>1. CASE UserPatch(a, x)
  <2>1. Grown(users, users')
    BY <1>1, ActorGrows, Zenon DEF UserPatch, StoreInv, StoreTypeOK
  <2>2. OneLiveRow'
    BY <2>1, GrownOneLive, Zenon DEF StoreInv, StoreTypeOK, OneLiveRow
  <2>3. StoreInv'
    BY <1>1, <2>1, <2>2, Zenon DEF StoreInv, StoreTypeOK, ForeignKeys, Grown, UserPatch
  <2>4. QED  BY <1>1, <2>1, <2>3, GrownFrame, Zenon DEF UserPatch, Grown
<1>2. CASE UserDelete(a, x)
  <2> DEFINE us == [users EXCEPT ![x] = "deleted"]
  <2>0. us \in [UserRows -> {"absent", "live", "deleted"}]
    BY DEF StoreInv, StoreTypeOK
  <2>1. Grown(us, users')
    BY <1>2, <2>0, ActorGrows, Zenon DEF UserDelete
  <2>2. \A y, z \in UserRows :
           (us[y] = "live" /\ us[z] = "live" /\ RowSub[y] = RowSub[z]) => y = z
    BY DEF StoreInv, StoreTypeOK, OneLiveRow
  <2>3. OneLiveRow'
    BY <2>0, <2>1, <2>2, GrownOneLive, ZenonT(30) DEF OneLiveRow
  <2>4. StoreInv'
    BY <1>2, <2>1, <2>3 DEF StoreInv, StoreTypeOK, ForeignKeys, Grown, UserDelete
  <2>5. ASSUME NEW u \in Subs \ {RowSub[x]} PROVE Frame(u)
    <3>1. \A y \in UserRows : RowSub[y] = u => us[y] = users[y]
      BY DEF StoreInv, StoreTypeOK
    <3>2. LiveRows(us, u) = LiveRows(users, u)
      BY <3>1 DEF LiveRows
    <3>3. QED  BY <1>2, <2>1, <3>1, <3>2, GrownFrame, Zenon DEF UserDelete, Grown
  <2>6. QED  BY <2>4, <2>5, Zenon
<1>3. QED  BY <1>1, <1>2, Zenon

\* The grants handlers concern the subject of the grant's row.
LEMMA GrantWriteStep ==
    ASSUME StoreInv, NEW a \in Admins, NEW g \in Grants, NEW p \in Policies,
           GrantCreate(a, g, p) \/ GrantPatch(a, g, p) \/ GrantDelete(a, g)
    PROVE  StoreInv' /\ \A u \in Subs \ {RowSub[GrantRow[g]]} : Frame(u)
<1> USE StoreAssumption
<1>1. /\ users' \in Upserted(users, a) /\ databases' = databases
      /\ \E v \in Policies \cup {"revoked"} : grants' = [grants EXCEPT ![g] = v]
      /\ users[GrantRow[g]] # "absent"
      /\ GrantDb[g] # Wildcard => databases[GrantDb[g]] # "absent"
  BY Zenon DEF GrantCreate, GrantPatch, GrantDelete, StoreInv, ForeignKeys
<1>2. Grown(users, users')
  BY <1>1, UpsertGrows, Zenon DEF StoreInv, StoreTypeOK
<1>3. OneLiveRow'
  BY <1>2, GrownOneLive DEF StoreInv, StoreTypeOK, OneLiveRow
<1>4. StoreTypeOK' /\ ForeignKeys'
  BY <1>1, <1>2 DEF StoreInv, StoreTypeOK, ForeignKeys, Grown
<1>5. ASSUME NEW u \in Subs \ {RowSub[GrantRow[g]]} PROVE Frame(u)
  <2>1. \A h \in Grants : RowSub[GrantRow[h]] = u => grants'[h] = grants[h]
    BY <1>1, Zenon DEF StoreInv, StoreTypeOK
  <2>2. QED  BY <1>1, <1>2, <2>1, GrownFrame DEF Grown
<1>6. QED  BY <1>3, <1>4, <1>5 DEF StoreInv

\* The databases handlers concern every subject; the tables stay sound.
LEMMA DatabaseWriteStep ==
    ASSUME StoreInv, NEW a \in Admins, NEW d \in Databases, NEW n \in Names,
           DatabaseCreate(a, d, n) \/ DatabasePatch(a, d, n) \/ DatabaseDelete(a, d)
    PROVE  StoreInv'
<1> USE StoreAssumption
<1>1. /\ users' \in Upserted(users, a) /\ grants' = grants
      /\ \E v \in Names \cup {"deleted"} : databases' = [databases EXCEPT ![d] = v]
  BY Zenon DEF DatabaseCreate, DatabasePatch, DatabaseDelete
<1>2. Grown(users, users')
  BY <1>1, UpsertGrows, Zenon DEF StoreInv, StoreTypeOK
<1>3. OneLiveRow'
  BY <1>2, GrownOneLive, Zenon DEF StoreInv, StoreTypeOK, OneLiveRow
<1>4. StoreTypeOK' /\ ForeignKeys'
  BY <1>1, <1>2 DEF StoreInv, StoreTypeOK, ForeignKeys, Grown
<1>5. QED  BY <1>3, <1>4, Zenon DEF StoreInv

-----------------------------------------------------------------------------
\* A commit that concerns S keeps the invariant: the subjects of S gain a
\* pending invalidation, the others see no difference.
LEMMA CommitKeeps ==
    ASSUME IInv, StoreInv', NEW S \in SUBSET Subs, NEW w \in Writers,
           \A u \in Subs \ S : Frame(u),
           inval[w] = Quiet,
           \/ inval' = [inval EXCEPT ![w] = [stage |-> "committed", subs |-> S]]
           \/ S = {} /\ inval' = inval,
           writes < MaxWrites, writes' = writes + 1,
           UNCHANGED <<cache, revision, lock, req, missed>>
    PROVE  IInv'
<1> USE StoreAssumption, CacheAssumption
<1>1. TypeOK'
  BY SMTT(30) DEF IInv, TypeOK, StoreInv, Tasks, Quiet
<1>2. \A u \in Subs : ~Unbumped(u)' => u \notin S /\ ~Unbumped(u)
  BY DEF IInv, TypeOK, Unbumped, Quiet
<1>3. \A u \in Subs : ~Pending(u)' => u \notin S /\ ~Pending(u)
  BY DEF IInv, TypeOK, Pending, Quiet
<1>4. LockInv' /\ RevInv' /\ ActiveInv'
  BY DEF IInv, LockInv, RevInv, ActiveInv
<1>5. LoadInv'
  <2> SUFFICES ASSUME NEW r \in Requests,
                      req[r].rev = revision, req[r].sub \notin missed,
                      ~Unbumped(req[r].sub)',
                      req[r].pc \in {"grants", "dbs", "check", "lock"}
               PROVE  /\ req[r].pc \in {"grants", "dbs"} =>
                           LiveRows(users', req[r].sub) = {req[r].row}
                      /\ req[r].pc = "dbs" => req[r].list = ListGrants(req[r].row)'
                      /\ req[r].pc \in {"check", "lock"} =>
                           req[r].out = Effective(req[r].sub)'
    BY Zenon DEF LoadInv, Current
  <2>1. req[r].sub \in Subs
    BY DEF IInv, ActiveInv
  <2>2. Frame(req[r].sub) /\ ~Unbumped(req[r].sub)
    BY <1>2, <2>1, Zenon
  <2>3. CASE req[r].pc \in {"grants", "dbs"}
    <3>1. LiveRows(users, req[r].sub) = {req[r].row}
      BY <2>2, <2>3, Zenon DEF IInv, LoadInv, Current
    <3>2. req[r].row \in UserRows /\ RowSub[req[r].row] = req[r].sub
      BY <3>1, Zenon DEF LiveRows
    <3>3. QED  BY <2>2, <2>3, <3>1, <3>2, Zenon DEF IInv, LoadInv, Current, Frame
  <2>4. CASE req[r].pc \in {"check", "lock"}
    BY <2>2, <2>4, Zenon DEF IInv, LoadInv, Current, Frame
  <2>5. QED  BY <2>3, <2>4
<1>6. InsertInv'
  <2> SUFFICES ASSUME NEW r \in Requests, req[r].pc = "insert",
                      req[r].sub \notin missed, ~Pending(req[r].sub)'
               PROVE  req[r].out = Effective(req[r].sub)'
    BY Zenon DEF InsertInv
  <2>1. req[r].sub \in Subs
    BY Zenon DEF IInv, ActiveInv
  <2>2. QED  BY <1>3, <2>1, Zenon DEF IInv, InsertInv, Frame
<1>7. Coherent'
  BY <1>3, Zenon DEF IInv, Coherent, Frame
<1>8. QED  BY <1>1, <1>4, <1>5, <1>6, <1>7, Zenon DEF IInv

-----------------------------------------------------------------------------
\* What the three queries of a load return is typed.
LEMMA LoadTypes ==
    ASSUME StoreTypeOK
    PROVE  /\ \A x : ListGrants(x) \in SUBSET Listed
           /\ \A list \in SUBSET Listed : Resolve(list) \in SUBSET Granted
<1> USE StoreAssumption
<1>1. \A x : ListGrants(x) \in SUBSET Listed
  BY DEF ListGrants, Listed
<1>2. \A list \in SUBSET Listed : Resolve(list) \in SUBSET Granted
  BY DEF Resolve, Listed, Granted
<1>3. QED  BY <1>1, <1>2, Zenon

\* A load with one live row in hand ends in the effective grants.
LEMMA OneRowEffective ==
    ASSUME NEW u \in Subs, NEW x, LiveRows(users, u) = {x}
    PROVE  Effective(u) = Resolve(ListGrants(x))
BY Zenon DEF Effective

\* Nothing a step of get_for or an invalidation does changes the tables.
LEMMA StoreSame ==
    ASSUME UNCHANGED storeVars, IInv
    PROVE  /\ StoreInv' /\ StoreTypeOK'
           /\ \A u : /\ Effective(u)' = Effective(u) /\ ListGrants(u)' = ListGrants(u)
                     /\ LiveRows(users', u) = LiveRows(users, u)
BY DEF IInv, StoreInv, StoreTypeOK, OneLiveRow, ForeignKeys, storeVars,
       Effective, ListGrants, Resolve, LiveRows

\* A step of get_for away from the lock keeps the invariant if the call it
\* leaves behind is typed and current.
LEMMA CallKeeps ==
    ASSUME IInv, NEW r \in Requests, NEW call \in Calls,
           req' = [req EXCEPT ![r] = call],
           UNCHANGED <<storeVars, cache, revision, lock, inval, missed, writes>>,
           req[r].pc # "insert", call.pc # "insert",
           call.rev <= revision,
           call.pc \notin {"idle", "failed"} => call.sub \in Subs,
           Current(call)
    PROVE  IInv'
<1> USE DEF IInv
<1>1. \A s \in Requests : req'[s] = IF s = r THEN call ELSE req[s]
  BY Zenon DEF TypeOK
<1>2. TypeOK' /\ StoreInv'
  BY StoreSame, ZenonT(30) DEF TypeOK
<1>3. LockInv' /\ RevInv' /\ ActiveInv'
  BY <1>1, ZenonT(30) DEF LockInv, RevInv, ActiveInv
<1>4. \A u : /\ Unbumped(u)' = Unbumped(u) /\ Pending(u)' = Pending(u)
             /\ Effective(u)' = Effective(u)
  BY StoreSame, Zenon DEF Unbumped, Pending
<1>5. LoadInv'
  <2>1. \A c : Current(c) => Current(c)'
    BY <1>4, StoreSame, Zenon DEF Current
  <2>2. QED  BY <1>1, <2>1, Zenon DEF LoadInv
<1>6. InsertInv' /\ Coherent'
  <2>1. \A s \in Requests : req'[s].pc = "insert" => req'[s] = req[s]
    BY <1>1, Zenon
  <2>2. InsertInv'
    BY <1>4, <2>1 DEF InsertInv
  <2>3. Coherent'
    BY <1>4, Zenon DEF Coherent
  <2>4. QED  BY <2>2, <2>3
<1>7. QED  BY <1>2, <1>3, <1>5, <1>6, Zenon

\* A retry starts over with the subject alone.
LEMMA RetryShape ==
    ASSUME NEW c, c.sub \in Subs
    PROVE  /\ Retry(c) \in Calls /\ Retry(c).pc = "rev"
           /\ Retry(c).rev = 0 /\ Retry(c).sub = c.sub
BY Zenon DEF Retry, Idle, Calls

\* get_for up to the check before the lock, failures and abandoned calls.
LEMMA GetForKeeps ==
    ASSUME IInv, NEW r \in Requests,
           \/ \E u \in Subs : Lookup(r, u)
           \/ LoadRevision(r) \/ GetUserBySub(r) \/ ListGrantsForUser(r)
           \/ AllLiveDatabases(r) \/ LoadFails(r) \/ Check(r) \/ Finish(r)
    PROVE  IInv'
<1> USE StoreAssumption, CacheAssumption
<1>0. /\ req[r] \in Calls /\ Idle \in Calls /\ revision \in Nat
      /\ req[r].rev <= revision /\ 0 <= revision /\ revision <= revision
      /\ req[r].pc \notin {"idle", "failed"} => req[r].sub \in Subs
      /\ Current(req[r]) /\ StoreTypeOK
  <2>1. req[r] \in Calls /\ revision \in Nat /\ StoreTypeOK
    BY Zenon DEF IInv, TypeOK
  <2>2. /\ req[r].rev <= revision /\ Current(req[r])
        /\ req[r].pc \notin {"idle", "failed"} => req[r].sub \in Subs
    BY Zenon DEF IInv, RevInv, ActiveInv, LoadInv
  <2>3. Idle \in Calls
    BY Zenon DEF Idle, Calls
  <2>4. 0 <= revision /\ revision <= revision
    BY <2>1
  <2>5. QED  BY <2>1, <2>2, <2>3, <2>4, Zenon
<1>1. ASSUME NEW u \in Subs, Lookup(r, u) PROVE IInv'
  <2> DEFINE call == IF Fresh(u)
                     THEN [Idle EXCEPT !.pc = "done", !.sub = u, !.out = cache[u].grants]
                     ELSE [Idle EXCEPT !.pc = "rev", !.sub = u]
  <2>1. Fresh(u) => cache[u].grants \in SUBSET Granted
    BY DEF IInv, TypeOK, Entries, Fresh
  <2>2. /\ call \in Calls /\ call.pc \in {"done", "rev"}
        /\ call.rev <= revision /\ call.sub = u
    <3>1. CASE Fresh(u)
      <4>1. call = [pc |-> "done", sub |-> u, rev |-> 0, row |-> None,
                    list |-> {}, out |-> cache[u].grants]
        BY <3>1, Zenon DEF Idle
      <4> HIDE DEF call
      <4>2. QED  BY <1>0, <2>1, <3>1, <4>1, Zenon DEF Calls
    <3>2. CASE ~Fresh(u)
      <4>1. call = [pc |-> "rev", sub |-> u, rev |-> 0, row |-> None,
                    list |-> {}, out |-> {}]
        BY <3>2, Zenon DEF Idle
      <4> HIDE DEF call
      <4>2. QED  BY <1>0, <4>1, Zenon DEF Calls
    <3>3. QED  BY <3>1, <3>2, Zenon
  <2>3. Current(call)
    BY <2>2, Zenon DEF Current
  <2>4. req' = [req EXCEPT ![r] = call] /\ req[r] = Idle
    BY <1>1, Zenon DEF Lookup
  <2>5. req[r].pc = "idle"
    BY <2>4 DEF Idle
  <2> HIDE DEF call
  <2>6. QED  BY <1>0, <1>1, <2>2, <2>3, <2>4, <2>5, CallKeeps, Zenon DEF Lookup
<1>2. CASE LoadRevision(r)
  <2> DEFINE call == [req[r] EXCEPT !.pc = "user", !.rev = revision]
  <2>0. call.rev = revision
    BY <1>0 DEF Calls
  <2>1. /\ call \in Calls /\ call.pc = "user" /\ call.sub = req[r].sub
    BY <1>0, ZenonT(30) DEF Calls
  <2>2. Current(call)
    BY <2>1 DEF Current
  <2>3. req' = [req EXCEPT ![r] = call] /\ req[r].pc = "rev"
    BY <1>2, Zenon DEF LoadRevision
  <2> HIDE DEF call
  <2>4. QED  BY <1>0, <1>2, <2>0, <2>1, <2>2, <2>3, CallKeeps, Zenon DEF LoadRevision
<1>3. CASE GetUserBySub(r)
  <2> DEFINE rows == LiveRows(users, req[r].sub)
  <2>1. CASE rows = {}
    <3> DEFINE call == Loaded(req[r], {})
    <3>1. /\ call \in Calls /\ call.pc = "check" /\ call.rev = req[r].rev
          /\ call.sub = req[r].sub /\ call.out = {}
      BY <1>0, Zenon DEF Calls, Loaded
    <3>2. Effective(call.sub) = {}
      BY <2>1, <3>1, Zenon DEF Effective
    <3>3. Current(call)
      BY <3>1, <3>2, Zenon DEF Current
    <3>4. req' = [req EXCEPT ![r] = call] /\ req[r].pc = "user"
      BY <1>3, <2>1, Zenon DEF GetUserBySub
    <3> HIDE DEF call
    <3>5. QED  BY <1>0, <1>3, <3>1, <3>3, <3>4, CallKeeps, Zenon DEF GetUserBySub
  <2>2. CASE rows # {}
    <3> DEFINE x == CHOOSE x \in rows : TRUE
               call == [req[r] EXCEPT !.pc = "grants", !.row = x]
    <3>1. x \in rows
      BY <2>2, Zenon
    <3>2. rows = {x} /\ x \in UserRows
      BY <3>1, ZenonT(30) DEF IInv, StoreInv, OneLiveRow, LiveRows
    <3>3. req' = [req EXCEPT ![r] = call] /\ req[r].pc = "user"
      BY <1>3, <2>2, Zenon DEF GetUserBySub
    <3> HIDE DEF x
    <3>4. /\ call \in Calls /\ call.pc = "grants" /\ call.rev = req[r].rev
          /\ call.sub = req[r].sub /\ call.row = x
      BY <1>0, <3>2, Zenon DEF Calls
    <3>5. Current(call)
      BY <3>2, <3>4, Zenon DEF Current
    <3> HIDE DEF call
    <3>6. QED  BY <1>0, <1>3, <3>3, <3>4, <3>5, CallKeeps, Zenon DEF GetUserBySub
  <2>3. QED  BY <2>1, <2>2, Zenon
<1>4. CASE ListGrantsForUser(r)
  <2> DEFINE list == ListGrants(req[r].row)
             call == IF list = {} THEN Loaded(req[r], {})
                                  ELSE [req[r] EXCEPT !.pc = "dbs", !.list = list]
  <2>1. list \in SUBSET Listed
    BY <1>0, LoadTypes, Zenon
  <2>2. req' = [req EXCEPT ![r] = call] /\ req[r].pc = "grants"
    BY <1>4, Zenon DEF ListGrantsForUser
  <2> HIDE DEF list
  <2>3. /\ call \in Calls /\ call.rev = req[r].rev /\ call.sub = req[r].sub
        /\ IF list = {} THEN call.pc = "check" /\ call.out = {}
                        ELSE call.pc = "dbs" /\ call.list = list /\ call.row = req[r].row
    BY <1>0, <2>1, Zenon DEF Calls, Loaded
  <2>4. Resolve({}) = {}
    BY Zenon DEF Resolve
  <2>5. Current(call)
    <3> HIDE DEF call
    <3>1. LiveRows(users, req[r].sub) = {req[r].row} =>
             Effective(req[r].sub) = Resolve(list)
      BY <1>0, <2>2, OneRowEffective, Zenon DEF list
    <3>2. QED  BY <1>0, <2>2, <2>3, <2>4, <3>1, Zenon DEF Current, list
  <2> HIDE DEF call
  <2>6. QED  BY <1>0, <1>4, <2>2, <2>3, <2>5, CallKeeps, Zenon DEF ListGrantsForUser
<1>5. CASE AllLiveDatabases(r)
  <2> DEFINE out == Resolve(req[r].list)
             call == Loaded(req[r], out)
  <2>1. req[r].list \in SUBSET Listed
    BY <1>0, Zenon DEF Calls
  <2>2. out \in SUBSET Granted
    BY <1>0, <2>1, LoadTypes, Zenon
  <2>3. req' = [req EXCEPT ![r] = call] /\ req[r].pc = "dbs"
    BY <1>5, Zenon DEF AllLiveDatabases
  <2> HIDE DEF out
  <2>4. /\ call \in Calls /\ call.rev = req[r].rev /\ call.sub = req[r].sub
        /\ call.pc = "check" /\ call.out = out
    BY <1>0, <2>2, Zenon DEF Calls, Loaded
  <2> HIDE DEF call
  <2>5. Current(call)
    BY <1>0, <2>3, <2>4, OneRowEffective, ZenonT(30) DEF Current, out
  <2>6. QED  BY <1>0, <1>5, <2>3, <2>4, <2>5, CallKeeps, Zenon DEF AllLiveDatabases
<1>6. CASE LoadFails(r)
  <2> DEFINE call == [Idle EXCEPT !.pc = "failed"]
  <2>1. call \in Calls /\ call.pc = "failed" /\ call.rev <= revision
    BY <1>0 DEF Idle, Calls
  <2>2. Current(call)
    BY <2>1 DEF Current
  <2>3. req' = [req EXCEPT ![r] = call] /\ req[r].pc # "insert"
    BY <1>6 DEF LoadFails
  <2> HIDE DEF call
  <2>4. QED  BY <1>6, <2>1, <2>2, <2>3, CallKeeps, Zenon DEF LoadFails
<1>7. CASE Check(r)
  <2> DEFINE call == IF revision # req[r].rev THEN Retry(req[r])
                                              ELSE [req[r] EXCEPT !.pc = "lock"]
  <2>1. /\ req' = [req EXCEPT ![r] = call] /\ req[r].pc = "check"
    BY <1>7, Zenon DEF Check
  <2>2. /\ call \in Calls /\ call.sub = req[r].sub /\ call.rev <= revision
        /\ \/ call.pc = "rev"
           \/ call.pc = "lock" /\ call.rev = req[r].rev /\ call.out = req[r].out
    <3>1. CASE revision # req[r].rev
      BY <1>0, <2>1, <3>1, RetryShape, Zenon
    <3>2. CASE revision = req[r].rev
      BY <1>0, <2>1, <3>2, Zenon DEF Calls
    <3>3. QED  BY <3>1, <3>2, Zenon
  <2> HIDE DEF call
  <2>3. Current(call)
    BY <1>0, <2>1, <2>2, Zenon DEF Current
  <2>4. QED  BY <1>0, <1>7, <2>1, <2>2, <2>3, CallKeeps, Zenon DEF Check
<1>8. CASE Finish(r)
  <2>1. Idle.pc = "idle" /\ Idle.rev <= revision
    BY <1>0, Zenon DEF Idle
  <2>2. Current(Idle)
    BY <2>1, Zenon DEF Current
  <2>3. QED  BY <1>0, <1>8, <2>1, <2>2, CallKeeps, Zenon DEF Finish
<1>9. QED  BY <1>1, <1>2, <1>3, <1>4, <1>5, <1>6, <1>7, <1>8, ZenonT(30)

\* Taking the write lock on an unchanged revision: the load is current.
LEMMA LockKeeps ==
    ASSUME IInv, NEW r \in Requests, LockAndCheck(r)
    PROVE  IInv'
<1> USE StoreAssumption, CacheAssumption
<1>0. /\ req[r] \in Calls /\ revision \in Nat /\ req[r].rev <= revision /\ 0 <= revision
      /\ req[r].pc = "lock" /\ lock = None /\ req[r].sub \in Subs /\ Current(req[r])
  BY DEF LockAndCheck, IInv, TypeOK, RevInv, ActiveInv, LoadInv
<1>1. CASE revision # req[r].rev
  <2> DEFINE call == Retry(req[r])
  <2>2. req' = [req EXCEPT ![r] = call] /\ UNCHANGED lock
    BY <1>1, Zenon DEF LockAndCheck
  <2>3. call \in Calls /\ call.pc = "rev" /\ call.rev <= revision /\ call.sub \in Subs
    BY <1>0, RetryShape, Zenon
  <2> HIDE DEF call
  <2>4. Current(call)
    BY <2>3, Zenon DEF Current
  <2>5. QED  BY <1>0, <2>2, <2>3, <2>4, CallKeeps, ZenonT(30) DEF LockAndCheck
<1>2. CASE revision = req[r].rev
  <2> DEFINE call == [req[r] EXCEPT !.pc = "insert"]
  <2>1. /\ call \in Calls /\ call.pc = "insert" /\ call.rev = req[r].rev
        /\ call.sub = req[r].sub /\ call.out = req[r].out
    BY <1>0, Zenon DEF Calls
  <2>2. /\ req' = [req EXCEPT ![r] = call] /\ lock' = r
        /\ UNCHANGED <<storeVars, cache, revision, inval, missed, writes>>
    BY <1>2, Zenon DEF LockAndCheck
  <2> HIDE DEF call
  <2>3. \A s \in Requests : req'[s] = IF s = r THEN call ELSE req[s]
    BY <2>2, Zenon DEF IInv, TypeOK
  <2>4. TypeOK' /\ StoreInv'
    BY <2>1, <2>2, StoreSame, Zenon DEF IInv, TypeOK
  <2>5. LockInv' /\ RevInv' /\ ActiveInv'
    BY <1>0, <2>1, <2>2, <2>3 DEF IInv, LockInv, RevInv, ActiveInv
  <2>6. \A u : Unbumped(u)' = Unbumped(u) /\ Pending(u)' = Pending(u)
    BY <2>2, Zenon DEF Unbumped, Pending
  <2>7. LoadInv'
    <3>1. \A c : Current(c) => Current(c)'
      BY <2>2, <2>6, StoreSame, Zenon DEF Current
    <3>2. Current(call)
      BY <2>1, Zenon DEF Current
    <3>3. QED  BY <2>3, <3>1, <3>2, Zenon DEF IInv, LoadInv
  <2>8. InsertInv'
    <3>1. \A u : Unbumped(u) => Pending(u)
      BY DEF Unbumped, Pending
    <3>2. \A u : Effective(u)' = Effective(u)
      BY <2>2, StoreSame, Zenon
    <3>3. call.sub \notin missed /\ ~Unbumped(call.sub) => call.out = Effective(call.sub)
      BY <1>0, <1>2, <2>1, Zenon DEF Current
    <3>4. ASSUME NEW s \in Requests, req'[s].pc = "insert", req'[s].sub \notin missed',
                 ~Pending(req[s].sub)'
          PROVE  req'[s].out = Effective(req[s].sub)'
      <4>1. CASE s = r
        BY <2>2, <2>3, <2>6, <3>1, <3>2, <3>3, <3>4, <4>1
      <4>2. CASE s # r
        BY <2>2, <2>3, <2>6, <3>2, <3>4, <4>2 DEF IInv, InsertInv
      <4>3. QED  BY <4>1, <4>2, Zenon
    <3>5. QED  BY <3>4, Zenon DEF InsertInv
  <2>9. Coherent'
    BY <2>2, <2>6, StoreSame, Zenon DEF IInv, Coherent
  <2>10. QED  BY <2>4, <2>5, <2>7, <2>8, <2>9, Zenon DEF IInv
<1>3. QED  BY <1>1, <1>2, ZenonT(30)

\* The entry inserted is current, or an invalidation that will remove it is
\* pending.
LEMMA InsertKeeps ==
    ASSUME IInv, NEW r \in Requests, Insert(r)
    PROVE  IInv'
<1> USE StoreAssumption, CacheAssumption
<1> DEFINE call == [req[r] EXCEPT !.pc = "done", !.rev = 0]
           entry == [grants |-> req[r].out, age |-> 0]
<1>0. /\ req[r] \in Calls /\ revision \in Nat /\ 0 <= revision
      /\ req[r].pc = "insert" /\ lock = r /\ req[r].sub \in Subs
  BY DEF Insert, IInv, TypeOK, LockInv, ActiveInv
<1>1. /\ req' = [req EXCEPT ![r] = call] /\ lock' = None
      /\ cache' = [cache EXCEPT ![req[r].sub] = entry]
      /\ UNCHANGED <<storeVars, revision, inval, missed, writes>>
  BY DEF Insert
<1>2. call \in Calls /\ call.pc = "done" /\ call.rev = 0 /\ call.sub = req[r].sub
  BY <1>0, ZenonT(30) DEF Calls
<1>3. entry \in Entries /\ entry.grants = req[r].out
  BY <1>0 DEF Entries, Calls
<1> HIDE DEF call, entry
<1>4. /\ \A s \in Requests : req'[s] = IF s = r THEN call ELSE req[s]
      /\ \A u \in Subs : cache'[u] = IF u = req[r].sub THEN entry ELSE cache[u]
  BY <1>1, Zenon DEF IInv, TypeOK
<1>5. TypeOK' /\ StoreInv'
  BY <1>0, <1>1, <1>2, <1>3, StoreSame, Zenon DEF IInv, TypeOK
<1>6. LockInv' /\ RevInv' /\ ActiveInv'
  BY <1>0, <1>1, <1>2, <1>4 DEF IInv, LockInv, RevInv, ActiveInv
<1>7. \A u : Unbumped(u)' = Unbumped(u) /\ Pending(u)' = Pending(u)
  BY <1>1, Zenon DEF Unbumped, Pending
<1>8. LoadInv' /\ InsertInv'
  <2>1. \A c : Current(c) => Current(c)'
    BY <1>1, <1>7, StoreSame, Zenon DEF Current
  <2>2. Current(call)
    BY <1>2, Zenon DEF Current
  <2>3. LoadInv'
    BY <1>4, <2>1, <2>2, Zenon DEF IInv, LoadInv
  <2>4. InsertInv'
    BY <1>1, <1>2, <1>4, <1>7, StoreSame DEF IInv, InsertInv
  <2>5. QED  BY <2>3, <2>4, Zenon
<1>9. Coherent'
  <2>1. missed' = missed /\ \A u : Effective(u)' = Effective(u)
    BY <1>1, StoreSame, Zenon
  <2>2. ASSUME NEW u \in Subs \ missed, cache'[u] # None, ~Pending(u)
        PROVE  cache'[u].grants = Effective(u)
    <3>1. CASE u = req[r].sub
      BY <1>0, <1>3, <1>4, <2>2, <3>1, Zenon DEF IInv, InsertInv
    <3>2. CASE u # req[r].sub
      BY <1>4, <2>2, <3>2, ZenonT(30) DEF IInv, Coherent
    <3>3. QED  BY <3>1, <3>2, Zenon
  <2>3. QED  BY <1>7, <2>1, <2>2, Zenon DEF Coherent
<1>10. QED  BY <1>5, <1>6, <1>8, <1>9, Zenon DEF IInv

\* Steps of a detached invalidation before it bumps the revision. A write
\* that nobody will announce is set aside in missed.
LEMMA AnnounceKeeps ==
    ASSUME IInv, NEW w \in Writers, Spawn(w) \/ Unnotified(w)
    PROVE  IInv'
<1> USE StoreAssumption, CacheAssumption
<1>1. /\ UNCHANGED <<storeVars, cache, revision, lock, req, writes>>
      /\ inval[w] \in Tasks /\ inval[w].stage = "committed"
  BY DEF Spawn, Unnotified, IInv, TypeOK
<1>2. /\ TypeOK' /\ StoreInv'
      /\ \A u \in Subs : u \notin missed' =>
           /\ u \notin missed
           /\ ~Unbumped(u)' => ~Unbumped(u)
           /\ ~Pending(u)' => ~Pending(u)
  <2>1. CASE Spawn(w)
    <3>1. inval'[w].stage = "spawned" /\ inval'[w].subs = inval[w].subs
      BY <1>1, <2>1, Zenon DEF Spawn, IInv, TypeOK, Tasks
    <3>2. inval' \in [Writers -> Tasks] /\ \A v \in Writers \ {w} : inval'[v] = inval[v]
      BY <1>1, <2>1, Zenon DEF Spawn, IInv, TypeOK, Tasks
    <3>3. missed' = missed
      BY <2>1, Zenon DEF Spawn
    <3>4. TypeOK' /\ StoreInv'
      BY <1>1, <3>2, <3>3, StoreSame, Zenon DEF IInv, TypeOK
    <3>5. QED  BY <3>1, <3>2, <3>3, <3>4, ZenonT(30) DEF Unbumped, Pending
  <2>2. CASE Unnotified(w)
    <3>1. inval' = [inval EXCEPT ![w] = Quiet] /\ missed' = missed \cup inval[w].subs
      BY <2>2, Zenon DEF Unnotified
    <3>2. Quiet \in Tasks /\ inval[w].subs \in SUBSET Subs
      BY <1>1, Zenon DEF Quiet, Tasks
    <3>3. TypeOK' /\ StoreInv'
      BY <1>1, <3>1, <3>2, StoreSame, Zenon DEF IInv, TypeOK
    <3>4. \A v \in Writers \ {w} : inval'[v] = inval[v]
      BY <3>1, Zenon DEF IInv, TypeOK
    <3>5. QED  BY <3>1, <3>2, <3>3, <3>4, Zenon DEF Unbumped, Pending
  <2>3. QED  BY <2>1, <2>2, Zenon
<1>3. LockInv' /\ RevInv' /\ ActiveInv'
  BY <1>1, Zenon DEF IInv, LockInv, RevInv, ActiveInv
<1>4. LoadInv'
  <2> SUFFICES ASSUME NEW r \in Requests,
                      req[r].rev = revision, req[r].sub \notin missed',
                      ~Unbumped(req[r].sub)',
                      req[r].pc \in {"grants", "dbs", "check", "lock"}
               PROVE  /\ req[r].pc \in {"grants", "dbs"} =>
                           LiveRows(users', req[r].sub) = {req[r].row}
                      /\ req[r].pc = "dbs" => req[r].list = ListGrants(req[r].row)'
                      /\ req[r].pc \in {"check", "lock"} =>
                           req[r].out = Effective(req[r].sub)'
    BY <1>1, Zenon DEF LoadInv, Current
  <2>1. req[r].sub \in Subs
    BY DEF IInv, ActiveInv
  <2>2. ~Unbumped(req[r].sub) /\ req[r].sub \notin missed
    BY <1>1, <1>2, <2>1, Zenon
  <2>3. QED  BY <1>1, <2>2, StoreSame, ZenonT(30) DEF IInv, LoadInv, Current
<1>5. InsertInv'
  <2> SUFFICES ASSUME NEW r \in Requests, req[r].pc = "insert",
                      req[r].sub \notin missed', ~Pending(req[r].sub)'
               PROVE  req[r].out = Effective(req[r].sub)'
    BY <1>1, Zenon DEF InsertInv
  <2>1. req[r].sub \in Subs
    BY Zenon DEF IInv, ActiveInv
  <2>2. ~Pending(req[r].sub) /\ req[r].sub \notin missed
    BY <1>1, <1>2, <2>1, Zenon
  <2>3. QED  BY <1>1, <2>2, StoreSame, ZenonT(30) DEF IInv, InsertInv
<1>6. Coherent'
  <2> SUFFICES ASSUME NEW u \in Subs \ missed', cache[u] # None, ~Pending(u)'
               PROVE  cache[u].grants = Effective(u)'
    BY <1>1, Zenon DEF Coherent
  <2>1. ~Pending(u) /\ u \in Subs \ missed
    BY <1>2, Zenon
  <2>2. QED  BY <1>1, <2>1, StoreSame, Zenon DEF IInv, Coherent
<1>7. QED  BY <1>2, <1>3, <1>4, <1>5, <1>6 DEF IInv

\* The bump outdates every load in flight.
LEMMA BumpKeeps ==
    ASSUME IInv, NEW w \in Writers, BumpRevision(w)
    PROVE  IInv'
<1> USE StoreAssumption, CacheAssumption
<1>1. /\ UNCHANGED <<storeVars, cache, lock, req, missed, writes>>
      /\ inval[w] \in Tasks /\ inval[w].stage = "spawned"
      /\ revision \in Nat /\ revision' = revision + 1
  BY Zenon DEF BumpRevision, IInv, TypeOK
<1>2. /\ inval'[w].stage = "bumped" /\ inval'[w].subs = inval[w].subs
      /\ inval' \in [Writers -> Tasks]
      /\ \A v \in Writers \ {w} : inval'[v] = inval[v]
  BY <1>1, Zenon DEF BumpRevision, IInv, TypeOK, Tasks
<1>3. TypeOK' /\ StoreInv'
  BY <1>1, <1>2, StoreSame DEF IInv, TypeOK
<1>4. \A r \in Requests : req[r].rev \in Nat /\ req[r].rev <= revision
  BY Zenon DEF IInv, TypeOK, Calls, RevInv
<1>5. \A r \in Requests : req[r].rev # revision' /\ req[r].rev <= revision'
  BY <1>1, <1>4
<1>6. LockInv' /\ RevInv' /\ ActiveInv'
  BY <1>1, <1>5, Zenon DEF IInv, LockInv, RevInv, ActiveInv
<1>7. LoadInv'
  BY <1>1, <1>5, Zenon DEF LoadInv, Current
<1>8. \A u : Pending(u)' = Pending(u)
  BY <1>1, <1>2, Zenon DEF Pending
<1>9. InsertInv' /\ Coherent'
  BY <1>1, <1>8, StoreSame, Zenon DEF IInv, InsertInv, Coherent
<1>10. QED  BY <1>3, <1>6, <1>7, <1>9, ZenonT(30) DEF IInv

\* The removal needs the lock, so it comes before or after an insert.
LEMMA RemoveKeeps ==
    ASSUME IInv, NEW w \in Writers, RemoveEntries(w)
    PROVE  IInv'
<1> USE StoreAssumption, CacheAssumption
<1>1. /\ UNCHANGED <<storeVars, revision, lock, req, missed, writes>>
      /\ inval[w] \in Tasks /\ inval[w].stage = "bumped" /\ lock = None
      /\ inval' = [inval EXCEPT ![w] = Quiet]
      /\ cache' = [u \in Subs |-> IF u \in inval[w].subs THEN None ELSE cache[u]]
  BY Zenon DEF RemoveEntries, IInv, TypeOK
<1>2. /\ inval' \in [Writers -> Tasks] /\ inval'[w] = Quiet
      /\ \A v \in Writers \ {w} : inval'[v] = inval[v]
  BY <1>1, Zenon DEF IInv, TypeOK, Tasks, Quiet
<1>3. cache' \in [Subs -> {None} \cup Entries]
  BY <1>1, Zenon DEF IInv, TypeOK
<1>4. TypeOK' /\ StoreInv'
  BY <1>1, <1>2, <1>3, StoreSame, Zenon DEF IInv, TypeOK
<1>5. LockInv' /\ RevInv' /\ ActiveInv'
  BY <1>1, Zenon DEF IInv, LockInv, RevInv, ActiveInv
<1>6. \A u : Unbumped(u) => Unbumped(u)'
  BY <1>1, <1>2, Zenon DEF Unbumped
<1>7. LoadInv'
  <2> SUFFICES ASSUME NEW r \in Requests PROVE Current(req[r])'
    BY <1>1, Zenon DEF LoadInv
  <2>1. \A c : Current(c) => Current(c)'
    BY <1>1, <1>6, StoreSame, ZenonT(30) DEF Current
  <2>2. QED  BY <1>1, <2>1, Zenon DEF IInv, LoadInv
<1>8. InsertInv'
  BY <1>1, Zenon DEF IInv, InsertInv, LockInv
<1>9. Coherent'
  <2>1. \A u \in Subs : cache'[u] # None /\ ~Pending(u)' => ~Pending(u) /\ cache'[u] = cache[u]
    BY <1>1, <1>2, Zenon DEF Pending
  <2>2. QED  BY <1>1, <2>1, StoreSame, ZenonT(30) DEF IInv, Coherent
<1>10. QED  BY <1>4, <1>5, <1>7, <1>8, <1>9, Zenon DEF IInv

\* Ageing changes no grants.
LEMMA TickKeeps ==
    ASSUME IInv, Tick
    PROVE  IInv'
<1> USE StoreAssumption, CacheAssumption
<1>1. UNCHANGED <<storeVars, revision, lock, req, inval, missed, writes>>
  BY Zenon DEF Tick
<1>2. ASSUME NEW u \in Subs
      PROVE  /\ cache'[u] \in {None} \cup Entries
             /\ cache'[u] # None => cache[u] # None /\ cache'[u].grants = cache[u].grants
  <2>1. cache[u] \in {None} \cup Entries
    BY DEF IInv, TypeOK
  <2>2. CASE Fresh(u)
    <3>1. cache[u] \in Entries /\ cache[u].age \in 0..Ttl /\ cache[u].age < Ttl
      BY <2>1, <2>2, Zenon DEF Fresh, Entries
    <3>2. cache[u].age + 1 \in 0..Ttl
      BY <3>1
    <3>3. cache'[u] = [cache[u] EXCEPT !.age = @ + 1]
      BY <2>2, Zenon DEF Tick
    <3>4. QED  BY <2>2, <3>1, <3>2, <3>3, Zenon DEF Entries, Fresh
  <2>3. CASE ~Fresh(u)
    BY <2>1, <2>3, Zenon DEF Tick
  <2>4. QED  BY <2>2, <2>3, ZenonT(30)
<1>3. cache' \in [Subs -> {None} \cup Entries]
  BY <1>2, Zenon DEF Tick
<1>4. TypeOK' /\ StoreInv'
  BY <1>1, <1>3, StoreSame, Zenon DEF IInv, TypeOK
<1>5. LockInv' /\ RevInv' /\ ActiveInv'
  BY <1>1, Zenon DEF IInv, LockInv, RevInv, ActiveInv
<1>6. \A u : Unbumped(u)' = Unbumped(u) /\ Pending(u)' = Pending(u)
  BY <1>1, Zenon DEF Unbumped, Pending
<1>7. LoadInv'
  <2>1. \A c : Current(c) => Current(c)'
    BY <1>1, <1>6, StoreSame, Zenon DEF Current
  <2>2. QED  BY <1>1, <2>1, Zenon DEF IInv, LoadInv
<1>8. InsertInv'
  BY <1>1, <1>6, StoreSame, Zenon DEF IInv, InsertInv
<1>9. Coherent'
  BY <1>1, <1>2, <1>6, StoreSame, ZenonT(30) DEF IInv, Coherent
<1>10. QED  BY <1>4, <1>5, <1>7, <1>8, <1>9, ZenonT(30) DEF IInv

-----------------------------------------------------------------------------
\* IInv is inductive: one step per action of the cache and of the admin API.
THEOREM CacheInvariance == Spec => []IInv
<1> USE StoreAssumption, CacheAssumption
<1>1. Init => IInv
  <2> SUFFICES ASSUME Init PROVE IInv
    BY Zenon
  <2>1. \A r \in Requests : req[r] = Idle
    BY Zenon  DEF Init
  <2>2. Idle \in Calls /\ Idle.pc = "idle" /\ Idle.rev = 0 /\ Quiet \in Tasks
    BY Zenon DEF Idle, Calls, Quiet, Tasks
  <2>3. TypeOK /\ StoreInv
    BY <2>2 DEF Init, TypeOK, StoreInv, StoreInit
  <2>4. LockInv /\ RevInv /\ ActiveInv /\ LoadInv /\ InsertInv
    BY <2>1, <2>2, CacheAssumption
       DEF Init, LockInv, RevInv, ActiveInv, LoadInv, Current, InsertInv
  <2>5. Coherent
    BY Zenon DEF Init, Coherent
  <2>6. QED  BY <2>3, <2>4, <2>5, ZenonT(30) DEF IInv
<1>2. IInv /\ [Next]_vars => IInv'
  <2> SUFFICES ASSUME IInv, [Next]_vars PROVE IInv'
    BY Zenon
  <2>0. StoreInv
    BY Zenon DEF IInv
  <2>1. CASE UNCHANGED vars
    <3>1. UNCHANGED storeVars /\ UNCHANGED <<cache, revision, lock, req, inval, missed, writes>>
      BY <2>1, Zenon DEF vars, cacheVars
    <3>2. TypeOK' /\ StoreInv'
      BY <3>1, StoreSame, Zenon DEF IInv, TypeOK
    <3>3. LockInv' /\ RevInv' /\ ActiveInv'
      BY <3>1, Zenon DEF IInv, LockInv, RevInv, ActiveInv
    <3>4. \A u : Unbumped(u)' = Unbumped(u) /\ Pending(u)' = Pending(u)
      BY <3>1, Zenon DEF Unbumped, Pending
    <3>5. \A c : Current(c) => Current(c)'
      BY <3>1, <3>4, StoreSame, Zenon DEF Current
    <3>6. LoadInv' /\ InsertInv' /\ Coherent'
      BY <3>1, <3>4, <3>5, StoreSame, ZenonT(30) DEF IInv, LoadInv, InsertInv, Coherent
    <3>7. QED  BY <3>2, <3>3, <3>6, ZenonT(30) DEF IInv
  <2>2. ASSUME NEW r \in Requests,
               \/ \E u \in Subs : Lookup(r, u)
               \/ GetForStep(r) \/ LoadFails(r) \/ Finish(r)
        PROVE  IInv'
    BY <2>2, GetForKeeps, LockKeeps, InsertKeeps, ZenonT(30) DEF GetForStep
  <2>3. ASSUME NEW w \in Writers, CommitUserCreate(w) PROVE IInv'
    <3>1. PICK a \in Admins, u \in Subs : UserCreate(a, u)
      BY <2>3, Zenon DEF CommitUserCreate
    <3>2. StoreInv' /\ \A v \in Subs \ {} : Frame(v)
      BY <2>0, <3>1, UserCreateStep, ZenonT(30)
    <3>3. QED  BY <2>3, <3>2, CommitKeeps, Zenon DEF CommitUserCreate
  <2>4. ASSUME NEW w \in Writers, CommitUserWrite(w) PROVE IInv'
    <3>1. PICK a \in Admins, x \in UserRows :
             Commit(w, {RowSub[x]}, UserPatch(a, x) \/ UserDelete(a, x))
      BY <2>4, Zenon DEF CommitUserWrite, Commit
    <3>2. StoreInv' /\ \A v \in Subs \ {RowSub[x]} : Frame(v)
      BY <2>0, <3>1, UserWriteStep, ZenonT(30) DEF Commit
    <3>3. {RowSub[x]} \in SUBSET Subs
      BY Zenon
    <3>4. QED  BY <3>1, <3>2, <3>3, CommitKeeps, Zenon DEF Commit
  <2>5. ASSUME NEW w \in Writers, CommitGrantWrite(w) PROVE IInv'
    <3>1. PICK a \in Admins, g \in Grants : \E p \in Policies :
             Commit(w, {RowSub[GrantRow[g]]},
                    GrantCreate(a, g, p) \/ GrantPatch(a, g, p) \/ GrantDelete(a, g))
      BY <2>5, Zenon DEF CommitGrantWrite, Commit, GrantDelete
    <3>2. PICK p \in Policies :
             Commit(w, {RowSub[GrantRow[g]]},
                    GrantCreate(a, g, p) \/ GrantPatch(a, g, p) \/ GrantDelete(a, g))
      BY <3>1
    <3>3. StoreInv' /\ \A v \in Subs \ {RowSub[GrantRow[g]]} : Frame(v)
      BY <2>0, <3>2, GrantWriteStep, Zenon DEF Commit
    <3>4. {RowSub[GrantRow[g]]} \in SUBSET Subs
      BY Zenon
    <3>5. QED  BY <3>2, <3>3, <3>4, CommitKeeps, Zenon DEF Commit
  <2>6. ASSUME NEW w \in Writers, CommitDatabaseWrite(w) PROVE IInv'
    <3>1. PICK a \in Admins, d \in Databases, n \in Names :
             Commit(w, Subs, DatabaseCreate(a, d, n) \/ DatabasePatch(a, d, n)
                             \/ DatabaseDelete(a, d))
      BY <2>6, Zenon DEF CommitDatabaseWrite, Commit, DatabaseDelete
    <3>2. StoreInv' /\ \A v \in Subs \ Subs : Frame(v)
      BY <2>0, <3>1, DatabaseWriteStep, Zenon DEF Commit
    <3>3. QED  BY <3>1, <3>2, CommitKeeps, Zenon DEF Commit
  <2>7. ASSUME NEW w \in Writers, InvalidateStep(w) \/ Unnotified(w) PROVE IInv'
    BY <2>7, AnnounceKeeps, BumpKeeps, RemoveKeeps, ZenonT(30) DEF InvalidateStep
  <2>8. CASE Tick
    BY <2>8, TickKeeps, Zenon
  <2>9. QED
    BY <2>1, <2>2, <2>3, <2>4, <2>5, <2>6, <2>7, <2>8 DEF Next
<1>3. QED  BY <1>1, <1>2, PTL DEF Spec

\* Every variable of the cache and of the tables keeps its type, for every
\* number of subjects, rows, requests and writers.
THEOREM TypeCorrect == Spec => []TypeOK
<1>1. IInv => TypeOK
  BY ZenonT(30) DEF IInv
<1>2. QED  BY <1>1, CacheInvariance, PTL

\* The revision guard of get_for works: whatever the interleaving of loads,
\* admin writes and invalidations, once the invalidations that concern a
\* subject have run, its cache entry is what the tables say.
THEOREM CacheCoherent == Spec => []Coherent
<1>1. IInv => Coherent
  BY DEF IInv
<1>2. QED  BY <1>1, CacheInvariance, PTL
=============================================================================
