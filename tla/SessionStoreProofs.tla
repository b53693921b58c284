------------------------- MODULE SessionStoreProofs -------------------------
(***************************************************************************)
(* The session store keeps its promises for every number of replicas,      *)
(* sessions, calls and logouts, and for every TTL, the TTL 0 included.     *)
(* The properties speak of answers and entries; the strengthening follows  *)
(* what is on its way to becoming one.                                     *)
(***************************************************************************)
EXTENDS SessionStore, FiniteSetTheorems, TLAPS

\* A call or a logout in flight knows its replica and its session.
BoundInv ==
    /\ \A c \in Calls : call[c].pc # "idle" =>
         call[c].rep \in Replicas /\ call[c].sess \in Sessions
    /\ \A v \in Logouts : logout[v].pc = "remove" =>
         logout[v].rep \in Replicas /\ logout[v].sess \in Sessions

\* The clock of a revocation stands still until the revocation has settled.
QuietInv ==
    /\ \A s \in Sessions : rows[s] # "revoked" => quiet[s] = 0
    /\ \A c \in Calls : call[c].pc = "row" => quiet[call[c].sess] = 0

\* Whatever is cached, or about to be, is at least as old as that clock.
AgeInv ==
    /\ \A r \in Replicas, s \in Sessions :
         cache[r][s] # None => cache[r][s] >= quiet[s]
    /\ \A c \in Calls : call[c].pc = "insert" => call[c].age >= quiet[call[c].sess]

\* A call that started too late stays so, and is past reading an active row.
LateInv == \A c \in Calls : call[c].late =>
    /\ call[c].pc \notin {"idle", "row", "insert", "granted"}
    /\ ~call[c].alive \/ (Settled(call[c].sess) /\ quiet[call[c].sess] = Ttl)

TimeInv == TypeOK /\ BoundInv /\ QuietInv /\ AgeInv /\ LateInv

-----------------------------------------------------------------------------
\* Ages saturate and keep their order.
LEMMA OlderFacts ==
    ASSUME NEW a \in 0..Ttl
    PROVE  /\ Older(a) \in 0..Ttl /\ Older(a) >= 0
           /\ \A b \in 0..Ttl : b >= a => Older(b) >= Older(a)
           /\ a = Ttl => Older(a) = Ttl
BY SessionAssumption DEF Older

\* A step of one call that leaves the table and the clocks alone.
LEMMA CallKeeps ==
    ASSUME TimeInv, NEW c \in Calls, NEW new \in CallStates,
           call' = [call EXCEPT ![c] = new],
           UNCHANGED <<rows, life, logout, quiet, evicted, raced>>,
           issued' \in SUBSET Sessions,
           cache' \in [Replicas -> [Sessions -> {None} \cup 0..Ttl]],
           \A r \in Replicas, s \in Sessions :
              cache'[r][s] # None => cache'[r][s] >= quiet[s],
           new.pc # "idle" => new.rep \in Replicas /\ new.sess \in Sessions,
           new.pc = "row" => quiet[new.sess] = 0 /\ rows[new.sess] # "revoked",
           new.pc = "insert" => new.age >= quiet[new.sess],
           new.late => /\ new.pc \notin {"idle", "row", "insert", "granted"}
                       /\ ~new.alive \/ (Settled(new.sess) /\ quiet[new.sess] = Ttl)
    PROVE  TimeInv'
<1> USE SessionAssumption DEF TimeInv
<1>1. \A d \in Calls : call'[d] = IF d = c THEN new ELSE call[d]
  BY Zenon DEF TypeOK
<1>2. TypeOK'
  BY Zenon DEF TypeOK
<1>3. BoundInv'
  BY <1>1, Zenon DEF BoundInv
<1>4. QuietInv'
  BY <1>1 DEF QuietInv
<1>5. AgeInv'
  BY <1>1, ZenonT(30) DEF AgeInv
<1>6. ASSUME NEW s, Settled(s) PROVE Settled(s)'
  BY <1>1, <1>6, Zenon DEF Settled
<1>7. LateInv'
  <2> SUFFICES ASSUME NEW d \in Calls, call'[d].late
               PROVE  /\ call'[d].pc \notin {"idle", "row", "insert", "granted"}
                      /\ \/ ~call'[d].alive
                         \/ Settled(call[d].sess)' /\ quiet[call'[d].sess] = Ttl
    BY Zenon DEF LateInv
  <2>1. CASE d = c
    BY <1>1, <1>6, <2>1, Zenon
  <2>2. CASE d # c
    BY <1>1, <1>6, <2>2 DEF LateInv
  <2>3. QED  BY <2>1, <2>2, Zenon
<1>8. QED  BY <1>2, <1>3, <1>4, <1>5, <1>7, Zenon

\* The steps of lookup, and abandoned calls.
LEMMA LookupKeeps ==
    ASSUME TimeInv, NEW c \in Calls,
           \/ \E r \in Replicas, s \in Sessions : BeginLookup(c, r, s)
           \/ Get(c) \/ Select(c) \/ Stamp(c) \/ RemoveInactive(c) \/ Finish(c)
    PROVE  TimeInv'
<1> USE SessionAssumption
<1>0. /\ call[c] \in CallStates /\ Idle \in CallStates
      /\ \A r \in Replicas, s \in Sessions :
           /\ cache[r][s] \in {None} \cup 0..Ttl
           /\ cache[r][s] # None => cache[r][s] >= quiet[s]
      /\ call[c].pc # "idle" => call[c].rep \in Replicas /\ call[c].sess \in Sessions
      /\ cache \in [Replicas -> [Sessions -> {None} \cup 0..Ttl]]
      /\ issued \in SUBSET Sessions
      /\ quiet \in [Sessions -> 0..Ttl]
  BY DEF TimeInv, TypeOK, BoundInv, AgeInv, Idle, CallStates
<1>1. Idle.pc = "idle" /\ ~Idle.late
  BY Zenon DEF Idle
<1>2. ASSUME NEW r \in Replicas, NEW s \in Sessions, BeginLookup(c, r, s)
      PROVE  TimeInv'
  <2> DEFINE late == life[s] = 0 \/ (Settled(s) /\ quiet[s] = Ttl)
             alive == life[s] > 0
             new == [Idle EXCEPT !.pc = "get", !.rep = r, !.sess = s,
                                 !.alive = alive, !.late = late]
  <2>1. late \in BOOLEAN /\ alive \in BOOLEAN
    BY DEF Settled
  <2>2. late => ~alive \/ (Settled(s) /\ quiet[s] = Ttl)
    BY DEF TimeInv, TypeOK
  <2>3. call' = [call EXCEPT ![c] = new]
    BY <1>2, Zenon DEF BeginLookup
  <2> HIDE DEF late, alive
  <2>4. new \in CallStates /\ new.pc = "get" /\ new.rep = r /\ new.sess = s
        /\ new.late = late /\ new.alive = alive
    BY <1>0, <2>1, ZenonT(30) DEF Idle, CallStates
  <2> HIDE DEF new
  <2>5. QED  BY <1>0, <1>2, <2>2, <2>3, <2>4, CallKeeps, ZenonT(30) DEF BeginLookup
<1>3. CASE Get(c)
  <2> DEFINE hit == Fresh(call[c].rep, call[c].sess) /\ call[c].alive
             new == [call[c] EXCEPT !.pc = IF hit THEN "granted" ELSE "select"]
  <2>1. call' = [call EXCEPT ![c] = new] /\ call[c].pc = "get"
    BY <1>3, Zenon DEF Get
  <2>2. call[c].late => ~hit
    <3>1. quiet[call[c].sess] = Ttl => ~Fresh(call[c].rep, call[c].sess)
      BY <1>0, <2>1 DEF Fresh
    <3>2. QED  BY <3>1, Zenon DEF TimeInv, LateInv
  <2> HIDE DEF hit
  <2>3. /\ new \in CallStates /\ new.pc = (IF hit THEN "granted" ELSE "select")
        /\ new.rep = call[c].rep /\ new.sess = call[c].sess
        /\ new.late = call[c].late /\ new.alive = call[c].alive
    BY <1>0 DEF CallStates
  <2> HIDE DEF new
  <2>4. new.late => /\ new.pc \notin {"idle", "row", "insert", "granted"}
                    /\ ~new.alive \/ (Settled(new.sess) /\ quiet[new.sess] = Ttl)
    BY <2>2, <2>3, Zenon DEF TimeInv, LateInv
  <2>5. QED  BY <1>0, <1>3, <2>1, <2>3, <2>4, CallKeeps, Zenon, ZenonT(30) DEF Get
<1>4. CASE Select(c)
  <2> DEFINE good == rows[call[c].sess] = "active" /\ call[c].alive
             new == [call[c] EXCEPT !.pc = IF good THEN "row" ELSE "remove"]
  <2>1. call' = [call EXCEPT ![c] = new] /\ call[c].pc = "select"
    BY <1>4 DEF Select
  <2>2. call[c].late => ~good
    BY DEF TimeInv, LateInv, Settled
  <2>3. good => quiet[call[c].sess] = 0 /\ rows[call[c].sess] # "revoked"
    BY <1>0, <2>1 DEF TimeInv, QuietInv
  <2> HIDE DEF good
  <2>4. /\ new \in CallStates /\ new.pc = (IF good THEN "row" ELSE "remove")
        /\ new.rep = call[c].rep /\ new.sess = call[c].sess
        /\ new.late = call[c].late /\ new.alive = call[c].alive
    BY <1>0, ZenonT(30) DEF CallStates
  <2> HIDE DEF new
  <2>5. new.late => /\ new.pc \notin {"idle", "row", "insert", "granted"}
                    /\ ~new.alive \/ (Settled(new.sess) /\ quiet[new.sess] = Ttl)
    BY <2>2, <2>4, Zenon DEF TimeInv, LateInv
  <2>6. /\ new.pc = "row" => quiet[new.sess] = 0 /\ rows[new.sess] # "revoked"
        /\ new.pc \in {"row", "remove"}
        /\ new.rep \in Replicas /\ new.sess \in Sessions
    BY <1>0, <2>1, <2>3, <2>4, Zenon
  <2>7. QED  BY <1>0, <1>4, <2>1, <2>4, <2>5, <2>6, CallKeeps, ZenonT(30) DEF Select
<1>5. CASE Stamp(c)
  <2> DEFINE new == [call[c] EXCEPT !.pc = "insert", !.age = 0]
  <2>1. call' = [call EXCEPT ![c] = new] /\ call[c].pc = "row"
    BY <1>5, Zenon DEF Stamp, TimeInv, TypeOK
  <2>2. /\ new \in CallStates /\ new.pc = "insert" /\ new.age = 0
        /\ new.rep = call[c].rep /\ new.sess = call[c].sess /\ new.late = call[c].late
    <3>1. 0 \in 0..Ttl
      OBVIOUS
    <3>2. QED  BY <1>0, <3>1, Zenon DEF CallStates
  <2>3. ~call[c].late /\ quiet[call[c].sess] = 0
    BY <2>1, Zenon DEF TimeInv, LateInv, QuietInv
  <2> HIDE DEF new
  <2>4. new.age >= quiet[new.sess] /\ ~new.late
    BY <2>2, <2>3
  <2>5. QED  BY <1>0, <1>5, <2>1, <2>2, <2>4, CallKeeps, Zenon DEF Stamp
<1>6. CASE RemoveInactive(c)
  <2>1. /\ cache' \in [Replicas -> [Sessions -> {None} \cup 0..Ttl]]
        /\ \A r \in Replicas, s \in Sessions :
             cache'[r][s] # None => cache'[r][s] >= quiet[s]
    BY <1>0, <1>6, Zenon DEF RemoveInactive, CacheRemove
  <2>2. QED  BY <1>0, <1>1, <1>6, <2>1, CallKeeps, Zenon DEF RemoveInactive
<1>7. CASE Finish(c)
  BY <1>0, <1>1, <1>7, CallKeeps, Zenon DEF Finish
<1>8. QED  BY <1>2, <1>3, <1>4, <1>5, <1>6, <1>7, Zenon

\* An insert puts one entry in and at most takes others out.
LEMMA CacheInsertFacts ==
    ASSUME TypeOK, NEW r \in Replicas, NEW s \in Sessions, NEW age \in 0..Ttl,
           CacheInsert(r, s, age)
    PROVE  /\ cache' \in [Replicas -> [Sessions -> {None} \cup 0..Ttl]]
           /\ \A q \in Replicas, t \in Sessions :
                \/ cache'[q][t] = cache[q][t] \/ cache'[q][t] = None
                \/ q = r /\ t = s /\ cache'[q][t] = age
<1>1. PICK out : cache' = [cache EXCEPT ![r] = [t \in Sessions |->
                    IF t = s THEN age ELSE IF t \in out THEN None ELSE cache[r][t]]]
  BY Zenon DEF CacheInsert, TypeOK
<1>2. QED  BY <1>1, Zenon DEF TypeOK

\* The end of create and lookup: what is cached was held long enough.
LEMMA InsertKeeps ==
    ASSUME TimeInv, NEW c \in Calls, Insert(c)
    PROVE  TimeInv'
<1> USE SessionAssumption
<1>0. /\ call[c] \in CallStates /\ Idle \in CallStates /\ call[c].age \in 0..Ttl
      /\ call[c].pc = "insert" /\ call[c].rep \in Replicas /\ call[c].sess \in Sessions
      /\ call[c].age >= quiet[call[c].sess] /\ ~call[c].late
      /\ issued \in SUBSET Sessions
  BY DEF Insert, TimeInv, TypeOK, BoundInv, AgeInv, LateInv, Idle, CallStates
<1>1. /\ cache' \in [Replicas -> [Sessions -> {None} \cup 0..Ttl]]
      /\ \A r \in Replicas, s \in Sessions :
           cache'[r][s] # None => cache'[r][s] >= quiet[s]
  <2>1. CacheInsert(call[c].rep, call[c].sess, call[c].age)
    BY Zenon DEF Insert
  <2>2. QED  BY <1>0, <2>1, CacheInsertFacts DEF TimeInv, AgeInv
<1>2. CASE call[c].kind = "lookup"
  <2> DEFINE new == [call[c] EXCEPT !.pc = "granted", !.age = 0]
  <2>1. /\ call' = [call EXCEPT ![c] = new]
        /\ UNCHANGED <<rows, life, issued, logout, evicted, raced, quiet>>
    BY <1>2, Zenon DEF Insert, TimeInv, TypeOK
  <2>2. 0 \in 0..Ttl
    OBVIOUS
  <2>3. /\ new \in CallStates /\ new.pc = "granted" /\ new.rep = call[c].rep
        /\ new.sess = call[c].sess /\ new.late = call[c].late
    BY <1>0, <2>2, Zenon DEF CallStates
  <2> HIDE DEF new
  <2>4. QED  BY <1>0, <1>1, <2>1, <2>3, CallKeeps, Zenon
<1>3. CASE call[c].kind = "create"
  <2>1. /\ call' = [call EXCEPT ![c] = Idle]
        /\ issued' = issued \cup {call[c].sess}
        /\ UNCHANGED <<rows, life, logout, evicted, raced, quiet>>
    BY <1>3, Zenon DEF Insert
  <2>2. issued' \in SUBSET Sessions
    BY <1>0, <2>1, Zenon
  <2>3. Idle.pc = "idle" /\ ~Idle.late
    BY Zenon DEF Idle
  <2>4. QED  BY <1>0, <1>1, <2>1, <2>2, <2>3, CallKeeps, Zenon
<1>4. QED  BY <1>2, <1>3, Zenon DEF Insert

\* create's INSERT: the row is new, so nobody is late for it.
LEMMA CreateKeeps ==
    ASSUME TimeInv, NEW c \in Calls, NEW r \in Replicas, NEW s \in Sessions,
           CreateRow(c, r, s)
    PROVE  TimeInv'
<1> USE SessionAssumption DEF TimeInv
<1> DEFINE new == [Idle EXCEPT !.pc = "row", !.kind = "create",
                               !.rep = r, !.sess = s, !.alive = TRUE]
<1>1. /\ call' = [call EXCEPT ![c] = new] /\ rows' = [rows EXCEPT ![s] = "active"]
      /\ rows[s] = "absent" /\ call[c] = Idle
      /\ UNCHANGED <<life, issued, cache, logout, evicted, raced, quiet>>
  BY Zenon DEF CreateRow
<1>2. 0 \in 0..Ttl
  OBVIOUS
<1>3. /\ new \in CallStates /\ new.pc = "row" /\ new.rep = r /\ new.sess = s
      /\ ~new.late
  BY <1>2, Zenon DEF Idle, CallStates
<1> HIDE DEF new
<1>4. \A d \in Calls : call'[d] = IF d = c THEN new ELSE call[d]
  BY <1>1, Zenon DEF TypeOK
<1>5. TypeOK' /\ BoundInv'
  BY <1>1, <1>3, <1>4, Zenon DEF TypeOK, BoundInv
<1>6. QuietInv'
  BY <1>1, <1>3, <1>4, Zenon DEF TypeOK, QuietInv
<1>7. AgeInv'
  BY <1>1, <1>3, <1>4, ZenonT(30) DEF AgeInv
<1>8. ASSUME NEW t, Settled(t), t \in Sessions PROVE Settled(t)'
  BY <1>1, <1>3, <1>4, <1>8, Zenon DEF Settled, TypeOK
<1>9. LateInv'
  <2> SUFFICES ASSUME NEW d \in Calls, call'[d].late
               PROVE  /\ call'[d].pc \notin {"idle", "row", "insert", "granted"}
                      /\ \/ ~call'[d].alive
                         \/ Settled(call[d].sess)' /\ quiet[call'[d].sess] = Ttl
    BY <1>1, Zenon DEF LateInv
  <2>1. d # c /\ call'[d] = call[d]
    BY <1>3, <1>4, Zenon
  <2>2. call[d].pc # "idle"
    BY <2>1, Zenon DEF LateInv
  <2>3. QED  BY <1>8, <2>1, <2>2, Zenon DEF LateInv, BoundInv
<1>10. QED  BY <1>5, <1>6, <1>7, <1>9, Zenon

\* revoke's UPDATE, its local eviction, and a handler dropped between them.
LEMMA LogoutKeeps ==
    ASSUME TimeInv, NEW v \in Logouts,
           \/ \E r \in Replicas, s \in Sessions : RevokeRow(v, r, s)
           \/ RevokeLocal(v) \/ RevokeDropped(v)
    PROVE  TimeInv'
<1> USE SessionAssumption DEF TimeInv
<1>1. ASSUME NEW r \in Replicas, NEW s \in Sessions, RevokeRow(v, r, s)
      PROVE  TimeInv'
  <2> DEFINE new == [pc |-> "remove", rep |-> r, sess |-> s]
  <2>1. /\ rows' = [rows EXCEPT ![s] = "revoked"] /\ logout' = [logout EXCEPT ![v] = new]
        /\ UNCHANGED <<life, issued, cache, call, evicted, raced, quiet>>
    BY <1>1, Zenon DEF RevokeRow
  <2>2. new \in LogoutStates /\ new.rep = r /\ new.sess = s
    BY Zenon DEF LogoutStates
  <2> HIDE DEF new
  <2>3. TypeOK' /\ BoundInv'
    BY <2>1, <2>2, Zenon DEF TypeOK, BoundInv
  <2>4. QuietInv' /\ AgeInv'
    BY <2>1, Zenon DEF TypeOK, QuietInv, AgeInv
  <2>5. \A t \in Sessions : Settled(t) => Settled(t)'
    BY <2>1, Zenon DEF Settled, TypeOK
  <2>6. LateInv'
    BY <2>1, <2>5, Zenon DEF LateInv, BoundInv
  <2>7. QED  BY <2>3, <2>4, <2>6, Zenon
<1>2. ASSUME /\ UNCHANGED <<rows, life, issued, call, quiet>>
             /\ logout' = [logout EXCEPT ![v] = NoLogout]
             /\ \A r \in Replicas, s \in Sessions :
                  cache'[r][s] = cache[r][s] \/ cache'[r][s] = None,
             cache' \in [Replicas -> [Sessions -> {None} \cup 0..Ttl]],
             evicted' \in [Replicas -> SUBSET Sessions],
             raced' \in [Replicas -> SUBSET Sessions]
      PROVE  TimeInv'
  <2>1. NoLogout \in LogoutStates /\ NoLogout.pc = "idle"
    BY Zenon DEF NoLogout, LogoutStates
  <2>2. TypeOK' /\ BoundInv'
    BY <1>2, <2>1, Zenon DEF TypeOK, BoundInv
  <2>3. QuietInv' /\ AgeInv'
    BY <1>2, Zenon DEF QuietInv, AgeInv
  <2>4. \A t : Settled(t)' = Settled(t)
    BY <1>2, Zenon DEF Settled
  <2>5. LateInv'
    BY <1>2, <2>4, Zenon DEF LateInv
  <2>6. QED  BY <2>2, <2>3, <2>5, Zenon
<1>3. CASE RevokeLocal(v)
  <2>1. logout[v].rep \in Replicas /\ logout[v].sess \in Sessions
    BY <1>3, Zenon DEF RevokeLocal, BoundInv
  <2>2. /\ \A r \in Replicas, s \in Sessions :
             cache'[r][s] = cache[r][s] \/ cache'[r][s] = None
        /\ cache' \in [Replicas -> [Sessions -> {None} \cup 0..Ttl]]
    BY <1>3, <2>1, Zenon DEF RevokeLocal, CacheRemove, TypeOK
  <2>3. /\ evicted' \in [Replicas -> SUBSET Sessions]
        /\ raced' \in [Replicas -> SUBSET Sessions]
    BY <1>3, <2>1 DEF RevokeLocal, TypeOK
  <2>4. QED  BY <1>2, <1>3, <2>2, <2>3, Zenon DEF RevokeLocal
<1>4. CASE RevokeDropped(v)
  BY <1>2, <1>4, Zenon DEF RevokeDropped, TypeOK
<1>5. QED  BY <1>1, <1>3, <1>4, Zenon

\* A restarted replica has an empty cache and no calls.
LEMMA RestartKeeps ==
    ASSUME TimeInv, NEW r \in Replicas, Restart(r)
    PROVE  TimeInv'
<1> USE SessionAssumption DEF TimeInv
<1>1. /\ Idle \in CallStates /\ Idle.pc = "idle" /\ ~Idle.late
      /\ NoLogout \in LogoutStates /\ NoLogout.pc = "idle"
  BY DEF Idle, CallStates, NoLogout, LogoutStates
<1>2. \A c \in Calls : call'[c] = call[c] \/ call'[c] = Idle
  BY Zenon DEF Restart
<1>3. \A v \in Logouts : logout'[v] = logout[v] \/ logout'[v] = NoLogout
  BY Zenon DEF Restart
<1>4. \A q \in Replicas, s \in Sessions : cache'[q][s] = cache[q][s] \/ cache'[q][s] = None
  BY Zenon DEF Restart, TypeOK
<1>5. UNCHANGED <<rows, life, issued, evicted, raced, quiet>>
  BY Zenon DEF Restart
<1>6. TypeOK'
  BY <1>1, Zenon DEF Restart, TypeOK
<1>7. BoundInv' /\ QuietInv' /\ AgeInv'
  BY <1>1, <1>2, <1>3, <1>4, <1>5, ZenonT(30) DEF BoundInv, QuietInv, AgeInv
<1>8. \A t : Settled(t) => Settled(t)'
  BY <1>1, <1>2, <1>5, Zenon DEF Settled
<1>9. LateInv'
  <2> SUFFICES ASSUME NEW d \in Calls, call'[d].late
               PROVE  /\ call'[d].pc \notin {"idle", "row", "insert", "granted"}
                      /\ \/ ~call'[d].alive
                         \/ Settled(call[d].sess)' /\ quiet[call'[d].sess] = Ttl
    BY <1>5, Zenon DEF LateInv
  <2>1. call'[d] = call[d]
    BY <1>1, <1>2, Zenon
  <2>2. QED  BY <1>8, <2>1, Zenon DEF LateInv
<1>10. QED  BY <1>6, <1>7, <1>9, Zenon

\* Time ages the entries at least as fast as the clock of a revocation.
LEMMA TickKeeps ==
    ASSUME TimeInv, Tick
    PROVE  TimeInv'
<1> USE SessionAssumption DEF TimeInv
<1>1. UNCHANGED <<rows, issued, logout, evicted, raced>>
  BY Zenon DEF Tick
<1>2. \A s \in Sessions : /\ quiet[s] \in 0..Ttl
                         /\ quiet'[s] = IF Settled(s) THEN Older(quiet[s]) ELSE 0
  BY Zenon DEF Tick, TypeOK
<1>3. quiet' \in [Sessions -> 0..Ttl]
  BY <1>2, OlderFacts DEF Tick
<1>4. \A s \in Sessions : \A a \in 0..Ttl : a >= quiet[s] => Older(a) >= quiet'[s]
  BY <1>2, OlderFacts, Zenon
<1>5. ASSUME NEW r \in Replicas, NEW s \in Sessions
      PROVE  /\ cache'[r][s] \in {None} \cup 0..Ttl
             /\ cache'[r][s] # None => cache'[r][s] >= quiet'[s]
  <2>1. cache[r][s] \in {None} \cup 0..Ttl
    BY DEF TypeOK
  <2>2. cache'[r][s] = IF cache[r][s] = None THEN None ELSE Older(cache[r][s])
    BY Zenon DEF Tick
  <2>3. QED  BY <1>4, <2>1, <2>2, OlderFacts, Zenon DEF AgeInv
<1>6. ASSUME NEW c \in Calls
      PROVE  /\ call'[c] \in CallStates
             /\ call'[c].pc = call[c].pc /\ call'[c].sess = call[c].sess
             /\ call'[c].rep = call[c].rep
             /\ call'[c].late = call[c].late /\ call'[c].alive = call[c].alive
             /\ call[c].pc = "insert" => call'[c].age = Older(call[c].age)
  <2>1. call[c] \in CallStates /\ call[c].age \in 0..Ttl
    BY Zenon DEF TypeOK, CallStates
  <2>2. Older(call[c].age) \in 0..Ttl
    BY <2>1, OlderFacts, Zenon
  <2>3. call'[c] = IF call[c].pc = "insert"
                   THEN [call[c] EXCEPT !.age = Older(call[c].age)] ELSE call[c]
    BY Zenon DEF Tick
  <2>4. QED  BY <2>1, <2>2, <2>3 DEF CallStates
<1>7. TypeOK'
  <2>1. life' \in [Sessions -> 0..Life]
    BY DEF Tick, TypeOK
  <2>2. cache' \in [Replicas -> [Sessions -> {None} \cup 0..Ttl]]
    BY <1>5, Zenon DEF Tick
  <2>3. call' \in [Calls -> CallStates]
    BY <1>6, Zenon DEF Tick
  <2>4. QED  BY <1>1, <1>3, <2>1, <2>2, <2>3, Zenon DEF TypeOK
<1>8. BoundInv'
  BY <1>1, <1>6, Zenon DEF BoundInv
<1>9. QuietInv'
  <2>1. \A s \in Sessions : rows'[s] # "revoked" => quiet'[s] = 0
    BY <1>1, <1>2, Zenon DEF Settled
  <2>2. \A c \in Calls : call'[c].pc = "row" => quiet'[call'[c].sess] = 0
    BY <1>2, <1>6 DEF Settled, BoundInv
  <2>3. QED  BY <2>1, <2>2, Zenon DEF QuietInv
<1>10. AgeInv'
  <2>1. ASSUME NEW c \in Calls, call'[c].pc = "insert"
        PROVE  call'[c].age >= quiet'[call'[c].sess]
    <3>1. call[c].pc = "insert" /\ call[c].age \in 0..Ttl
      BY <1>6, <2>1, Zenon DEF TypeOK, CallStates
    <3>2. call[c].sess \in Sessions /\ call[c].age >= quiet[call[c].sess]
      BY <3>1, Zenon DEF AgeInv, BoundInv
    <3>3. QED  BY <1>4, <1>6, <3>1, <3>2, Zenon
  <2>2. QED  BY <1>5, <2>1, Zenon DEF AgeInv
<1>11. LateInv'
  <2> SUFFICES ASSUME NEW d \in Calls, call'[d].late
               PROVE  /\ call'[d].pc \notin {"idle", "row", "insert", "granted"}
                      /\ \/ ~call'[d].alive
                         \/ Settled(call[d].sess)' /\ quiet'[call'[d].sess] = Ttl
    BY Zenon DEF LateInv
  <2>1. call[d].late /\ call[d].pc \notin {"idle", "row", "insert", "granted"}
    BY <1>6, Zenon DEF LateInv
  <2>2. CASE Settled(call[d].sess) /\ quiet[call[d].sess] = Ttl
    <3>1. call[d].sess \in Sessions
      BY <2>1, Zenon DEF BoundInv
    <3>2. quiet'[call[d].sess] = Ttl
      BY <1>2, <2>2, <3>1, OlderFacts, Zenon
    <3>3. Settled(call[d].sess)'
      BY <1>1, <1>6, <2>2 DEF Settled
    <3>4. QED  BY <1>6, <2>1, <3>2, <3>3, Zenon
  <2>3. CASE ~call[d].alive
    BY <1>6, <2>1, <2>3, Zenon
  <2>4. QED  BY <2>1, <2>2, <2>3, Zenon DEF LateInv
<1>12. QED  BY <1>7, <1>8, <1>9, <1>10, <1>11, Zenon

\* The clocks are right in every reachable state.
THEOREM TimeInvariance == Spec => []TimeInv
<1> USE SessionAssumption
<1>1. Init => TimeInv
  <2> SUFFICES ASSUME Init PROVE TimeInv
    BY Zenon
  <2>1. /\ Idle \in CallStates /\ Idle.pc = "idle" /\ ~Idle.late
        /\ NoLogout \in LogoutStates /\ NoLogout.pc = "idle"
    BY DEF Idle, CallStates, NoLogout, LogoutStates
  <2>2. TypeOK
    BY <2>1 DEF Init, TypeOK
  <2>3. BoundInv /\ QuietInv /\ AgeInv /\ LateInv
    BY <2>1, Zenon DEF Init, BoundInv, QuietInv, AgeInv, LateInv
  <2>4. QED  BY <2>2, <2>3, Zenon DEF TimeInv
<1>2. TimeInv /\ [Next]_vars => TimeInv'
  <2> SUFFICES ASSUME TimeInv, [Next]_vars PROVE TimeInv'
    BY Zenon
  <2>1. CASE UNCHANGED vars
    <3>1. \A s : Settled(s)' = Settled(s)
      BY <2>1, Zenon DEF vars, Settled
    <3>2. QED
      BY <2>1, <3>1, Zenon DEF vars, TimeInv, TypeOK, BoundInv, QuietInv, AgeInv, LateInv
  <2>2. ASSUME NEW c \in Calls,
               \/ \E r \in Replicas, s \in Sessions : CreateRow(c, r, s) \/ BeginLookup(c, r, s)
               \/ Get(c) \/ Select(c) \/ Stamp(c) \/ Insert(c) \/ RemoveInactive(c)
               \/ Finish(c)
        PROVE  TimeInv'
    BY <2>2, LookupKeeps, InsertKeeps, CreateKeeps, Zenon
  <2>3. ASSUME NEW v \in Logouts,
               \/ \E r \in Replicas, s \in Sessions : RevokeRow(v, r, s)
               \/ RevokeLocal(v) \/ RevokeDropped(v)
        PROVE  TimeInv'
    BY <2>3, LogoutKeeps, Zenon
  <2>4. QED
    BY <2>1, <2>2, <2>3, RestartKeeps, TickKeeps, Zenon DEF Next
<1>3. QED  BY <1>1, <1>2, PTL DEF Spec

\* Every variable of the store keeps its type.
THEOREM TypeCorrect == Spec => []TypeOK
<1>1. TimeInv => TypeOK
  BY Zenon DEF TimeInv
<1>2. QED  BY <1>1, TimeInvariance, PTL

\* The TTL caps what a revoked or expired session can still do: a request
\* that starts after expiry, or a TTL after the revocation settled, is never
\* authenticated, on any replica, whatever is in flight or restarts.
THEOREM RevocationWindow == Spec => []GrantsInTime
<1>1. TimeInv => GrantsInTime
  BY Zenon DEF TimeInv, LateInv, GrantsInTime
<1>2. QED  BY <1>1, TimeInvariance, PTL

-----------------------------------------------------------------------------
\* A logout that has returned, or has yet to evict, has revoked the row; and
\* where it raced nobody, nobody is left to bring the session back.
LocalInv ==
    /\ \A v \in Logouts : logout[v].pc = "remove" => rows[logout[v].sess] = "revoked"
    /\ \A r \in Replicas : \A s \in evicted[r] : rows[s] = "revoked"
    /\ \A r \in Replicas : \A s \in evicted[r] \ raced[r] :
         cache[r][s] = None /\ \A c \in Calls : ~HeldBy(c, r, s)

\* Calls keep LocalInv: none of them takes up a revoked row.
LEMMA CallLocal ==
    ASSUME TimeInv, LocalInv, NEW c \in Calls,
           \/ \E r \in Replicas, s \in Sessions : CreateRow(c, r, s) \/ BeginLookup(c, r, s)
           \/ Get(c) \/ Select(c) \/ Stamp(c) \/ Insert(c) \/ RemoveInactive(c)
           \/ Finish(c)
    PROVE  LocalInv'
<1> USE SessionAssumption
<1>0. /\ \A d \in Calls \ {c} : call'[d] = call[d]
      /\ UNCHANGED <<logout, evicted, raced>>
      /\ \A s \in Sessions : rows'[s] = rows[s] \/ (rows[s] = "absent" /\ rows'[s] = "active")
  BY ZenonT(30) DEF CreateRow, BeginLookup, Get, Select, Stamp, Insert, RemoveInactive, Finish,
         TimeInv, TypeOK
<1>1. \A r \in Replicas, s \in Sessions : HeldBy(c, r, s)' =>
         HeldBy(c, r, s) \/ rows[s] # "revoked"
  <2> SUFFICES ASSUME NEW r \in Replicas, NEW s \in Sessions, HeldBy(c, r, s)',
                      rows[s] = "revoked"
               PROVE  HeldBy(c, r, s)
    BY Zenon
  <2> USE DEF HeldBy, TimeInv, TypeOK
  <2>1. CASE \E q \in Replicas, t \in Sessions : CreateRow(c, q, t)
    <3>1. PICK q \in Replicas, t \in Sessions : CreateRow(c, q, t)
      BY <2>1, Zenon
    <3>2. /\ rows[t] = "absent"
          /\ call'[c] = [Idle EXCEPT !.pc = "row", !.kind = "create",
                                     !.rep = q, !.sess = t, !.alive = TRUE]
      BY <3>1, Zenon DEF CreateRow
    <3>3. call'[c].sess = t
      BY <3>2, ZenonT(30) DEF Idle
    <3>4. QED  BY <3>2, <3>3, Zenon
  <2>2. CASE \E q \in Replicas, t \in Sessions : BeginLookup(c, q, t)
    <3>1. PICK q \in Replicas, t \in Sessions : BeginLookup(c, q, t)
      BY <2>2, Zenon
    <3> DEFINE late == life[t] = 0 \/ (Settled(t) /\ quiet[t] = Ttl)
    <3>2. call'[c] = [Idle EXCEPT !.pc = "get", !.rep = q, !.sess = t,
                                  !.alive = life[t] > 0, !.late = late]
      BY <3>1, Zenon DEF BeginLookup
    <3> HIDE DEF late
    <3>3. call'[c].pc = "get"
      BY <3>2, Zenon DEF Idle
    <3>4. QED  BY <3>3, Zenon
  <2>3. CASE Get(c) \/ Stamp(c)
    BY <2>3 DEF Get, Stamp, CallStates
  <2>4. CASE Select(c)
    BY <2>4 DEF Select, CallStates
  <2>5. CASE Insert(c)
    BY <2>5 DEF Insert, Idle, CallStates
  <2>6. CASE RemoveInactive(c) \/ Finish(c)
    BY <2>6, SMTT(30) DEF RemoveInactive, Finish, Idle
  <2>7. QED  BY <2>1, <2>2, <2>3, <2>4, <2>5, <2>6, Zenon
<1>2. \A r \in Replicas, s \in Sessions :
         cache'[r][s] = cache[r][s] \/ cache'[r][s] = None \/ HeldBy(c, r, s)
  <2>1. CASE Insert(c)
    <3>1. /\ call[c].rep \in Replicas /\ call[c].sess \in Sessions /\ call[c].age \in 0..Ttl
          /\ CacheInsert(call[c].rep, call[c].sess, call[c].age) /\ call[c].pc = "insert"
      BY <2>1, Zenon DEF Insert, TimeInv, TypeOK, BoundInv, CallStates
    <3>2. QED  BY <3>1, CacheInsertFacts DEF HeldBy, TimeInv
  <2>2. CASE RemoveInactive(c)
    BY <2>2, Zenon DEF RemoveInactive, CacheRemove, TimeInv, TypeOK
  <2>3. CASE UNCHANGED cache
    BY <2>3, Zenon
  <2>4. QED
    BY <2>1, <2>2, <2>3, ZenonT(30) DEF CreateRow, BeginLookup, Get, Select, Stamp, Finish
<1>3. \A r \in Replicas : evicted[r] \subseteq Sessions
  BY Zenon DEF TimeInv, TypeOK
<1>4. \A v \in Logouts : logout'[v].pc = "remove" => rows'[logout'[v].sess] = "revoked"
  BY <1>0 DEF LocalInv, TimeInv, BoundInv
<1>5. \A r \in Replicas : \A s \in evicted'[r] : rows'[s] = "revoked"
  BY <1>0, <1>3, SMTT(30) DEF LocalInv
<1>6. ASSUME NEW r \in Replicas, NEW s \in evicted[r] \ raced[r]
      PROVE  cache'[r][s] = None /\ \A d \in Calls : ~HeldBy(d, r, s)'
  <2>1. s \in Sessions /\ rows[s] = "revoked" /\ cache[r][s] = None
    BY <1>3, Zenon DEF LocalInv
  <2>2. \A d \in Calls : ~HeldBy(d, r, s)
    BY Zenon DEF LocalInv
  <2>3. cache'[r][s] = None
    BY <1>2, <2>1, <2>2, Zenon
  <2>4. ASSUME NEW d \in Calls PROVE ~HeldBy(d, r, s)'
    <3>1. CASE d = c
      BY <1>1, <2>1, <2>2, <3>1, ZenonT(30)
    <3>2. CASE d # c
      BY <1>0, <2>2, <3>2, Zenon DEF HeldBy
    <3>3. QED  BY <3>1, <3>2, Zenon
  <2>5. QED  BY <2>3, <2>4, Zenon
<1>7. QED  BY <1>0, <1>4, <1>5, <1>6, Zenon DEF LocalInv

\* Logouts keep LocalInv: the UPDATE comes before the eviction.
LEMMA LogoutLocal ==
    ASSUME TimeInv, LocalInv, NEW v \in Logouts,
           \/ \E r \in Replicas, s \in Sessions : RevokeRow(v, r, s)
           \/ RevokeLocal(v) \/ RevokeDropped(v)
    PROVE  LocalInv'
<1> USE SessionAssumption DEF TimeInv, TypeOK
<1>0. NoLogout.pc = "idle" /\ UNCHANGED call
  BY Zenon DEF NoLogout, RevokeRow, RevokeLocal, RevokeDropped
<1>1. \A c \in Calls : \A r, s : HeldBy(c, r, s)' = HeldBy(c, r, s)
  BY <1>0, ZenonT(30) DEF HeldBy
<1>2. ASSUME NEW r \in Replicas, NEW s \in Sessions, RevokeRow(v, r, s) PROVE LocalInv'
  BY <1>1, <1>2, SMTT(30) DEF RevokeRow, LocalInv, BoundInv
<1>3. CASE RevokeLocal(v)
  <2> DEFINE r == logout[v].rep
             s == logout[v].sess
  <2>1. r \in Replicas /\ s \in Sessions /\ rows[s] = "revoked"
    BY <1>3, Zenon DEF RevokeLocal, BoundInv, LocalInv
  <2>2. /\ cache' = [cache EXCEPT ![r] = [@ EXCEPT ![s] = None]]
        /\ evicted' = [evicted EXCEPT ![r] = @ \cup {s}]
        /\ raced' = [raced EXCEPT ![r] =
                       @ \cup (IF \E c \in Calls : HeldBy(c, r, s) THEN {s} ELSE {})]
        /\ logout' = [logout EXCEPT ![v] = NoLogout] /\ UNCHANGED rows
    BY <1>3, ZenonT(30) DEF RevokeLocal, CacheRemove
  <2> HIDE DEF r, s
  <2>3. \A w \in Logouts : logout'[w].pc = "remove" => rows'[logout'[w].sess] = "revoked"
    BY <1>0, <2>2, ZenonT(30) DEF LocalInv
  <2>4. \A q \in Replicas : \A t \in evicted'[q] : rows'[t] = "revoked"
    BY <2>1, <2>2, Zenon DEF LocalInv
  <2>5. ASSUME NEW q \in Replicas, NEW t \in evicted'[q] \ raced'[q]
        PROVE  cache'[q][t] = None /\ \A c \in Calls : ~HeldBy(c, q, t)
    <3>1. CASE q = r /\ t = s
      BY <2>1, <2>2, <3>1, Zenon
    <3>2. CASE ~(q = r /\ t = s)
      <4>1. t \in evicted[q] \ raced[q] /\ t \in Sessions
        BY <2>1, <2>2, <3>2, Zenon
      <4>2. cache[q][t] = None /\ \A c \in Calls : ~HeldBy(c, q, t)
        BY <4>1, ZenonT(30) DEF LocalInv
      <4>3. QED  BY <2>1, <2>2, <3>2, <4>1, <4>2, Zenon
    <3>3. QED  BY <3>1, <3>2, Zenon
  <2>6. QED  BY <1>1, <2>3, <2>4, <2>5, SMTT(30) DEF LocalInv
<1>4. CASE RevokeDropped(v)
  BY <1>0, <1>1, <1>4, SMTT(30) DEF RevokeDropped, LocalInv
<1>5. QED  BY <1>2, <1>3, <1>4, ZenonT(30)

\* Restarts and time change neither the table nor what a call holds.
LEMMA OtherLocal ==
    ASSUME TimeInv, LocalInv, Tick \/ \E r \in Replicas : Restart(r)
    PROVE  LocalInv'
<1> USE SessionAssumption DEF TimeInv, TypeOK
<1>1. /\ UNCHANGED <<rows, evicted, raced>>
      /\ \A v \in Logouts : logout'[v] = logout[v] \/ logout'[v] = NoLogout
      /\ NoLogout.pc = "idle"
  BY Zenon DEF Tick, Restart, NoLogout
<1>2. \A r \in Replicas, s \in Sessions : cache[r][s] = None => cache'[r][s] = None
  <2>1. CASE Tick
    BY <2>1, ZenonT(30) DEF Tick
  <2>2. ASSUME NEW q \in Replicas, Restart(q)
        PROVE  \A r \in Replicas, s \in Sessions : cache[r][s] = None => cache'[r][s] = None
    BY <2>2 DEF Restart
  <2>3. QED  BY <2>1, <2>2, ZenonT(30)
<1>3. ASSUME NEW c \in Calls, NEW r, NEW s, HeldBy(c, r, s)' PROVE HeldBy(c, r, s)
  <2>1. CASE Tick
    <3>1. \/ call'[c] = call[c]
          \/ \E a : call'[c] = [call[c] EXCEPT !.age = a]
      BY <2>1, Zenon DEF Tick
    <3>2. QED  BY <1>3, <3>1, ZenonT(30) DEF HeldBy, CallStates
  <2>2. CASE \E q \in Replicas : Restart(q)
    <3>1. call'[c] = call[c] \/ call'[c] = Idle
      BY <2>2, Zenon DEF Restart
    <3>2. QED  BY <1>3, <3>1 DEF HeldBy, Idle
  <2>3. QED  BY <2>1, <2>2, Zenon
<1>4. \A v \in Logouts : logout'[v].pc = "remove" => rows'[logout'[v].sess] = "revoked"
  BY <1>1, Zenon DEF LocalInv
<1>5. \A r \in Replicas : \A s \in evicted'[r] \ raced'[r] :
         cache'[r][s] = None /\ \A c \in Calls : ~HeldBy(c, r, s)'
  BY <1>1, <1>2, <1>3, ZenonT(30) DEF LocalInv
<1>6. QED  BY <1>1, <1>4, <1>5, Zenon DEF LocalInv

\* A replica that has completed a logout keeps the session out of its cache,
\* unless one of its own lookups had read the row before the UPDATE.
THEOREM LocalRevocation == Spec => []RevokedLocally
<1>1. Init => LocalInv
  BY DEF Init, LocalInv, NoLogout
<1>2. TimeInv /\ LocalInv /\ [Next]_vars => LocalInv'
  <2> SUFFICES ASSUME TimeInv, LocalInv, [Next]_vars PROVE LocalInv'
    BY SMTT(30)
  <2>1. CASE UNCHANGED vars
    BY <2>1 DEF vars, LocalInv, HeldBy
  <2>2. ASSUME NEW c \in Calls,
               \/ \E r \in Replicas, s \in Sessions : CreateRow(c, r, s) \/ BeginLookup(c, r, s)
               \/ Get(c) \/ Select(c) \/ Stamp(c) \/ Insert(c) \/ RemoveInactive(c)
               \/ Finish(c)
        PROVE  LocalInv'
    BY <2>2, CallLocal, Zenon
  <2>3. ASSUME NEW v \in Logouts,
               \/ \E r \in Replicas, s \in Sessions : RevokeRow(v, r, s)
               \/ RevokeLocal(v) \/ RevokeDropped(v)
        PROVE  LocalInv'
    BY <2>3, LogoutLocal
  <2>4. QED  BY <2>1, <2>2, <2>3, OtherLocal DEF Next
<1>3. LocalInv => RevokedLocally
  BY DEF LocalInv, RevokedLocally
<1>4. QED  BY <1>1, <1>2, <1>3, TimeInvariance, PTL DEF Spec

-----------------------------------------------------------------------------
\* An insert into a full cache takes out at least as much as it puts in.
LEMMA InsertBounded ==
    ASSUME TypeOK, CacheBounded, NEW r \in Replicas, NEW s \in Sessions,
           NEW age \in 0..Ttl, CacheInsert(r, s, age)
    PROVE  CacheBounded'
<1> USE SessionAssumption
<1>1. PICK out \in IF Cardinality(Cached(r)) >= MaxEntries /\ s \notin Cached(r)
                   THEN Evicted(r) ELSE {{}} :
         cache' = [cache EXCEPT ![r] = [t \in Sessions |->
                     IF t = s THEN age ELSE IF t \in out THEN None ELSE cache[r][t]]]
  BY Zenon DEF CacheInsert
<1>2. /\ Cached(r)' = (Cached(r) \ out) \cup {s}
      /\ \A q \in Replicas \ {r} : Cached(q)' = Cached(q)
  BY <1>1, SMTT(30) DEF Cached, TypeOK
<1>3. IsFiniteSet(Cached(r)) /\ Cardinality(Cached(r)) \in Nat
      /\ Cardinality(Cached(r)) <= MaxEntries
  BY FS_Subset, FS_CardinalityType, Zenon DEF Cached, CacheBounded
<1>4. /\ IsFiniteSet(Cached(r) \ out) /\ Cardinality(Cached(r) \ out) \in Nat
      /\ Cardinality(Cached(r) \ out) <= Cardinality(Cached(r))
      /\ Cardinality(Cached(r) \ out) = Cardinality(Cached(r)) => Cached(r) \ out = Cached(r)
  BY <1>3, FS_Subset, FS_CardinalityType, Zenon
<1>5. Cardinality((Cached(r) \ out) \cup {s}) =
        IF s \in Cached(r) \ out THEN Cardinality(Cached(r) \ out)
                                 ELSE Cardinality(Cached(r) \ out) + 1
  BY <1>4, FS_AddElement, Zenon, ZenonT(30)
<1>6. CASE s \in Cached(r)
  <2>1. out = {} /\ Cached(r) \ out = Cached(r)
    BY <1>1, <1>6
  <2>2. Cardinality(Cached(r)') <= MaxEntries
    BY <1>2, <1>3, <1>5, <1>6, <2>1, Zenon
  <2>3. QED  BY <1>2, <2>2 DEF CacheBounded
<1>7. CASE s \notin Cached(r) /\ Cardinality(Cached(r)) < MaxEntries
  <2>1. Cardinality(Cached(r)') <= MaxEntries
    BY <1>2, <1>3, <1>4, <1>5, <1>7
  <2>2. QED  BY <1>2, <2>1 DEF CacheBounded
<1>8. CASE s \notin Cached(r) /\ Cardinality(Cached(r)) >= MaxEntries
  <2>1. out \in Evicted(r)
    BY <1>1, <1>8
  <2>2. out # {} /\ out \subseteq Cached(r)
    BY <2>1 DEF Evicted
  <2>3. Cardinality(Cached(r) \ out) < Cardinality(Cached(r))
    BY <1>3, <1>4, <2>2, SMTT(30)
  <2>4. Cardinality(Cached(r)') <= MaxEntries
    BY <1>2, <1>3, <1>4, <1>5, <1>8, <2>3, SMTT(30)
  <2>5. QED  BY <1>2, <2>4 DEF CacheBounded
<1>9. QED  BY <1>3, <1>6, <1>7, <1>8

\* Only inserts add entries.
LEMMA ShrinkBounded ==
    ASSUME CacheBounded,
           \A r \in Replicas, s \in Sessions : cache[r][s] = None => cache'[r][s] = None
    PROVE  CacheBounded'
<1> SUFFICES ASSUME NEW r \in Replicas PROVE Cardinality(Cached(r)') <= MaxEntries
  BY Zenon DEF CacheBounded
<1>1. Cached(r)' \in SUBSET Cached(r)
  BY Zenon DEF Cached
<1>2. IsFiniteSet(Cached(r))
  BY SessionAssumption, FS_Subset DEF Cached
<1>3. /\ Cardinality(Cached(r)') <= Cardinality(Cached(r))
      /\ Cardinality(Cached(r)') \in Nat /\ Cardinality(Cached(r)) \in Nat
  BY <1>1, <1>2, FS_Subset, FS_CardinalityType
<1>4. QED  BY <1>3, SessionAssumption, SMTT(30) DEF CacheBounded

\* max_entries bounds every cache, whatever the churn of logins.
THEOREM CacheCapacity == Spec => []CacheBounded
<1>1. Init => CacheBounded
  <2> SUFFICES ASSUME Init, NEW r \in Replicas PROVE Cardinality(Cached(r)) <= MaxEntries
    BY Zenon DEF CacheBounded
  <2>1. Cached(r) = {}
    BY Zenon DEF Init, Cached
  <2>2. QED  BY <2>1, FS_EmptySet, SessionAssumption
<1>2. TimeInv /\ CacheBounded /\ [Next]_vars => CacheBounded'
  <2> SUFFICES ASSUME TimeInv, CacheBounded, [Next]_vars PROVE CacheBounded'
    BY ZenonT(30)
  <2> USE DEF TimeInv
  <2>1. ASSUME NEW c \in Calls, Insert(c) PROVE CacheBounded'
    <3>1. /\ call[c].rep \in Replicas /\ call[c].sess \in Sessions /\ call[c].age \in 0..Ttl
          /\ CacheInsert(call[c].rep, call[c].sess, call[c].age)
      BY <2>1, ZenonT(30) DEF Insert, TypeOK, BoundInv, CallStates
    <3>2. QED  BY <3>1, InsertBounded
  <2>2. CASE UNCHANGED cache
    BY <2>2, ShrinkBounded
  <2>3. ASSUME NEW c \in Calls, RemoveInactive(c) PROVE CacheBounded'
    BY <2>3, ShrinkBounded DEF RemoveInactive, CacheRemove, TypeOK
  <2>4. ASSUME NEW v \in Logouts, RevokeLocal(v) PROVE CacheBounded'
    BY <2>4, ShrinkBounded, Zenon DEF RevokeLocal, CacheRemove, TypeOK
  <2>5. ASSUME NEW r \in Replicas, Restart(r) PROVE CacheBounded'
    BY <2>5, ShrinkBounded DEF Restart, TypeOK
  <2>6. CASE Tick
    BY <2>6, ShrinkBounded, ZenonT(30) DEF Tick
  <2>7. QED
    BY <2>1, <2>2, <2>3, <2>4, <2>5, <2>6, Zenon
       DEF Next, vars, CreateRow, BeginLookup, Get, Select, Stamp, Finish,
           RevokeRow, RevokeDropped
<1>3. QED  BY <1>1, <1>2, TimeInvariance, PTL DEF Spec
=============================================================================
