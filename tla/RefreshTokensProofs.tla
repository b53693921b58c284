------------------------ MODULE RefreshTokensProofs ------------------------
(***************************************************************************)
(* Rotation, for any number of requests, chains, tokens and lifetimes: one *)
(* holder per chain, ended chains stay ended, and the absolute deadline.   *)
(* The inductive invariant adds to them that whatever has a chain belongs  *)
(* to a chain that was started, and that the age it carries is the true    *)
(* age of the chain.                                                       *)
(***************************************************************************)
EXTENDS RefreshTokens, FiniteSetTheorems, TLAPS

RowType == [chain : Chains \cup {None}, age : 0..MaxAge, ttl : Ttls \cup {0}]
ReqType == [pc : {"idle", "session", "store", "insert", "overloaded"},
            chain : Chains \cup {None}, rotation : BOOLEAN,
            age : 0..MaxAge, takenAt : 0..MaxAge,
            allowed : Ttls \cup {0}, token : Tokens \cup {None}]

\* A row carries the true age of a chain that was started.
RowInv(t) == Present(t) => /\ owner[rows[t].chain] # None
                           /\ rows[t].age = age[rows[t].chain]

\* So does a request that has a chain, once the chain is born.
ReqInv(r) ==
    /\ Holds(r) => req[r].chain # None /\ owner[req[r].chain] # None
    /\ (Holds(r) /\ (req[r].rotation \/ req[r].pc # "session")) =>
          req[r].age = age[req[r].chain]
    /\ (req[r].pc = "session" /\ ~req[r].rotation) => req[r].age = 0
    /\ req[r].rotation => req[r].takenAt < req[r].allowed

EndInv == \A ch \in ended : owner[ch] # None /\ Gone(ch)

IInv == /\ TypeOK
        /\ OneHolder
        /\ EndInv
        /\ \A t \in Tokens : RowInv(t)
        /\ \A r \in Requests : ReqInv(r)

\* The bounds of the ages.
LEMMA Bounds == /\ MaxAge \in Nat /\ 0 \in 0..MaxAge
                /\ \A n \in 0..MaxAge : Older(n) \in 0..MaxAge
                /\ \A n \in Ttls : n \in Nat
<1>1. MaxAge \in Nat /\ (\A n \in Ttls : n \in Nat)
  BY RefreshAssumption, Zenon
<1> QED BY <1>1 DEF Older

\* A step that only lets go of chains keeps one holder, and keeps ended chains gone.
LEMMA LetGo ==
    ASSUME TypeOK, OneHolder, EndInv,
           \A t \in Tokens : rows'[t].chain = rows[t].chain \/ rows'[t].chain = None,
           \A r \in Requests : Holds(r)' => Holds(r) /\ req'[r].chain = req[r].chain
    PROVE  /\ OneHolder'
           /\ \A ch \in ended : Gone(ch)'
<1>1. None \notin Chains
  BY RefreshAssumption, Zenon
<1>2. OneHolder'
  BY <1>1, ZenonT(30) DEF OneHolder
<1>3. ASSUME NEW ch \in ended PROVE Gone(ch)'
  <2>1. Gone(ch) /\ ch # None
    BY <1>1, Zenon DEF EndInv, TypeOK
  <2> QED BY <2>1 DEF Gone
<1> QED BY <1>2, <1>3, Zenon

\* The same, when the chains recorded as ended and started do not change.
LEMMA LetGoQuiet ==
    ASSUME TypeOK, OneHolder, EndInv, ended' = ended, owner' = owner,
           \A t \in Tokens : rows'[t].chain = rows[t].chain \/ rows'[t].chain = None,
           \A r \in Requests : Holds(r)' => Holds(r) /\ req'[r].chain = req[r].chain
    PROVE  OneHolder' /\ EndInv'
<1>1. OneHolder' /\ \A ch \in ended : Gone(ch)'
  BY LetGo, Zenon
<1> QED BY <1>1, Zenon DEF EndInv

\* What is known of a row depends on the row, the chains' owners and ages.
LEMMA RowKept ==
    ASSUME NEW t \in Tokens, RowInv(t), owner' = owner, age' = age,
           rows'[t] = rows[t] \/ rows'[t].chain = None
    PROVE  RowInv(t)'
BY Zenon DEF RowInv, Present

\* And so does what is known of a request.
LEMMA ReqKept ==
    ASSUME NEW r \in Requests, ReqInv(r), owner' = owner, age' = age, req'[r] = req[r]
    PROVE  ReqInv(r)'
BY Zenon DEF ReqInv, Holds

\* An idle request has nothing to keep.
LEMMA IdleHolds ==
    ASSUME NEW r \in Requests, req'[r] = Idle
    PROVE  ReqInv(r)' /\ ~Holds(r)'
BY DEF ReqInv, Holds, Idle

LEMMA IdleType == Idle \in ReqType /\ Absent \in RowType /\ Absent.chain = None
BY Bounds, Zenon DEF Idle, Absent, ReqType, RowType

\* Every step of a request, of a revocation, a logout, the sweep, a restart
\* and the clock keeps the invariant.
THEOREM ChainInvariance == Spec => []IInv
<1>1. Init => IInv
  <2> SUFFICES ASSUME Init PROVE IInv
    BY Zenon
  <2>1. TypeOK
    BY IdleType, Bounds DEF Init, TypeOK, RowType, ReqType
  <2>2. (\A t \in Tokens : rows[t].chain = None) /\ (\A r \in Requests : req[r] = Idle)
    BY Zenon DEF Init, Absent
  <2>3. (\A r \in Requests : ~Holds(r) /\ ReqInv(r)) /\ None \notin Chains
    BY <2>2, RefreshAssumption DEF Holds, ReqInv, Idle
  <2>4. OneHolder /\ EndInv
    BY <2>2, <2>3, Zenon DEF OneHolder, EndInv, Init
  <2>5. \A t \in Tokens : RowInv(t)
    BY <2>2, Zenon DEF RowInv, Present
  <2> QED BY <2>1, <2>3, <2>4, <2>5, Zenon DEF IInv
<1>2. IInv /\ [Next]_vars => IInv'
  <2> SUFFICES ASSUME IInv, [Next]_vars PROVE IInv'
    BY Zenon
  <2>0. TypeOK /\ OneHolder /\ EndInv
        /\ (\A t \in Tokens : RowInv(t)) /\ (\A r \in Requests : ReqInv(r))
        /\ None \notin Chains
    BY RefreshAssumption, Zenon DEF IInv
  <2>T. /\ rows \in [Tokens -> RowType] /\ req \in [Requests -> ReqType]
        /\ age \in [Chains -> 0..MaxAge] /\ owner \in [Chains -> Subs \cup {None}]
        /\ ttl \in Ttls /\ minted \subseteq Tokens
        /\ ended \subseteq Chains
    BY <2>0, Zenon DEF TypeOK, RowType, ReqType
  \* Dropping one row.
  <2>D. ASSUME NEW t \in Tokens, rows' = [rows EXCEPT ![t] = Absent]
        PROVE  /\ rows' \in [Tokens -> RowType]
               /\ \A u \in Tokens : rows'[u] = rows[u] \/ rows'[u].chain = None
               /\ rows'[t].chain = None
               /\ \A u \in Tokens : u # t => rows'[u] = rows[u]
    BY <2>D, <2>T, IdleType, Zenon
  <2>1. ASSUME NEW r \in Requests, NEW ch \in Chains, NEW s \in Subs, RedeemCode(r, ch, s)
        PROVE  IInv'
    <3> DEFINE new == [Idle EXCEPT !.pc = "session", !.chain = ch]
    <3>1. /\ new \in ReqType /\ new.pc = "session" /\ new.chain = ch
          /\ new.rotation = FALSE /\ new.age = 0
      BY Bounds, Zenon DEF Idle, ReqType
    <3>2. req' = [req EXCEPT ![r] = new]
      BY <2>1, Zenon DEF RedeemCode
    <3> HIDE DEF new
    <3>3. req'[r] = new /\ (\A q \in Requests : q # r => req'[q] = req[q])
          /\ req' \in [Requests -> ReqType]
      BY <3>1, <3>2, <2>T, Zenon
    <3>4. owner[ch] = None /\ owner' = [owner EXCEPT ![ch] = s] /\ s # None
      BY <2>1, RefreshAssumption, Zenon DEF RedeemCode
    <3>5. \A c \in Chains : owner[c] # None => owner'[c] # None /\ c # ch
      BY <3>4, <2>T, Zenon
    <3>6. UNCHANGED <<rows, minted, age, ttl, ended>>
      BY <2>1, Zenon DEF RedeemCode
    <3>7. TypeOK'
      BY <3>3, <3>4, <3>6, <2>T, Zenon DEF TypeOK, RowType, ReqType
    <3>8. \A t \in Tokens : RowInv(t)' /\ rows[t].chain # ch
      BY <2>0, <2>T, <3>5, <3>6, Zenon DEF RowInv, Present, RowType
    <3>9. \A q \in Requests : Holds(q) => req[q].chain # ch /\ req[q].chain \in Chains
      BY <2>0, <2>T, <3>4, Zenon DEF ReqInv, ReqType
    <3>10. \A q \in Requests : q # r => ReqInv(q)' /\ (Holds(q)' <=> Holds(q))
      BY <2>0, <2>T, <3>3, <3>5, <3>6, <3>9, ZenonT(30) DEF ReqInv, Holds
    <3>11. ReqInv(r)'
      <4>1. /\ req'[r].pc = "session" /\ req'[r].chain = ch /\ req'[r].rotation = FALSE
            /\ req'[r].age = 0 /\ owner'[ch] # None /\ ch # None
        BY <3>1, <3>3, <3>4, <2>0, <2>T, Zenon
      <4> QED BY <4>1, Zenon DEF ReqInv, Holds
    <3>12. OneHolder'
      BY <2>0, <3>1, <3>3, <3>6, <3>8, <3>9, <3>10 DEF OneHolder
    <3>13. EndInv'
      <4> SUFFICES ASSUME NEW c \in ended PROVE owner'[c] # None /\ Gone(c)'
        BY <3>6, Zenon DEF EndInv
      <4>1. owner[c] # None /\ Gone(c) /\ c \in Chains
        BY <2>0, <2>T, Zenon DEF EndInv
      <4>2. c # ch /\ owner'[c] # None
        BY <4>1, <3>5, Zenon
      <4> QED BY <4>1, <4>2, <3>1, <3>3, <3>6, <3>10, Zenon DEF Gone
    <3> QED BY <3>7, <3>8, <3>10, <3>11, <3>12, <3>13, Zenon DEF IInv
  <2>2. ASSUME NEW r \in Requests, NEW t \in Tokens, Take(r, t) PROVE IInv'
    <3>1. UNCHANGED <<minted, owner, age, ttl, ended>>
          /\ rows' = [rows EXCEPT ![t] = Absent]
      BY <2>2, Zenon DEF Take
    <3>2. \A u \in Tokens : RowInv(u)'
      BY <3>1, <2>D, <2>0, RowKept, Zenon
    <3>3. CASE ~(rows[t].age < ttl)
      <4>1. req' = req
        BY <2>2, <2>T, <3>3, Zenon DEF Take
      <4>2. TypeOK'
        BY <3>1, <4>1, <2>D, <2>T, Zenon DEF TypeOK, RowType, ReqType
      <4>3. OneHolder' /\ EndInv'
        BY <3>1, <4>1, <2>D, <2>0, LetGoQuiet, Zenon DEF Holds
      <4>4. \A q \in Requests : ReqInv(q)'
        BY <3>1, <4>1, <2>0, ReqKept, Zenon
      <4> QED BY <4>2, <4>3, <4>4, <3>2, Zenon DEF IInv
    <3>4. CASE rows[t].age < ttl
      <4> DEFINE ch == rows[t].chain
                 new == [Idle EXCEPT !.pc = "session", !.chain = rows[t].chain,
                                     !.rotation = TRUE, !.age = rows[t].age,
                                     !.takenAt = age[rows[t].chain], !.allowed = ttl]
      <4>1. /\ ch \in Chains /\ rows[t].age \in 0..MaxAge /\ rows[t].age = age[ch]
            /\ owner[ch] # None
        BY <2>2, <2>T, <2>0, Zenon DEF Take, Present, RowType, RowInv
      <4>2. /\ new \in ReqType /\ new.pc = "session" /\ new.chain = ch /\ new.rotation
            /\ new.age = age[ch] /\ new.takenAt = age[ch] /\ new.allowed = ttl
        BY <4>1, <2>T, Bounds, Zenon DEF Idle, ReqType
      <4>3. req' = [req EXCEPT ![r] = new] /\ req[r].pc = "idle"
        BY <2>2, <3>4, Zenon DEF Take
      <4> HIDE DEF new
      <4>4. req'[r] = new /\ (\A q \in Requests : q # r => req'[q] = req[q])
            /\ req' \in [Requests -> ReqType]
        BY <4>2, <4>3, <2>T, Zenon
      <4>5. TypeOK'
        BY <3>1, <4>4, <2>D, <2>T, Zenon DEF TypeOK, RowType, ReqType
      <4>6. age[ch] < ttl
        BY <3>4, <4>1, Zenon
      <4>7. ReqInv(r)'
        <5>1. /\ req'[r].pc = "session" /\ req'[r].chain = ch /\ ch # None
              /\ req'[r].age = age[ch] /\ req'[r].takenAt < req'[r].allowed
              /\ owner'[ch] # None /\ age'[ch] = age[ch] /\ req'[r].rotation
          BY <3>1, <4>1, <4>2, <4>4, <4>6, <2>0, Zenon
        <5> QED BY <5>1, Zenon DEF ReqInv, Holds
      <4>8. \A q \in Requests : q # r => ReqInv(q)' /\ (Holds(q)' <=> Holds(q))
        BY <3>1, <4>4, <2>0, Zenon DEF ReqInv, Holds
      <4>9. \A u \in Tokens : rows'[u].chain # ch
        BY <3>1, <2>D, <2>0, <4>1, ZenonT(30) DEF OneHolder
      <4>10. \A q \in Requests : Holds(q) => req[q].chain # ch
        BY <2>0, <4>1 DEF OneHolder
      <4>13. \A u \in Tokens : rows'[u].chain = rows[u].chain \/ rows'[u].chain = None
        BY <3>1, <2>D, Zenon
      <4>14. req'[r].chain = ch
        BY <4>2, <4>4
      <4>15. \A q \in Requests : q # r => req'[q].chain = req[q].chain
        BY <4>4
      <4>11. OneHolder'
        BY <2>0, <4>8, <4>9, <4>10, <4>13, <4>14, <4>15 DEF OneHolder
      <4>12. EndInv'
        <5> SUFFICES ASSUME NEW c \in ended PROVE Gone(c)'
          BY <3>1, <2>0 DEF EndInv
        <5>1. Gone(c) /\ c \in Chains
          BY <2>0, <2>T DEF EndInv
        <5>2. c # ch
          BY <5>1, Zenon DEF Gone
        <5> QED BY <5>1, <5>2, <2>0, <4>8, <4>13, <4>14, <4>15, Zenon DEF Gone
      <4> QED BY <4>5, <4>7, <4>8, <4>11, <4>12, <3>2, Zenon DEF IInv
    <3> QED BY <3>3, <3>4, Zenon
  <2>3. ASSUME NEW t \in Tokens, TakeUnanswered(t) PROVE IInv'
    <3>1. UNCHANGED <<minted, owner, age, req, ttl, ended>>
          /\ rows' = [rows EXCEPT ![t] = Absent]
      BY <2>3, Zenon DEF TakeUnanswered
    <3>2. TypeOK'
      BY <3>1, <2>D, <2>T, Zenon DEF TypeOK, RowType, ReqType
    <3>3. OneHolder' /\ EndInv'
      BY <3>1, <2>D, <2>0, LetGoQuiet, Zenon DEF Holds
    <3>4. (\A u \in Tokens : RowInv(u)') /\ (\A q \in Requests : ReqInv(q)')
      BY <3>1, <2>D, <2>0, RowKept, ReqKept, Zenon
    <3> QED BY <3>2, <3>3, <3>4, Zenon DEF IInv
  \* A request that moves on and keeps or lets go of its chain, age and history.
  <2>M. ASSUME NEW r \in Requests, NEW new \in ReqType, req' = [req EXCEPT ![r] = new],
               new.pc \in {"store", "insert"} => Holds(r) /\ new.chain = req[r].chain,
               new.pc # "session"
        PROVE  /\ req' \in [Requests -> ReqType] /\ req'[r] = new
               /\ \A q \in Requests : q # r => req'[q] = req[q]
               /\ \A q \in Requests : Holds(q)' => Holds(q) /\ req'[q].chain = req[q].chain
    <3>1. req' \in [Requests -> ReqType] /\ req'[r] = new
          /\ \A q \in Requests : q # r => req'[q] = req[q]
      BY <2>M, <2>T, Zenon
    <3> QED BY <3>1, <2>M, Zenon DEF Holds
  <2>4. ASSUME NEW r \in Requests, CreateSession(r) PROVE IInv'
    <3> DEFINE new == [req[r] EXCEPT !.pc = "store"]
               ch == req[r].chain
    <3>1. /\ new \in ReqType /\ new.pc = "store" /\ new.chain = ch
          /\ new.rotation = req[r].rotation /\ new.age = req[r].age
          /\ new.takenAt = req[r].takenAt /\ new.allowed = req[r].allowed
      BY <2>T, ZenonT(30) DEF ReqType
    <3>2. req' = [req EXCEPT ![r] = new] /\ req[r].pc = "session" /\ Holds(r)
      BY <2>4, Zenon DEF CreateSession, Holds
    <3>3. ch \in Chains /\ owner[ch] # None
      BY <3>2, <2>0, <2>T, Zenon DEF ReqInv, ReqType
    <3>4. UNCHANGED <<rows, minted, owner, ttl, ended>>
          /\ age' = IF req[r].rotation THEN age ELSE [age EXCEPT ![ch] = 0]
      BY <2>4, Zenon DEF CreateSession
    <3> HIDE DEF new
    <3>5. /\ req' \in [Requests -> ReqType] /\ req'[r] = new
          /\ \A q \in Requests : q # r => req'[q] = req[q]
          /\ \A q \in Requests : Holds(q)' => Holds(q) /\ req'[q].chain = req[q].chain
      BY <2>M, <3>1, <3>2, Zenon
    <3>6. age' \in [Chains -> 0..MaxAge] /\ (\A c \in Chains : c # ch => age'[c] = age[c])
          /\ age'[ch] = IF req[r].rotation THEN age[ch] ELSE 0
      BY <3>3, <3>4, <2>T, Bounds, Zenon
    <3>7. TypeOK'
      BY <3>4, <3>5, <3>6, <2>T, Zenon DEF TypeOK, RowType, ReqType
    <3>8. OneHolder' /\ EndInv'
      BY <3>4, <3>5, <2>0, LetGoQuiet, Zenon
    <3>9. ASSUME NEW u \in Tokens PROVE RowInv(u)'
      <4>1. rows[u].chain # ch
        BY <3>2, <3>3, <2>0, Zenon DEF OneHolder
      <4>2. Present(u) => rows[u].chain \in Chains
        BY <2>T, Zenon DEF Present, RowType
      <4> QED BY <4>1, <4>2, <3>4, <3>6, <2>0, Zenon DEF RowInv, Present
    <3>10. ReqInv(r)'
      <4>1. (req[r].rotation => req[r].age = age[ch]) /\ (~req[r].rotation => req[r].age = 0)
            /\ (req[r].rotation => req[r].takenAt < req[r].allowed)
        BY <2>0, <3>2, Zenon DEF ReqInv
      <4>2. new.age = age'[ch]
        BY <4>1, <3>1, <3>6, Zenon
      <4>3. /\ req'[r].pc = "store" /\ req'[r].chain = ch /\ req'[r].age = age'[ch]
            /\ owner'[ch] # None /\ ch # None
        BY <4>2, <3>1, <3>3, <3>4, <3>5, <2>0, Zenon
      <4>4. req'[r].rotation => req'[r].takenAt < req'[r].allowed
        BY <4>1, <3>1, <3>5, Zenon
      <4> QED BY <4>3, <4>4, Zenon DEF ReqInv, Holds
    <3>11. ASSUME NEW q \in Requests, q # r PROVE ReqInv(q)'
      <4>1. Holds(q) => req[q].chain # ch /\ req[q].chain \in Chains
        BY <3>2, <3>3, <3>11, <2>0, <2>T, ZenonT(30) DEF OneHolder, ReqInv, ReqType
      <4>2. (Holds(q)' <=> Holds(q)) /\ req'[q] = req[q]
        BY <3>5, <3>11, Zenon DEF Holds
      <4>3. Holds(q) => age'[req[q].chain] = age[req[q].chain]
        BY <4>1, <3>6, Zenon
      <4> QED BY <4>2, <4>3, <3>4, <2>0, Zenon DEF ReqInv
    <3> QED BY <3>7, <3>8, <3>9, <3>10, <3>11, Zenon DEF IInv
  <2>5. ASSUME NEW r \in Requests, NEW t \in Tokens, CountRows(r, t) PROVE IInv'
    <3> DEFINE new == IF Cardinality(Stored) >= MaxTokens
                      THEN [req[r] EXCEPT !.pc = "overloaded"]
                      ELSE [req[r] EXCEPT !.pc = "insert", !.token = t]
    <3>1. /\ new \in ReqType /\ new.pc \in {"insert", "overloaded"}
          /\ new.chain = req[r].chain /\ new.rotation = req[r].rotation
          /\ new.age = req[r].age /\ new.takenAt = req[r].takenAt
          /\ new.allowed = req[r].allowed
      BY <2>T, ZenonT(30) DEF ReqType
    <3>2. req' = [req EXCEPT ![r] = new] /\ req[r].pc = "store" /\ Holds(r)
      BY <2>5 DEF CountRows, Holds
    <3>3. UNCHANGED <<rows, owner, age, ttl, ended>> /\ minted' = minted \cup {t}
      BY <2>5 DEF CountRows
    <3> HIDE DEF new
    <3>5. /\ req' \in [Requests -> ReqType] /\ req'[r] = new
          /\ \A q \in Requests : q # r => req'[q] = req[q]
          /\ \A q \in Requests : Holds(q)' => Holds(q) /\ req'[q].chain = req[q].chain
      BY <2>M, <3>1, <3>2, Zenon
    <3>7. TypeOK'
      BY <3>3, <3>5, <2>T DEF TypeOK, RowType, ReqType
    <3>8. OneHolder' /\ EndInv'
      BY <3>3, <3>5, <2>0, LetGoQuiet
    <3>9. (\A u \in Tokens : RowInv(u)') /\ (\A q \in Requests : q # r => ReqInv(q)')
      BY <3>3, <3>5, <2>0, RowKept, ReqKept, Zenon
    <3>10. ReqInv(r)'
      BY <3>1, <3>2, <3>3, <3>5, <2>0 DEF ReqInv, Holds
    <3> QED BY <3>7, <3>8, <3>9, <3>10, Zenon DEF IInv
  \* The upsert: the row takes over the chain of the request.
  <2>I. ASSUME NEW r \in Requests, NEW new \in ReqType, req[r].pc = "insert",
               req' = [req EXCEPT ![r] = new], new.pc \in {"idle", "overloaded"},
               new.rotation => new.takenAt < new.allowed,
               rows' = [rows EXCEPT ![req[r].token] = NewRow(r)],
               UNCHANGED <<minted, owner, age, ttl, ended>>
        PROVE  IInv'
    <3> DEFINE ch == req[r].chain
    <3>1. ch \in Chains /\ owner[ch] # None /\ req[r].age = age[ch] /\ Holds(r)
      BY <2>I, <2>0, <2>T, Zenon DEF ReqInv, ReqType, Holds
    <3>2. /\ NewRow(r) \in RowType /\ NewRow(r).chain = ch /\ NewRow(r).age = age[ch]
      BY <3>1, <2>T, Zenon DEF NewRow, RowType
    <3>3. \A u \in Tokens : rows'[u] = rows[u] \/ (u = req[r].token /\ rows'[u] = NewRow(r))
      BY <2>I, <2>T, Zenon
    <3>4. rows' \in [Tokens -> RowType]
      BY <2>I, <3>2, <2>T, Zenon
    <3>5. /\ req' \in [Requests -> ReqType] /\ req'[r] = new
          /\ \A q \in Requests : q # r => req'[q] = req[q]
          /\ \A q \in Requests : Holds(q)' => Holds(q) /\ req'[q].chain = req[q].chain
      BY <2>M, <2>I, Zenon
    <3>6. TypeOK'
      BY <2>I, <3>4, <3>5, <2>T, Zenon DEF TypeOK, RowType, ReqType
    <3>7. \A u \in Tokens : RowInv(u)'
      BY <2>I, <3>1, <3>2, <3>3, <2>0, Zenon DEF RowInv, Present
    <3>8. \A q \in Requests : ReqInv(q)'
      BY <2>I, <3>5, <2>0 DEF ReqInv, Holds
    <3>9. ~Holds(r)' /\ \A q \in Requests : q # r /\ Holds(q)' => req'[q].chain # ch
      BY <2>I, <3>1, <3>5, <2>0 DEF Holds, OneHolder
    <3>10. \A u \in Tokens : rows[u].chain # ch
      BY <3>1, <2>0, Zenon DEF OneHolder
    <3>11. \A u \in Tokens : rows'[u].chain = rows[u].chain
                             \/ (u = req[r].token /\ rows'[u].chain = ch)
      BY <3>2, <3>3, Zenon
    <3>12. OneHolder'
      BY <2>0, <3>5, <3>9, <3>10, <3>11 DEF OneHolder
    <3>13. EndInv'
      <4> SUFFICES ASSUME NEW c \in ended PROVE Gone(c)'
        BY <2>I, <2>0, Zenon DEF EndInv
      <4>1. Gone(c)
        BY <2>0, Zenon DEF EndInv
      <4>2. c # ch
        BY <4>1, <3>1, Zenon DEF Gone
      <4> QED BY <4>1, <4>2, <3>5, <3>11, Zenon DEF Gone
    <3> QED BY <3>6, <3>7, <3>8, <3>12, <3>13, Zenon DEF IInv
  <2>6. ASSUME NEW r \in Requests, InsertRow(r) PROVE IInv'
    <3>1. Idle \in ReqType /\ Idle.pc = "idle" /\ Idle.rotation = FALSE
      BY IdleType, Zenon DEF Idle
    <3> QED BY <3>1, <2>6, <2>I, Zenon DEF InsertRow
  <2>7. ASSUME NEW r \in Requests, InsertUnanswered(r) PROVE IInv'
    <3> DEFINE new == [req[r] EXCEPT !.pc = "overloaded"]
    <3>1. /\ new \in ReqType /\ new.pc = "overloaded" /\ new.rotation = req[r].rotation
          /\ new.takenAt = req[r].takenAt /\ new.allowed = req[r].allowed
      BY <2>T DEF ReqType
    <3>2. req' = [req EXCEPT ![r] = new]
      BY <2>7, Zenon DEF InsertUnanswered
    <3> HIDE DEF new
    <3>3. new.rotation => new.takenAt < new.allowed
      BY <3>1, <2>0, Zenon DEF ReqInv
    <3> QED BY <3>1, <3>2, <3>3, <2>7, <2>I, Zenon DEF InsertUnanswered
  \* A request that lets go.
  <2>L. ASSUME NEW r \in Requests, NEW new \in ReqType, req' = [req EXCEPT ![r] = new],
               new.pc \in {"idle", "overloaded"}, new.rotation => new.takenAt < new.allowed,
               UNCHANGED <<rows, minted, owner, age, ttl, ended>>
        PROVE  IInv'
    <3>1. /\ req' \in [Requests -> ReqType] /\ req'[r] = new
          /\ \A q \in Requests : q # r => req'[q] = req[q]
          /\ \A q \in Requests : Holds(q)' => Holds(q) /\ req'[q].chain = req[q].chain
      BY <2>M, <2>L, Zenon
    <3>2. TypeOK'
      BY <2>L, <3>1, <2>T, Zenon DEF TypeOK, RowType, ReqType
    <3>3. OneHolder' /\ EndInv'
      BY <2>L, <3>1, <2>0, LetGoQuiet, Zenon
    <3>4. (\A u \in Tokens : RowInv(u)') /\ (\A q \in Requests : q # r => ReqInv(q)')
      BY <2>L, <3>1, <2>0, RowKept, ReqKept, Zenon
    <3>5. ReqInv(r)'
      BY <2>L, <3>1, Zenon DEF ReqInv, Holds
    <3> QED BY <3>2, <3>3, <3>4, <3>5, Zenon DEF IInv
  <2>8. ASSUME NEW r \in Requests, Fail(r) \/ AnswerOverloaded(r) PROVE IInv'
    <3>1. CASE req' = [req EXCEPT ![r] = Idle]
      <4>1. Idle \in ReqType /\ Idle.pc = "idle" /\ Idle.rotation = FALSE
        BY IdleType DEF Idle
      <4> QED BY <4>1, <3>1, <2>8, <2>L, Zenon DEF Fail, AnswerOverloaded
    <3>2. CASE req' = [req EXCEPT ![r].pc = "overloaded"]
      <4> DEFINE new == [req[r] EXCEPT !.pc = "overloaded"]
      <4>1. /\ new \in ReqType /\ new.pc = "overloaded" /\ new.rotation = req[r].rotation
            /\ new.takenAt = req[r].takenAt /\ new.allowed = req[r].allowed
        BY <2>T DEF ReqType
      <4>2. req' = [req EXCEPT ![r] = new]
        BY <3>2, Zenon
      <4> HIDE DEF new
      <4>3. new.rotation => new.takenAt < new.allowed
        BY <4>1, <2>0, Zenon DEF ReqInv
      <4> QED BY <4>1, <4>2, <4>3, <2>8, <2>L, Zenon DEF Fail, AnswerOverloaded
    <3> QED BY <2>8, <3>1, <3>2, Zenon DEF Fail, AnswerOverloaded
  <2>9. ASSUME NEW t \in Tokens, Revoke(t) PROVE IInv'
    <3>0. PICK ch \in Chains : ch = rows[t].chain
      BY <2>9, <2>T, Zenon DEF Revoke, Present, RowType
    <3>1. /\ UNCHANGED <<minted, owner, age, req, ttl>>
          /\ rows' = [rows EXCEPT ![t] = Absent] /\ ended' = ended \cup {ch}
      BY <2>9, <3>0, Zenon DEF Revoke
    <3>2. ch \in Chains /\ owner[ch] # None
      BY <2>9, <3>0, <2>0, Zenon DEF Revoke, Present, RowInv
    <3>3. TypeOK'
      BY <3>1, <3>2, <2>D, <2>T, Zenon DEF TypeOK, RowType, ReqType
    <3>4. OneHolder' /\ \A c \in ended : Gone(c)'
      BY <3>1, <2>D, <2>0, LetGo, Zenon DEF Holds
    <3>5. Gone(ch)'
      <4>1. \A u \in Tokens : rows'[u].chain # ch
        <5>1. rows'[t].chain # ch
          BY <3>1, <3>2, <2>D, <2>0, Zenon
        <5>2. \A u \in Tokens : u # t => rows'[u].chain = rows[u].chain
          BY <3>1, <2>D, Zenon
        <5>3. \A u \in Tokens : u # t => rows[u].chain # ch
          BY <3>0, <3>2, <2>0, Zenon DEF OneHolder
        <5> QED BY <5>1, <5>2, <5>3, Zenon
      <4>2. \A r \in Requests : Holds(r) => req[r].chain # ch
        BY <3>0, <3>2, <2>0, Zenon DEF OneHolder
      <4>3. \A r \in Requests : (Holds(r)' <=> Holds(r)) /\ req'[r] = req[r]
        BY <3>1, Zenon DEF Holds
      <4> QED BY <4>1, <4>2, <4>3, Zenon DEF Gone
    <3>6. EndInv'
      <4> SUFFICES ASSUME NEW c \in ended' PROVE owner'[c] # None /\ Gone(c)'
        BY Zenon DEF EndInv
      <4>1. CASE c \in ended
        BY <4>1, <3>1, <3>4, <2>0, Zenon DEF EndInv
      <4>2. CASE c = ch
        BY <4>2, <3>1, <3>2, <3>5, Zenon
      <4> QED BY <4>1, <4>2, <3>1, Zenon
    <3>7. (\A u \in Tokens : RowInv(u)') /\ (\A q \in Requests : ReqInv(q)')
      BY <3>1, <2>D, <2>0, RowKept, ReqKept, Zenon
    <3> QED BY <3>3, <3>4, <3>6, <3>7, Zenon DEF IInv
  <2>10. ASSUME NEW s \in Subs, Purge(s) PROVE IInv'
    <3> DEFINE cut == {ch \in Chains : owner[ch] = s /\
                         \A r \in Requests : Holds(r) => req[r].chain # ch}
    <3>1. UNCHANGED <<minted, owner, age, req, ttl>> /\ ended' = ended \cup cut
      BY <2>10, <2>T, Zenon DEF Purge
    <3>2. /\ rows' \in [Tokens -> RowType]
          /\ \A u \in Tokens : rows'[u] = rows[u] \/ rows'[u].chain = None
          /\ \A u \in Tokens : Present(u) /\ owner[rows[u].chain] = s => rows'[u].chain = None
      BY <2>10, <2>T, IdleType, Zenon DEF Purge
    <3>3. TypeOK'
      BY <3>1, <3>2, <2>T, Zenon DEF TypeOK, RowType, ReqType
    <3>4. OneHolder' /\ \A c \in ended : Gone(c)'
      BY <3>1, <3>2, <2>0, LetGo, Zenon DEF Holds
    <3>5. ASSUME NEW c \in cut PROVE Gone(c)' /\ owner[c] # None
      <4>1. c \in Chains /\ owner[c] = s /\ s # None /\ c # None
        BY <2>0, RefreshAssumption, Zenon
      <4>2. \A u \in Tokens : rows'[u].chain # c
        BY <4>1, <3>2, Zenon DEF Present
      <4>3. \A r \in Requests : Holds(r)' => req'[r].chain # c
        BY <3>1, Zenon DEF Holds
      <4> QED BY <4>1, <4>2, <4>3, Zenon DEF Gone
    <3> HIDE DEF cut
    <3>6. EndInv'
      BY <3>1, <3>4, <3>5, <2>0, Zenon DEF EndInv
    <3>7. (\A u \in Tokens : RowInv(u)') /\ (\A q \in Requests : ReqInv(q)')
      BY <3>1, <3>2, <2>0, RowKept, ReqKept, Zenon
    <3> QED BY <3>3, <3>4, <3>6, <3>7, Zenon DEF IInv
  <2>11. ASSUME Gc PROVE IInv'
    <3>1. UNCHANGED <<minted, owner, age, req, ttl, ended>>
      BY <2>11, Zenon DEF Gc
    <3>2. /\ rows' \in [Tokens -> RowType]
          /\ \A u \in Tokens : rows'[u] = rows[u] \/ rows'[u].chain = None
      BY <2>11, <2>T, IdleType, Zenon DEF Gc
    <3>3. TypeOK'
      BY <3>1, <3>2, <2>T, Zenon DEF TypeOK, RowType, ReqType
    <3>4. OneHolder' /\ EndInv'
      BY <3>1, <3>2, <2>0, LetGoQuiet, Zenon DEF Holds
    <3>5. (\A u \in Tokens : RowInv(u)') /\ (\A q \in Requests : ReqInv(q)')
      BY <3>1, <3>2, <2>0, RowKept, ReqKept, Zenon
    <3> QED BY <3>3, <3>4, <3>5, Zenon DEF IInv
  <2>12. ASSUME NEW n \in Ttls, Restart(n) PROVE IInv'
    <3>1. UNCHANGED <<rows, minted, owner, age, ended>> /\ ttl' \in Ttls
          /\ (\A q \in Requests : req'[q] = Idle) /\ req' \in [Requests -> ReqType]
      BY <2>12, IdleType, Zenon DEF Restart
    <3>2. TypeOK'
      BY <3>1, <2>T, Zenon DEF TypeOK, RowType, ReqType
    <3>3. \A q \in Requests : ReqInv(q)' /\ ~Holds(q)'
      BY <3>1, IdleHolds, Zenon
    <3>4. OneHolder' /\ EndInv'
      BY <3>1, <3>3, <2>0, LetGoQuiet, Zenon
    <3>5. \A u \in Tokens : RowInv(u)'
      BY <3>1, <2>0, RowKept, Zenon
    <3> QED BY <3>2, <3>3, <3>4, <3>5, Zenon DEF IInv
  <2>13. ASSUME Tick PROVE IInv'
    <3>1. UNCHANGED <<minted, owner, ttl, ended>>
          /\ age' \in [Chains -> 0..MaxAge] /\ \A c \in Chains : age'[c] = Older(age[c])
      BY <2>13, <2>T, Bounds, Zenon DEF Tick
    <3>2. ASSUME NEW u \in Tokens
          PROVE /\ rows'[u] \in RowType /\ rows'[u].chain = rows[u].chain
                /\ Present(u) => rows'[u].age = Older(rows[u].age)
      <4>1. rows[u] \in RowType /\ Older(rows[u].age) \in 0..MaxAge
        BY <2>T, Bounds, Zenon DEF RowType
      <4>2. rows'[u] = IF Present(u) THEN [rows[u] EXCEPT !.age = Older(rows[u].age)]
                                     ELSE rows[u]
        BY <2>13, Zenon DEF Tick
      <4> QED BY <4>1, <4>2, Zenon DEF RowType
    <3>3. ASSUME NEW q \in Requests
          PROVE /\ req'[q] \in ReqType /\ req'[q].pc = req[q].pc
                /\ req'[q].chain = req[q].chain /\ req'[q].rotation = req[q].rotation
                /\ req'[q].takenAt = req[q].takenAt /\ req'[q].allowed = req[q].allowed
                /\ req'[q].age = IF req[q].rotation \/ req[q].pc \in {"store", "insert"}
                                 THEN Older(req[q].age) ELSE req[q].age
      <4>1. req[q] \in ReqType /\ Older(req[q].age) \in 0..MaxAge
        BY <2>T, Bounds, Zenon DEF ReqType
      <4>2. req'[q] = IF req[q].rotation \/ req[q].pc \in {"store", "insert"}
                      THEN [req[q] EXCEPT !.age = Older(req[q].age)] ELSE req[q]
        BY <2>13, Zenon DEF Tick
      <4>3. CASE req[q].rotation \/ req[q].pc \in {"store", "insert"}
        BY <4>1, <4>2, <4>3, ZenonT(30) DEF ReqType
      <4>4. CASE ~(req[q].rotation \/ req[q].pc \in {"store", "insert"})
        BY <4>1, <4>2, <4>4, Zenon DEF ReqType
      <4> QED BY <4>3, <4>4, Zenon
    <3>4. rows' \in [Tokens -> RowType] /\ req' \in [Requests -> ReqType]
      BY <2>13, <3>2, <3>3, Zenon DEF Tick
    <3>5. TypeOK'
      BY <3>1, <3>4, <2>T, Zenon DEF TypeOK, RowType, ReqType
    <3>6. OneHolder' /\ EndInv'
      BY <3>1, <3>2, <3>3, <2>0, LetGoQuiet, Zenon DEF Holds
    <3>7. ASSUME NEW u \in Tokens PROVE RowInv(u)'
      <4>1. Present(u) => rows[u].chain \in Chains
        BY <2>T, Zenon DEF Present, RowType
      <4> QED BY <4>1, <3>1, <3>2, <2>0 DEF RowInv, Present
    <3>8. ASSUME NEW q \in Requests PROVE ReqInv(q)'
      <4>1. Holds(q) => req[q].chain \in Chains
        BY <2>0, <2>T, Zenon DEF ReqInv, ReqType
      <4>2. (Holds(q)' <=> Holds(q))
        BY <3>3, Zenon DEF Holds
      <4>3. (Holds(q) /\ (req[q].rotation \/ req[q].pc # "session")) =>
               req'[q].age = age'[req[q].chain]
        BY <4>1, <3>1, <3>3, <2>0 DEF ReqInv, Holds
      <4> QED BY <4>2, <4>3, <3>1, <3>3, <2>0, Zenon DEF ReqInv, Holds
    <3> QED BY <3>5, <3>6, <3>7, <3>8, Zenon DEF IInv
  <2>14. ASSUME UNCHANGED vars PROVE IInv'
    <3>1. UNCHANGED <<rows, minted, owner, age, req, ttl, ended>>
      BY <2>14, Zenon DEF vars
    <3>2. OneHolder' /\ EndInv'
      BY <3>1, <2>0, LetGoQuiet, Zenon DEF Holds
    <3>3. (\A u \in Tokens : RowInv(u)') /\ (\A q \in Requests : ReqInv(q)')
      BY <3>1, <2>0, RowKept, ReqKept, Zenon
    <3> QED BY <3>1, <3>2, <3>3, <2>0, Zenon DEF IInv, TypeOK
  <2> QED
    BY <2>1, <2>2, <2>3, <2>4, <2>5, <2>6, <2>7, <2>8, <2>9, <2>10, <2>11, <2>12, <2>13, <2>14, Zenon
    DEF Next
<1> QED BY <1>1, <1>2, PTL DEF Spec

\* Every variable keeps its type.
THEOREM TypeCorrect == Spec => []TypeOK
<1>1. IInv => TypeOK
  BY Zenon DEF IInv
<1> QED BY <1>1, ChainInvariance, PTL

\* Rotation is single-use: a chain never has two live tokens or two redemptions.
THEOREM SingleHolder == Spec => []OneHolder
<1>1. IInv => OneHolder
  BY Zenon DEF IInv
<1> QED BY <1>1, ChainInvariance, PTL

\* A revocation, and a logout that met no rotation, cannot be undone.
THEOREM EndIsFinal == Spec => []EndedStaysEnded
<1>1. IInv => EndedStaysEnded
  BY Zenon DEF IInv, EndInv, EndedStaysEnded
<1> QED BY <1>1, ChainInvariance, PTL

\* No rotation extends a chain past its lifetime.
THEOREM DeadlineIsAbsolute == Spec => []AbsoluteDeadline
<1>1. IInv => AbsoluteDeadline
  BY Zenon DEF IInv, ReqInv, AbsoluteDeadline
<1> QED BY <1>1, ChainInvariance, PTL

-----------------------------------------------------------------------------
\* The soft cap. A request that passed the count will add at most one row, so
\* the rows and the inserts on their way are bounded together.
Inserting == {r \in Requests : req[r].pc = "insert"}
CapInv == Cardinality(Stored) + Cardinality(Inserting) < MaxTokens + Cardinality(Requests)

LEMMA CapSets ==
    /\ IsFiniteSet(Stored) /\ IsFiniteSet(Inserting)
    /\ Cardinality(Stored) \in Nat /\ Cardinality(Inserting) \in Nat
    /\ Cardinality(Requests) \in Nat /\ Cardinality(Requests) > 0 /\ MaxTokens \in Nat
    /\ Cardinality(Inserting) <= Cardinality(Requests)
<1>1. IsFiniteSet(Tokens) /\ IsFiniteSet(Requests) /\ Requests # {} /\ MaxTokens \in Nat
  BY RefreshAssumption, Zenon
<1>2. Stored \subseteq Tokens /\ Inserting \subseteq Requests
  BY Zenon DEF Stored, Inserting
<1>3. IsFiniteSet(Stored)
  BY <1>1, <1>2, FS_Subset, Zenon
<1>4. IsFiniteSet(Inserting) /\ Cardinality(Inserting) <= Cardinality(Requests)
  BY <1>1, <1>2, FS_Subset, Zenon
<1>5. Cardinality(Requests) \in Nat /\ Cardinality(Requests) # 0
  BY <1>1, FS_CardinalityType, FS_EmptySet, Zenon
<1>6. Cardinality(Stored) \in Nat /\ Cardinality(Inserting) \in Nat
  BY <1>3, <1>4, FS_CardinalityType, Zenon
<1> QED
  BY <1>1, <1>3, <1>4, <1>5, <1>6

\* The next state's sets are as finite.
LEMMA CapSetsNext ==
    /\ IsFiniteSet(Stored') /\ IsFiniteSet(Inserting')
    /\ Cardinality(Stored') \in Nat /\ Cardinality(Inserting') \in Nat
    /\ Cardinality(Inserting') <= Cardinality(Requests)
<1>1. IsFiniteSet(Tokens) /\ IsFiniteSet(Requests)
  BY RefreshAssumption, Zenon
<1>2. Stored' \subseteq Tokens /\ Inserting' \subseteq Requests
  BY Zenon DEF Stored, Inserting
<1>3. IsFiniteSet(Stored')
  BY <1>1, <1>2, FS_Subset, Zenon
<1>4. IsFiniteSet(Inserting') /\ Cardinality(Inserting') <= Cardinality(Requests)
  BY <1>1, <1>2, FS_Subset, Zenon
<1>5. Cardinality(Stored') \in Nat /\ Cardinality(Inserting') \in Nat
  BY <1>3, <1>4, FS_CardinalityType, Zenon
<1> QED
  BY <1>3, <1>4, <1>5, Zenon

\* A step that adds neither a row nor an insert keeps the bound.
LEMMA CapKept ==
    ASSUME CapInv, Stored' \subseteq Stored, Inserting' \subseteq Inserting
    PROVE  CapInv'
<1>1. Cardinality(Stored') <= Cardinality(Stored)
  BY CapSets, FS_Subset, Zenon
<1>2. Cardinality(Inserting') <= Cardinality(Inserting)
  BY CapSets, FS_Subset, Zenon
<1> QED
  BY <1>1, <1>2, CapSets, CapSetsNext DEF CapInv

\* store_db's upsert: the row it adds was accounted for as an insert.
LEMMA CapInsert ==
    ASSUME CapInv, TypeOK, NEW r \in Requests, req[r].pc = "insert",
           rows' = [rows EXCEPT ![req[r].token] = NewRow(r)],
           \A q \in Requests \ {r} : req'[q] = req[q], req'[r].pc # "insert"
    PROVE  CapInv'
<1>1. Stored' \subseteq Stored \cup {req[r].token}
  BY Zenon DEF Stored, Present, TypeOK
<1>2. Cardinality(Stored') <= Cardinality(Stored) + 1
  <2>1. IsFiniteSet(Stored \cup {req[r].token})
        /\ Cardinality(Stored \cup {req[r].token}) <= Cardinality(Stored) + 1
    <3>1. /\ IsFiniteSet(Stored \cup {req[r].token})
          /\ Cardinality(Stored \cup {req[r].token})
               = IF req[r].token \in Stored THEN Cardinality(Stored) ELSE Cardinality(Stored) + 1
      BY CapSets, FS_AddElement, Zenon
    <3> QED
      BY <3>1, CapSets
  <2>2. Cardinality(Stored') <= Cardinality(Stored \cup {req[r].token})
    BY <1>1, <2>1, FS_Subset, Zenon
  <2>3. Cardinality(Stored \cup {req[r].token}) \in Nat
    BY <2>1, FS_CardinalityType, Zenon
  <2> QED
    BY <2>1, <2>2, <2>3, CapSets, CapSetsNext
<1>3. r \in Inserting /\ Inserting' = Inserting \ {r}
  BY Zenon DEF Inserting
<1>4. Cardinality(Inserting') = Cardinality(Inserting) - 1
  BY <1>3, CapSets, FS_RemoveElement, Zenon
<1> QED
  BY <1>2, <1>4, CapSets, CapSetsNext DEF CapInv

\* store_db's reads: a request goes on to the upsert only below the cap.
LEMMA CapCount ==
    ASSUME CapInv, TypeOK, NEW r \in Requests, NEW t \in Tokens, CountRows(r, t)
    PROVE  CapInv'
<1>1. Stored' = Stored
  BY DEF CountRows, Stored, Present
<1>2. \A q \in Requests \ {r} : req'[q] = req[q]
  BY DEF CountRows, TypeOK
<1>3. CASE Cardinality(Stored) >= MaxTokens
  <2>1. req'[r].pc = "overloaded"
    BY <1>3 DEF CountRows, TypeOK
  <2>2. Inserting' \subseteq Inserting
    BY <1>2, <2>1 DEF Inserting
  <2> QED
    BY <1>1, <2>2, CapKept
<1>4. CASE ~(Cardinality(Stored) >= MaxTokens)
  BY <1>1, <1>4, CapSets, CapSetsNext DEF CapInv
<1> QED
  BY <1>3, <1>4

LEMMA CapStep == TypeOK /\ CapInv /\ [Next]_vars => CapInv'
<1> SUFFICES ASSUME TypeOK, CapInv, [Next]_vars PROVE CapInv'
  OBVIOUS
<1>D. ASSUME NEW t \in Tokens, rows' = [rows EXCEPT ![t] = Absent]
      PROVE  Stored' \subseteq Stored
  BY <1>D DEF Stored, Present, Absent, TypeOK
<1>R. ASSUME NEW r \in Requests, \A q \in Requests \ {r} : req'[q] = req[q],
             req'[r].pc # "insert"
      PROVE  Inserting' \subseteq Inserting
  BY <1>R DEF Inserting
<1>U. req' = req => Inserting' = Inserting
  BY DEF Inserting
<1>V. rows' = rows => Stored' = Stored
  BY DEF Stored, Present
<1>1. ASSUME NEW r \in Requests, NEW ch \in Chains, NEW s \in Subs, RedeemCode(r, ch, s)
      PROVE  CapInv'
  <2>1. req'[r].pc = "session" /\ \A q \in Requests \ {r} : req'[q] = req[q]
    BY <1>1 DEF RedeemCode, TypeOK, Idle
  <2>2. Inserting' \subseteq Inserting /\ Stored' = Stored
    BY <1>1, <1>R, <1>V, <2>1 DEF RedeemCode
  <2> QED
    BY <2>2, CapKept
<1>2. ASSUME NEW r \in Requests, NEW t \in Tokens, Take(r, t)
      PROVE  CapInv'
  <2>1. req'[r].pc # "insert" /\ \A q \in Requests \ {r} : req'[q] = req[q]
    BY <1>2, Zenon DEF Take, TypeOK, Idle
  <2>2. Inserting' \subseteq Inserting
    BY <1>R, <2>1, Zenon
  <2>3. Stored' \subseteq Stored
    BY <1>2, <1>D, Zenon DEF Take
  <2> QED
    BY <2>2, <2>3, CapKept, Zenon
<1>3. ASSUME NEW r \in Requests, NEW t \in Tokens, CountRows(r, t)
      PROVE  CapInv'
  BY <1>3, CapCount
<1>4. ASSUME NEW r \in Requests, CreateSession(r)
      PROVE  CapInv'
  <2>1. req'[r].pc = "store" /\ \A q \in Requests \ {r} : req'[q] = req[q]
    BY <1>4 DEF CreateSession, TypeOK
  <2>2. Inserting' \subseteq Inserting /\ Stored' = Stored
    BY <1>4, <1>R, <1>V, <2>1 DEF CreateSession
  <2> QED
    BY <2>2, CapKept
<1>5. ASSUME NEW r \in Requests, InsertRow(r) \/ InsertUnanswered(r)
      PROVE  CapInv'
  <2>1. req'[r].pc # "insert" /\ \A q \in Requests \ {r} : req'[q] = req[q]
    BY <1>5 DEF InsertRow, InsertUnanswered, TypeOK, Idle
  <2>2. req[r].pc = "insert" /\ rows' = [rows EXCEPT ![req[r].token] = NewRow(r)]
    BY <1>5 DEF InsertRow, InsertUnanswered
  <2> QED
    BY <2>1, <2>2, CapInsert, Zenon
<1>6. ASSUME NEW r \in Requests, Fail(r) \/ AnswerOverloaded(r)
      PROVE  CapInv'
  <2>1. req'[r].pc # "insert" /\ \A q \in Requests \ {r} : req'[q] = req[q]
    BY <1>6 DEF Fail, AnswerOverloaded, TypeOK, Idle
  <2>2. Inserting' \subseteq Inserting /\ Stored' = Stored
    BY <1>6, <1>R, <1>V, <2>1 DEF Fail, AnswerOverloaded
  <2> QED
    BY <2>2, CapKept
<1>7. ASSUME NEW t \in Tokens, TakeUnanswered(t) \/ Revoke(t)
      PROVE  CapInv'
  <2>1. Inserting' = Inserting /\ Stored' \subseteq Stored
    BY <1>7, <1>D, <1>U DEF TakeUnanswered, Revoke
  <2> QED
    BY <2>1, CapKept
<1>8. ASSUME NEW s \in Subs, Purge(s)
      PROVE  CapInv'
  <2>1. Stored' \subseteq Stored
    BY <1>8, Zenon DEF Purge, Stored, Present, Absent
  <2> QED
    BY <1>8, <1>U, <2>1, CapKept, Zenon DEF Purge
<1>9. ASSUME NEW n \in Ttls, Restart(n)
      PROVE  CapInv'
  <2>1. Inserting' = {}
    BY <1>9, Zenon DEF Restart, Inserting, Idle
  <2> QED
    BY <1>9, <1>V, <2>1, CapKept, Zenon DEF Restart
<1>10. ASSUME Gc
       PROVE  CapInv'
  <2>1. Stored' \subseteq Stored
    BY <1>10, Zenon DEF Gc, Stored, Present, Absent
  <2> QED
    BY <1>10, <1>U, <2>1, CapKept, Zenon DEF Gc
<1>11. ASSUME Tick
       PROVE  CapInv'
  <2>1. \A t \in Tokens : rows'[t].chain = rows[t].chain
    BY <1>11, ZenonT(30) DEF Tick, TypeOK
  <2>2. \A r \in Requests : req'[r].pc = req[r].pc
    BY <1>11, Zenon DEF Tick, TypeOK
  <2>3. Stored' = Stored /\ Inserting' = Inserting
    BY <2>1, <2>2, Zenon DEF Stored, Present, Inserting
  <2> QED
    BY <2>3, CapKept, Zenon
<1>12. ASSUME UNCHANGED vars
       PROVE  CapInv'
  BY <1>12, <1>U, <1>V, CapKept, Zenon DEF vars
<1> QED
  BY <1>1, <1>2, <1>3, <1>4, <1>5, <1>6, <1>7, <1>8, <1>9, <1>10, <1>11, <1>12 DEF Next

\* However /token requests interleave their count and their upsert, the table
\* exceeds REFRESH_TOKENS_MAX_SIZE by less than the number of requests in flight.
THEOREM CapIsSoft == Spec => []CapOvershoot
<1>1. Init => CapInv
  <2> SUFFICES ASSUME Init PROVE CapInv
    OBVIOUS
  <2>1. Stored = {} /\ Inserting = {}
    BY Zenon DEF Init, Stored, Present, Absent, Inserting, Idle
  <2> QED
    BY <2>1, FS_EmptySet, CapSets DEF CapInv
<1>2. CapInv => CapOvershoot
  BY CapSets DEF CapInv, CapOvershoot
<1> QED
  BY <1>1, <1>2, CapStep, TypeCorrect, PTL DEF Spec
=============================================================================
