--------------------------- MODULE GatewayProofs ---------------------------
(***************************************************************************)
(* Proofs about a gateway from startup to its answers, for any documents,  *)
(* environments, secret files, requests, identities and limits, and at the *)
(* end about the keys of its identity provider.                            *)
(*                                                                         *)
(* The limiter is proved on its own and the endpoint shown to drive it as  *)
(* its specification says. A semaphore serves one identity for as long as  *)
(* anybody has it, and the requests of an identity share one unless a      *)
(* sweep fell between the clone and the acquire of one of them.            *)
(***************************************************************************)
EXTENDS Endpoint, OidcKeys, FiniteSetTheorems, SequenceTheorems, TLAPS

ReqRec == [pc : {"idle", "admitted", "cloned", "running"},
           id : Identities \cup {None}, sem : Sems \cup {None}]

LimiterTypeOK ==
    /\ map \in [Identities -> Sems \cup {None}]
    /\ req \in [Requests -> ReqRec]

\* What a request has at each point of enforce.
Stage(r) ==
    /\ req[r].pc = "idle" => req[r].sem = None
    /\ req[r].pc = "admitted" => req[r].id \in Identities /\ req[r].sem = None
    /\ req[r].pc = "cloned" => req[r].id \in Identities /\ req[r].sem \in Sems
    /\ req[r].pc = "running" => \/ req[r].id = None /\ req[r].sem = None
                                \/ req[r].id \in Identities /\ req[r].sem \in Sems

\* A semaphore is one identity's.
OneOwner ==
    /\ \A q, r \in Requests : req[q].sem # None /\ req[q].sem = req[r].sem => req[q].id = req[r].id
    /\ \A i \in Identities, r \in Requests :
         map[i] # None /\ req[r].sem = map[i] => req[r].id = i
    /\ \A i, j \in Identities : map[i] # None /\ map[i] = map[j] => i = j

\* Unless the map forgot the identity, its requests have the semaphore in the map.
Shared == \A r \in Requests :
    req[r].pc \in {"cloned", "running"} /\ req[r].id \in Identities \ forgotten =>
        req[r].sem = map[req[r].id]

Permits == \A s \in Sems : Cardinality(HoldersOf(s)) <= PerIdentity

LInv == /\ LimiterTypeOK /\ (\A r \in Requests : Stage(r))
        /\ OneOwner /\ Shared /\ Permits

-----------------------------------------------------------------------------
\* A request that ends, or enters without a semaphore, takes no permit of one.
LEMMA LimiterQuiet ==
    ASSUME LInv, NEW r \in Requests, NEW new \in ReqRec, req' = [req EXCEPT ![r] = new],
           UNCHANGED <<map, forgotten>>,
           new.sem = None,
           new.pc = "idle" \/ (new.pc = "admitted" /\ new.id \in Identities)
               \/ (new.pc = "running" /\ new.id = None)
    PROVE  LInv'
<1>1. /\ None \notin Sems /\ None \notin Identities /\ IsFiniteSet(Requests) /\ PerIdentity \in Nat
      /\ LimiterTypeOK /\ (\A q \in Requests : Stage(q)) /\ OneOwner /\ Shared /\ Permits
  BY LimiterAssumption, Zenon DEF LInv
<1>2. req'[r] = new /\ \A q \in Requests \ {r} : req'[q] = req[q]
  BY <1>1, Zenon DEF LimiterTypeOK
<1>3. LimiterTypeOK'
  BY <1>1, Zenon DEF LimiterTypeOK
<1>4. \A q \in Requests : Stage(q)'
  <2> SUFFICES ASSUME NEW q \in Requests PROVE Stage(q)'
    BY Zenon
  <2>1. CASE q = r
    BY <1>2, <2>1, Zenon DEF Stage
  <2>2. CASE q # r
    BY <1>1, <1>2, <2>2, Zenon DEF Stage
  <2> QED
    BY <2>1, <2>2, Zenon
<1>5. OneOwner'
  BY <1>1, <1>2 DEF OneOwner
<1>6. Shared'
  BY <1>1, <1>2 DEF Shared
<1>7. ASSUME NEW s \in Sems PROVE Cardinality(HoldersOf(s)') <= PerIdentity
  <2>1. HoldersOf(s)' \subseteq HoldersOf(s)
    BY <1>1, <1>2, Zenon DEF HoldersOf
  <2>2. IsFiniteSet(HoldersOf(s))
    BY <1>1, FS_Subset, Zenon DEF HoldersOf
  <2>3. Cardinality(HoldersOf(s)') <= Cardinality(HoldersOf(s))
    BY <2>1, <2>2, FS_Subset, Zenon
  <2>4. Cardinality(HoldersOf(s)') \in Nat /\ Cardinality(HoldersOf(s)) \in Nat
    BY <2>1, <2>2, FS_Subset, FS_CardinalityType, Zenon
  <2> QED
    BY <1>1, <2>3, <2>4 DEF Permits
<1> QED
  BY <1>3, <1>4, <1>5, <1>6, <1>7, Zenon DEF LInv, Permits

\* try_identity's look-up: a new semaphore is nobody's, and a sweep drops no
\* identity with a permit out.
LEMMA LookUpStep ==
    ASSUME LInv, NEW r \in Requests, NEW sem \in Sems, LookUp(r, sem)
    PROVE  LInv'
<1> DEFINE id == req[r].id
           kept == IF NeedsSweep(id) THEN Swept ELSE map
<1>1. /\ None \notin Sems /\ None \notin Identities /\ IsFiniteSet(Requests)
      /\ LimiterTypeOK /\ (\A q \in Requests : Stage(q)) /\ OneOwner /\ Shared /\ Permits
  BY LimiterAssumption, Zenon DEF LInv
<1>2. /\ req[r].pc = "admitted"
      /\ IF kept[id] = None THEN Unused(sem) ELSE sem = kept[id]
      /\ map' = [kept EXCEPT ![id] = sem]
      /\ req' = [req EXCEPT ![r].pc = "cloned", ![r].sem = sem]
      /\ forgotten' = forgotten \cup Forgets(kept)
  BY Zenon DEF LookUp
<1>3. id \in Identities /\ req[r].sem = None
  BY <1>1, <1>2, Zenon DEF Stage
<1>4. /\ kept \in [Identities -> Sems \cup {None}]
      /\ \A i \in Identities : kept[i] = map[i] \/ kept[i] = None
  BY <1>1, Zenon DEF LimiterTypeOK, Swept
<1>5. \A q \in Requests : req[q].pc = "running" /\ req[q].sem \in Sems =>
        \A i \in Identities : map[i] = req[q].sem => kept[i] = map[i]
  BY <1>1, Zenon DEF Swept, HoldersOf
<1>6. \A q \in Requests, i \in Identities :
        req[q].pc = "cloned" /\ req[q].sem = map[i] /\ map[i] # None /\ i \notin forgotten' =>
            kept[i] # None
  BY <1>2, Zenon DEF Forgets
<1>7. kept[id] = None => Unused(sem)
  BY <1>2, Zenon
<1>8. kept[id] # None => sem = map[id]
  BY <1>2, <1>3, <1>4, Zenon
<1>9. map'[id] = sem /\ \A i \in Identities \ {id} : map'[i] = kept[i]
  BY <1>2, <1>3, <1>4, Zenon
<1>10. /\ \A q \in Requests \ {r} : req'[q] = req[q]
       /\ req'[r].pc = "cloned" /\ req'[r].sem = sem /\ req'[r].id = id
  BY <1>1, <1>2, Zenon DEF LimiterTypeOK, ReqRec
<1>11. LimiterTypeOK'
  <2>1. map' \in [Identities -> Sems \cup {None}]
    BY <1>2, <1>4, Zenon
  <2>2. req' \in [Requests -> ReqRec]
    BY <1>1, <1>2, Zenon DEF LimiterTypeOK, ReqRec
  <2> QED
    BY <2>1, <2>2, Zenon DEF LimiterTypeOK
<1> HIDE DEF kept, id
<1>12. \A q \in Requests : Stage(q)'
  <2> SUFFICES ASSUME NEW q \in Requests PROVE Stage(q)'
    BY Zenon
  <2>1. CASE q = r
    BY <1>3, <1>10, <2>1, Zenon DEF Stage
  <2>2. CASE q # r
    BY <1>1, <1>10, <2>2, Zenon DEF Stage
  <2> QED
    BY <2>1, <2>2, Zenon
\* Whoever else has sem has it as the semaphore of id.
<1>13. /\ \A q \in Requests \ {r} : req[q].sem = sem => req[q].id = id
       /\ \A i \in Identities : map[i] = sem => i = id
  <2>1. CASE kept[id] = None
    BY <1>7, <2>1, Zenon DEF Unused
  <2>2. CASE kept[id] # None
    BY <1>1, <1>3, <1>8, <2>2, Zenon DEF OneOwner
  <2> QED
    BY <2>1, <2>2, Zenon
<1>14. OneOwner'
  <2>1. \A p, q \in Requests :
          req'[p].sem # None /\ req'[p].sem = req'[q].sem => req'[p].id = req'[q].id
    BY <1>1, <1>10, <1>13 DEF OneOwner
  <2>2. \A i \in Identities \ {id} : map'[i] # None => map'[i] = map[i] /\ map[i] # sem
    BY <1>4, <1>9, <1>13
  <2>3. \A i \in Identities, q \in Requests :
          map'[i] # None /\ req'[q].sem = map'[i] => req'[q].id = i
    <3> SUFFICES ASSUME NEW i \in Identities, NEW q \in Requests,
                        map'[i] # None, req'[q].sem = map'[i]
                 PROVE  req'[q].id = i
      BY Zenon
    <3>1. CASE i = id
      BY <1>9, <1>10, <1>13, <3>1, Zenon
    <3>2. CASE i # id
      BY <1>1, <1>10, <2>2, <3>2 DEF OneOwner
    <3> QED
      BY <3>1, <3>2, Zenon
  <2>4. \A i, j \in Identities : map'[i] # None /\ map'[i] = map'[j] => i = j
    BY <1>1, <1>9, <2>2 DEF OneOwner
  <2> QED
    BY <2>1, <2>3, <2>4, Zenon DEF OneOwner
<1>15. Shared'
  <2> SUFFICES ASSUME NEW q \in Requests, req'[q].pc \in {"cloned", "running"},
                      req'[q].id \in Identities \ forgotten'
               PROVE  req'[q].sem = map'[req'[q].id]
    BY Zenon DEF Shared
  <2>1. CASE q = r
    BY <1>9, <1>10, <2>1, Zenon
  <2>2. CASE q # r
    <3> DEFINE i == req[q].id
    <3>1. /\ req'[q] = req[q] /\ i \in Identities /\ i \notin forgotten /\ i \notin forgotten'
          /\ req[q].pc \in {"cloned", "running"}
      <4>1. req'[q] = req[q]
        BY <1>10, <2>2, Zenon
      <4>2. forgotten \subseteq forgotten'
        BY <1>2, Zenon
      <4> QED
        BY <4>1, <4>2, Zenon
    <3>2. req[q].sem = map[i] /\ req[q].sem \in Sems
      BY <1>1, <3>1, Zenon DEF Shared, Stage
    <3>3. kept[i] = map[i] /\ map[i] # None
      BY <1>1, <1>4, <1>5, <1>6, <3>1, <3>2, ZenonT(30)
    <3>4. CASE i = id
      BY <1>8, <1>9, <3>1, <3>2, <3>3, <3>4, Zenon
    <3>5. CASE i # id
      BY <1>9, <3>1, <3>2, <3>3, <3>5, Zenon
    <3> QED
      BY <3>4, <3>5, Zenon
  <2> QED
    BY <2>1, <2>2, Zenon
<1>16. Permits'
  <2>1. \A s \in Sems : HoldersOf(s)' = HoldersOf(s)
    BY <1>2, <1>10, Zenon DEF HoldersOf
  <2> QED
    BY <1>1, <2>1, Zenon DEF Permits
<1> QED
  BY <1>11, <1>12, <1>14, <1>15, <1>16, Zenon DEF LInv

\* try_acquire_owned: one more permit of a semaphore that has one left.
LEMMA AcquireStep ==
    ASSUME LInv, NEW r \in Requests, Acquire(r)
    PROVE  LInv'
<1>1. /\ None \notin Sems /\ IsFiniteSet(Requests) /\ PerIdentity \in Nat
      /\ LimiterTypeOK /\ (\A q \in Requests : Stage(q)) /\ OneOwner /\ Shared /\ Permits
  BY LimiterAssumption, Zenon DEF LInv
<1>2. /\ req[r].pc = "cloned" /\ Cardinality(HoldersOf(req[r].sem)) < PerIdentity
      /\ req' = [req EXCEPT ![r].pc = "running"] /\ UNCHANGED <<map, forgotten>>
  BY Zenon DEF Acquire
<1>3. /\ \A q \in Requests : req'[q].id = req[q].id /\ req'[q].sem = req[q].sem
      /\ \A q \in Requests \ {r} : req'[q] = req[q]
      /\ req'[r].pc = "running" /\ req' \in [Requests -> ReqRec]
  BY <1>1, <1>2, ZenonT(30) DEF LimiterTypeOK, ReqRec
<1>4. LimiterTypeOK'
  BY <1>1, <1>2, <1>3, Zenon DEF LimiterTypeOK
<1>5. \A q \in Requests : Stage(q)'
  <2> SUFFICES ASSUME NEW q \in Requests PROVE Stage(q)'
    BY Zenon
  <2>1. CASE q = r
    BY <1>1, <1>2, <1>3, <2>1, Zenon DEF Stage
  <2>2. CASE q # r
    BY <1>1, <1>3, <2>2, Zenon DEF Stage
  <2> QED
    BY <2>1, <2>2, Zenon
<1>6. OneOwner'
  BY <1>1, <1>2, <1>3 DEF OneOwner
<1>7. Shared'
  BY <1>1, <1>2, <1>3 DEF Shared
<1>8. ASSUME NEW s \in Sems PROVE Cardinality(HoldersOf(s)') <= PerIdentity
  <2>1. CASE s = req[r].sem
    <3>1. HoldersOf(s)' = HoldersOf(s) \cup {r}
      BY <1>3, <2>1, Zenon DEF HoldersOf
    <3>2. IsFiniteSet(HoldersOf(s)) /\ r \notin HoldersOf(s)
      BY <1>1, <1>2, FS_Subset, Zenon DEF HoldersOf
    <3>3. Cardinality(HoldersOf(s)') = Cardinality(HoldersOf(s)) + 1 /\ Cardinality(HoldersOf(s)) \in Nat
      BY <3>1, <3>2, FS_AddElement, FS_CardinalityType, Zenon
    <3> QED
      BY <1>1, <1>2, <2>1, <3>3
  <2>2. CASE s # req[r].sem
    <3>1. HoldersOf(s)' = HoldersOf(s)
      BY <1>3, <2>2, ZenonT(30) DEF HoldersOf
    <3> QED
      BY <1>1, <3>1, Zenon DEF Permits
  <2> QED
    BY <2>1, <2>2, Zenon
<1> QED
  BY <1>4, <1>5, <1>6, <1>7, <1>8, Zenon DEF LInv, Permits

LEMMA LimiterInit == Init => LInv
<1> SUFFICES ASSUME Init PROVE LInv
  BY Zenon
<1>1. /\ \A r \in Requests : req[r] = Idle
      /\ \A i \in Identities : map[i] = None
  BY Zenon DEF Init
<1>2. LimiterTypeOK
  BY Zenon DEF Init, LimiterTypeOK, ReqRec, Idle
<1>3. \A r \in Requests : req[r].pc = "idle" /\ req[r].sem = None
  BY <1>1 DEF Idle
<1>4. (\A r \in Requests : Stage(r)) /\ OneOwner /\ Shared
  BY <1>1, <1>3, Zenon DEF Stage, OneOwner, Shared
<1>5. \A s \in Sems : HoldersOf(s) = {}
  BY <1>3, Zenon DEF HoldersOf
<1>6. Permits
  BY <1>5, FS_EmptySet, LimiterAssumption DEF Permits
<1> QED
  BY <1>2, <1>4, <1>6, Zenon DEF LInv

LEMMA LimiterStep == LInv /\ [Next]_vars => LInv'
<1> SUFFICES ASSUME LInv, [Next]_vars PROVE LInv'
  BY Zenon
<1>0. Idle \in ReqRec /\ Idle.pc = "idle" /\ Idle.sem = None
  BY Zenon DEF Idle, ReqRec
<1>1. ASSUME NEW r \in Requests, NEW id \in Identities \cup {None}, TryGlobal(r, id)
      PROVE  LInv'
  <2> DEFINE new == [Idle EXCEPT !.pc = IF id = None THEN "running" ELSE "admitted", !.id = id]
  <2>1. new \in ReqRec /\ new.sem = None /\ new.id = id
        /\ new.pc = IF id = None THEN "running" ELSE "admitted"
    BY Zenon DEF Idle, ReqRec
  <2>2. req' = [req EXCEPT ![r] = new] /\ UNCHANGED <<map, forgotten>>
    BY <1>1, Zenon DEF TryGlobal
  <2> HIDE DEF new
  <2> QED
    BY <2>1, <2>2, LimiterQuiet, Zenon
<1>2. ASSUME NEW r \in Requests, RateLimited(r) \/ Release(r)
      PROVE  LInv'
  <2>1. req' = [req EXCEPT ![r] = Idle] /\ UNCHANGED <<map, forgotten>>
    BY <1>2, Zenon DEF RateLimited, Release
  <2> QED
    BY <1>0, <2>1, LimiterQuiet, Zenon
<1>3. ASSUME UNCHANGED vars
      PROVE  LInv'
  BY <1>3, Zenon DEF vars, LInv, LimiterTypeOK, Stage, OneOwner, Shared, Permits, HoldersOf
<1> QED
  BY <1>1, <1>2, <1>3, LookUpStep, AcquireStep, Zenon DEF Next

LEMMA LimiterInvariance == Spec => []LInv
  BY LimiterInit, LimiterStep, PTL DEF Spec

\* Requests of an identity the map did not forget hold permits of one semaphore.
LEMMA CeilingHolds == LInv => IdentityCeiling
<1> SUFFICES ASSUME LInv, NEW i \in Identities \ forgotten
             PROVE  Cardinality(Running(i)) <= PerIdentity
  BY Zenon DEF IdentityCeiling
<1>1. /\ None \notin Identities /\ IsFiniteSet(Requests) /\ PerIdentity \in Nat
      /\ (\A q \in Requests : Stage(q)) /\ Shared /\ Permits
  BY LimiterAssumption, Zenon DEF LInv
<1>2. CASE Running(i) = {}
  BY <1>1, <1>2, FS_EmptySet
<1>3. CASE Running(i) # {}
  <2>1. PICK r \in Running(i) : TRUE
    BY <1>3, Zenon
  <2>2. r \in Requests /\ req[r].pc = "running" /\ req[r].id = i
    BY <2>1, Zenon DEF Running
  <2>3. map[i] \in Sems
    BY <1>1, <2>2, Zenon DEF Stage, Shared
  <2>4. Running(i) \subseteq HoldersOf(map[i])
    BY <1>1, Zenon DEF Running, HoldersOf, Shared
  <2>5. IsFiniteSet(HoldersOf(map[i]))
    BY <1>1, FS_Subset, Zenon DEF HoldersOf
  <2>6. /\ Cardinality(Running(i)) <= Cardinality(HoldersOf(map[i]))
        /\ Cardinality(HoldersOf(map[i])) <= PerIdentity
    BY <1>1, <2>3, <2>4, <2>5, FS_Subset, Zenon DEF Permits
  <2>7. Cardinality(Running(i)) \in Nat /\ Cardinality(HoldersOf(map[i])) \in Nat
    BY <2>4, <2>5, FS_Subset, FS_CardinalityType, Zenon
  <2> QED
    BY <1>1, <2>6, <2>7
<1> QED
  BY <1>2, <1>3, Zenon

\* Whoever holds a permit of a request's semaphore is of the request's identity.
LEMMA RateLimitIsOwn ==
    ASSUME LInv, NEW r \in Requests, RateLimited(r)
    PROVE  Cardinality(Running(req[r].id)) >= PerIdentity
<1>1. /\ None \notin Sems /\ IsFiniteSet(Requests) /\ PerIdentity \in Nat
      /\ (\A q \in Requests : Stage(q)) /\ OneOwner
  BY LimiterAssumption, Zenon DEF LInv
<1>2. req[r].pc = "cloned" /\ Cardinality(HoldersOf(req[r].sem)) >= PerIdentity
  BY Zenon DEF RateLimited
<1>3. req[r].sem \in Sems
  BY <1>1, <1>2, Zenon DEF Stage
<1>4. HoldersOf(req[r].sem) \subseteq Running(req[r].id)
  BY <1>1, <1>3, Zenon DEF HoldersOf, Running, OneOwner
<1>5. IsFiniteSet(Running(req[r].id))
  BY <1>1, FS_Subset, Zenon DEF Running
<1>6. /\ Cardinality(HoldersOf(req[r].sem)) <= Cardinality(Running(req[r].id))
      /\ Cardinality(HoldersOf(req[r].sem)) \in Nat /\ Cardinality(Running(req[r].id)) \in Nat
  BY <1>4, <1>5, FS_Subset, FS_CardinalityType, Zenon
<1> QED
  BY <1>1, <1>2, <1>6

\* The per-identity cap of limit.rs, whatever requests interleave between the
\* clone and the acquire, for any limits and any number of tracked identities.
THEOREM CeilingPerIdentity == Spec => []IdentityCeiling
  BY LimiterInvariance, CeilingHolds, PTL

\* A 429 is never another identity's doing.
THEOREM OwnLimit == Spec => OwnLimitOnly
<1>1. LInv => \A r \in Requests : RateLimited(r) => Cardinality(Running(req[r].id)) >= PerIdentity
  BY RateLimitIsOwn, Zenon
<1> QED
  BY <1>1, LimiterInvariance, PTL DEF OwnLimitOnly

-----------------------------------------------------------------------------
(* Startup. The accounts are taken over into the token store one by one, in *)
(* their order, and only from a document that was validated.                *)

StoreEntry == [name : Labels, group : NamesIn(doc.permissions), token : Tokens]

BInv ==
    /\ doc \in Docs /\ env \in Envs
    /\ phase \in {"load", "secrets", "tokens", "env", "connect", "mount", "serving", "aborted"}
    /\ phase \notin {"load", "aborted"} => AccountsOk(doc)
    /\ store \in Seq(StoreEntry) /\ Len(store) <= Len(doc.accounts)
    /\ phase \in {"load", "secrets"} => store = <<>>
    /\ phase = "tokens" => at = Len(store) + 1
    /\ phase \in {"env", "connect", "mount", "serving"} => Len(store) = Len(doc.accounts)
    /\ phase \in {"connect", "mount", "serving"} => ValidateMcpPath(env.mcp_path)
    /\ \A i \in 1..Len(store) : store[i].group = doc.accounts[i].group
    /\ \A i, j \in 1..Len(store) : store[i].token = store[j].token => i = j

\* What validate_service_accounts establishes of each account.
LEMMA AccountChecked ==
    ASSUME NEW d, AccountsOk(d), NEW i \in DOMAIN d.accounts
    PROVE  /\ d.accounts[i].name \in Labels /\ d.accounts[i].group \in NamesIn(d.permissions)
           /\ d.admin.enabled => d.accounts[i].group # d.admin.group
  BY Zenon DEF AccountsOk, Each, ValidateServiceName

LEMMA AccountsAreList ==
    ASSUME doc \in Docs
    PROVE  Len(doc.accounts) \in Nat /\ DOMAIN doc.accounts = 1..Len(doc.accounts)
  BY BootAssumption DEF IsList

LEMMA BootInitInv ==
    ASSUME NEW initFiles, BootInit(initFiles)
    PROVE  BInv
<1>1. Len(doc.accounts) \in Nat
  BY AccountsAreList, Zenon DEF BootInit
<1> QED
  BY <1>1 DEF BootInit, BInv

\* A step that keeps the token store and goes to phase p, or ends.
LEMMA PhaseInv ==
    ASSUME BInv, UNCHANGED <<doc, env, store>>,
           \/ phase' = phase /\ (phase = "tokens" => at' = at)
           \/ phase' = "aborted"
           \/ phase = "load" /\ phase' = "secrets" /\ AccountsOk(doc)
           \/ phase = "secrets" /\ phase' = "tokens" /\ at' = 1
           \/ phase = "tokens" /\ phase' = "env" /\ Len(store) = Len(doc.accounts)
           \/ phase = "env" /\ phase' = "connect" /\ ValidateMcpPath(env.mcp_path)
           \/ phase = "connect" /\ phase' = "mount"
           \/ phase = "mount" /\ phase' = "serving"
    PROVE  BInv'
<1>1. StoreEntry' = StoreEntry
  BY Zenon DEF StoreEntry
<1>2. phase' = "tokens" => at' = Len(store') + 1
  <2>1. Len(<<>>) = 0
    BY Zenon
  <2> QED
    BY <2>1 DEF BInv
<1>3. /\ phase' \in {"load", "secrets", "tokens", "env", "connect", "mount", "serving", "aborted"}
      /\ phase' \notin {"load", "aborted"} => AccountsOk(doc')
      /\ phase' \in {"load", "secrets"} => store' = <<>>
  BY Zenon DEF BInv
<1>4. /\ phase' \in {"env", "connect", "mount", "serving"} => Len(store') = Len(doc'.accounts)
      /\ phase' \in {"connect", "mount", "serving"} => ValidateMcpPath(env'.mcp_path)
  BY Zenon DEF BInv
<1> QED
  BY <1>1, <1>2, <1>3, <1>4, Zenon DEF BInv

\* ServiceTokenStore::from_config adds the next account.
LEMMA TokenInv ==
    ASSUME BInv, phase = "tokens", at <= Len(doc.accounts),
           NEW token \in Tokens, \A i \in DOMAIN store : store[i].token # token,
           store' = Append(store, [name |-> doc.accounts[at].name,
                                   group |-> doc.accounts[at].group, token |-> token]),
           at' = at + 1, UNCHANGED <<doc, env, phase>>
    PROVE  BInv'
<1> DEFINE entry == [name |-> doc.accounts[at].name, group |-> doc.accounts[at].group,
                     token |-> token]
<1>1. /\ doc \in Docs /\ store \in Seq(StoreEntry) /\ Len(store) \in Nat /\ at = Len(store) + 1
      /\ AccountsOk(doc) /\ DOMAIN store = 1..Len(store)
  BY DEF BInv
<1>2. at \in DOMAIN doc.accounts /\ Len(doc.accounts) \in Nat
  BY <1>1, AccountsAreList
<1>3. entry \in StoreEntry
  BY <1>1, <1>2, AccountChecked, Zenon DEF StoreEntry
<1>4. StoreEntry' = StoreEntry
  BY Zenon DEF StoreEntry
<1>5. store' = Append(store, entry)
  BY Zenon
<1>6. entry.group = doc.accounts[at].group /\ entry.token = token
  BY Zenon
<1> HIDE DEF entry
<1>7. /\ store' \in Seq(StoreEntry) /\ Len(store') = Len(store) + 1
      /\ store'[at] = entry /\ \A i \in 1..Len(store) : store'[i] = store[i]
  BY <1>1, <1>3, <1>5
<1>8. \A i \in 1..Len(store') : i = at \/ i \in 1..Len(store)
  BY <1>1, <1>7
<1>9. \A i \in 1..Len(store') : store'[i].group = doc.accounts[i].group
  BY <1>6, <1>7, <1>8, ZenonT(30) DEF BInv
<1>10. \A i, j \in 1..Len(store') : store'[i].token = store'[j].token => i = j
  BY <1>1, <1>6, <1>7, <1>8 DEF BInv
<1>11. Len(store') <= Len(doc'.accounts) /\ at' = Len(store') + 1
  BY <1>1, <1>7, Zenon
<1> QED
  BY <1>1, <1>4, <1>7, <1>9, <1>10, <1>11 DEF BInv

LEMMA BootStep ==
    ASSUME BInv, [BootNext]_bootVars
    PROVE  BInv'
<1>1. ASSUME NEW f, NEW c, RotateSecret(f, c) PROVE BInv'
  BY <1>1, PhaseInv, Zenon DEF RotateSecret
<1>2. CASE LoadFile
  <2>1. phase = "load" /\ UNCHANGED <<doc, env, store>>
        /\ (phase' = "aborted" \/ (phase' = "secrets" /\ Validate(doc)))
    BY <1>2, Zenon DEF LoadFile, Then
  <2> QED
    BY <2>1, PhaseInv, Zenon DEF Validate
<1>3. CASE ResolveSecret
  <2>1. /\ phase = "secrets" /\ UNCHANGED <<doc, env, store>>
        /\ phase' = phase \/ phase' = "aborted" \/ (phase' = "tokens" /\ at' = 1)
    BY <1>3, Zenon DEF ResolveSecret, Then
  <2> QED
    BY <2>1, PhaseInv, Zenon
<1>4. CASE ResolveToken
  <2> DEFINE account == doc.accounts[at]
             token == Resolve(account.token, files)
             ok == /\ at <= Len(doc.accounts)
                   /\ token # NoSecret /\ IsWellFormedToken(token)
                   /\ \A i \in DOMAIN store : store[i].token # token
  <2>1. phase = "tokens" /\ IF ok
          THEN /\ store' = Append(store, [name |-> account.name, group |-> account.group,
                                          token |-> token])
               /\ at' = at + 1
               /\ UNCHANGED <<doc, env, files, phase, rotations>>
          ELSE Then(at > Len(doc.accounts), "env")
    BY <1>4, Zenon DEF ResolveToken
  <2>2. CASE ok
    BY <2>1, <2>2, TokenInv, Zenon DEF IsWellFormedToken
  <2>3. CASE ~ok
    <3>1. UNCHANGED <<doc, env, store>> /\ (phase' = "aborted" \/ (phase' = "env" /\ at > Len(doc.accounts)))
      BY <2>1, <2>3, Zenon DEF Then
    <3>2. /\ at = Len(store) + 1 /\ Len(store) \in Nat /\ Len(doc.accounts) \in Nat
          /\ Len(store) <= Len(doc.accounts)
      BY <2>1, AccountsAreList DEF BInv
    <3>3. at > Len(doc.accounts) => Len(store) = Len(doc.accounts)
      BY <3>2
    <3> QED
      BY <2>1, <3>1, <3>3, PhaseInv, Zenon
  <2> QED
    BY <2>2, <2>3, Zenon
<1>5. CASE ReadEnv
  <2>1. phase = "env" /\ UNCHANGED <<doc, env, store>>
        /\ (phase' = "aborted" \/ (phase' = "connect" /\ FromEnv(env)))
    BY <1>5, Zenon DEF ReadEnv, Then
  <2> QED
    BY <2>1, PhaseInv, Zenon DEF FromEnv
<1>6. ASSUME NEW ok \in BOOLEAN, Connect(ok) \/ Mount(ok) PROVE BInv'
  <2>1. /\ UNCHANGED <<doc, env, store>>
        /\ \/ phase' = "aborted"
           \/ phase = "connect" /\ phase' = "mount"
           \/ phase = "mount" /\ phase' = "serving"
    BY <1>6, Zenon DEF Connect, Mount, Then
  <2> QED
    BY <2>1, PhaseInv, Zenon
<1>7. CASE UNCHANGED bootVars
  BY <1>7, PhaseInv, Zenon DEF bootVars
<1> QED
  BY <1>1, <1>2, <1>3, <1>4, <1>5, <1>6, <1>7, Zenon DEF BootNext

-----------------------------------------------------------------------------
(* The routes. *)

\* Every other route is among the reserved paths, or begins with a reserved
\* prefix and is longer or shorter than those the gateway path is appended to.
LEMMA RoutesDiffer ==
    ASSUME NEW d, NEW path, IsList(path.segments), ValidateMcpPath(path)
    PROVE  LET routes == Routes(d, path.segments)
           IN \A i, j \in DOMAIN routes : routes[i] = routes[j] => i = j
<1> DEFINE m == path.segments
           wk == <<".well-known", "oauth-protected-resource">> \o m
           head == <<m, <<".well-known", "oauth-protected-resource">>, wk,
                     <<".well-known", "oauth-authorization-server">>,
                     <<".well-known", "openid-configuration">>,
                     <<"healthz">>, <<"readyz">>, <<"metrics">>,
                     <<"auth", "login">>, <<"auth", "callback">>, <<"authorize">>, <<"token">>,
                     <<"revoke">>, <<"register">>, <<"auth", "logout">>>>
           admin == <<<<"admin", "v1", "users">>, <<"admin", "v1", "users", ":id">>,
                      <<"admin", "v1", "databases">>, <<"admin", "v1", "databases", ":id">>,
                      <<"admin", "v1", "grants">>, <<"admin", "v1", "grants", ":id">>>>
<1>1. /\ Len(m) \in Nat /\ Len(m) > 0
      /\ m \notin ReservedMcpPaths /\ m[1] \notin {"admin", ".well-known"}
  BY DEF IsList, ValidateMcpPath, ReservedMcpPathPrefixes
<1>2. Len(wk) # 2 /\ wk[1] = ".well-known"
  BY <1>1 DEF IsList
<1>3. Routes(d, m) = head \o (IF d.admin.enabled THEN admin ELSE <<>>)
  BY Zenon DEF Routes, AdminRoutes
<1>4. /\ head[1] = m /\ head[2] = <<".well-known", "oauth-protected-resource">>
      /\ head[3] = wk /\ head[4] = <<".well-known", "oauth-authorization-server">>
      /\ head[5] = <<".well-known", "openid-configuration">>
      /\ head[6] = <<"healthz">> /\ head[7] = <<"readyz">> /\ head[8] = <<"metrics">>
      /\ head[9] = <<"auth", "login">> /\ head[10] = <<"auth", "callback">>
      /\ head[11] = <<"authorize">> /\ head[12] = <<"token">> /\ head[13] = <<"revoke">>
      /\ head[14] = <<"register">> /\ head[15] = <<"auth", "logout">>
  BY Zenon
<1>5. /\ admin[1] = <<"admin", "v1", "users">> /\ admin[2] = <<"admin", "v1", "users", ":id">>
      /\ admin[3] = <<"admin", "v1", "databases">>
      /\ admin[4] = <<"admin", "v1", "databases", ":id">>
      /\ admin[5] = <<"admin", "v1", "grants">> /\ admin[6] = <<"admin", "v1", "grants", ":id">>
  BY Zenon
<1> DEFINE S == {head[i] : i \in 1..15} \cup {admin[i] : i \in 1..6}
<1>6. Len(head) = 15 /\ Len(admin) = 6 /\ head \in Seq(S) /\ admin \in Seq(S)
  <2>1. Len(head) = 15 /\ DOMAIN head = 1..15 /\ Len(admin) = 6 /\ DOMAIN admin = 1..6
    OBVIOUS
  <2>2. head = [i \in 1..15 |-> head[i]] /\ admin = [i \in 1..6 |-> admin[i]]
    BY <2>1
  <2> HIDE DEF head, admin
  <2> QED
    BY <2>1, <2>2
<1> HIDE DEF m, wk, head, admin, S
<1>7. \A i \in 2..15 : head[1] # head[i]
  <2>1. \A i \in {2, 3, 4, 5} : head[i][1] = ".well-known"
    BY <1>2, <1>4
  <2>2. /\ head[6] \in ReservedMcpPaths /\ head[7] \in ReservedMcpPaths
        /\ head[8] \in ReservedMcpPaths /\ head[9] \in ReservedMcpPaths
        /\ head[10] \in ReservedMcpPaths /\ head[11] \in ReservedMcpPaths
        /\ head[12] \in ReservedMcpPaths /\ head[13] \in ReservedMcpPaths
        /\ head[14] \in ReservedMcpPaths /\ head[15] \in ReservedMcpPaths
    BY <1>4, Zenon DEF ReservedMcpPaths
  <2>3. head[1] \notin ReservedMcpPaths /\ head[1][1] # ".well-known"
    BY <1>1, <1>4, Zenon
  <2> QED
    BY <2>1, <2>2, <2>3
<1>8. \A i, j \in 2..15 : head[i] = head[j] => i = j
  <2> DEFINE top(i) == head[i][1]
  <2>1. /\ \A i \in {2, 3, 4, 5} : top(i) = ".well-known"
        /\ top(6) = "healthz" /\ top(7) = "readyz" /\ top(8) = "metrics"
        /\ \A i \in {9, 10, 15} : top(i) = "auth"
        /\ top(11) = "authorize" /\ top(12) = "token" /\ top(13) = "revoke"
        /\ top(14) = "register"
    BY <1>2, <1>4
  <2>2. \A i, j \in 2..15 : head[i] = head[j] => top(i) = top(j)
    BY Zenon
  <2> HIDE DEF top
  <2>3. \A i, j \in 2..15 : top(i) = top(j) =>
           i = j \/ (i \in 2..5 /\ j \in 2..5) \/ (i \in {9, 10, 15} /\ j \in {9, 10, 15})
    BY <2>1
  <2>4. \A i, j \in 2..5 : head[i] = head[j] => i = j
    <3>1. /\ Len(head[2]) = 2 /\ Len(head[4]) = 2 /\ Len(head[5]) = 2 /\ Len(head[3]) # 2
          /\ head[2][2] = "oauth-protected-resource"
          /\ head[4][2] = "oauth-authorization-server" /\ head[5][2] = "openid-configuration"
      BY <1>2, <1>4
    <3>2. head[2] # head[4] /\ head[2] # head[5] /\ head[4] # head[5]
      BY <3>1, Zenon
    <3>3. head[3] # head[2] /\ head[3] # head[4] /\ head[3] # head[5]
      BY <3>1, Zenon
    <3> QED
      BY <3>2, <3>3
  <2>5. \A i, j \in {9, 10, 15} : head[i] = head[j] => i = j
    <3>1. head[9][2] = "login" /\ head[10][2] = "callback" /\ head[15][2] = "logout"
      BY <1>4
    <3> QED
      BY <3>1
  <2> QED
    BY <2>2, <2>3, <2>4, <2>5
<1>9. \A i, j \in 1..6 : admin[i] = admin[j] => i = j
  <2>1. /\ \A i \in {1, 3, 5} : Len(admin[i]) = 3
        /\ \A i \in {2, 4, 6} : Len(admin[i]) = 4
        /\ admin[1][3] = "users" /\ admin[2][3] = "users" /\ admin[3][3] = "databases"
        /\ admin[4][3] = "databases" /\ admin[5][3] = "grants" /\ admin[6][3] = "grants"
    BY <1>5
  <2> QED
    BY <2>1
<1>10. \A i \in 1..15, j \in 1..6 : head[i] # admin[j]
  <2>1. \A j \in 1..6 : admin[j][1] = "admin"
    BY <1>5
  <2>2. \A i \in 1..15 : head[i][1] # "admin"
    BY <1>1, <1>2, <1>4
  <2> QED
    BY <2>1, <2>2, Zenon
<1> DEFINE tail == IF d.admin.enabled THEN admin ELSE <<>>
           routes == head \o tail
<1>11. /\ Len(tail) \in {0, 6} /\ DOMAIN routes = 1..(15 + Len(tail))
       /\ \A i \in 1..15 : routes[i] = head[i]
       /\ Len(tail) = 6 => \A i \in 16..21 : routes[i] = admin[i - 15]
  <2>1. tail \in Seq(S) /\ Len(tail) \in {0, 6} /\ (Len(tail) = 6 => tail = admin)
    BY <1>6
  <2> HIDE DEF tail
  <2>2. /\ Len(routes) = 15 + Len(tail) /\ routes \in Seq(S)
        /\ \A i \in 1..(15 + Len(tail)) :
             routes[i] = IF i <= 15 THEN head[i] ELSE tail[i - 15]
    <3>1. /\ routes \in Seq(S) /\ Len(routes) = Len(head) + Len(tail)
          /\ \A i \in 1..(Len(head) + Len(tail)) :
               routes[i] = IF i <= Len(head) THEN head[i] ELSE tail[i - Len(head)]
      BY <1>6, <2>1, ConcatProperties, Zenon
    <3> QED
      BY <1>6, <3>1, Zenon
  <2>3. DOMAIN routes = 1..(15 + Len(tail))
    BY <2>2
  <2> HIDE DEF routes
  <2>4. \A i \in 1..15 : routes[i] = head[i]
    <3> SUFFICES ASSUME NEW i \in 1..15 PROVE routes[i] = head[i]
      BY ZenonT(30)
    <3>1. i \in 1..(15 + Len(tail)) /\ i <= 15
      BY <2>1
    <3> QED
      BY <2>2, <3>1, Zenon
  <2>5. ASSUME Len(tail) = 6, NEW i \in 16..21 PROVE routes[i] = admin[i - 15]
    <3>1. i \in 1..(15 + Len(tail)) /\ ~(i <= 15)
      BY <2>5
    <3> QED
      BY <2>1, <2>2, <2>5, <3>1, Zenon
  <2> QED
    BY <2>1, <2>3, <2>4, <2>5, Zenon
<1> HIDE DEF routes, tail
<1>12. ASSUME NEW i \in DOMAIN routes, NEW j \in DOMAIN routes, routes[i] = routes[j]
       PROVE  i = j
  <2>1. CASE i \in 1..15 /\ j \in 1..15
    <3>1. head[i] = head[j]
      BY <1>11, <1>12, <2>1, Zenon
    <3>2. CASE i = 1 \/ j = 1
      BY <1>7, <2>1, <3>1, <3>2
    <3>3. CASE i \in 2..15 /\ j \in 2..15
      BY <1>8, <3>1, <3>3, Zenon
    <3> QED
      BY <2>1, <3>2, <3>3
  <2>2. \A k \in DOMAIN routes : k \in 1..15 \/ (k \in 16..21 /\ Len(tail) = 6)
    <3>1. CASE Len(tail) = 0
      BY <1>11, <3>1
    <3>2. CASE Len(tail) = 6
      BY <1>11, <3>2
    <3> QED
      BY <1>11, <3>1, <3>2, Zenon
  <2>3. \A k \in 16..21 : k - 15 \in 1..6
    OBVIOUS
  <2>4. CASE i \in 16..21 /\ j \in 16..21 /\ Len(tail) = 6
    <3>1. admin[i - 15] = admin[j - 15]
      BY <1>11, <1>12, <2>4, Zenon
    <3>2. i - 15 = j - 15
      BY <1>9, <2>3, <2>4, <3>1, Zenon
    <3> QED
      BY <2>4, <3>2
  <2>5. CASE i \in 1..15 /\ j \in 16..21 /\ Len(tail) = 6
    <3>1. routes[i] = head[i] /\ routes[j] = admin[j - 15] /\ j - 15 \in 1..6
      BY <1>11, <2>3, <2>5, Zenon
    <3> QED
      BY <1>10, <1>12, <2>5, <3>1, Zenon
  <2>6. CASE i \in 16..21 /\ j \in 1..15 /\ Len(tail) = 6
    <3>1. routes[j] = head[j] /\ routes[i] = admin[i - 15] /\ i - 15 \in 1..6
      BY <1>11, <2>3, <2>6, Zenon
    <3> QED
      BY <1>10, <1>12, <2>6, <3>1, Zenon
  <2> QED
    BY <1>12, <2>1, <2>2, <2>4, <2>5, <2>6, Zenon
<1> QED
  BY <1>3, <1>12, Zenon DEF routes, tail, m

-----------------------------------------------------------------------------
(* The endpoint. *)

\* bearer_auth yields a user who logged in, or the account of a stored token,
\* with the group the document gives that account.
LEMMA WhoEnters ==
    ASSUME BInv, NEW cred, NEW identity \in BearerAuth(cred)
    PROVE  \/ cred \in Users /\ identity.sub = cred
           \/ \E i \in 1..Len(store) : /\ identity.sub \in Accounts
                                       /\ identity.groups = {doc.accounts[i].group}
<1>1. CASE cred \in Users
  BY <1>1 DEF BearerAuth
<1>2. CASE cred \notin Users
  <2>1. PICK i \in DOMAIN store : identity = ServiceIdentity(i)
    BY <1>2, Zenon DEF BearerAuth, Matching
  <2>2. store \in Seq(StoreEntry) /\ i \in 1..Len(store) /\ store[i] \in StoreEntry
    BY <2>1 DEF BInv
  <2>3. identity.sub = <<"service", store[i].name>> /\ identity.groups = {store[i].group}
    BY <2>1, Zenon DEF ServiceIdentity
  <2>4. store[i].name \in Labels /\ store[i].group = doc.accounts[i].group
    BY <2>2, Zenon DEF StoreEntry, BInv
  <2> QED
    BY <2>2, <2>3, <2>4, Zenon DEF Accounts
<1> QED
  BY <1>1, <1>2, Zenon

LEMMA EntersAsIdentity ==
    ASSUME BInv, NEW cred, NEW identity \in BearerAuth(cred)
    PROVE  identity.sub \in Identities
  BY WhoEnters, EndpointAssumption, Zenon

\* The group of a service account is not the admin group where there is one.
LEMMA ServiceRefused ==
    ASSUME BInv, phase = "serving", doc.admin.enabled,
           NEW cred, NEW identity \in BearerAuth(cred), RequireAdminGroup(identity)
    PROVE  identity.sub \notin Accounts
<1>1. CASE cred \in Users /\ identity.sub = cred
  BY <1>1, EndpointAssumption, Zenon
<1>2. CASE \E i \in 1..Len(store) : /\ identity.sub \in Accounts
                                    /\ identity.groups = {doc.accounts[i].group}
  <2>1. PICK i \in 1..Len(store) : identity.groups = {doc.accounts[i].group}
    BY <1>2, Zenon
  <2>2. i \in DOMAIN doc.accounts /\ AccountsOk(doc)
    BY AccountsAreList, Zenon DEF BInv
  <2>3. doc.accounts[i].group # doc.admin.group
    BY <2>2, AccountChecked, Zenon
  <2> QED
    BY <2>1, <2>3, Zenon DEF RequireAdminGroup
<1> QED
  BY <1>1, <1>2, WhoEnters, ZenonT(30)

\* Each step of a gateway is one of its startup, one of its limiter, or neither.
LEMMA EndpointDrives ==
    ASSUME BInv, [GatewayNext]_GatewayVars
    PROVE  [BootNext]_bootVars /\ [Next]_vars
<1>1. CASE BootNext /\ UNCHANGED endpointVars
  BY <1>1, Zenon DEF endpointVars, vars
<1>2. ASSUME NEW cred, AdminRequest(cred)
      PROVE  UNCHANGED bootVars /\ UNCHANGED vars
  BY <1>2, Zenon DEF AdminRequest, vars
<1>3. ASSUME NEW r \in Requests, NEW cred, Enter(r, cred)
      PROVE  UNCHANGED bootVars /\ Next
  <2>1. PICK identity \in BearerAuth(cred) : TryGlobal(r, identity.sub)
    BY <1>3, Zenon DEF Enter
  <2> QED
    BY <1>3, <2>1, EntersAsIdentity, Zenon DEF Enter, Next
<1>4. ASSUME NEW r \in Requests, EnterOpen(r) \/ Limit(r) \/ Leave(r)
      PROVE  UNCHANGED bootVars /\ Next
  BY <1>4, Zenon DEF EnterOpen, Limit, Leave, Next
<1>5. ASSUME NEW r \in Requests, NEW body, Handle(r, body)
      PROVE  UNCHANGED bootVars /\ Next
  BY <1>5, Zenon DEF Handle, Next
<1>6. CASE UNCHANGED GatewayVars
  BY <1>6, Zenon DEF GatewayVars, endpointVars, vars
<1> QED
  BY <1>1, <1>2, <1>3, <1>4, <1>5, <1>6, ZenonT(30) DEF GatewayNext, EndpointNext

LEMMA GatewayInvariance ==
    ASSUME NEW CONSTANT initFiles
    PROVE  GatewaySpec(initFiles) => []BInv
<1>1. BootInit(initFiles) => BInv
  BY BootInitInv, Zenon
<1>2. BInv /\ [GatewayNext]_GatewayVars => BInv'
  BY EndpointDrives, BootStep, Zenon
<1> QED
  BY <1>1, <1>2, PTL DEF GatewaySpec

\* A gateway uses its limiter as the limiter's specification says: every
\* request enters with a known identity and goes through its steps.
THEOREM GatewayLimits ==
    ASSUME NEW CONSTANT initFiles
    PROVE  GatewaySpec(initFiles) => Spec
<1>1. EndpointInit => Init
  BY Zenon DEF EndpointInit
<1>2. BInv /\ [GatewayNext]_GatewayVars => [Next]_vars
  BY EndpointDrives, Zenon
<1> QED
  BY <1>1, <1>2, GatewayInvariance, PTL DEF GatewaySpec, Spec

\* So the cap of an identity holds in a gateway that serves.
THEOREM GatewayCeiling ==
    ASSUME NEW CONSTANT initFiles
    PROVE  GatewaySpec(initFiles) => []IdentityCeiling
  BY GatewayLimits, CeilingPerIdentity, PTL

\* And so does the meaning of a 429.
THEOREM GatewayOwnLimit ==
    ASSUME NEW CONSTANT initFiles
    PROVE  GatewaySpec(initFiles) => OwnLimitOnly
  BY GatewayLimits, OwnLimit, PTL

\* No two service accounts of a serving gateway share a token, for any
\* documents, secret files and rewrites of them during startup.
THEOREM TokensAreDistinct ==
    ASSUME NEW CONSTANT initFiles
    PROVE  GatewaySpec(initFiles) => []OneAccountPerToken
<1>1. BInv => OneAccountPerToken
  <2> SUFFICES ASSUME BInv, phase = "serving"
               PROVE  /\ Len(store) = Len(doc.accounts)
                      /\ \A i, j \in DOMAIN store : store[i].token = store[j].token => i = j
    BY Zenon DEF OneAccountPerToken
  <2>1. DOMAIN store = 1..Len(store)
    BY DEF BInv
  <2> QED
    BY <2>1, Zenon DEF BInv
<1> QED
  BY <1>1, GatewayInvariance, PTL

\* Whatever MCP_PATH from_env accepts, the router mounts no path twice.
THEOREM RoutesMountOnce ==
    ASSUME NEW CONSTANT initFiles
    PROVE  GatewaySpec(initFiles) => []MountsOnce
<1>1. BInv => MountsOnce
  <2> SUFFICES ASSUME BInv, phase = "mount" PROVE MountsOnce
    BY Zenon DEF MountsOnce
  <2>1. ValidateMcpPath(env.mcp_path) /\ IsList(env.mcp_path.segments)
    BY BootAssumption, Zenon DEF BInv
  <2> QED
    BY <2>1, RoutesDiffer, Zenon DEF MountsOnce
<1> QED
  BY <1>1, GatewayInvariance, PTL

\* The admin API never answers a service account with success, from any
\* document that the gateway starts with.
THEOREM ServiceIsNeverAdmin ==
    ASSUME NEW CONSTANT initFiles
    PROVE  GatewaySpec(initFiles) => []ServiceNeverAdmin
<1>1. EndpointInit => ServiceNeverAdmin
  BY DEF EndpointInit, NoAnswer, ServiceNeverAdmin
<1>2. BInv /\ ServiceNeverAdmin /\ [GatewayNext]_GatewayVars => ServiceNeverAdmin'
  <2> SUFFICES ASSUME BInv, ServiceNeverAdmin, [GatewayNext]_GatewayVars
               PROVE  ServiceNeverAdmin'
    BY Zenon
  <2>1. ASSUME NEW cred, AdminRequest(cred) PROVE ServiceNeverAdmin'
    <3>1. PICK identity \in BearerAuth(cred) :
            last' = [to |-> "admin", by |-> identity.sub, ok |-> RequireAdminGroup(identity)]
      BY <2>1, Zenon DEF AdminRequest
    <3>2. last'.by = identity.sub /\ (last'.ok <=> RequireAdminGroup(identity))
      BY <3>1, Zenon
    <3>3. phase = "serving" /\ doc.admin.enabled
      BY <2>1, Zenon DEF AdminRequest
    <3>4. Accounts' = Accounts
      BY Zenon DEF Accounts
    <3> QED
      BY <3>2, <3>3, <3>4, ServiceRefused, ZenonT(30) DEF ServiceNeverAdmin
  <2>2. last' = last => ServiceNeverAdmin'
    BY Zenon DEF ServiceNeverAdmin, Accounts
  <2>3. last' = NoAnswer => ServiceNeverAdmin'
    BY DEF ServiceNeverAdmin, NoAnswer
  <2>4. ASSUME NEW r, NEW body, Handle(r, body) PROVE ServiceNeverAdmin'
    <3>1. last'.to = "mcp"
      BY <2>4, Zenon DEF Handle, Answer
    <3> QED
      BY <3>1, Zenon DEF ServiceNeverAdmin
  <2> QED
    BY <2>1, <2>2, <2>3, <2>4, ZenonT(30)
    DEF GatewayNext, EndpointNext, Enter, EnterOpen, Limit, Leave, GatewayVars, endpointVars
<1> QED
  BY <1>1, <1>2, GatewayInvariance, PTL DEF GatewaySpec

\* A tool runs only for a message whose answer can reach the caller, and every
\* message that is not a notification is answered with its own id.
THEOREM EveryRunAnswerable ==
    ASSUME NEW CONSTANT initFiles
    PROVE  GatewaySpec(initFiles) => []RunsOnlyAnswerable
<1>1. EndpointInit => RunsOnlyAnswerable
  BY DEF EndpointInit, NoAnswer, RunsOnlyAnswerable
<1>2. RunsOnlyAnswerable /\ [GatewayNext]_GatewayVars => RunsOnlyAnswerable'
  <2> SUFFICES ASSUME RunsOnlyAnswerable, [GatewayNext]_GatewayVars
               PROVE  RunsOnlyAnswerable'
    BY Zenon
  <2>1. ASSUME NEW cred, AdminRequest(cred) PROVE RunsOnlyAnswerable'
    <3>1. last'.to = "admin"
      BY <2>1 DEF AdminRequest
    <3> QED
      BY <3>1, Zenon DEF RunsOnlyAnswerable
  <2>2. last' = last => RunsOnlyAnswerable'
    BY ZenonT(30) DEF RunsOnlyAnswerable
  <2>3. last' = NoAnswer => RunsOnlyAnswerable'
    BY DEF RunsOnlyAnswerable, NoAnswer
  <2>4. ASSUME NEW r, NEW body \in Bodies, Handle(r, body) PROVE RunsOnlyAnswerable'
    <3>1. /\ body.readable \in BOOLEAN /\ body.version \in BOOLEAN
          /\ body.id \in Ids /\ body.method \in Methods
          /\ ~body.readable => body.id = "absent"
      <4>1. CASE body = [readable |-> FALSE, version |-> FALSE, id |-> "absent",
                         method |-> "unknown"]
        BY <4>1, Zenon DEF Ids, Methods
      <4>2. CASE body \in [readable : {TRUE}, version : {FALSE}, id : Ids,
                           method : {"tools/call"}]
        BY <4>2, Zenon DEF Methods
      <4>3. CASE body \in [readable : {TRUE}, version : {TRUE}, id : Ids, method : Methods]
        BY <4>3, Zenon
      <4> QED
        BY <4>1, <4>2, <4>3, Zenon DEF Bodies
    <3>2. CASE RunsTool(body)
      <4>1. last' = Answer(body, Response(body.id, "none"), TRUE)
        BY <2>4, <3>2, Zenon DEF Handle
      <4>2. last'.body = body /\ last'.reply.id = body.id /\ last'.reply.status = 200
        BY <4>1, Zenon DEF Answer, Response
      <4> QED
        BY <3>1, <3>2, <4>2 DEF RunsTool, RunsOnlyAnswerable, Ids, IsNotification, IsInvalidType
    <3>3. CASE ~RunsTool(body)
      <4>1. last' = Answer(body, Reply(body), FALSE)
        BY <2>4, <3>3, Zenon DEF Handle
      <4>2. last'.body = body /\ last'.reply = Reply(body) /\ last'.ran = FALSE
        BY <4>1, Zenon DEF Answer
      <4>3. /\ Reply(body).status = 202 => body.readable /\ body.id = "absent"
            /\ body.readable /\ body.id # "absent" => Reply(body).id = body.id
        BY <3>1 DEF Reply, Dispatch, Response, Accepted, ResponseId, IsNotification
      <4> QED
        BY <4>2, <4>3, ZenonT(30) DEF RunsOnlyAnswerable
    <3> QED
      BY <3>2, <3>3, Zenon
  <2> QED
    BY <2>1, <2>2, <2>3, <2>4, ZenonT(30)
    DEF GatewayNext, EndpointNext, Enter, EnterOpen, Limit, Leave, GatewayVars, endpointVars
<1> QED
  BY <1>1, <1>2, PTL DEF GatewaySpec

-----------------------------------------------------------------------------
(***************************************************************************)
(* Proofs about OidcKeys, for any number of logins, keys and time units.   *)
(*                                                                         *)
(* What bounds the lag is when a key set was asked for: a set that is      *)
(* stored was asked for at most Timeout ago, so a key of it that has been  *)
(* withdrawn since was withdrawn at most Timeout before the set was stored.*)
(***************************************************************************)

Login == [pc : {"rest", "discover", "exchange", "verify", "fetch", "reply"},
          kid : Keys \cup {0}, asked : Nat, keys : SUBSET Keys]

OidcTypeOK ==
    /\ now \in Nat /\ first \in Nat /\ next \in Nat
    /\ withdrawn \in [Keys -> Nat]
    /\ jwks \in [keys : SUBSET Keys, at : Nat]
    /\ login \in [Logins -> Login]
    /\ Published \subseteq Keys
    /\ \A l \in Logins : login[l].pc \in {"verify", "fetch", "reply"} =>
         login[l].kid \in Keys /\ login[l].kid < next

\* Ages of the requests and the replies under way.
InTime ==
    /\ \A l \in Logins : Waiting(l) => login[l].asked <= now /\ now <= login[l].asked + Timeout
    /\ \A l \in Logins : login[l].pc = "reply" =>
         \A k \in login[l].keys : k < first => login[l].asked <= withdrawn[k]

\* Age of the cache.
CacheAge ==
    /\ jwks.at <= now
    /\ \A k \in jwks.keys : k < first => jwks.at <= withdrawn[k] + Timeout

\* A reply lacks the key its login waits for only if that key is withdrawn.
ReplyComplete == \A l \in Logins :
    login[l].pc = "reply" /\ login[l].kid >= first => login[l].kid \in login[l].keys

IInv == OidcTypeOK /\ InTime /\ CacheAge /\ ReplyComplete /\ RotationLag /\ FreshKeyAccepted

\* The initial state: nothing is cached, nothing waits.
LEMMA InitInv == OidcInit => IInv
  BY OidcAssumption
  DEF OidcInit, IInv, OidcTypeOK, InTime, CacheAge, ReplyComplete, RotationLag, FreshKeyAccepted,
      Published, Login, Resting, NoVerdict, Waiting

\* A login that ends without an acceptance and without a refused key leaves
\* everything but its own slot and the verdict as it was.
LEMMA EndsInv ==
    ASSUME IInv, NEW l \in Logins, NEW why \in {"discovery", "exchange", "claims", "idp"},
           Ends(l, why), UNCHANGED <<now, first, next, withdrawn, jwks>>
    PROVE  IInv'
<1>1. OidcTypeOK'
  BY ZenonT(30) DEF IInv, OidcTypeOK, Login, Ends, Resting, Published
<1>2. InTime' /\ ReplyComplete'
  BY ZenonT(30) DEF IInv, OidcTypeOK, Login, Ends, Resting, InTime, ReplyComplete, Waiting
<1>3. CacheAge'
  BY ZenonT(30) DEF IInv, CacheAge
<1>4. RotationLag' /\ FreshKeyAccepted'
  BY ZenonT(30) DEF Ends, RotationLag, FreshKeyAccepted
<1> QED BY <1>1, <1>2, <1>3, <1>4, Zenon DEF IInv

\* So does a login that goes on to another state, with no key set of its own.
LEMMA GoesOnInv ==
    ASSUME IInv, NEW l \in Logins, NEW new \in Login,
           login' = [login EXCEPT ![l] = new], verdict' = NoVerdict,
           UNCHANGED <<now, first, next, withdrawn, jwks>>,
           new.pc \in {"verify", "fetch", "reply"} => new.kid \in Keys /\ new.kid < next,
           new.pc \in {"discover", "fetch", "reply"} => new.asked <= now /\ now <= new.asked + Timeout,
           new.pc = "reply" => /\ \A k \in new.keys : k < first => new.asked <= withdrawn[k]
                               /\ new.kid >= first => new.kid \in new.keys
    PROVE  IInv'
<1>1. OidcTypeOK'
  BY ZenonT(30) DEF IInv, OidcTypeOK, Published
<1>2. InTime' /\ ReplyComplete'
  BY ZenonT(30) DEF IInv, OidcTypeOK, InTime, ReplyComplete, Waiting
<1>3. CacheAge'
  BY ZenonT(30) DEF IInv, CacheAge
<1>4. RotationLag' /\ FreshKeyAccepted'
  BY ZenonT(30) DEF NoVerdict, RotationLag, FreshKeyAccepted
<1> QED BY <1>1, <1>2, <1>3, <1>4, Zenon DEF IInv

\* What the numbers are.
LEMMA OidcNumbers ==
    ASSUME IInv
    PROVE  /\ now \in Nat /\ first \in Nat /\ next \in Nat /\ jwks.at \in Nat
           /\ Timeout \in Nat /\ Ttl \in Nat /\ Ttl >= 1
           /\ \A k \in Keys : k \in Nat /\ withdrawn[k] \in Nat
           /\ \A l \in Logins : /\ login[l].kid \in Nat /\ login[l].asked \in Nat
                                /\ login[l].keys \in SUBSET Keys
<1>1. /\ now \in Nat /\ first \in Nat /\ next \in Nat /\ jwks.at \in Nat
      /\ Timeout \in Nat /\ Ttl \in Nat /\ Ttl >= 1
  BY OidcAssumption DEF IInv, OidcTypeOK
<1>2. \A k \in Keys : k \in Nat /\ withdrawn[k] \in Nat
  BY OidcAssumption, ZenonT(30) DEF IInv, OidcTypeOK
<1>3. \A l \in Logins : /\ login[l].kid \in Nat /\ login[l].asked \in Nat
                       /\ login[l].keys \in SUBSET Keys
  <2>1. \A l \in Logins : login[l] \in Login
    BY Zenon DEF IInv, OidcTypeOK
  <2>2. \A l \in Logins : /\ login[l].kid \in Keys \cup {0} /\ login[l].asked \in Nat
                         /\ login[l].keys \in SUBSET Keys
    BY <2>1, Zenon DEF Login
  <2> QED BY <1>2, <2>2
<1> QED BY <1>1, <1>2, <1>3, Zenon

\* A new key leaves every age as it was.
LEMMA PublishInv ==
    ASSUME IInv, Publish
    PROVE  IInv'
<1>0. Published' \subseteq Keys
  BY OidcNumbers DEF Publish, IInv, OidcTypeOK, Published
<1>1. OidcTypeOK'
  <2>1. next' \in Nat
    BY OidcNumbers DEF Publish
  <2>2. \A l \in Logins : login[l].kid < next => login[l].kid < next'
    BY OidcNumbers DEF Publish
  <2> QED BY <1>0, <2>1, <2>2, Zenon DEF Publish, IInv, OidcTypeOK
<1>2. InTime' /\ CacheAge' /\ ReplyComplete'
  BY ZenonT(30) DEF Publish, IInv, InTime, CacheAge, ReplyComplete, Waiting
<1>3. RotationLag' /\ FreshKeyAccepted'
  BY ZenonT(30) DEF Publish, NoVerdict, RotationLag, FreshKeyAccepted
<1> QED BY <1>1, <1>2, <1>3, Zenon DEF IInv

\* A key is withdrawn now, which is no earlier than any reply was asked for.
LEMMA WithdrawInv ==
    ASSUME IInv, Withdraw
    PROVE  IInv'
<1>0. first \in Keys /\ first' = first + 1 /\ withdrawn'[first] = now
  BY DEF Withdraw, IInv, OidcTypeOK, Published
<1>1. OidcTypeOK'
  BY DEF Withdraw, IInv, OidcTypeOK, Login, Published
<1>2. \A k \in Keys : k < first' => withdrawn'[k] = now \/ (k < first /\ withdrawn'[k] = withdrawn[k])
  BY <1>0 DEF Withdraw, IInv, OidcTypeOK
<1>3. InTime'
  BY <1>2, ZenonT(30) DEF Withdraw, IInv, OidcTypeOK, Login, InTime, Waiting
<1>4. CacheAge'
  BY <1>2, OidcAssumption DEF Withdraw, IInv, OidcTypeOK, CacheAge
<1>5. ReplyComplete'
  <2> SUFFICES ASSUME NEW l \in Logins, login[l].pc = "reply", login[l].kid >= first + 1
               PROVE  login[l].kid \in login[l].keys
    BY Zenon DEF Withdraw, ReplyComplete
  <2>1. login[l].kid >= first
    BY OidcNumbers
  <2> QED BY <2>1, Zenon DEF IInv, ReplyComplete
<1>6. RotationLag' /\ FreshKeyAccepted'
  BY Zenon DEF Withdraw, NoVerdict, RotationLag, FreshKeyAccepted
<1> QED BY <1>1, <1>3, <1>4, <1>5, <1>6, Zenon DEF IInv

\* The clock goes on only while every round trip is in time.
LEMMA ClockInv ==
    ASSUME IInv, Tick
    PROVE  IInv'
<1>1. OidcTypeOK' /\ ReplyComplete'
  BY DEF Tick, IInv, OidcTypeOK, Login, Published, ReplyComplete
<1>2. InTime'
  <2>1. \A l \in Logins : Waiting(l) => /\ login[l].asked <= now + 1
                                       /\ now + 1 <= login[l].asked + Timeout
    BY OidcNumbers DEF Tick, IInv, InTime
  <2> QED BY <2>1, Zenon DEF Tick, IInv, InTime, Waiting
<1>3. CacheAge'
  BY DEF Tick, IInv, OidcTypeOK, CacheAge
<1>4. RotationLag' /\ FreshKeyAccepted'
  BY Zenon DEF Tick, NoVerdict, RotationLag, FreshKeyAccepted
<1> QED BY <1>1, <1>2, <1>3, <1>4, Zenon DEF IInv

\* A login begins with the discovery document, asked for now unless it is cached.
LEMMA BeginInv ==
    ASSUME IInv, NEW l \in Logins, Begin(l)
    PROVE  IInv'
<1> DEFINE new == IF discovery THEN [Resting EXCEPT !.pc = "exchange"]
                  ELSE [Resting EXCEPT !.pc = "discover", !.asked = now]
<1>1. new \in Login
  BY Zenon DEF IInv, OidcTypeOK, Login, Resting
<1>2. new.pc \in {"exchange", "discover"} /\ (new.pc = "discover" => new.asked = now)
  BY Zenon DEF Resting
<1>3. login' = [login EXCEPT ![l] = new] /\ verdict' = NoVerdict
      /\ UNCHANGED <<now, first, next, withdrawn, jwks>>
  BY Zenon DEF Begin
<1> HIDE DEF new
<1>4. now <= now /\ now <= now + Timeout
  BY OidcNumbers
<1> QED BY <1>1, <1>2, <1>3, <1>4, GoesOnInv, Zenon

\* The key set is asked for now.
LEMMA AskKeysInv ==
    ASSUME IInv, NEW l \in Logins, AskKeys(l)
    PROVE  IInv'
<1> DEFINE new == [login[l] EXCEPT !.pc = "fetch", !.asked = now]
<1>1. new \in Login /\ new.pc = "fetch" /\ new.asked = now /\ new.kid = login[l].kid
  BY Zenon DEF AskKeys, IInv, OidcTypeOK, Login
<1>2. login' = [login EXCEPT ![l] = new] /\ verdict' = NoVerdict
      /\ UNCHANGED <<now, first, next, withdrawn, jwks>>
  BY Zenon DEF AskKeys, IInv, OidcTypeOK, Login
<1>3. login[l].kid \in Keys /\ login[l].kid < next
  BY Zenon DEF AskKeys, IInv, OidcTypeOK
<1> HIDE DEF new
<1>4. now <= now /\ now <= now + Timeout
  BY OidcNumbers
<1> QED BY <1>1, <1>2, <1>3, <1>4, GoesOnInv, Zenon

\* The provider answers with what it publishes at that moment.
LEMMA AnswerKeysInv ==
    ASSUME IInv, NEW l \in Logins, AnswerKeys(l)
    PROVE  IInv'
<1> DEFINE new == [login[l] EXCEPT !.pc = "reply", !.keys = Published]
<1>1. /\ new \in Login /\ new.pc = "reply" /\ new.asked = login[l].asked
      /\ new.kid = login[l].kid /\ new.keys = Published
  BY Zenon DEF AnswerKeys, IInv, OidcTypeOK, Login
<1>2. login' = [login EXCEPT ![l] = new] /\ verdict' = NoVerdict
      /\ UNCHANGED <<now, first, next, withdrawn, jwks>>
  BY Zenon DEF AnswerKeys, IInv, OidcTypeOK, Login
<1>3. login[l].kid \in Keys /\ login[l].kid < next /\ login[l].asked <= now
      /\ now <= login[l].asked + Timeout
  BY Zenon DEF AnswerKeys, IInv, OidcTypeOK, InTime, Waiting
<1>4. (\A k \in Published : ~(k < first)) /\ (login[l].kid >= first => login[l].kid \in Published)
  BY OidcNumbers, <1>3 DEF Published
<1> HIDE DEF new
<1> QED BY <1>1, <1>2, <1>3, <1>4, GoesOnInv, Zenon

\* A token is signed with a published key.
LEMMA ExchangeCodeInv ==
    ASSUME IInv, NEW l \in Logins, NEW kid \in Published, ExchangeCode(l, kid)
    PROVE  IInv'
<1> DEFINE new == [login[l] EXCEPT !.pc = "verify", !.kid = kid]
<1>1. kid \in Keys /\ kid < next
  BY DEF Published, IInv, OidcTypeOK
<1>2. new \in Login /\ new.pc = "verify" /\ new.kid = kid
  BY <1>1, Zenon DEF IInv, OidcTypeOK, Login
<1>3. login' = [login EXCEPT ![l] = new] /\ verdict' = NoVerdict
      /\ UNCHANGED <<now, first, next, withdrawn, jwks>>
  BY Zenon DEF ExchangeCode, IInv, OidcTypeOK, Login
<1> HIDE DEF new
<1> QED BY <1>1, <1>2, <1>3, GoesOnInv, Zenon

\* The discovery document arrives, or the login ends.
LEMMA DiscoverInv ==
    ASSUME IInv, NEW l \in Logins, NEW ok \in BOOLEAN, Discover(l, ok)
    PROVE  IInv'
<1>1. CASE ok
  <2> DEFINE new == [Resting EXCEPT !.pc = "exchange"]
  <2>1. new \in Login /\ new.pc = "exchange"
    BY Zenon DEF Login, Resting
  <2>2. login' = [login EXCEPT ![l] = new] /\ verdict' = NoVerdict
        /\ UNCHANGED <<now, first, next, withdrawn, jwks>>
    BY <1>1, Zenon DEF Discover
  <2> HIDE DEF new
  <2> QED BY <2>1, <2>2, GoesOnInv, Zenon
<1>2. CASE ~ok
  BY <1>2, EndsInv, Zenon DEF Discover
<1> QED BY <1>1, <1>2

\* A login is decided from the cached set while that is fresh.
LEMMA CachedKeyInv ==
    ASSUME IInv, NEW l \in Logins, NEW ok \in BOOLEAN, CachedKey(l, ok)
    PROVE  IInv'
<1>1. CASE ~ok
  BY <1>1, EndsInv, Zenon DEF CachedKey, VerifyClaims
<1>2. CASE ok
  <2>1. OidcTypeOK' /\ InTime' /\ ReplyComplete'
    BY <1>2, Zenon DEF CachedKey, VerifyClaims, Ends, IInv, OidcTypeOK, Login, Resting, Published,
                       InTime, ReplyComplete, Waiting
  <2>2. CacheAge'
    BY Zenon DEF CachedKey, IInv, CacheAge
  <2>3. FreshKeyAccepted'
    BY <1>2, Zenon DEF CachedKey, VerifyClaims, Ends, FreshKeyAccepted
  <2>4. login[l].kid < first => now < withdrawn[login[l].kid] + Ttl + Timeout
    <3>1. login[l].kid \in jwks.keys /\ jwks.keys \subseteq Keys /\ now < jwks.at + Ttl
      BY Zenon DEF CachedKey, Fresh, IInv, OidcTypeOK
    <3>2. login[l].kid < first => jwks.at <= withdrawn[login[l].kid] + Timeout
      BY <3>1, Zenon DEF IInv, CacheAge
    <3>3. withdrawn[login[l].kid] \in Nat
      BY OidcNumbers, <3>1, Zenon
    <3> QED BY OidcNumbers, <3>1, <3>2, <3>3
  <2>5. RotationLag'
    BY <1>2, <2>4, Zenon DEF CachedKey, VerifyClaims, Ends, RotationLag
  <2> QED BY <2>1, <2>2, <2>3, <2>5, ZenonT(30) DEF IInv
<1> QED BY <1>1, <1>2, Zenon

\* A reply replaces the cached set, whatever set was stored meanwhile.
LEMMA StoreKeysInv ==
    ASSUME IInv, NEW l \in Logins, NEW ok \in BOOLEAN, StoreKeys(l, ok)
    PROVE  IInv'
<1> DEFINE kid == login[l].kid
           keys == login[l].keys
<1>1. /\ login' = [login EXCEPT ![l] = Resting]
      /\ jwks' = [keys |-> keys, at |-> now]
      /\ verdict' = [why |-> IF kid \in keys THEN IF ok THEN "accepted" ELSE "claims" ELSE "kid",
                     kid |-> kid]
      /\ UNCHANGED <<now, first, next, withdrawn>>
  BY Zenon DEF StoreKeys, VerifyClaims, Ends
<1>2. kid \in Keys /\ keys \in SUBSET Keys /\ login[l].asked \in Nat /\ kid < next
      /\ now <= login[l].asked + Timeout
      /\ (\A k \in keys : k < first => login[l].asked <= withdrawn[k])
      /\ (kid >= first => kid \in keys)
  BY Zenon DEF StoreKeys, IInv, OidcTypeOK, Login, InTime, ReplyComplete, Waiting
<1>3. OidcTypeOK' /\ InTime' /\ ReplyComplete'
  BY <1>1, <1>2, Zenon DEF IInv, OidcTypeOK, Login, Resting, Published, InTime, ReplyComplete, Waiting
<1>4. \A k \in keys : k < first => now <= withdrawn[k] + Timeout
  <2> SUFFICES ASSUME NEW k \in keys, k < first PROVE now <= withdrawn[k] + Timeout
    BY Zenon
  <2>1. withdrawn[k] \in Nat
    BY OidcNumbers, <1>2, Zenon
  <2>2. now <= login[l].asked + Timeout /\ login[l].asked <= withdrawn[k]
    BY <1>2, Zenon
  <2> QED BY OidcNumbers, <1>2, <2>1, <2>2
<1>5. CacheAge'
  BY <1>1, <1>2, <1>4 DEF IInv, OidcTypeOK, CacheAge
<1>6. RotationLag'
  <2>1. kid \in keys /\ kid < first => now < withdrawn[kid] + Ttl + Timeout
    <3>1. withdrawn[kid] \in Nat
      BY OidcNumbers, <1>2, ZenonT(30)
    <3> QED BY OidcNumbers, <1>4, <3>1
  <2> QED BY <1>1, <2>1, ZenonT(30) DEF RotationLag
<1>7. FreshKeyAccepted'
  BY <1>1, <1>2 DEF IInv, OidcTypeOK, FreshKeyAccepted, Published
<1> QED BY <1>3, <1>5, <1>6, <1>7, ZenonT(30) DEF IInv

\* Every step of the provider, the clock and the logins preserves IInv.
LEMMA NextInv == IInv /\ [OidcNext]_oidcVars => IInv'
<1> SUFFICES ASSUME IInv, [OidcNext]_oidcVars PROVE IInv'
  BY Zenon
<1>1. ASSUME NEW l \in Logins, ExchangeFails(l) \/ KeysFail(l) PROVE IInv'
  BY <1>1, EndsInv, Zenon DEF ExchangeFails, KeysFail
<1>2. CASE UNCHANGED oidcVars
  BY <1>2, Zenon DEF oidcVars, IInv, OidcTypeOK, Published, InTime, CacheAge, ReplyComplete, Waiting,
               RotationLag, FreshKeyAccepted
<1> QED
  BY <1>1, <1>2, PublishInv, WithdrawInv, ClockInv, BeginInv, AskKeysInv, AnswerKeysInv,
     ExchangeCodeInv, DiscoverInv, CachedKeyInv, StoreKeysInv, ZenonT(30) DEF OidcNext

\* IInv always holds.
LEMMA Invariant == OidcSpec => []IInv
  BY InitInv, NextInv, PTL DEF OidcSpec

\* decoding_key bounds the rotation lag: for any TTL and timeout, and however
\* the replies of concurrent logins are ordered, a token of a withdrawn key is
\* accepted for less than the TTL and one round trip.
THEOREM BoundedLag == OidcSpec => []RotationLag
  BY Invariant, PTL DEF IInv

\* No login is turned away for a key that the provider publishes.
THEOREM PublishedKeyServes == OidcSpec => []FreshKeyAccepted
  BY Invariant, PTL DEF IInv

=============================================================================
