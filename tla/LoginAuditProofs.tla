-------------------------- MODULE LoginAuditProofs --------------------------
(***************************************************************************)
(* Proofs about who a caller is and about what is recorded of their calls: *)
(* first LoginFlow, then AuditDispatch.                                    *)
(*                                                                         *)
(* A login passes from a flow to a request, to a code and to a session,    *)
(* and is in one of these places at most (PlaceInv). Wherever it is, it    *)
(* carries the user who signed in at the identity provider under its own   *)
(* state (OwnInv), and a redirect URI that its client registered or a      *)
(* loopback one (HomeInv). What the store loses or forgets on the way only *)
(* takes logins away (LoginShrinks); what it must not do is give a client  *)
(* that is known a registration of somebody else, so a client id that      *)
(* insert_db is about to store belongs to nobody, or its own row has       *)
(* lapsed.                                                                 *)
(***************************************************************************)
EXTENDS LoginFlow, AuditDispatch, SequenceTheorems, TLAPS

Inserting == {"delete", "exists", "count", "upsert"}
Serving == {"exchange", "mint", "create"}

LoginRequest ==
    [pc : {"idle", "start"} \cup Inserting \cup Serving, client : Clients \cup {None},
     uri : Uris \cup {None}, uris : SUBSET Uris, state : States \cup {None},
     code : States \cup {None}, sub : Subs \cup {None}]

\* The rows, flows, codes, requests and sessions there are.
LoginTypeOK ==
    /\ clients \in [Clients -> [uris : SUBSET Uris, age : Nat] \cup {None}]
    /\ known \subseteq Clients /\ contested \subseteq Clients
    /\ registered \in [Clients -> SUBSET Uris]
    /\ flows \in [States -> Flows \cup {None}]
    /\ codes \in [Codes -> Grants \cup {None}]
    /\ req \in [Requests -> LoginRequest]
    /\ idp \in [States -> Subs \cup {None}]
    /\ sessions \in [States -> Seq(Subs)]
    /\ origin \in [States -> Bridges \cup {None}]
    /\ minted \subseteq Codes

\* A URI of client c to which a code may go.
Home(c, u) == u \in registered[c] \/ is_loopback_redirect_uri(u)

\* The client and the URI of a login; one of /auth/login has neither.
Bridge(c, u) == c # None => c \in known /\ u \in Uris /\ Home(c, u)

\* insert_db runs for a client that is new, or for one that is adopted.
NewClient(x) == x.pc \in Inserting /\ x.uri = None
Adoption(x) == x.pc \in Inserting /\ x.uri # None

\* A new client is known to nobody before its row is stored. An adopted one is known, and
\* its row has lapsed, unless its lookup failed or another adoption was faster.
RequestHome(x) ==
    /\ x.pc \in {"idle", "create"} => x.client = None
    /\ x.pc \in {"start", "exchange", "mint"} => Bridge(x.client, x.uri)
    /\ NewClient(x) => x.client \in Clients \ known /\ clients[x.client] = None
    /\ Adoption(x) =>
         /\ x.client \in known /\ x.uris = {x.uri} /\ is_loopback_redirect_uri(x.uri)
         /\ Live(x.client) => x.client \in contested

HomeInv ==
    /\ \A c \in Clients : clients[c] # None => \A v \in clients[c].uris : Home(c, v)
    /\ \A s \in States : flows[s] # None => Bridge(flows[s].client, flows[s].uri)
    /\ \A k \in Codes : codes[k] # None => Bridge(codes[k].client, codes[k].uri)
    /\ \A r \in Requests : RequestHome(req[r])
    /\ \A q, r \in Requests :
         NewClient(req[q]) /\ req[q].client = req[r].client => q = r

\* What a request, a code and a session say of the user is what the identity provider says
\* of their own login.
RequestOwn(x) ==
    /\ x.pc \in Serving => x.state \in States
    /\ x.pc = "exchange" => x.code \in States /\ idp[x.code] # None
    /\ x.pc \in {"mint", "create"} => idp[x.state] # None /\ x.sub = idp[x.state]
    /\ x.pc = "mint" => x.client # None

OwnInv ==
    /\ \A r \in Requests : RequestOwn(req[r])
    /\ \A k \in Codes : codes[k] # None =>
         idp[codes[k].state] # None /\ codes[k].sub = idp[codes[k].state]
    /\ \A s \in States : \A i \in DOMAIN sessions[s] :
         idp[s] # None /\ sessions[s][i] = idp[s]

\* A login is in one place at a time: its flow, a request, a code or a session.
InRequest(s, r) == req[r].pc \in Serving /\ req[r].state = s
InCode(s, k) == codes[k] # None /\ codes[k].state = s
Ended(s) == sessions[s] # <<>>

PlaceInv ==
    \A s \in States :
      /\ flows[s] # None =>
           /\ origin[s] # None /\ ~Ended(s)
           /\ \A r \in Requests : ~InRequest(s, r)
           /\ \A k \in Codes : ~InCode(s, k)
      /\ \A r \in Requests : InRequest(s, r) =>
           /\ origin[s] # None /\ ~Ended(s)
           /\ \A q \in Requests : InRequest(s, q) => q = r
           /\ \A k \in Codes : ~InCode(s, k)
      /\ \A k \in Codes : InCode(s, k) =>
           /\ origin[s] # None /\ ~Ended(s)
           /\ \A j \in Codes : InCode(s, j) => j = k
      /\ Ended(s) => origin[s] # None /\ Len(sessions[s]) = 1

LoginInv == LoginTypeOK /\ HomeInv /\ OwnInv /\ PlaceInv

LEMMA RequestRecord ==
    ASSUME LoginTypeOK, NEW r \in Requests
    PROVE  /\ req[r] \in LoginRequest
           /\ \A x \in LoginRequest : [req EXCEPT ![r] = x] \in [Requests -> LoginRequest]
           /\ \A to \in {"idle", "start"} \cup Inserting \cup Serving :
                [req EXCEPT ![r].pc = to] \in [Requests -> LoginRequest]
           /\ Idle \in LoginRequest
<1>1. req[r] \in LoginRequest
  BY Zenon DEF LoginTypeOK
<1>2. \A x \in LoginRequest : [req EXCEPT ![r] = x] \in [Requests -> LoginRequest]
  BY Zenon DEF LoginTypeOK
<1>3. ASSUME NEW to \in {"idle", "start"} \cup Inserting \cup Serving
      PROVE  [req EXCEPT ![r].pc = to] \in [Requests -> LoginRequest]
  <2>1. [req[r] EXCEPT !.pc = to] \in LoginRequest
    BY <1>1, Zenon DEF LoginRequest
  <2>2. QED  BY <2>1, Zenon DEF LoginTypeOK
<1>4. Idle \in LoginRequest
  BY Zenon DEF LoginRequest, Idle
<1>5. QED  BY <1>1, <1>2, <1>3, <1>4, Zenon

\* The row of a client, whatever statement has run on it.
LEMMA RowsTyped ==
    ASSUME LoginTypeOK
    PROVE  /\ Deleted \in [Clients -> [uris : SUBSET Uris, age : Nat] \cup {None}]
           /\ \A c \in Clients :
                /\ Touched(c) \in [Clients -> [uris : SUBSET Uris, age : Nat] \cup {None}]
                /\ \A uris \in SUBSET Uris :
                     Upserted(c, uris) \in [Clients -> [uris : SUBSET Uris, age : Nat] \cup {None}]
<1>1. Deleted \in [Clients -> [uris : SUBSET Uris, age : Nat] \cup {None}]
  BY Zenon DEF LoginTypeOK, Deleted
<1>2. ASSUME NEW c \in Clients
      PROVE  Touched(c) \in [Clients -> [uris : SUBSET Uris, age : Nat] \cup {None}]
  <2>1. CASE Live(c)
    <3>1. clients[c] \in [uris : SUBSET Uris, age : Nat]
      BY <2>1, Zenon DEF Live, LoginTypeOK
    <3>2. [clients[c] EXCEPT !.age = 0] \in [uris : SUBSET Uris, age : Nat]
      BY <3>1, Zenon
    <3>3. QED  BY <2>1, <3>2, Zenon DEF Touched, LoginTypeOK
  <2>2. CASE ~Live(c)
    BY <2>2, Zenon DEF Touched, LoginTypeOK
  <2>3. QED  BY <2>1, <2>2, Zenon
<1>3. ASSUME NEW c \in Clients, NEW uris \in SUBSET Uris
      PROVE  Upserted(c, uris) \in [Clients -> [uris : SUBSET Uris, age : Nat] \cup {None}]
  BY Zenon DEF LoginTypeOK, Upserted
<1>4. QED  BY <1>1, <1>2, <1>3, Zenon

\* What the sweeps and the clock leave of a flow or a code: nothing, or the entry but for
\* its age.
LEMMA Swept ==
    ASSUME LoginTypeOK, NEW cap, NEW ttl
    PROVE  /\ Reclaimed(flows, cap, ttl) \in [States -> Flows \cup {None}]
           /\ \A s \in States : Reclaimed(flows, cap, ttl)[s] \in {flows[s], None}
           /\ Reclaimed(codes, cap, ttl) \in [Codes -> Grants \cup {None}]
           /\ \A k \in Codes : Reclaimed(codes, cap, ttl)[k] \in {codes[k], None}
BY Zenon DEF LoginTypeOK, Reclaimed

LEMMA Aged ==
    ASSUME LoginTypeOK, Tick
    PROVE  /\ clients' \in [Clients -> [uris : SUBSET Uris, age : Nat] \cup {None}]
           /\ flows' \in [States -> Flows \cup {None}]
           /\ codes' \in [Codes -> Grants \cup {None}]
           /\ \A c \in Clients : /\ clients'[c] = None <=> clients[c] = None
                                 /\ clients[c] # None => clients'[c].uris = clients[c].uris
                                 /\ Live(c)' => Live(c)
           /\ \A s \in States : flows'[s] # None =>
                /\ flows[s] # None
                /\ flows'[s].client = flows[s].client /\ flows'[s].uri = flows[s].uri
           /\ \A k \in Codes : codes'[k] # None =>
                /\ codes[k] # None /\ codes'[k].state = codes[k].state
                /\ codes'[k].sub = codes[k].sub
                /\ codes'[k].client = codes[k].client /\ codes'[k].uri = codes[k].uri
<1> USE RegistryAssumption, LoginAssumption
<1>1. ASSUME NEW c \in Clients
      PROVE  /\ clients'[c] \in [uris : SUBSET Uris, age : Nat] \cup {None}
             /\ clients'[c] = None <=> clients[c] = None
             /\ clients[c] # None => clients'[c].uris = clients[c].uris
             /\ Live(c)' => Live(c)
  <2>1. clients'[c] = IF clients[c] = None \/ clients[c].age = ClientTtl THEN clients[c]
                      ELSE [clients[c] EXCEPT !.age = @ + 1]
    BY ZenonT(30) DEF Tick, Older, LoginTypeOK
  <2>2. CASE clients[c] = None
    BY <2>1, <2>2, Zenon DEF Live
  <2>3. CASE clients[c] # None
    <3>1. clients[c] \in [uris : SUBSET Uris, age : Nat]
      BY <2>3, Zenon DEF LoginTypeOK
    <3>2. [clients[c] EXCEPT !.age = @ + 1] \in [uris : SUBSET Uris, age : Nat]
      BY <3>1
    <3>3. clients'[c] # None /\ clients'[c].uris = clients[c].uris /\ clients[c].age <= clients'[c].age
      BY <2>1, <2>3, <3>1, <3>2
    <3>4. clients'[c] \in [uris : SUBSET Uris, age : Nat]
      BY <2>1, <3>1, <3>2, Zenon
    <3>5. QED  BY <2>3, <3>1, <3>3, <3>4 DEF Live
  <2>4. QED  BY <2>2, <2>3, Zenon
<1>2. ASSUME NEW s \in States
      PROVE  /\ flows'[s] \in Flows \cup {None}
             /\ flows'[s] # None =>
                  /\ flows[s] # None
                  /\ flows'[s].client = flows[s].client /\ flows'[s].uri = flows[s].uri
  <2>1. flows'[s] = IF flows[s] = None \/ flows[s].age = FlowTtl THEN flows[s]
                    ELSE [flows[s] EXCEPT !.age = @ + 1]
    BY DEF Tick, Older, LoginTypeOK
  <2>2. flows[s] \in Flows \cup {None}
    BY Zenon DEF LoginTypeOK
  <2>3. QED  BY <2>1, <2>2 DEF Flows
<1>3. ASSUME NEW k \in Codes
      PROVE  /\ codes'[k] \in Grants \cup {None}
             /\ codes'[k] # None =>
                  /\ codes[k] # None /\ codes'[k].state = codes[k].state
                  /\ codes'[k].sub = codes[k].sub
                  /\ codes'[k].client = codes[k].client /\ codes'[k].uri = codes[k].uri
  <2>1. codes'[k] = IF codes[k] = None \/ codes[k].age = CodeTtl THEN codes[k]
                    ELSE [codes[k] EXCEPT !.age = @ + 1]
    BY ZenonT(30) DEF Tick, Older, LoginTypeOK
  <2>2. codes[k] \in Grants \cup {None}
    BY Zenon DEF LoginTypeOK
  <2>3. QED  BY <2>1, <2>2 DEF Grants
<1>4. /\ clients' = [c \in Clients |-> clients'[c]]
      /\ flows' = [s \in States |-> flows'[s]] /\ codes' = [k \in Codes |-> codes'[k]]
  BY ZenonT(30) DEF Tick, Older, LoginTypeOK
<1>5. QED  BY <1>1, <1>2, <1>3, <1>4

\* Steps after which a login is nowhere it was not before.
LEMMA PlaceShrinks ==
    ASSUME LoginInv, UNCHANGED <<origin, sessions>>,
           \A s \in States : flows'[s] # None => flows[s] # None,
           \A s \in States, r \in Requests : InRequest(s, r)' => InRequest(s, r),
           \A s \in States, k \in Codes : InCode(s, k)' => InCode(s, k)
    PROVE  PlaceInv'
BY DEF LoginInv, PlaceInv, InRequest, InCode, Ended

\* Steps that put no login in a request or a code.
LEMMA OwnShrinks ==
    ASSUME LoginInv, UNCHANGED <<idp, sessions>>,
           \A r \in Requests : req'[r] = req[r] \/ req'[r].pc \notin Serving,
           \A k \in Codes : codes'[k] # None =>
             /\ codes[k] # None
             /\ codes'[k].state = codes[k].state /\ codes'[k].sub = codes[k].sub
    PROVE  OwnInv'
<1>1. \A r \in Requests : RequestOwn(req[r])'
  BY DEF LoginInv, OwnInv, RequestOwn, Serving
<1>2. QED  BY <1>1, Zenon DEF LoginInv, OwnInv

\* The two together: requests that end or are at work on a registration, entries that go.
LEMMA LoginShrinks ==
    ASSUME LoginInv, UNCHANGED <<idp, sessions, origin>>,
           \A s \in States : flows'[s] # None => flows[s] # None,
           \A r \in Requests : req'[r] = req[r] \/ req'[r].pc \notin Serving,
           \A k \in Codes : codes'[k] # None =>
             /\ codes[k] # None
             /\ codes'[k].state = codes[k].state /\ codes'[k].sub = codes[k].sub
    PROVE  OwnInv' /\ PlaceInv'
<1>1. OwnInv'
  BY OwnShrinks, Zenon
<1>2. PlaceInv'
  <2>1. \A s \in States, r \in Requests : InRequest(s, r)' => InRequest(s, r)
    BY Zenon DEF InRequest
  <2>2. \A s \in States, k \in Codes : InCode(s, k)' => InCode(s, k)
    BY Zenon DEF InCode
  <2>3. QED  BY <2>1, <2>2, PlaceShrinks, Zenon
<1>3. QED  BY <1>1, <1>2, Zenon

\* A request that is neither inserting a client nor on its way with a bridge of its own.
Homely(x) ==
    /\ x.pc \notin Inserting
    /\ x.pc \in {"idle", "create"} => x.client = None
    /\ x.pc \in {"start", "exchange", "mint"} => Bridge(x.client, x.uri)

\* Steps of a login leave the registrations alone, and take their bridge along.
LEMMA HomeKept ==
    ASSUME LoginInv, LoginTypeOK', UNCHANGED <<known, registered, contested>>,
           \A c \in Clients : /\ clients'[c] = None <=> clients[c] = None
                              /\ clients[c] # None => clients'[c].uris = clients[c].uris
                              /\ Live(c)' => Live(c),
           \A s \in States : flows'[s] # None => Bridge(flows'[s].client, flows'[s].uri),
           \A k \in Codes : codes'[k] # None => Bridge(codes'[k].client, codes'[k].uri),
           \A r \in Requests : req'[r] = req[r] \/ Homely(req'[r])
    PROVE  HomeInv'
<1>1. ASSUME NEW r \in Requests PROVE RequestHome(req[r])'
  <2>1. CASE Homely(req'[r])
    BY <2>1, Zenon DEF Homely, RequestHome, Bridge, Home, NewClient, Adoption
  <2>2. CASE req'[r] = req[r]
    <3>1. RequestHome(req[r])
      BY Zenon DEF LoginInv, HomeInv
    <3>2. req[r].client \in Clients \cup {None}
      BY Zenon DEF LoginInv, LoginTypeOK, LoginRequest
    <3>3. req[r].pc \in Inserting => req[r].client \in Clients
      BY <3>1, Zenon DEF RequestHome, NewClient, Adoption, LoginInv, LoginTypeOK
    <3>4. NewClient(req[r])' =>
             req'[r].client \in Clients \ known' /\ clients'[req'[r].client] = None
      BY <2>2, <3>1, Zenon DEF RequestHome, NewClient
    <3>5. Adoption(req[r])' =>
             /\ req'[r].client \in known' /\ req'[r].uris = {req'[r].uri}
             /\ is_loopback_redirect_uri(req'[r].uri)
             /\ Live(req[r].client)' => req'[r].client \in contested'
      <4>1. \A c \in Clients : Live(c)' => Live(c)
        BY Zenon
      <4>2. Live(req[r].client)' => req[r].client \notin Clients \/ Live(req[r].client)
        BY <4>1, <2>2, Zenon DEF Live
      <4>3. QED  BY <2>2, <3>1, <3>3, <4>2, Zenon DEF RequestHome, Adoption
    <3>6. QED  BY <2>2, <3>1, <3>4, <3>5, Zenon DEF RequestHome, Bridge, Home
  <2>3. QED  BY <2>1, <2>2, Zenon
<1>2. \A q, r \in Requests : NewClient(req[q])' /\ req'[q].client = req'[r].client => q = r
  <2> SUFFICES ASSUME NEW q \in Requests, NEW r \in Requests,
                      NewClient(req[q])', req'[q].client = req'[r].client
               PROVE  q = r
    BY Zenon
  <2>1. req'[q] = req[q]
    BY Zenon DEF NewClient, Homely
  <2>2. CASE req'[r] = req[r]
    BY <2>1, <2>2, ZenonT(30) DEF LoginInv, HomeInv, NewClient
  <2>3. CASE Homely(req'[r])
    <3>1. req[q].client \in Clients \ known
      BY <2>1, Zenon DEF LoginInv, HomeInv, RequestHome, NewClient
    <3>2. req'[r].client = None \/ req'[r].client \in known
      <4>1. req'[r].pc \in {"idle", "start"} \cup Serving
        BY <2>3, Zenon DEF Homely, LoginTypeOK, LoginRequest
      <4>2. QED  BY <2>3, <4>1, Zenon DEF Homely, Bridge, Serving
    <3>3. QED  BY <2>1, <3>1, <3>2, RegistryAssumption, Zenon
  <2>4. QED  BY <2>2, <2>3, Zenon
<1>3. /\ \A s \in States : flows'[s] # None => Bridge(flows[s].client, flows[s].uri)'
      /\ \A k \in Codes : codes'[k] # None => Bridge(codes[k].client, codes[k].uri)'
  BY Zenon DEF Bridge, Home
<1>4. \A c \in Clients : clients'[c] # None => \A v \in clients'[c].uris : Home(c, v)'
  BY Zenon DEF LoginInv, HomeInv, Home
<1>5. QED  BY <1>1, <1>2, <1>3, <1>4, Zenon DEF HomeInv

\* Requests that end, or start a login of /auth/login; entries that are swept.
LEMMA SweepStep ==
    ASSUME LoginInv,
           \/ GcFlows \/ GcCodes
           \/ \E r \in Requests : Login(r) \/ Abandon(r) \/ FlowsFull(r) \/ CodesFull(r)
    PROVE  LoginInv'
<1> USE RegistryAssumption, LoginAssumption
<1>1. /\ UNCHANGED <<registryVars, idp, sessions, origin, minted>>
      /\ \/ req' = req
         \/ \E r \in Requests : \/ req' = [req EXCEPT ![r] = Idle]
                               \/ req' = [req EXCEPT ![r] = [Idle EXCEPT !.pc = "start"]]
  BY Zenon DEF Login, Abandon, FlowsFull, CodesFull, GcFlows, GcCodes, Answer, loginVars
<1>2. /\ flows' \in [States -> Flows \cup {None}]
      /\ \A s \in States : flows'[s] \in {flows[s], None}
  BY Swept DEF Login, Abandon, FlowsFull, CodesFull, GcFlows, GcCodes, loginVars, LoginInv,
               LoginTypeOK
<1>3. /\ codes' \in [Codes -> Grants \cup {None}]
      /\ \A k \in Codes : codes'[k] \in {codes[k], None}
  BY Swept DEF Login, Abandon, FlowsFull, CodesFull, GcFlows, GcCodes, loginVars, LoginInv,
               LoginTypeOK
<1>4. req' \in [Requests -> LoginRequest]
  <2>1. Idle \in LoginRequest /\ [Idle EXCEPT !.pc = "start"] \in LoginRequest
    BY Zenon DEF Idle, LoginRequest
  <2>2. \A r \in Requests :
           \A x \in LoginRequest : [req EXCEPT ![r] = x] \in [Requests -> LoginRequest]
    BY RequestRecord, Zenon DEF LoginInv
  <2>3. req \in [Requests -> LoginRequest]
    BY Zenon DEF LoginInv, LoginTypeOK
  <2>4. QED  BY <1>1, <2>1, <2>2, <2>3
<1>5. LoginTypeOK'
  BY <1>1, <1>2, <1>3, <1>4, Zenon DEF LoginInv, LoginTypeOK, registryVars
<1>6. \A q \in Requests : req'[q] = req[q] \/ (Homely(req'[q]) /\ req'[q].pc \notin Serving)
  BY <1>1 DEF LoginInv, LoginTypeOK, Homely, Idle, Inserting, Serving, Bridge
<1>7. HomeInv'
  <2>1. \A s \in States : flows'[s] # None => Bridge(flows'[s].client, flows'[s].uri)
    BY <1>2, Zenon DEF LoginInv, HomeInv
  <2>2. \A k \in Codes : codes'[k] # None => Bridge(codes'[k].client, codes'[k].uri)
    BY <1>3, Zenon DEF LoginInv, HomeInv
  <2>3. \A c \in Clients : /\ clients'[c] = None <=> clients[c] = None
                           /\ clients[c] # None => clients'[c].uris = clients[c].uris
                           /\ Live(c)' => Live(c)
    BY <1>1, Zenon DEF registryVars, Live
  <2>4. UNCHANGED <<known, registered, contested>>
    BY <1>1, Zenon DEF registryVars
  <2>5. QED  BY <1>5, <1>6, <2>1, <2>2, <2>3, <2>4, HomeKept, Zenon
<1>8. OwnInv' /\ PlaceInv'
  BY <1>1, <1>2, <1>3, <1>6, LoginShrinks, Zenon
<1>9. QED  BY <1>5, <1>7, <1>8, Zenon DEF LoginInv

LEMMA ClockStep ==
    ASSUME LoginInv, Tick
    PROVE  LoginInv'
<1>1. UNCHANGED <<idp, sessions, origin, minted, known, registered, contested, req>>
  BY Zenon DEF Tick
<1>2. LoginTypeOK'
  BY <1>1, Aged, Zenon DEF LoginInv, LoginTypeOK
<1>3. HomeInv'
  <2>1. \A s \in States : flows'[s] # None => Bridge(flows'[s].client, flows'[s].uri)
    BY Aged, Zenon DEF LoginInv, HomeInv
  <2>2. \A k \in Codes : codes'[k] # None => Bridge(codes'[k].client, codes'[k].uri)
    BY Aged, Zenon DEF LoginInv, HomeInv
  <2>3. \A c \in Clients : /\ clients'[c] = None <=> clients[c] = None
                           /\ clients[c] # None => clients'[c].uris = clients[c].uris
                           /\ Live(c)' => Live(c)
    BY Aged, Zenon DEF LoginInv
  <2>4. QED  BY <1>1, <1>2, <2>1, <2>2, <2>3, HomeKept, Zenon
<1>4. OwnInv' /\ PlaceInv'
  <2>1. /\ \A s \in States : flows'[s] # None => flows[s] # None
        /\ \A k \in Codes : codes'[k] # None =>
             /\ codes[k] # None
             /\ codes'[k].state = codes[k].state /\ codes'[k].sub = codes[k].sub
    BY Aged, Zenon DEF LoginInv
  <2>2. QED  BY <1>1, <2>1, LoginShrinks, Zenon
<1>5. QED  BY <1>2, <1>3, <1>4, Zenon DEF LoginInv

LEMMA RestartStep ==
    ASSUME LoginInv, Restart
    PROVE  LoginInv'
<1>1. /\ UNCHANGED <<idp, sessions, origin, minted, clients, known, registered, contested>>
      /\ \A s \in States : flows'[s] = None
      /\ \A k \in Codes : codes'[k] = None
      /\ \A r \in Requests : req'[r] = Idle
  BY Zenon DEF Restart, registryVars
<1>2. LoginTypeOK'
  BY <1>1, Zenon DEF Restart, LoginInv, LoginTypeOK, LoginRequest, Idle
<1>3. \A q \in Requests : Homely(req'[q]) /\ req'[q].pc \notin Serving
  BY <1>1 DEF Homely, Idle, Inserting, Serving
<1>4. HomeInv'
  <2>1. \A c \in Clients : /\ clients'[c] = None <=> clients[c] = None
                           /\ clients[c] # None => clients'[c].uris = clients[c].uris
                           /\ Live(c)' => Live(c)
    BY <1>1, Zenon DEF Live
  <2>2. QED  BY <1>1, <1>2, <1>3, <2>1, HomeKept, Zenon
<1>5. OwnInv' /\ PlaceInv'
  BY <1>1, <1>3, LoginShrinks, Zenon
<1>6. QED  BY <1>2, <1>4, <1>5, Zenon DEF LoginInv

\* A login begins: nothing has its state yet.
LEMMA InsertFlowStep ==
    ASSUME LoginInv, NEW r \in Requests, NEW s \in States, InsertFlow(r, s)
    PROVE  LoginInv'
<1> USE RegistryAssumption, LoginAssumption
<1> DEFINE room == Reclaimed(flows, FlowCap, FlowTtl)
           entry == [client |-> req[r].client, uri |-> req[r].uri, age |-> 0]
           bridge == [client |-> req[r].client, uri |-> req[r].uri]
<1>1. /\ req[r].pc = "start" /\ origin[s] = None
      /\ flows' = [room EXCEPT ![s] = entry] /\ origin' = [origin EXCEPT ![s] = bridge]
      /\ req' = [req EXCEPT ![r] = Idle]
      /\ UNCHANGED <<codes, idp, sessions, minted, clients, known, registered, contested>>
  BY Zenon DEF InsertFlow, Answer, registryVars
<1>2. /\ room \in [States -> Flows \cup {None}]
      /\ \A t \in States : room[t] \in {flows[t], None}
  BY Swept, Zenon DEF LoginInv
<1>3. entry \in Flows /\ bridge \in Bridges /\ Bridge(req[r].client, req[r].uri)
  <2>1. req[r] \in LoginRequest
    BY Zenon DEF LoginInv, LoginTypeOK
  <2>2. RequestHome(req[r])
    BY Zenon DEF LoginInv, HomeInv
  <2>3. QED  BY <1>1, <2>1, <2>2, Zenon DEF LoginRequest, Flows, Bridges, RequestHome
<1> HIDE DEF room, entry, bridge
<1>4. LoginTypeOK'
  <2>1. flows' \in [States -> Flows \cup {None}] /\ origin' \in [States -> Bridges \cup {None}]
    BY <1>1, <1>2, <1>3, Zenon DEF LoginInv, LoginTypeOK
  <2>2. req' \in [Requests -> LoginRequest]
    BY <1>1, RequestRecord, Zenon DEF LoginInv
  <2>3. QED  BY <1>1, <2>1, <2>2, Zenon DEF LoginInv, LoginTypeOK
<1>5. \A q \in Requests : req'[q] = req[q] \/ (Homely(req'[q]) /\ req'[q].pc \notin Serving)
  BY <1>1 DEF LoginInv, LoginTypeOK, Homely, Idle, Inserting, Serving
<1>6. /\ flows'[s] = entry /\ origin'[s] = bridge
      /\ \A t \in States \ {s} : flows'[t] \in {flows[t], None} /\ origin'[t] = origin[t]
  BY <1>1, <1>2 DEF LoginInv, LoginTypeOK
<1>7. HomeInv'
  <2>1. \A t \in States : flows'[t] # None => Bridge(flows'[t].client, flows'[t].uri)
    BY <1>3, <1>6 DEF LoginInv, HomeInv, entry
  <2>2. \A k \in Codes : codes'[k] # None => Bridge(codes'[k].client, codes'[k].uri)
    BY <1>1, Zenon DEF LoginInv, HomeInv
  <2>3. \A c \in Clients : /\ clients'[c] = None <=> clients[c] = None
                           /\ clients[c] # None => clients'[c].uris = clients[c].uris
                           /\ Live(c)' => Live(c)
    BY <1>1, Zenon DEF Live
  <2>4. QED  BY <1>1, <1>4, <1>5, <2>1, <2>2, <2>3, HomeKept, Zenon
<1>8. OwnInv'
  BY <1>1, <1>5, OwnShrinks, Zenon
<1>9. PlaceInv'
  <2>1. \A t \in States, q \in Requests : InRequest(t, q)' => InRequest(t, q)
    BY <1>5, Zenon DEF InRequest
  <2>2. \A t \in States, k \in Codes : InCode(t, k)' <=> InCode(t, k)
    BY <1>1, Zenon DEF InCode
  <2>3. \A t \in States : Ended(t)' <=> Ended(t)
    BY <1>1, Zenon DEF Ended
  <2>4. \A q \in Requests, k \in Codes : ~InRequest(s, q) /\ ~InCode(s, k) /\ ~Ended(s)
    BY <1>1, Zenon DEF LoginInv, PlaceInv
  <2>5. origin'[s] # None
    BY <1>3, <1>6, Zenon
  <2>6. QED
    BY <1>1, <1>6, <2>1, <2>2, <2>3, <2>4, <2>5 DEF LoginInv, PlaceInv
<1>10. QED  BY <1>4, <1>7, <1>8, <1>9, Zenon DEF LoginInv

\* The identity provider says who signed in for a login once.
LEMMA SignInStep ==
    ASSUME LoginInv, NEW s \in States, NEW sub \in Subs, SignIn(s, sub)
    PROVE  LoginInv'
<1>1. /\ idp[s] = None /\ idp' = [idp EXCEPT ![s] = sub]
      /\ UNCHANGED <<flows, codes, sessions, origin, minted, req>>
      /\ UNCHANGED <<clients, known, registered, contested>>
  BY Zenon DEF SignIn, registryVars
<1>2. LoginTypeOK'
  BY <1>1, Zenon DEF LoginInv, LoginTypeOK
<1>3. HomeInv'
  BY <1>1, ZenonT(30) DEF LoginInv, HomeInv, RequestHome, NewClient, Adoption, Bridge, Home, Live
<1>4. \A t \in States : idp[t] # None => idp'[t] = idp[t]
  BY <1>1, Zenon DEF LoginInv, LoginTypeOK
<1>5. OwnInv'
  <2>1. ASSUME NEW r \in Requests PROVE RequestOwn(req[r])'
    <3>1. RequestOwn(req[r])
      BY Zenon DEF LoginInv, OwnInv
    <3>2. QED  BY <1>1, <1>4, <3>1, Zenon DEF RequestOwn, Serving
  <2>2. \A k \in Codes : codes[k] # None => codes[k].state \in States
    BY Zenon DEF LoginInv, LoginTypeOK, Grants
  <2>3. QED  BY <1>1, <1>4, <2>1, <2>2 DEF LoginInv, OwnInv
<1>6. PlaceInv'
  BY <1>1 DEF LoginInv, PlaceInv, InRequest, InCode, Ended
<1>7. QED  BY <1>2, <1>3, <1>5, <1>6, Zenon DEF LoginInv

\* PendingFlows::take: the login goes from its flow into the request.
LEMMA CallbackStep ==
    ASSUME LoginInv, NEW r \in Requests, NEW s \in States, NEW k \in States, Callback(r, s, k)
    PROVE  LoginInv'
<1> USE RegistryAssumption, LoginAssumption
<1> DEFINE x == [pc |-> "exchange", client |-> flows[s].client, uri |-> flows[s].uri,
                 uris |-> {}, state |-> s, code |-> k, sub |-> None]
<1>1. /\ req[r].pc = "idle" /\ idp[k] # None /\ flows[s] # None
      /\ flows' = [flows EXCEPT ![s] = None]
      /\ req' = req \/ req' = [req EXCEPT ![r] = x]
      /\ UNCHANGED <<codes, idp, sessions, origin, minted>>
      /\ UNCHANGED <<clients, known, registered, contested>>
  BY ZenonT(30) DEF Callback, Idle, registryVars
<1>2. x \in LoginRequest /\ Bridge(x.client, x.uri)
  <2>1. flows[s] \in Flows /\ Bridge(flows[s].client, flows[s].uri)
    BY <1>1, Zenon DEF LoginInv, LoginTypeOK, HomeInv
  <2>2. QED  BY <2>1, Zenon DEF LoginRequest, Flows, Serving
<1>3. x.pc = "exchange" /\ x.state = s /\ x.code = k
  BY Zenon
<1> HIDE DEF x
<1>4. LoginTypeOK'
  <2>1. req' \in [Requests -> LoginRequest]
    <3>1. req \in [Requests -> LoginRequest]
      BY Zenon DEF LoginInv, LoginTypeOK
    <3>2. QED  BY <1>1, <1>2, <3>1
  <2>2. QED  BY <1>1, <2>1, Zenon DEF LoginInv, LoginTypeOK
<1>5. /\ flows'[s] = None /\ \A t \in States \ {s} : flows'[t] = flows[t]
      /\ \A q \in Requests \ {r} : req'[q] = req[q]
      /\ req'[r] = req[r] \/ req'[r] = x
  BY <1>1 DEF LoginInv, LoginTypeOK
<1>6. HomeInv'
  <2>1. \A t \in States : flows'[t] # None => Bridge(flows'[t].client, flows'[t].uri)
    BY <1>5, Zenon DEF LoginInv, HomeInv
  <2>2. \A j \in Codes : codes'[j] # None => Bridge(codes'[j].client, codes'[j].uri)
    BY <1>1, Zenon DEF LoginInv, HomeInv
  <2>3. \A c \in Clients : /\ clients'[c] = None <=> clients[c] = None
                           /\ clients[c] # None => clients'[c].uris = clients[c].uris
                           /\ Live(c)' => Live(c)
    BY <1>1, Zenon DEF Live
  <2>4. \A q \in Requests : req'[q] = req[q] \/ Homely(req'[q])
    BY <1>2, <1>3, <1>5, Zenon DEF Homely, Inserting
  <2>5. QED  BY <1>1, <1>4, <2>1, <2>2, <2>3, <2>4, HomeKept, Zenon
<1>7. OwnInv'
  <2>1. ASSUME NEW q \in Requests PROVE RequestOwn(req[q])'
    <3>1. RequestOwn(req[q])
      BY Zenon DEF LoginInv, OwnInv
    <3>2. CASE req'[q] = req[q]
      BY <1>1, <3>1, <3>2, Zenon DEF RequestOwn
    <3>3. CASE req'[q] = x
      BY <1>1, <1>3, <3>3, Zenon DEF RequestOwn
    <3>4. QED  BY <1>5, <3>2, <3>3, Zenon
  <2>2. QED  BY <1>1, <2>1, Zenon DEF LoginInv, OwnInv
<1>8. PlaceInv'
  <2>1. \A t \in States, q \in Requests :
           InRequest(t, q)' => InRequest(t, q) \/ (t = s /\ q = r)
    BY <1>3, <1>5, Zenon DEF InRequest
  <2>2. \A t \in States, j \in Codes : InCode(t, j)' <=> InCode(t, j)
    BY <1>1, Zenon DEF InCode
  <2>3. \A t \in States : Ended(t)' <=> Ended(t)
    BY <1>1, Zenon DEF Ended
  <2>4. /\ \A q \in Requests, j \in Codes : ~InRequest(s, q) /\ ~InCode(s, j)
        /\ ~Ended(s) /\ origin[s] # None
    BY <1>1, Zenon DEF LoginInv, PlaceInv
  <2>5. QED
    BY <1>1, <1>5, <2>1, <2>2, <2>3, <2>4 DEF LoginInv, PlaceInv
<1>9. QED  BY <1>4, <1>6, <1>7, <1>8, Zenon DEF LoginInv

\* The ID token's nonce is the one of the request's own login.
LEMMA ExchangeStep ==
    ASSUME LoginInv, NEW r \in Requests, Exchange(r)
    PROVE  LoginInv'
<1> USE RegistryAssumption, LoginAssumption
<1> DEFINE to == IF req[r].client = None THEN "create" ELSE "mint"
           x == [req[r] EXCEPT !.pc = to, !.sub = idp[req[r].code]]
<1>1. /\ req[r].pc = "exchange" /\ req[r].code = req[r].state
      /\ req' = [req EXCEPT ![r] = x]
      /\ UNCHANGED <<flows, codes, idp, sessions, origin, minted>>
      /\ UNCHANGED <<clients, known, registered, contested>>
  <2>1. req' = [req EXCEPT ![r].pc = to, ![r].sub = idp[req[r].code]]
    BY Zenon DEF Exchange
  <2>2. req \in [Requests -> LoginRequest]
    BY Zenon DEF LoginInv, LoginTypeOK
  <2>3. req' = [req EXCEPT ![r] = x]
    BY <2>1, <2>2, Zenon DEF LoginRequest
  <2>4. QED  BY <2>3, Zenon DEF Exchange, loginVars, registryVars
<1>2. /\ req[r] \in LoginRequest /\ req[r].state \in States /\ idp[req[r].state] # None
      /\ Bridge(req[r].client, req[r].uri)
  BY <1>1, Zenon DEF LoginInv, LoginTypeOK, HomeInv, RequestHome, OwnInv, RequestOwn, Serving
<1>3. /\ x \in LoginRequest /\ x.pc = to /\ x.sub = idp[req[r].state]
      /\ x.client = req[r].client /\ x.uri = req[r].uri /\ x.state = req[r].state
  BY <1>1, <1>2, ZenonT(30) DEF LoginRequest, LoginInv, LoginTypeOK, Serving
<1> HIDE DEF x
<1>4. LoginTypeOK'
  <2>1. req' \in [Requests -> LoginRequest]
    BY <1>1, <1>3, Zenon DEF LoginInv, LoginTypeOK
  <2>2. QED  BY <1>1, <2>1, Zenon DEF LoginInv, LoginTypeOK
<1>5. req'[r] = x /\ \A q \in Requests \ {r} : req'[q] = req[q]
  BY <1>1 DEF LoginInv, LoginTypeOK
<1>6. HomeInv'
  <2>1. \A t \in States : flows'[t] # None => Bridge(flows'[t].client, flows'[t].uri)
    BY <1>1, Zenon DEF LoginInv, HomeInv
  <2>2. \A j \in Codes : codes'[j] # None => Bridge(codes'[j].client, codes'[j].uri)
    BY <1>1, Zenon DEF LoginInv, HomeInv
  <2>3. \A c \in Clients : /\ clients'[c] = None <=> clients[c] = None
                           /\ clients[c] # None => clients'[c].uris = clients[c].uris
                           /\ Live(c)' => Live(c)
    BY <1>1, Zenon DEF Live
  <2>4. \A q \in Requests : req'[q] = req[q] \/ Homely(req'[q])
    BY <1>2, <1>3, <1>5, Zenon DEF Homely, Inserting
  <2>5. QED  BY <1>1, <1>4, <2>1, <2>2, <2>3, <2>4, HomeKept, Zenon
<1>7. OwnInv'
  <2>1. ASSUME NEW q \in Requests PROVE RequestOwn(req[q])'
    <3>1. RequestOwn(req[q])
      BY Zenon DEF LoginInv, OwnInv
    <3>2. CASE req'[q] = req[q]
      BY <1>1, <3>1, <3>2, Zenon DEF RequestOwn
    <3>3. CASE req'[q] = x
      BY <1>1, <1>2, <1>3, <3>3, Zenon DEF RequestOwn
    <3>4. QED  BY <1>5, <3>2, <3>3, Zenon
  <2>2. QED  BY <1>1, <2>1, Zenon DEF LoginInv, OwnInv
<1>8. PlaceInv'
  <2>1. \A t \in States, q \in Requests : InRequest(t, q)' => InRequest(t, q)
    BY <1>1, <1>3, <1>5, ZenonT(30) DEF InRequest, Serving
  <2>2. \A t \in States, j \in Codes : InCode(t, j)' => InCode(t, j)
    BY <1>1, Zenon DEF InCode
  <2>3. QED  BY <1>1, <2>1, <2>2, PlaceShrinks, Zenon
<1>9. QED  BY <1>4, <1>6, <1>7, <1>8, Zenon DEF LoginInv

\* AuthCodes::insert: the login goes from the request into a code of its own.
LEMMA MintStep ==
    ASSUME LoginInv, NEW r \in Requests, NEW k \in Codes, Mint(r, k)
    PROVE  LoginInv'
<1> USE RegistryAssumption, LoginAssumption
<1> DEFINE room == Reclaimed(codes, CodeCap, CodeTtl)
           entry == [state |-> req[r].state, sub |-> req[r].sub, client |-> req[r].client,
                     uri |-> req[r].uri, age |-> 0]
<1>1. /\ req[r].pc = "mint"
      /\ codes' = [room EXCEPT ![k] = entry] /\ minted' = minted \cup {k}
      /\ req' = [req EXCEPT ![r] = Idle]
      /\ UNCHANGED <<flows, idp, sessions, origin, clients, known, registered, contested>>
  BY Zenon DEF Mint, Answer, registryVars
<1>2. /\ room \in [Codes -> Grants \cup {None}]
      /\ \A j \in Codes : room[j] \in {codes[j], None}
  BY Swept, Zenon DEF LoginInv
<1>3. /\ req[r] \in LoginRequest /\ req[r].state \in States
      /\ idp[req[r].state] # None /\ req[r].sub = idp[req[r].state]
      /\ req[r].client # None /\ Bridge(req[r].client, req[r].uri)
  BY <1>1, Zenon DEF LoginInv, LoginTypeOK, HomeInv, RequestHome, OwnInv, RequestOwn, Serving
<1>4. entry \in Grants /\ entry # None
  <2>1. req[r].client \in Clients /\ req[r].uri \in Uris /\ req[r].sub \in Subs
    BY <1>3, Zenon DEF LoginRequest, Bridge, LoginInv, LoginTypeOK
  <2>2. QED  BY <1>3, <2>1 DEF Grants
<1>5. /\ entry.state = req[r].state /\ entry.sub = req[r].sub
      /\ entry.client = req[r].client /\ entry.uri = req[r].uri
  BY Zenon
<1> HIDE DEF room, entry
<1>6. LoginTypeOK'
  <2>1. codes' \in [Codes -> Grants \cup {None}]
    BY <1>1, <1>2, <1>4, Zenon
  <2>2. req' \in [Requests -> LoginRequest]
    BY <1>1, RequestRecord, Zenon DEF LoginInv
  <2>3. QED  BY <1>1, <2>1, <2>2 DEF LoginInv, LoginTypeOK
<1>7. /\ codes'[k] = entry /\ \A j \in Codes \ {k} : codes'[j] \in {codes[j], None}
      /\ req'[r] = Idle /\ \A q \in Requests \ {r} : req'[q] = req[q]
  BY <1>1, <1>2 DEF LoginInv, LoginTypeOK
<1>8. HomeInv'
  <2>1. \A t \in States : flows'[t] # None => Bridge(flows'[t].client, flows'[t].uri)
    BY <1>1, Zenon DEF LoginInv, HomeInv
  <2>2. \A j \in Codes : codes'[j] # None => Bridge(codes'[j].client, codes'[j].uri)
    BY <1>3, <1>5, <1>7, Zenon DEF LoginInv, HomeInv
  <2>3. \A c \in Clients : /\ clients'[c] = None <=> clients[c] = None
                           /\ clients[c] # None => clients'[c].uris = clients[c].uris
                           /\ Live(c)' => Live(c)
    BY <1>1, Zenon DEF Live
  <2>4. \A q \in Requests : req'[q] = req[q] \/ Homely(req'[q])
    BY <1>7 DEF Homely, Inserting, Idle
  <2>5. QED  BY <1>1, <1>6, <2>1, <2>2, <2>3, <2>4, HomeKept, Zenon
<1>9. OwnInv'
  <2>1. ASSUME NEW q \in Requests PROVE RequestOwn(req[q])'
    <3>1. CASE q # r
      BY <1>1, <1>7, <3>1 DEF LoginInv, OwnInv, RequestOwn
    <3>2. CASE q = r
      BY <1>7, <3>2 DEF RequestOwn, Idle, Serving
    <3>3. QED  BY <3>1, <3>2, Zenon
  <2>2. \A j \in Codes : codes'[j] # None =>
           idp'[codes'[j].state] # None /\ codes'[j].sub = idp'[codes'[j].state]
    BY <1>1, <1>3, <1>5, <1>7 DEF LoginInv, OwnInv
  <2>3. QED  BY <1>1, <2>1, <2>2, Zenon DEF LoginInv, OwnInv
<1>10. PlaceInv'
  <2> DEFINE s == req[r].state
  <2>1. \A t \in States, q \in Requests : InRequest(t, q)' => InRequest(t, q) /\ q # r
    BY <1>7 DEF InRequest, Idle, Serving
  <2>2. \A t \in States, j \in Codes : InCode(t, j)' => InCode(t, j) \/ (t = s /\ j = k)
    BY <1>5, <1>7, Zenon DEF InCode
  <2>3. \A t \in States : Ended(t)' <=> Ended(t)
    BY <1>1, Zenon DEF Ended
  <2>4. InRequest(s, r) /\ s \in States
    BY <1>1, <1>3, Zenon DEF InRequest, Serving
  <2> HIDE DEF s
  <2>5. /\ \A q \in Requests \ {r} : ~InRequest(s, q)
        /\ \A j \in Codes : ~InCode(s, j)
        /\ ~Ended(s) /\ origin[s] # None /\ flows[s] = None
    BY <2>4, Zenon DEF LoginInv, PlaceInv
  <2>6. QED
    BY <1>1, <2>1, <2>2, <2>3, <2>4, <2>5 DEF LoginInv, PlaceInv
<1>11. QED  BY <1>6, <1>8, <1>9, <1>10, Zenon DEF LoginInv

\* AuthCodes::take: the login goes from its code into the request.
LEMMA RedeemStep ==
    ASSUME LoginInv, NEW r \in Requests, NEW s \in States, NEW k \in Codes, Redeem(r, s, k)
    PROVE  LoginInv'
<1> USE RegistryAssumption, LoginAssumption
<1> DEFINE x == [Idle EXCEPT !.pc = "create", !.state = s, !.sub = codes[k].sub]
<1>1. /\ req[r].pc = "idle" /\ codes[k] # None
      /\ codes' = [codes EXCEPT ![k] = None]
      /\ req' = req \/ (req' = [req EXCEPT ![r] = x] /\ codes[k].state = s)
      /\ UNCHANGED <<flows, idp, sessions, origin, minted>>
      /\ UNCHANGED <<clients, known, registered, contested>>
  BY Zenon DEF Redeem, registryVars
<1>2. codes[k] \in Grants /\ idp[codes[k].state] # None /\ codes[k].sub = idp[codes[k].state]
  BY <1>1, ZenonT(30) DEF LoginInv, LoginTypeOK, OwnInv
<1>3. x \in LoginRequest
  BY <1>2, Zenon DEF LoginRequest, Grants, Serving, Idle
<1>4. x.pc = "create" /\ x.state = s /\ x.client = None /\ x.sub = codes[k].sub
  BY Zenon DEF Idle
<1> HIDE DEF x
<1>5. LoginTypeOK'
  <2>1. req' \in [Requests -> LoginRequest]
    <3>1. req \in [Requests -> LoginRequest]
      BY Zenon DEF LoginInv, LoginTypeOK
    <3>2. QED  BY <1>1, <1>3, <3>1
  <2>2. codes' \in [Codes -> Grants \cup {None}]
    BY <1>1, Zenon DEF LoginInv, LoginTypeOK
  <2>3. QED  BY <1>1, <2>1, <2>2, Zenon DEF LoginInv, LoginTypeOK
<1>6. /\ codes'[k] = None /\ \A j \in Codes \ {k} : codes'[j] = codes[j]
      /\ \A q \in Requests \ {r} : req'[q] = req[q]
      /\ req'[r] = req[r] \/ (req'[r] = x /\ codes[k].state = s)
  BY <1>1 DEF LoginInv, LoginTypeOK
<1>7. HomeInv'
  <2>1. \A t \in States : flows'[t] # None => Bridge(flows'[t].client, flows'[t].uri)
    BY <1>1, Zenon DEF LoginInv, HomeInv
  <2>2. \A j \in Codes : codes'[j] # None => Bridge(codes'[j].client, codes'[j].uri)
    BY <1>6, Zenon DEF LoginInv, HomeInv
  <2>3. \A c \in Clients : /\ clients'[c] = None <=> clients[c] = None
                           /\ clients[c] # None => clients'[c].uris = clients[c].uris
                           /\ Live(c)' => Live(c)
    BY <1>1, Zenon DEF Live
  <2>4. \A q \in Requests : req'[q] = req[q] \/ Homely(req'[q])
    BY <1>4, <1>6, Zenon DEF Homely, Inserting
  <2>5. QED  BY <1>1, <1>5, <2>1, <2>2, <2>3, <2>4, HomeKept, Zenon
<1>8. OwnInv'
  <2>1. ASSUME NEW q \in Requests PROVE RequestOwn(req[q])'
    <3>1. RequestOwn(req[q])
      BY Zenon DEF LoginInv, OwnInv
    <3>2. CASE req'[q] = req[q]
      BY <1>1, <3>1, <3>2, Zenon DEF RequestOwn
    <3>3. CASE req'[q] = x /\ codes[k].state = s
      BY <1>1, <1>2, <1>4, <3>3, ZenonT(30) DEF RequestOwn
    <3>4. QED  BY <1>6, <3>2, <3>3, Zenon
  <2>2. QED  BY <1>1, <1>6, <2>1 DEF LoginInv, OwnInv
<1>9. PlaceInv'
  <2>1. \A t \in States, q \in Requests :
           InRequest(t, q)' => InRequest(t, q) \/ (t = s /\ q = r /\ codes[k].state = s)
    BY <1>4, <1>6, Zenon DEF InRequest
  <2>2. \A t \in States, j \in Codes : InCode(t, j)' => InCode(t, j) /\ j # k
    BY <1>6, Zenon DEF InCode
  <2>3. \A t \in States : Ended(t)' <=> Ended(t)
    BY <1>1, Zenon DEF Ended
  <2>4. codes[k].state = s => InCode(s, k)
    BY <1>1, Zenon DEF InCode
  <2>5. codes[k].state = s =>
           /\ \A q \in Requests : ~InRequest(s, q)
           /\ \A j \in Codes \ {k} : ~InCode(s, j)
           /\ ~Ended(s) /\ origin[s] # None /\ flows[s] = None
    BY <2>4, Zenon DEF LoginInv, PlaceInv
  <2>6. QED
    BY <1>1, <2>1, <2>2, <2>3, <2>5 DEF LoginInv, PlaceInv
<1>10. QED  BY <1>5, <1>7, <1>8, <1>9, Zenon DEF LoginInv

\* The login goes from the request into its session.
LEMMA CreateSessionStep ==
    ASSUME LoginInv, NEW r \in Requests, CreateSession(r)
    PROVE  LoginInv'
<1> USE RegistryAssumption, LoginAssumption
<1> DEFINE s == req[r].state
           sub == req[r].sub
<1>1. /\ req[r].pc = "create"
      /\ sessions' = [sessions EXCEPT ![s] = Append(sessions[s], sub)]
      /\ req' = [req EXCEPT ![r] = Idle]
      /\ UNCHANGED <<flows, codes, idp, origin, minted>>
      /\ UNCHANGED <<clients, known, registered, contested>>
  BY Zenon DEF CreateSession, Answer, registryVars
<1>2. s \in States /\ idp[s] # None /\ sub = idp[s] /\ sub \in Subs
  BY <1>1, ZenonT(30) DEF LoginInv, LoginTypeOK, OwnInv, RequestOwn, Serving
<1>3. InRequest(s, r)
  BY <1>1, Zenon DEF InRequest, Serving
<1> HIDE DEF s, sub
<1>4. /\ \A q \in Requests \ {r} : ~InRequest(s, q)
      /\ \A j \in Codes : ~InCode(s, j)
      /\ ~Ended(s) /\ origin[s] # None /\ flows[s] = None
  BY <1>2, <1>3, Zenon DEF LoginInv, PlaceInv
<1>5. /\ sessions'[s] = <<sub>> /\ \A t \in States \ {s} : sessions'[t] = sessions[t]
      /\ req'[r] = Idle /\ \A q \in Requests \ {r} : req'[q] = req[q]
  BY <1>1, <1>2, <1>4 DEF LoginInv, LoginTypeOK, Ended
<1>6. LoginTypeOK'
  <2>1. sessions' \in [States -> Seq(Subs)]
    BY <1>1, <1>2 DEF LoginInv, LoginTypeOK
  <2>2. req' \in [Requests -> LoginRequest]
    BY <1>1, RequestRecord, Zenon DEF LoginInv
  <2>3. QED  BY <1>1, <2>1, <2>2, Zenon DEF LoginInv, LoginTypeOK
<1>7. HomeInv'
  <2>1. \A t \in States : flows'[t] # None => Bridge(flows'[t].client, flows'[t].uri)
    BY <1>1, Zenon DEF LoginInv, HomeInv
  <2>2. \A j \in Codes : codes'[j] # None => Bridge(codes'[j].client, codes'[j].uri)
    BY <1>1, Zenon DEF LoginInv, HomeInv
  <2>3. \A c \in Clients : /\ clients'[c] = None <=> clients[c] = None
                           /\ clients[c] # None => clients'[c].uris = clients[c].uris
                           /\ Live(c)' => Live(c)
    BY <1>1, Zenon DEF Live
  <2>4. \A q \in Requests : req'[q] = req[q] \/ Homely(req'[q])
    BY <1>5 DEF Homely, Inserting, Idle
  <2>5. QED  BY <1>1, <1>6, <2>1, <2>2, <2>3, <2>4, HomeKept, Zenon
<1>8. OwnInv'
  <2>1. ASSUME NEW q \in Requests PROVE RequestOwn(req[q])'
    <3>1. CASE q # r
      BY <1>1, <1>5, <3>1 DEF LoginInv, OwnInv, RequestOwn
    <3>2. CASE q = r
      BY <1>5, <3>2 DEF RequestOwn, Idle, Serving
    <3>3. QED  BY <3>1, <3>2, Zenon
  <2>2. \A t \in States : \A i \in DOMAIN sessions'[t] :
           idp'[t] # None /\ sessions'[t][i] = idp'[t]
    <3>1. ASSUME NEW t \in States, t # s, NEW i \in DOMAIN sessions'[t]
          PROVE  idp'[t] # None /\ sessions'[t][i] = idp'[t]
      BY <1>1, <1>5, <3>1, ZenonT(30) DEF LoginInv, OwnInv
    <3>2. ASSUME NEW i \in DOMAIN sessions'[s]
          PROVE  idp'[s] # None /\ sessions'[s][i] = idp'[s]
      BY <1>1, <1>2, <1>5
    <3>3. QED  BY <3>1, <3>2, Zenon
  <2>3. QED  BY <1>1, <2>1, <2>2, Zenon DEF LoginInv, OwnInv
<1>9. PlaceInv'
  <2>1. \A t \in States, q \in Requests : InRequest(t, q)' => InRequest(t, q) /\ q # r
    BY <1>5 DEF InRequest, Idle, Serving
  <2>2. \A t \in States, j \in Codes : InCode(t, j)' <=> InCode(t, j)
    BY <1>1, Zenon DEF InCode
  <2>3. \A t \in States \ {s} : Ended(t)' <=> Ended(t)
    BY <1>5, Zenon DEF Ended
  <2>4. Len(sessions'[s]) = 1
    BY <1>5
  <2>5. flows'[s] = None /\ origin'[s] # None
    BY <1>1, <1>4, Zenon
  <2>6. \A t \in States \ {s} : sessions'[t] = sessions[t]
    BY <1>5, Zenon
  <2>7. ASSUME NEW t \in States, t # s, flows'[t] # None
        PROVE  /\ origin'[t] # None /\ ~Ended(t)'
               /\ \A q \in Requests : ~InRequest(t, q)'
               /\ \A k \in Codes : ~InCode(t, k)'
    BY <1>1, <2>1, <2>2, <2>3, <2>7, Zenon DEF LoginInv, PlaceInv
  <2>8. ASSUME NEW t \in States, NEW q \in Requests, InRequest(t, q)'
        PROVE  /\ origin'[t] # None /\ ~Ended(t)'
               /\ \A p \in Requests : InRequest(t, p)' => p = q
               /\ \A k \in Codes : ~InCode(t, k)'
    <3>1. InRequest(t, q) /\ q # r
      BY <2>1, <2>8, Zenon
    <3>2. t # s
      <4>1. t = s => InRequest(s, q)
        BY <3>1, Zenon DEF InRequest
      <4>2. QED  BY <1>4, <3>1, <4>1, Zenon
    <3>3. /\ origin[t] # None /\ ~Ended(t)
          /\ \A p \in Requests : InRequest(t, p) => p = q
          /\ \A k \in Codes : ~InCode(t, k)
      BY <3>1, Zenon DEF LoginInv, PlaceInv
    <3>4. QED  BY <1>1, <2>1, <2>2, <2>3, <3>1, <3>2, <3>3, Zenon
  <2>9. ASSUME NEW t \in States, NEW k \in Codes, InCode(t, k)'
        PROVE  /\ origin'[t] # None /\ ~Ended(t)'
               /\ \A j \in Codes : InCode(t, j)' => j = k
    <3>1. InCode(t, k) /\ t # s
      BY <1>4, <2>2, <2>9, ZenonT(30)
    <3>2. origin[t] # None /\ ~Ended(t) /\ \A j \in Codes : InCode(t, j) => j = k
      BY <3>1, Zenon DEF LoginInv, PlaceInv
    <3>3. QED  BY <1>1, <2>2, <2>3, <3>1, <3>2, Zenon
  <2>10. ASSUME NEW t \in States, Ended(t)' PROVE origin'[t] # None /\ Len(sessions'[t]) = 1
    <3>1. CASE t = s  BY <2>4, <2>5, <3>1, Zenon
    <3>2. CASE t # s
      BY <1>1, <2>3, <2>6, <2>10, <3>2, Zenon DEF LoginInv, PlaceInv
    <3>3. QED  BY <3>1, <3>2, Zenon
  <2>11. QED
    BY <2>5, <2>7, <2>8, <2>9, <2>10, Zenon DEF PlaceInv
<1>10. QED  BY <1>6, <1>7, <1>8, <1>9, Zenon DEF LoginInv

\* Steps on registrations that store none: rows may go and be renewed, and one request moves.
LEMMA RegistryKept ==
    ASSUME LoginInv, LoginTypeOK', UNCHANGED <<loginVars, known, registered>>,
           contested \subseteq contested', NEW r \in Requests,
           \A c \in Clients :
             /\ clients'[c] # None =>
                  clients[c] # None /\ clients'[c].uris = clients[c].uris
             /\ Live(c)' => Live(c),
           \A q \in Requests \ {r} : req'[q] = req[q],
           RequestHome(req[r])', req'[r].pc \notin Serving,
           NewClient(req[r])' => \A q \in Requests \ {r} : req[q].client # req'[r].client
    PROVE  LoginInv'
<1> USE RegistryAssumption
<1>1. UNCHANGED <<flows, codes, idp, sessions, origin>>
  BY Zenon DEF loginVars
<1>2. ASSUME NEW q \in Requests, q # r PROVE RequestHome(req[q])'
  <2>1. RequestHome(req[q]) /\ req'[q] = req[q]
    BY <1>2, Zenon DEF LoginInv, HomeInv
  <2>2. req[q].pc \in Inserting => req[q].client \in Clients
    BY <2>1, Zenon DEF RequestHome, NewClient, Adoption, LoginInv, LoginTypeOK
  <2>3. NewClient(req[q])' =>
           req'[q].client \in Clients \ known' /\ clients'[req'[q].client] = None
    BY <2>1, ZenonT(30) DEF RequestHome, NewClient
  <2>4. Adoption(req[q])' =>
           /\ req'[q].client \in known' /\ req'[q].uris = {req'[q].uri}
           /\ is_loopback_redirect_uri(req'[q].uri)
           /\ Live(req[q].client)' => req'[q].client \in contested'
    <3>1. Live(req[q].client)' => req[q].client \notin Clients \/ Live(req[q].client)
      BY <2>1, Zenon DEF Live
    <3>2. QED  BY <2>1, <2>2, <3>1, Zenon DEF RequestHome, Adoption
  <2>5. QED  BY <2>1, <2>3, <2>4, Zenon DEF RequestHome, Bridge, Home
<1>3. \A q \in Requests : RequestHome(req[q])'
  BY <1>2, Zenon
<1>4. ASSUME NEW q \in Requests, NEW p \in Requests,
             NewClient(req[q])', req'[q].client = req'[p].client
      PROVE  q = p
  <2>1. CASE q # r /\ p # r
    BY <1>4, <2>1, ZenonT(30) DEF LoginInv, HomeInv, NewClient
  <2>2. CASE q = r /\ p # r
    BY <1>4, <2>2, Zenon
  <2>3. CASE q # r /\ p = r
    <3>1. req'[q].client \in Clients \ known'
      BY <1>3, <1>4, Zenon DEF RequestHome
    <3>2. CASE NewClient(req[r])'
      BY <1>4, <2>3, <3>2, Zenon
    <3>3. CASE ~NewClient(req[r])'
      <4>1. req'[r].pc \in {"idle", "start"} \cup Inserting
        BY Zenon DEF LoginTypeOK, LoginRequest
      <4>2. req'[r].client = None \/ req'[r].client \in known'
        BY <3>3, <4>1, Zenon DEF RequestHome, NewClient, Adoption, Bridge
      <4>3. QED  BY <1>4, <2>3, <3>1, <4>2, Zenon
    <3>4. QED  BY <3>2, <3>3, Zenon
  <2>4. QED  BY <2>1, <2>2, <2>3, Zenon
<1>5. \A c \in Clients : clients'[c] # None => \A v \in clients'[c].uris : Home(c, v)'
  BY Zenon DEF LoginInv, HomeInv, Home
<1>6. /\ \A s \in States : flows'[s] # None => Bridge(flows[s].client, flows[s].uri)'
      /\ \A k \in Codes : codes'[k] # None => Bridge(codes[k].client, codes[k].uri)'
  BY <1>1, Zenon DEF LoginInv, HomeInv, Bridge, Home
<1>7. HomeInv'
  BY <1>3, <1>4, <1>5, <1>6, Zenon DEF HomeInv
<1>8. OwnInv' /\ PlaceInv'
  BY <1>1, LoginShrinks, Zenon
<1>9. QED  BY <1>7, <1>8, Zenon DEF LoginInv

\* DELETE ... WHERE expires_at <= now() leaves the live rows.
LEMMA DeletedKeeps ==
    ASSUME clients' = Deleted
    PROVE  \A c \in Clients :
             /\ clients'[c] # None => clients[c] # None /\ clients'[c].uris = clients[c].uris
             /\ Live(c)' => Live(c)
             /\ Live(c) => clients'[c] = clients[c]
BY Zenon DEF Deleted, Live

LEMMA TouchedKeeps ==
    ASSUME LoginTypeOK, NEW c \in Clients, clients' = Touched(c)
    PROVE  \A d \in Clients :
             /\ clients'[d] # None => clients[d] # None /\ clients'[d].uris = clients[d].uris
             /\ Live(d)' => Live(d)
             /\ Live(d) => clients'[d] # None /\ clients'[d].uris = clients[d].uris
<1>1. CASE ~Live(c)
  BY <1>1, Zenon DEF Touched, Live
<1>2. CASE Live(c)
  <2>1. clients[c] \in [uris : SUBSET Uris, age : Nat]
    BY <1>2, Zenon DEF Live, LoginTypeOK
  <2>2. /\ clients'[c] = [clients[c] EXCEPT !.age = 0]
        /\ \A d \in Clients \ {c} : clients'[d] = clients[d]
    BY <1>2, Zenon DEF Touched, LoginTypeOK
  <2>3. clients'[c] \in [uris : SUBSET Uris, age : Nat] /\ clients'[c].uris = clients[c].uris
    BY <2>1, <2>2
  <2>4. QED  BY <1>2, <2>2, <2>3, RegistryAssumption, Zenon DEF Live
<1>3. QED  BY <1>1, <1>2, Zenon

LEMMA RegisterStep ==
    ASSUME LoginInv, NEW r \in Requests, NEW c \in Clients, NEW uris \in Registrations,
           Register(r, c, uris)
    PROVE  LoginInv'
<1> USE RegistryAssumption, LoginAssumption
<1> DEFINE x == [Idle EXCEPT !.pc = "exists", !.client = c, !.uris = uris]
<1>1. /\ c \notin known /\ clients[c] = None /\ \A q \in Requests : req[q].client # c
      /\ clients' = Deleted /\ req' = [req EXCEPT ![r] = x]
      /\ UNCHANGED <<loginVars, known, registered, contested>>
  BY Zenon DEF Register
<1>2. /\ x \in LoginRequest /\ x.pc = "exists" /\ x.uri = None /\ x.client = c
  BY Zenon DEF Idle, LoginRequest, Inserting
<1> HIDE DEF x
<1>3. LoginTypeOK'
  <2>1. clients' \in [Clients -> [uris : SUBSET Uris, age : Nat] \cup {None}]
    BY <1>1, RowsTyped, Zenon DEF LoginInv
  <2>2. req' \in [Requests -> LoginRequest]
    BY <1>1, <1>2, RequestRecord, Zenon DEF LoginInv
  <2>3. QED  BY <1>1, <2>1, <2>2, Zenon DEF LoginInv, LoginTypeOK, loginVars
<1>4. req'[r] = x /\ \A q \in Requests \ {r} : req'[q] = req[q]
  BY <1>1 DEF LoginInv, LoginTypeOK
<1>5. clients'[c] = None
  BY <1>1, DeletedKeeps, Zenon
<1>6. RequestHome(req[r])' /\ req'[r].pc \notin Serving
  BY <1>1, <1>2, <1>4, <1>5 DEF RequestHome, NewClient, Adoption, Inserting, Serving
<1>7. \A q \in Requests \ {r} : req[q].client # req'[r].client
  BY <1>1, <1>2, <1>4, Zenon
<1>8. QED  BY <1>1, <1>3, <1>4, <1>6, <1>7, DeletedKeeps, RegistryKept, Zenon

\* A URI that matches one of a client's row is home if the row's are.
LEMMA MatchesHome ==
    ASSUME LoginInv, NEW c \in Clients, Live(c), NEW u \in Uris,
           \E v \in clients[c].uris : redirect_uri_matches(v, u)
    PROVE  Home(c, u)
BY Zenon DEF LoginInv, HomeInv, Live, Home, redirect_uri_matches

LEMMA UnknownStep ==
    ASSUME LoginInv, NEW r \in Requests, NEW c \in Clients, NEW u \in Uris,
           req[r].pc = "idle", c \in known, Unknown(r, c, u), clients' \in {clients, Touched(c)},
           UNCHANGED <<loginVars, known, registered>>, contested \subseteq contested',
           contested' \subseteq Clients, Live(c)' => c \in contested'
    PROVE  LoginInv'
<1> USE RegistryAssumption, LoginAssumption
<1> DEFINE x == [Idle EXCEPT !.pc = "delete", !.client = c, !.uri = u, !.uris = {u}]
<1>1. req' = req \/ (req' = [req EXCEPT ![r] = x] /\ is_loopback_redirect_uri(u))
  BY Zenon DEF Unknown
<1>2. /\ x \in LoginRequest /\ x.pc = "delete" /\ x.uri = u /\ x.client = c /\ x.uris = {u}
  BY ZenonT(30) DEF Idle, LoginRequest, Inserting
<1> HIDE DEF x
<1>3. LoginTypeOK'
  <2>1. clients' \in [Clients -> [uris : SUBSET Uris, age : Nat] \cup {None}]
    BY RowsTyped DEF LoginInv, LoginTypeOK
  <2>2. req' \in [Requests -> LoginRequest]
    <3>1. req \in [Requests -> LoginRequest]
      BY Zenon DEF LoginInv, LoginTypeOK
    <3>2. QED  BY <1>1, <1>2, <3>1
  <2>3. QED  BY <2>1, <2>2, Zenon DEF LoginInv, LoginTypeOK, loginVars
<1>4. /\ req'[r] = req[r] \/ (req'[r] = x /\ is_loopback_redirect_uri(u))
      /\ \A q \in Requests \ {r} : req'[q] = req[q]
  BY <1>1 DEF LoginInv, LoginTypeOK
<1>5. \A d \in Clients :
         /\ clients'[d] # None => clients[d] # None /\ clients'[d].uris = clients[d].uris
         /\ Live(d)' => Live(d)
  <2>1. CASE clients' = clients
    BY <2>1, Zenon DEF Live
  <2>2. CASE clients' = Touched(c)
    BY <2>2, TouchedKeeps, Zenon DEF LoginInv
  <2>3. QED  BY <2>1, <2>2, Zenon
<1>6. /\ RequestHome(req[r])' /\ req'[r].pc \notin Serving /\ ~NewClient(req[r])'
  <2>1. CASE req'[r] = req[r]
    <3>1. RequestHome(req[r])
      BY Zenon DEF LoginInv, HomeInv
    <3>2. QED  BY <2>1, <3>1, Zenon DEF RequestHome, NewClient, Adoption, Inserting, Serving
  <2>2. CASE req'[r] = x /\ is_loopback_redirect_uri(u)
    BY <1>2, <2>2, Zenon DEF RequestHome, NewClient, Adoption, Inserting, Serving
  <2>3. QED  BY <1>4, <2>1, <2>2, Zenon
<1>7. QED  BY <1>3, <1>4, <1>5, <1>6, RegistryKept, Zenon

LEMMA AuthorizeStep ==
    ASSUME LoginInv, NEW r \in Requests, NEW c \in Clients, NEW u \in Uris, Authorize(r, c, u)
    PROVE  LoginInv'
<1> USE RegistryAssumption, LoginAssumption
<1>1. /\ req[r].pc = "idle" /\ c \in known /\ clients' = Touched(c)
      /\ UNCHANGED <<loginVars, known, registered, contested>>
  BY Zenon DEF Authorize
<1>2. \A d \in Clients :
         /\ clients'[d] # None => clients[d] # None /\ clients'[d].uris = clients[d].uris
         /\ Live(d)' => Live(d)
  BY <1>1, TouchedKeeps, Zenon DEF LoginInv
<1>3. contested \subseteq contested' /\ contested' \subseteq Clients
  BY <1>1, Zenon DEF LoginInv, LoginTypeOK
<1>4. CASE ~Live(c) /\ Unknown(r, c, u)
  BY <1>1, <1>2, <1>3, <1>4, UnknownStep, Zenon
<1>5. CASE /\ Live(c) /\ \E v \in clients[c].uris : redirect_uri_matches(v, u)
           /\ req' = [req EXCEPT ![r] = [Idle EXCEPT !.pc = "start", !.client = c, !.uri = u]]
  <2> DEFINE x == [Idle EXCEPT !.pc = "start", !.client = c, !.uri = u]
  <2>1. x \in LoginRequest /\ x.pc = "start" /\ x.uri = u /\ x.client = c
    BY Zenon DEF Idle, LoginRequest
  <2> HIDE DEF x
  <2>2. req' = [req EXCEPT ![r] = x]
    BY <1>5, Zenon DEF x
  <2>3. LoginTypeOK'
    <3>1. clients' \in [Clients -> [uris : SUBSET Uris, age : Nat] \cup {None}]
      BY <1>1, RowsTyped, Zenon DEF LoginInv
    <3>2. req' \in [Requests -> LoginRequest]
      BY <2>1, <2>2, RequestRecord, Zenon DEF LoginInv
    <3>3. QED  BY <1>1, <3>1, <3>2, Zenon DEF LoginInv, LoginTypeOK, loginVars
  <2>4. req'[r] = x /\ \A q \in Requests \ {r} : req'[q] = req[q]
    BY <2>2 DEF LoginInv, LoginTypeOK
  <2>5. Home(c, u)
    BY <1>5, MatchesHome, Zenon
  <2>6. RequestHome(req[r])' /\ req'[r].pc \notin Serving /\ ~NewClient(req[r])'
    BY <1>1, <2>1, <2>4, <2>5, Zenon
       DEF RequestHome, NewClient, Adoption, Inserting, Serving, Bridge, Home
  <2>7. QED  BY <1>1, <1>2, <1>3, <2>3, <2>4, <2>6, RegistryKept, Zenon
<1>6. CASE UNCHANGED req
  <2>1. LoginTypeOK'
    <3>1. clients' \in [Clients -> [uris : SUBSET Uris, age : Nat] \cup {None}]
      BY <1>1, RowsTyped, Zenon DEF LoginInv
    <3>2. QED  BY <1>1, <1>6, <3>1, Zenon DEF LoginInv, LoginTypeOK, loginVars
  <2>2. RequestHome(req[r])
    BY Zenon DEF LoginInv, HomeInv
  <2>3. RequestHome(req[r])' /\ req'[r].pc \notin Serving /\ ~NewClient(req[r])'
    BY <1>1, <1>6, <2>2, Zenon DEF RequestHome, NewClient, Adoption, Inserting, Serving
  <2>4. QED  BY <1>1, <1>2, <1>3, <1>6, <2>1, <2>3, RegistryKept, Zenon
<1>7. QED  BY <1>4, <1>5, <1>6, Zenon DEF Authorize

LEMMA AuthorizeUnresolvedStep ==
    ASSUME LoginInv, NEW r \in Requests, NEW c \in Clients, NEW u \in Uris,
           AuthorizeUnresolved(r, c, u)
    PROVE  LoginInv'
<1>1. /\ req[r].pc = "idle" /\ c \in known /\ clients' \in {clients, Touched(c)}
      /\ Unknown(r, c, u) /\ contested' = contested \cup {c}
      /\ UNCHANGED <<loginVars, known, registered>>
  BY Zenon DEF AuthorizeUnresolved
<1>2. contested \subseteq contested' /\ contested' \subseteq Clients /\ c \in contested'
  BY <1>1, Zenon DEF LoginInv, LoginTypeOK
<1>3. QED  BY <1>1, <1>2, UnknownStep, Zenon

\* The statements of insert_db before the upsert.
LEMMA InsertStep ==
    ASSUME LoginInv, NEW r \in Requests, InsertDelete(r) \/ InsertExists(r) \/ InsertCount(r)
    PROVE  LoginInv'
<1> USE RegistryAssumption, LoginAssumption
<1>1. /\ req[r].pc \in Inserting /\ clients' \in {clients, Deleted}
      /\ UNCHANGED <<loginVars, known, registered, contested>>
  BY Zenon DEF InsertDelete, InsertExists, InsertCount, Inserting, registryVars
<1>2. \/ req' = [req EXCEPT ![r] = Idle]
      \/ \E to \in Inserting : req' = [req EXCEPT ![r].pc = to]
  BY Zenon DEF InsertDelete, InsertExists, InsertCount, Inserting, Goto, Answer
<1>3. LoginTypeOK'
  <2>1. clients' \in [Clients -> [uris : SUBSET Uris, age : Nat] \cup {None}]
    BY <1>1, RowsTyped DEF LoginInv, LoginTypeOK
  <2>2. req' \in [Requests -> LoginRequest]
    BY <1>2, RequestRecord DEF LoginInv
  <2>3. QED  BY <1>1, <2>1, <2>2, Zenon DEF LoginInv, LoginTypeOK, loginVars
<1>4. \A c \in Clients :
         /\ clients'[c] # None => clients[c] # None /\ clients'[c].uris = clients[c].uris
         /\ Live(c)' => Live(c)
  <2>1. CASE clients' = clients
    BY <2>1, Zenon DEF Live
  <2>2. CASE clients' = Deleted
    BY <2>2, DeletedKeeps, Zenon
  <2>3. QED  BY <1>1, <2>1, <2>2, Zenon
<1>5. /\ \A q \in Requests \ {r} : req'[q] = req[q]
      /\ \/ req'[r] = Idle
         \/ /\ req'[r].pc \in Inserting /\ req'[r].client = req[r].client
            /\ req'[r].uri = req[r].uri /\ req'[r].uris = req[r].uris
  <2>1. req \in [Requests -> LoginRequest]
    BY Zenon DEF LoginInv, LoginTypeOK
  <2>2. CASE req' = [req EXCEPT ![r] = Idle]
    BY <2>1, <2>2, ZenonT(30)
  <2>3. ASSUME NEW to \in Inserting, req' = [req EXCEPT ![r].pc = to]
        PROVE  /\ \A q \in Requests \ {r} : req'[q] = req[q]
               /\ req'[r].pc \in Inserting /\ req'[r].client = req[r].client
               /\ req'[r].uri = req[r].uri /\ req'[r].uris = req[r].uris
    BY <2>1, <2>3 DEF LoginRequest
  <2>4. QED  BY <1>2, <2>2, <2>3, Zenon
<1>6. RequestHome(req[r]) /\ \A q \in Requests : NewClient(req[r]) /\ req[r].client = req[q].client => q = r
  BY Zenon DEF LoginInv, HomeInv
<1>7. RequestHome(req[r])' /\ req'[r].pc \notin Serving
  <2>1. CASE req'[r] = Idle
    BY <2>1 DEF RequestHome, NewClient, Adoption, Inserting, Serving, Idle
  <2>2. CASE /\ req'[r].pc \in Inserting /\ req'[r].client = req[r].client
             /\ req'[r].uri = req[r].uri /\ req'[r].uris = req[r].uris
    <3>1. req'[r].pc \notin Serving \cup {"idle", "start"}
      BY <2>2, Zenon DEF Inserting, Serving
    <3>2. req[r].client \in Clients
      BY <1>1, <1>6, Zenon DEF RequestHome, NewClient, Adoption, LoginInv, LoginTypeOK
    <3>3. /\ clients[req[r].client] = None => clients'[req[r].client] = None
          /\ Live(req[r].client)' => Live(req[r].client)
      BY <1>4, <2>2, <3>2, Zenon DEF Live
    <3>4. QED  BY <1>1, <1>6, <2>2, <3>1, <3>3, Zenon DEF RequestHome, NewClient, Adoption, Serving
  <2>3. QED  BY <1>5, <2>1, <2>2, Zenon
<1>8. NewClient(req[r])' => \A q \in Requests \ {r} : req[q].client # req'[r].client
  BY <1>1, <1>5, <1>6 DEF NewClient, Idle, Inserting
<1>9. contested \subseteq contested'
  BY <1>1, Zenon
<1>10. QED  BY <1>1, <1>3, <1>4, <1>5, <1>7, <1>8, <1>9, RegistryKept, Zenon

\* The upsert makes a new client's URIs its registered ones, or stores an adopted one.
LEMMA UpsertStep ==
    ASSUME LoginInv, NEW r \in Requests, NEW answered \in BOOLEAN, InsertUpsert(r, answered)
    PROVE  LoginInv'
<1> USE RegistryAssumption, LoginAssumption
<1> DEFINE c == req[r].client
           uris == req[r].uris
           fresh == req[r].uri = None
<1>1. /\ req[r].pc = "upsert" /\ clients' = Upserted(c, uris)
      /\ registered' = IF fresh THEN [registered EXCEPT ![c] = uris] ELSE registered
      /\ contested' = IF fresh THEN contested ELSE contested \cup {c}
      /\ known' = IF fresh /\ answered THEN known \cup {c} ELSE known
      /\ \/ req' = [req EXCEPT ![r] = Idle]
         \/ ~fresh /\ req' = [req EXCEPT ![r].pc = "start"]
      /\ UNCHANGED <<flows, codes, idp, sessions, origin, minted>>
  BY Zenon DEF InsertUpsert, Goto, Answer, loginVars
<1>2. /\ req[r] \in LoginRequest
      /\ RequestHome(req[r])
      /\ \A q \in Requests : NewClient(req[r]) /\ req[r].client = req[q].client => q = r
  BY Zenon DEF LoginInv, LoginTypeOK, HomeInv
<1>3. /\ c \in Clients /\ uris \in SUBSET Uris
      /\ fresh => c \notin known /\ clients[c] = None /\ NewClient(req[r])
      /\ ~fresh => /\ c \in known /\ req[r].uri \in Uris /\ uris = {req[r].uri}
                   /\ is_loopback_redirect_uri(req[r].uri)
  BY <1>1, <1>2, Zenon DEF RequestHome, NewClient, Adoption, Inserting, LoginRequest, LoginInv,
                    LoginTypeOK
<1>4. LoginTypeOK'
  <2>1. clients' \in [Clients -> [uris : SUBSET Uris, age : Nat] \cup {None}]
    BY <1>1, <1>3, RowsTyped, Zenon DEF LoginInv
  <2>2. req' \in [Requests -> LoginRequest]
    BY <1>1, RequestRecord DEF LoginInv
  <2>3. /\ registered' \in [Clients -> SUBSET Uris]
        /\ contested' \subseteq Clients /\ known' \subseteq Clients
    BY <1>1, <1>3 DEF LoginInv, LoginTypeOK
  <2>4. QED  BY <1>1, <2>1, <2>2, <2>3, Zenon DEF LoginInv, LoginTypeOK
<1>5. /\ clients'[c] = [uris |-> uris, age |-> 0]
      /\ \A d \in Clients \ {c} : clients'[d] = clients[d] /\ registered'[d] = registered[d]
      /\ fresh => registered'[c] = uris
      /\ ~fresh => registered'[c] = registered[c] /\ c \in contested'
      /\ known \subseteq known' /\ known' \subseteq known \cup {c}
      /\ contested \subseteq contested'
  BY <1>1, <1>3 DEF Upserted, LoginInv, LoginTypeOK
<1>6. /\ \A q \in Requests \ {r} : req'[q] = req[q]
      /\ \/ req'[r] = Idle
         \/ ~fresh /\ req'[r].pc = "start" /\ req'[r].client = c /\ req'[r].uri = req[r].uri
  <2>1. req \in [Requests -> LoginRequest]
    BY Zenon DEF LoginInv, LoginTypeOK
  <2>2. CASE req' = [req EXCEPT ![r] = Idle]
    BY <2>1, <2>2
  <2>3. CASE ~fresh /\ req' = [req EXCEPT ![r].pc = "start"]
    BY <2>1, <2>3 DEF LoginRequest
  <2>4. QED  BY <1>1, <2>2, <2>3, Zenon
<1> HIDE DEF c, uris, fresh
<1>7. \A d, v : Bridge(d, v) => Bridge(d, v)'
  BY <1>3, <1>5 DEF Bridge, Home, LoginInv, LoginTypeOK
<1>8. /\ \A s \in States : flows'[s] # None => Bridge(flows[s].client, flows[s].uri)'
      /\ \A k \in Codes : codes'[k] # None => Bridge(codes[k].client, codes[k].uri)'
  BY <1>1, <1>7, Zenon DEF LoginInv, HomeInv
<1>9. ASSUME NEW d \in Clients, clients'[d] # None, NEW v \in clients'[d].uris
      PROVE  Home(d, v)'
  <2>1. CASE d # c
    BY <1>5, <1>9, <2>1, Zenon DEF LoginInv, HomeInv, Home
  <2>2. CASE d = c
    BY <1>3, <1>5, <1>9, <2>2 DEF Home
  <2>3. QED  BY <2>1, <2>2, Zenon
<1>10. ASSUME NEW q \in Requests, q # r PROVE RequestHome(req[q])'
  <2>1. RequestHome(req[q]) /\ req'[q] = req[q]
    BY <1>6, <1>10, Zenon DEF LoginInv, HomeInv
  <2>2. fresh => req[q].client # c
    BY <1>2, <1>3, <1>10, Zenon DEF c
  <2>3. NewClient(req[q]) => req[q].client \in Clients \ {c}
    BY <1>3, <2>1, <2>2, ZenonT(30) DEF RequestHome
  <2>4. NewClient(req[q])' =>
           req'[q].client \in Clients \ known' /\ clients'[req'[q].client] = None
    BY <1>5, <2>1, <2>3, ZenonT(30) DEF RequestHome, NewClient
  <2>5. Adoption(req[q])' =>
           /\ req'[q].client \in known' /\ req'[q].uris = {req'[q].uri}
           /\ is_loopback_redirect_uri(req'[q].uri)
           /\ Live(req[q].client)' => req'[q].client \in contested'
    <3>1. Adoption(req[q]) => req[q].client \in Clients
      BY <2>1, Zenon DEF RequestHome, LoginInv, LoginTypeOK
    <3>2. CASE Adoption(req[q]) /\ req[q].client # c
      <4>1. Live(req[q].client)' => Live(req[q].client)
        BY <1>5, <2>1, <3>1, <3>2, Zenon DEF Live
      <4>2. QED  BY <1>5, <2>1, <3>2, <4>1, Zenon DEF RequestHome, Adoption
    <3>3. CASE Adoption(req[q]) /\ req[q].client = c
      BY <1>5, <2>1, <2>2, <3>3, Zenon DEF RequestHome, Adoption
    <3>4. QED  BY <2>1, <3>2, <3>3, Zenon DEF Adoption
  <2>6. req'[q].pc \in {"start", "exchange", "mint"} => Bridge(req[q].client, req[q].uri)'
    BY <1>7, <2>1, Zenon DEF RequestHome, Bridge, Home
  <2>7. QED  BY <2>1, <2>4, <2>5, <2>6, Zenon DEF RequestHome
<1>11. RequestHome(req[r])' /\ ~NewClient(req[r])' /\ req'[r].pc \notin Serving
       /\ (req'[r].client = None \/ ~fresh)
  <2>1. CASE req'[r] = Idle
    BY <2>1 DEF RequestHome, NewClient, Adoption, Inserting, Serving, Idle
  <2>2. CASE ~fresh /\ req'[r].pc = "start" /\ req'[r].client = c /\ req'[r].uri = req[r].uri
    BY <1>3, <1>5, <2>2, Zenon
       DEF RequestHome, NewClient, Adoption, Inserting, Serving, Bridge, Home
  <2>3. QED  BY <1>6, <2>1, <2>2, Zenon
<1>12. ASSUME NEW q \in Requests, NEW p \in Requests,
              NewClient(req[q])', req'[q].client = req'[p].client
       PROVE  q = p
  <2>1. q # r
    BY <1>11, <1>12, Zenon
  <2>2. CASE p # r
    BY <1>6, <1>12, <2>1, <2>2, Zenon DEF LoginInv, HomeInv, NewClient
  <2>3. CASE p = r
    <3>1. req'[q].client \in Clients \ known'
      BY <1>10, <1>12, <2>1, Zenon DEF RequestHome
    <3>2. req'[r].client = None \/ req'[r].client \in known'
      BY <1>11, <1>6, <1>3, <1>5 DEF Idle
    <3>3. QED  BY <1>12, <2>3, <3>1, <3>2, Zenon
  <2>4. QED  BY <2>2, <2>3, Zenon
<1>13. HomeInv'
  <2>1. \A q \in Requests : RequestHome(req[q])'
    BY <1>10, <1>11, Zenon
  <2>2. QED  BY <1>8, <1>9, <1>12, <2>1, Zenon DEF HomeInv
<1>14. OwnInv' /\ PlaceInv'
  BY <1>1, <1>6, <1>11, LoginShrinks, Zenon
<1>15. QED  BY <1>4, <1>13, <1>14, Zenon DEF LoginInv

LEMMA LoginInit == Init => LoginInv
<1> SUFFICES ASSUME Init PROVE LoginInv
  BY Zenon
<1> USE RegistryAssumption, LoginAssumption
<1>1. LoginTypeOK
  BY DEF Init, LoginTypeOK, LoginRequest, Idle
<1>2. HomeInv
  BY Zenon DEF Init, HomeInv, RequestHome, NewClient, Adoption, Inserting, Idle
<1>3. OwnInv
  BY DEF Init, OwnInv, RequestOwn, Serving, Idle
<1>4. PlaceInv
  BY Zenon DEF Init, PlaceInv, InRequest, InCode, Ended, Serving, Idle
<1>5. QED  BY <1>1, <1>2, <1>3, <1>4, Zenon DEF LoginInv

LEMMA LoginStep == LoginInv /\ [Next]_vars => LoginInv'
<1> SUFFICES ASSUME LoginInv, [Next]_vars PROVE LoginInv'
  BY Zenon
<1>1. CASE UNCHANGED vars
  <2>1. /\ clients' = clients /\ known' = known /\ registered' = registered
        /\ contested' = contested /\ flows' = flows /\ codes' = codes /\ req' = req
        /\ idp' = idp /\ sessions' = sessions /\ origin' = origin /\ minted' = minted
    BY <1>1, ZenonT(30) DEF vars, loginVars, registryVars
  <2>2. LoginTypeOK'
    BY <2>1, ZenonT(30) DEF LoginInv, LoginTypeOK
  <2>3. HomeInv'
    BY <2>1, ZenonT(30) DEF LoginInv, HomeInv, RequestHome, NewClient, Adoption, Bridge, Home, Live
  <2>4. OwnInv'
    BY <2>1, Zenon DEF LoginInv, OwnInv, RequestOwn
  <2>5. PlaceInv'
    BY <2>1 DEF LoginInv, PlaceInv, InRequest, InCode, Ended
  <2> QED
    BY <2>2, <2>3, <2>4, <2>5, Zenon DEF LoginInv
<1>2. CASE Next
  <2>1. ASSUME NEW r \in Requests, NEW c \in Clients, NEW uris \in Registrations,
               Register(r, c, uris)
        PROVE  LoginInv'
    BY <2>1, RegisterStep, Zenon
  <2>2. ASSUME NEW r \in Requests, NEW c \in Clients, NEW u \in Uris,
               Authorize(r, c, u) \/ AuthorizeUnresolved(r, c, u)
        PROVE  LoginInv'
    BY <2>2, AuthorizeStep, AuthorizeUnresolvedStep, Zenon
  <2>3. ASSUME NEW r \in Requests, InsertDelete(r) \/ InsertExists(r) \/ InsertCount(r)
        PROVE  LoginInv'
    BY <2>3, InsertStep, Zenon
  <2>4. ASSUME NEW r \in Requests, NEW answered \in BOOLEAN, InsertUpsert(r, answered)
        PROVE  LoginInv'
    BY <2>4, UpsertStep, Zenon
  <2>5. ASSUME NEW r \in Requests, Login(r) \/ FlowsFull(r) \/ CodesFull(r) \/ Abandon(r)
        PROVE  LoginInv'
    BY <2>5, SweepStep, Zenon
  <2>6. ASSUME NEW r \in Requests, Exchange(r) \/ CreateSession(r)
        PROVE  LoginInv'
    BY <2>6, ExchangeStep, CreateSessionStep, Zenon
  <2>7. ASSUME NEW r \in Requests, NEW s \in States, InsertFlow(r, s)
        PROVE  LoginInv'
    BY <2>7, InsertFlowStep, Zenon
  <2>8. ASSUME NEW r \in Requests, NEW s \in States, NEW k \in States, Callback(r, s, k)
        PROVE  LoginInv'
    BY <2>8, CallbackStep, Zenon
  <2>9. ASSUME NEW r \in Requests, NEW s \in States, NEW k \in Codes, Redeem(r, s, k)
        PROVE  LoginInv'
    BY <2>9, RedeemStep, Zenon
  <2>10. ASSUME NEW r \in Requests, NEW k \in Codes, Mint(r, k)
         PROVE  LoginInv'
    BY <2>10, MintStep, Zenon
  <2>11. ASSUME NEW s \in States, NEW sub \in Subs, SignIn(s, sub)
         PROVE  LoginInv'
    BY <2>11, SignInStep, Zenon
  <2>12. CASE GcFlows
    BY <2>12, SweepStep, Zenon
  <2>13. CASE GcCodes
    BY <2>13, SweepStep, Zenon
  <2>14. CASE Tick
    BY <2>14, ClockStep, Zenon
  <2>15. CASE Restart
    BY <2>15, RestartStep, Zenon
  <2>16. QED
    BY <1>2, <2>1, <2>2, <2>3, <2>4, <2>5, <2>6, <2>7, <2>8, <2>9, <2>10, <2>11, <2>12,
       <2>13, <2>14, <2>15, Zenon DEF Next
<1>3. QED  BY <1>1, <1>2, Zenon

LEMMA LoginInvariance == Spec => []LoginInv
BY LoginInit, LoginStep, PTL DEF Spec

\* No authorization code goes to a URI outside the user's machine that /register did not
\* record for that very client, however many clients, logins and requests there are and
\* whatever lapses, is adopted or restarts in between (redirect_uri_matches, insert_db,
\* complete_bridge_login).
THEOREM CodesGoHome == Spec => []CodeGoesHome
<1>1. LoginInv => CodeGoesHome
  <2> SUFFICES ASSUME LoginInv, NEW k \in Codes, codes[k] # None
               PROVE  codes[k].uri \in registered[codes[k].client]
                        \/ is_loopback_redirect_uri(codes[k].uri)
    BY Zenon DEF CodeGoesHome
  <2>1. Bridge(codes[k].client, codes[k].uri)
    BY Zenon DEF LoginInv, HomeInv
  <2>2. codes[k].client # None
    BY RegistryAssumption, Zenon DEF LoginInv, LoginTypeOK, Grants
  <2>3. QED  BY <2>1, <2>2, Zenon DEF Bridge, Home
<1>2. QED  BY <1>1, LoginInvariance, PTL

\* Each session of a login has the subject who signed in for that login, though callbacks
\* and codes of any number of logins may be mixed up (exchange_and_verify, token).
THEOREM LoginsKeepTheirUser == Spec => []IdentityOfOwnLogin
<1>1. LoginInv => IdentityOfOwnLogin
  BY Zenon DEF LoginInv, OwnInv, IdentityOfOwnLogin
<1>2. QED  BY <1>1, LoginInvariance, PTL

\* A login ends in at most one session, for any number of requests that reload its callback
\* or replay its code (PendingFlows::take, AuthCodes::take).
THEOREM LoginEndsOnce == Spec => []OneSessionPerLogin
<1>1. LoginInv => OneSessionPerLogin
  <2> SUFFICES ASSUME LoginInv, NEW s \in States PROVE Len(sessions[s]) <= 1
    BY Zenon DEF OneSessionPerLogin
  <2>1. CASE Ended(s)
    <3>1. Len(sessions[s]) = 1
      BY <2>1, Zenon DEF LoginInv, PlaceInv
    <3>2. QED  BY <3>1
  <2>2. CASE ~Ended(s)
    BY <2>2 DEF Ended
  <2>3. QED  BY <2>1, <2>2, Zenon
<1>2. QED  BY <1>1, LoginInvariance, PTL

\* How a step changes the registrations.
LEMMA RegistryMoves ==
    ASSUME Next
    PROVE  \/ UNCHANGED clients \/ clients' = Deleted \/ Tick
           \/ \E c \in Clients : clients' = Touched(c)
           \/ \E r \in Requests, answered \in BOOLEAN : InsertUpsert(r, answered)
<1>1. ASSUME NEW r \in Requests, NEW c \in Clients, NEW u \in Uris,
             Authorize(r, c, u) \/ AuthorizeUnresolved(r, c, u)
      PROVE  UNCHANGED clients \/ clients' = Touched(c)
  BY <1>1, Zenon DEF Authorize, AuthorizeUnresolved
<1>2. ASSUME NEW r \in Requests, NEW c \in Clients, NEW uris \in Registrations,
             Register(r, c, uris)
      PROVE  clients' = Deleted
  BY <1>2, Zenon DEF Register
<1>3. ASSUME NEW r \in Requests,
             \/ InsertDelete(r) \/ InsertExists(r) \/ InsertCount(r)
             \/ Login(r) \/ FlowsFull(r) \/ Exchange(r) \/ CodesFull(r)
             \/ CreateSession(r) \/ Abandon(r)
      PROVE  UNCHANGED clients \/ clients' = Deleted
  BY <1>3, Zenon DEF InsertDelete, InsertExists, InsertCount, Login, FlowsFull, Exchange, CodesFull,
              CreateSession, Abandon, registryVars
<1>4. ASSUME NEW r \in Requests, NEW s \in States,
             \/ InsertFlow(r, s) \/ \E k \in States : Callback(r, s, k)
             \/ \E k \in Codes : Redeem(r, s, k)
      PROVE  UNCHANGED clients
  BY <1>4, Zenon DEF InsertFlow, Callback, Redeem, registryVars
<1>5. ASSUME NEW r \in Requests, NEW k \in Codes, Mint(r, k) PROVE UNCHANGED clients
  BY <1>5, Zenon DEF Mint, registryVars
<1>6. ASSUME NEW s \in States, NEW sub \in Subs, SignIn(s, sub) PROVE UNCHANGED clients
  BY <1>6, Zenon DEF SignIn, registryVars
<1>7. GcFlows \/ GcCodes \/ Restart => UNCHANGED clients
  BY Zenon DEF GcFlows, GcCodes, Restart, registryVars
<1>8. QED  BY <1>1, <1>2, <1>3, <1>4, <1>5, <1>6, <1>7, Zenon DEF Next

\* A live registration keeps its URIs through every step of every request, sweep and
\* restart, whatever the caps, unless its lookup failed or it lapsed and was adopted
\* (insert_db, touch_db).
THEOREM LiveRegistrationsStay == Spec => LiveRegistrationKept
<1>1. ASSUME LoginInv, Next, NEW c \in Clients \ contested, Live(c)
      PROVE  clients'[c] # None /\ clients'[c].uris = clients[c].uris
  <2> USE RegistryAssumption
  <2>1. CASE UNCHANGED clients
    BY <1>1, <2>1, Zenon DEF Live
  <2>2. CASE clients' = Deleted
    BY <1>1, <2>2, DeletedKeeps, Zenon DEF Live
  <2>3. CASE Tick
    BY <1>1, <2>3, Aged, Zenon DEF Live, LoginInv
  <2>4. ASSUME NEW d \in Clients, clients' = Touched(d)
        PROVE  clients'[c] # None /\ clients'[c].uris = clients[c].uris
    BY <1>1, <2>4, TouchedKeeps, Zenon DEF LoginInv
  <2>5. ASSUME NEW r \in Requests, NEW answered \in BOOLEAN, InsertUpsert(r, answered)
        PROVE  clients'[c] # None /\ clients'[c].uris = clients[c].uris
    <3>1. req[r].pc = "upsert" /\ clients' = Upserted(req[r].client, req[r].uris)
      BY <2>5, Zenon DEF InsertUpsert
    <3>2. req[r].client # c
      <4>1. RequestHome(req[r])
        BY <1>1, Zenon DEF LoginInv, HomeInv
      <4>2. QED  BY <1>1, <3>1, <4>1, Zenon DEF RequestHome, NewClient, Adoption, Inserting, Live
    <3>3. clients'[c] = clients[c]
      BY <3>1, <3>2 DEF Upserted, LoginInv, LoginTypeOK
    <3>4. QED  BY <1>1, <3>3, Zenon DEF Live
  <2>6. QED  BY <1>1, <2>1, <2>2, <2>3, <2>4, <2>5, RegistryMoves, Zenon
<1>2. LoginInv /\ [Next]_vars =>
        [\A c \in Clients \ contested :
           Live(c) => clients'[c] # None /\ clients'[c].uris = clients[c].uris]_vars
  BY <1>1, Zenon
<1>3. QED  BY <1>2, LoginInvariance, PTL DEF Spec, LiveRegistrationKept

-----------------------------------------------------------------------------
(***************************************************************************)
(* What a tool call leaves behind, for any number of calls and outcomes:   *)
(* the type invariant and the four safety invariants of AuditDispatch,     *)
(* from one inductive invariant. It says of every call which writes can    *)
(* exist at its stage, that a committed INSERT fixed the row to the        *)
(* outcome on the guard, and that the sinks were sent that outcome exactly *)
(* when the primary or the detached write was acknowledged.                *)
(***************************************************************************)

\* Whether a writer reported success, and so streamed.
Told(c) == response[c] = "result" \/ fallback[c] = "done"

Stage(c) ==
    /\ pc[c] \in {"new", "refused", "work"} => outcome[c] = Absent
    /\ pc[c] \in {"new", "work"} => counted[c] = 0 /\ response[c] = "none"
    /\ pc[c] = "refused" => counted[c] = 1 /\ response[c] = "error"
    /\ pc[c] \in {"writing", "done", "dropped"} => outcome[c] # Absent /\ counted[c] = 1
    /\ pc[c] = "writing" => fallback[c] = "none" /\ response[c] = "none"
    /\ pc[c] = "dropped" => fallback[c] # "none"
    /\ (pc[c] = "done" /\ fallback[c] = "none") => "primary" \in acked[c]
    /\ counted[c] <= 1

Written(c) ==
    /\ outcome[c] = Absent => fallback[c] = "none" /\ inserts[c] = {} /\ acked[c] = {}
    /\ acked[c] # {} => row[c] = outcome[c]
    /\ acked[c] = {} => row[c] = Absent
    /\ response[c] = "result" => pc[c] = "done" /\ fallback[c] = "none" /\ "primary" \in acked[c]
    /\ fallback[c] = "done" => "fallback" \in acked[c]

Sent(c) == \A o \in Results :
    streamed[c][o] = IF o = outcome[c] /\ Told(c) THEN 1 ELSE 0

IInv == TypeOK /\ \A c \in Calls : Stage(c) /\ Written(c) /\ Sent(c)

\* The numbers that the counters take.
LEMMA SmallNumbers == 0 + 1 = 1 /\ 1 <= 1 /\ 0 <= 1 /\ 0 # 1 /\ \A n \in Nat : n + 1 \in Nat
OBVIOUS

\* A step that leaves call d alone.
Same(d) ==
    /\ pc'[d] = pc[d] /\ outcome'[d] = outcome[d] /\ fallback'[d] = fallback[d]
    /\ inserts'[d] = inserts[d] /\ acked'[d] = acked[d] /\ row'[d] = row[d]
    /\ streamed'[d] = streamed[d] /\ counted'[d] = counted[d] /\ response'[d] = response[d]

\* It keeps what is known of it.
LEMMA Untouched ==
    ASSUME NEW d, Stage(d), Written(d), Sent(d), Same(d)
    PROVE  Stage(d)' /\ Written(d)' /\ Sent(d)'
<1>1. Stage(d)'
  BY Zenon DEF Stage, Same
<1>2. Written(d)'
  BY Zenon DEF Written, Same
<1>3. Sent(d)'
  BY Zenon DEF Sent, Told, Results, Same
<1> QED BY <1>1, <1>2, <1>3, Zenon

\* A step of call c is judged by what it makes of c.
LEMMA StepOfCall ==
    ASSUME IInv, NEW c \in Calls, \A d \in Calls : d # c => Same(d),
           TypeOK', Stage(c)', Written(c)', Sent(c)'
    PROVE  IInv'
BY Untouched, Zenon DEF IInv

\* Send adds one to the call's count of its outcome and to nothing else.
LEMMA SendAddsOne ==
    ASSUME NEW c \in Calls, outcome[c] \in Results, Send(c),
           streamed \in [Calls -> [Results -> Nat]]
    PROVE  /\ streamed' \in [Calls -> [Results -> Nat]]
           /\ \A d \in Calls : d # c => streamed'[d] = streamed[d]
           /\ \A o \in Results : streamed'[c][o] =
                 IF o = outcome[c] THEN streamed[c][o] + 1 ELSE streamed[c][o]
<1> DEFINE new == [streamed[c] EXCEPT ![outcome[c]] = streamed[c][outcome[c]] + 1]
<1>1. new \in [Results -> Nat]
  BY SmallNumbers, Zenon
<1>2. \A o \in Results : new[o] =
         IF o = outcome[c] THEN streamed[c][o] + 1 ELSE streamed[c][o]
  BY Zenon
<1>3. streamed' = [streamed EXCEPT ![c] = new]
  BY Zenon DEF Send
<1> HIDE DEF new
<1>4. streamed'[c] = new
  BY <1>3, Zenon
<1> QED BY <1>1, <1>2, <1>3, <1>4, Zenon

\* A write that is told streams the outcome, once.
LEMMA TellingSends ==
    ASSUME NEW c \in Calls, outcome[c] \in Results, Send(c), Sent(c), TypeOK,
           ~Told(c), Told(c)', outcome'[c] = outcome[c]
    PROVE  Sent(c)'
<1>1. \A o \in Results : streamed[c][o] = 0
  BY Zenon DEF Sent
<1>2. \A o \in Results : streamed'[c][o] =
         IF o = outcome[c] THEN streamed[c][o] + 1 ELSE streamed[c][o]
  BY SendAddsOne, Zenon DEF TypeOK
<1> QED BY <1>1, <1>2, SmallNumbers, Zenon DEF Sent, Results

\* The invariant holds initially, and every step of a dispatch, of a detached
\* write, of the state database and of a process stop keeps it.
THEOREM AuditInvariance == AuditSpec => []IInv
<1>1. AuditInit => IInv
  <2> SUFFICES ASSUME AuditInit PROVE IInv
    BY Zenon
  <2>1. TypeOK
    BY Zenon DEF AuditInit, TypeOK
  <2>2. ASSUME NEW c \in Calls PROVE Stage(c) /\ Written(c) /\ Sent(c)
    BY SmallNumbers, Zenon DEF AuditInit, Stage, Written, Sent, Told
  <2> QED BY <2>1, <2>2, Zenon DEF IInv
<1>2. IInv /\ [AuditNext]_auditVars => IInv'
  <2> SUFFICES ASSUME IInv, [AuditNext]_auditVars PROVE IInv'
    BY Zenon
  <2>0. /\ Absent \notin Results /\ Outcomes \subseteq Results /\ "cancelled" \in Results
        /\ TypeOK /\ \A c \in Calls : Stage(c) /\ Written(c) /\ Sent(c)
    BY AuditAssumption, Zenon DEF Results, IInv
  <2>1. ASSUME NEW c \in Calls, Refuse(c) PROVE IInv'
    <3>1. TypeOK'
      BY <2>0, <2>1, SmallNumbers, Zenon DEF TypeOK, Refuse
    <3>2. \A d \in Calls : d # c => Same(d)
      BY <2>0, <2>1, Zenon DEF Refuse, TypeOK, Same
    <3>3. /\ pc[c] = "new" /\ pc'[c] = "refused" /\ response'[c] = "error"
          /\ counted'[c] = counted[c] + 1
      BY <2>0, <2>1, Zenon DEF Refuse, TypeOK
    <3>4. Stage(c)'
      BY <2>0, <2>1, <3>3, SmallNumbers, Zenon DEF Refuse, Stage
    <3>5. Written(c)' /\ Sent(c)'
      BY <2>0, <2>1, <3>3, Zenon DEF Refuse, Stage, Written, Sent, Told, Results
    <3> QED BY <3>1, <3>2, <3>4, <3>5, StepOfCall, Zenon
  <2>2. ASSUME NEW c \in Calls, Start(c) PROVE IInv'
    <3>1. TypeOK'
      BY <2>0, <2>2, Zenon DEF TypeOK, Start
    <3>2. \A d \in Calls : d # c => Same(d)
      BY <2>0, <2>2, Zenon DEF Start, TypeOK, Same
    <3>3. pc[c] = "new" /\ pc'[c] = "work"
      BY <2>0, <2>2, Zenon DEF Start, TypeOK
    <3>4. Stage(c)' /\ Written(c)' /\ Sent(c)'
      BY <2>0, <2>2, <3>3, Zenon DEF Start, Stage, Written, Sent, Told, Results
    <3> QED BY <3>1, <3>2, <3>4, StepOfCall, Zenon
  <2>3. ASSUME NEW c \in Calls, NEW o \in Outcomes, WorkDone(c, o) PROVE IInv'
    <3>1. TypeOK'
      BY <2>0, <2>3, SmallNumbers, Zenon DEF TypeOK, WorkDone
    <3>2. \A d \in Calls : d # c => Same(d)
      BY <2>0, <2>3, Zenon DEF WorkDone, TypeOK, Same
    <3>3. /\ pc[c] = "work" /\ pc'[c] = "writing" /\ outcome'[c] = o /\ o # Absent
          /\ counted'[c] = counted[c] + 1
      BY <2>0, <2>3, Zenon DEF WorkDone, TypeOK
    <3>4. Stage(c)'
      BY <2>0, <2>3, <3>3, SmallNumbers, ZenonT(30) DEF WorkDone, Stage, Written
    <3>5. Written(c)'
      BY <2>0, <2>3, <3>3, Zenon DEF WorkDone, Stage, Written
    <3>6. ~Told(c)
      BY <2>0, <3>3, Zenon DEF Stage, Written, Told
    <3>7. Sent(c)'
      BY <2>0, <2>3, <3>6, Zenon DEF WorkDone, Sent, Told, Results
    <3> QED BY <3>1, <3>2, <3>4, <3>5, <3>7, StepOfCall, Zenon
  <2>4. ASSUME NEW c \in Calls, LogOk(c) PROVE IInv'
    <3>0. outcome[c] \in Results
      BY <2>0, <2>4, Zenon DEF LogOk, TypeOK, Stage
    <3>1. TypeOK'
      BY <2>0, <3>0, <2>4, SendAddsOne, Zenon DEF TypeOK, LogOk
    <3>2. \A d \in Calls : d # c => Same(d)
      <4>1. \A d \in Calls : d # c => streamed'[d] = streamed[d]
        BY <2>0, <3>0, <2>4, SendAddsOne, Zenon DEF LogOk, TypeOK
      <4> QED BY <2>0, <2>4, <4>1, Zenon DEF LogOk, TypeOK, Same
    <3>3. /\ pc[c] = "writing" /\ pc'[c] = "done" /\ response'[c] = "result"
          /\ outcome'[c] = outcome[c] /\ "primary" \in acked[c] /\ Send(c)
      BY <2>0, <2>4, Zenon DEF LogOk, TypeOK
    <3>4. Stage(c)' /\ Written(c)'
      BY <2>0, <2>4, <3>3, Zenon DEF LogOk, Stage, Written
    <3>5. ~Told(c) /\ Told(c)'
      BY <2>0, <3>3, Zenon DEF Stage, Told
    <3>6. Sent(c)'
      BY <2>0, <3>0, <3>3, <3>5, TellingSends, Zenon
    <3> QED BY <3>1, <3>2, <3>4, <3>6, StepOfCall, Zenon
  <2>5. ASSUME NEW c \in Calls, LogErr(c) PROVE IInv'
    <3>1. TypeOK'
      BY <2>0, <2>5, Zenon DEF TypeOK, LogErr
    <3>2. \A d \in Calls : d # c => Same(d)
      BY <2>0, <2>5, Zenon DEF LogErr, TypeOK, Same
    <3>3. /\ pc[c] = "writing" /\ pc'[c] = "done" /\ response'[c] = "error"
          /\ fallback'[c] = "spawned"
      BY <2>0, <2>5, Zenon DEF LogErr, TypeOK
    <3>4. Stage(c)' /\ Written(c)'
      BY <2>0, <2>5, <3>3, Zenon DEF LogErr, Stage, Written
    <3>5. ~Told(c) /\ ~Told(c)'
      BY <2>0, <3>3, Zenon DEF Stage, Told
    <3>6. Sent(c)'
      BY <2>0, <2>5, <3>5, Zenon DEF LogErr, Sent, Results
    <3> QED BY <3>1, <3>2, <3>4, <3>6, StepOfCall, Zenon
  <2>6. ASSUME NEW c \in Calls, Disconnect(c) PROVE IInv'
    <3>1. TypeOK'
      BY <2>0, <2>6, SmallNumbers, Zenon DEF TypeOK, Disconnect
    <3>2. \A d \in Calls : d # c => Same(d)
      BY <2>0, <2>6, Zenon DEF Disconnect, TypeOK, Same
    <3>3. /\ pc[c] \in {"work", "writing"} /\ pc'[c] = "dropped" /\ fallback'[c] = "spawned"
          /\ outcome'[c] = IF outcome[c] = Absent THEN "cancelled" ELSE outcome[c]
          /\ counted'[c] = IF outcome[c] = Absent THEN counted[c] + 1 ELSE counted[c]
      BY <2>0, <2>6, Zenon DEF Disconnect, TypeOK
    <3>4. outcome'[c] # Absent /\ counted'[c] = 1
      BY <2>0, <3>3, SmallNumbers, Zenon DEF Stage
    <3>5. Stage(c)'
      BY <3>3, <3>4, SmallNumbers, Zenon DEF Stage
    <3>6. Written(c)'
      BY <2>0, <2>6, <3>3, <3>4, Zenon DEF Disconnect, Stage, Written
    <3>7. ~Told(c) /\ ~Told(c)'
      BY <2>0, <2>6, <3>3, Zenon DEF Disconnect, Stage, Written, Told
    <3>8. Sent(c)'
      BY <2>0, <2>6, <3>7, Zenon DEF Disconnect, Sent, Results
    <3> QED BY <3>1, <3>2, <3>5, <3>6, <3>8, StepOfCall, Zenon
  <2>7. ASSUME NEW c \in Calls, FallbackWrite(c) PROVE IInv'
    <3>1. TypeOK'
      BY <2>0, <2>7, Zenon DEF TypeOK, FallbackWrite
    <3>2. \A d \in Calls : d # c => Same(d)
      BY <2>0, <2>7, Zenon DEF FallbackWrite, TypeOK, Same
    <3>3. fallback[c] = "spawned" /\ fallback'[c] = "writing"
      BY <2>0, <2>7, Zenon DEF FallbackWrite, TypeOK
    <3>4. Stage(c)' /\ Written(c)'
      BY <2>0, <2>7, <3>3, Zenon DEF FallbackWrite, Stage, Written
    <3>5. Sent(c)'
      BY <2>0, <2>7, <3>3, Zenon DEF FallbackWrite, Sent, Told, Results
    <3> QED BY <3>1, <3>2, <3>4, <3>5, StepOfCall, Zenon
  <2>8. ASSUME NEW c \in Calls, FallbackOk(c) PROVE IInv'
    <3>0. outcome[c] \in Results /\ response[c] # "result"
      BY <2>0, <2>8, Zenon DEF FallbackOk, TypeOK, Written
    <3>1. TypeOK'
      BY <2>0, <3>0, <2>8, SendAddsOne, Zenon DEF TypeOK, FallbackOk
    <3>2. \A d \in Calls : d # c => Same(d)
      <4>1. \A d \in Calls : d # c => streamed'[d] = streamed[d]
        BY <2>0, <3>0, <2>8, SendAddsOne, Zenon DEF FallbackOk, TypeOK
      <4> QED BY <2>0, <2>8, <4>1, Zenon DEF FallbackOk, TypeOK, Same
    <3>3. /\ fallback[c] = "writing" /\ fallback'[c] = "done" /\ "fallback" \in acked[c]
          /\ outcome'[c] = outcome[c] /\ response'[c] = response[c] /\ Send(c)
      BY <2>0, <2>8, Zenon DEF FallbackOk, TypeOK
    <3>4. Stage(c)' /\ Written(c)'
      BY <2>0, <2>8, <3>0, <3>3, Zenon DEF FallbackOk, Stage, Written
    <3>5. ~Told(c) /\ Told(c)'
      BY <3>0, <3>3, Zenon DEF Told
    <3>6. Sent(c)'
      BY <2>0, <3>0, <3>3, <3>5, TellingSends, Zenon
    <3> QED BY <3>1, <3>2, <3>4, <3>6, StepOfCall, Zenon
  <2>9. ASSUME NEW c \in Calls, FallbackErr(c) PROVE IInv'
    <3>1. TypeOK'
      BY <2>0, <2>9, Zenon DEF TypeOK, FallbackErr
    <3>2. \A d \in Calls : d # c => Same(d)
      BY <2>0, <2>9, Zenon DEF FallbackErr, TypeOK, Same
    <3>3. fallback[c] = "writing" /\ fallback'[c] = "failed"
      BY <2>0, <2>9, Zenon DEF FallbackErr, TypeOK
    <3>4. Stage(c)' /\ Written(c)'
      BY <2>0, <2>9, <3>3, Zenon DEF FallbackErr, Stage, Written
    <3>5. Sent(c)'
      BY <2>0, <2>9, <3>3, Zenon DEF FallbackErr, Sent, Told, Results
    <3> QED BY <3>1, <3>2, <3>4, <3>5, StepOfCall, Zenon
  <2>10. ASSUME NEW c \in Calls, NEW k \in {"primary", "fallback"}, Commit(c, k) PROVE IInv'
    <3>0. outcome[c] # Absent
      BY <2>0, <2>10, Zenon DEF Commit, Written
    <3>1. TypeOK'
      BY <2>0, <2>10, ZenonT(30) DEF TypeOK, Commit
    <3>2. \A d \in Calls : d # c => Same(d)
      BY <2>0, <2>10, Zenon DEF Commit, TypeOK, Same
    <3>3. /\ acked'[c] = acked[c] \cup {k} /\ inserts'[c] = inserts[c] \ {k}
          /\ row'[c] = IF row[c] = Absent THEN outcome[c] ELSE row[c]
      BY <2>0, <2>10, Zenon DEF Commit, TypeOK
    <3>4. Stage(c)'
      BY <2>0, <2>10, <3>3, Zenon DEF Commit, Stage
    <3>5. row'[c] = outcome[c]
      BY <2>0, <3>3, Zenon DEF Written
    <3>6. Written(c)'
      BY <2>0, <2>10, <3>0, <3>3, <3>5, Zenon DEF Commit, Written
    <3>7. Sent(c)'
      BY <2>0, <2>10, Zenon DEF Commit, Sent, Told, Results
    <3> QED BY <3>1, <3>2, <3>4, <3>6, <3>7, StepOfCall, Zenon
  <2>11. ASSUME NEW c \in Calls, NEW k \in {"primary", "fallback"}, Lose(c, k) PROVE IInv'
    <3>1. TypeOK'
      BY <2>0, <2>11, Zenon DEF TypeOK, Lose
    <3>2. \A d \in Calls : d # c => Same(d)
      BY <2>0, <2>11, Zenon DEF Lose, TypeOK, Same
    <3>3. inserts'[c] = inserts[c] \ {k} /\ k \in inserts[c]
      BY <2>0, <2>11, Zenon DEF Lose, TypeOK
    <3>4. Stage(c)' /\ Sent(c)'
      BY <2>0, <2>11, Zenon DEF Lose, Stage, Sent, Told, Results
    <3>5. Written(c)'
      BY <2>0, <2>11, <3>3, Zenon DEF Lose, Written
    <3> QED BY <3>1, <3>2, <3>4, <3>5, StepOfCall, Zenon
  <2>12. ASSUME Stop PROVE IInv'
    <3>1. TypeOK'
      BY <2>0, <2>12, Zenon DEF TypeOK, Stop
    <3>2. ASSUME NEW d \in Calls PROVE Stage(d)' /\ Written(d)' /\ Sent(d)'
      <4>1. /\ pc'[d] = IF pc[d] \in {"work", "writing"} THEN "stopped" ELSE pc[d]
            /\ fallback'[d] = IF fallback[d] \in {"spawned", "writing"} THEN "lost" ELSE fallback[d]
        BY <2>12, Zenon DEF Stop
      <4>2. Stage(d)'
        BY <2>0, <2>12, <4>1, Zenon DEF Stop, Stage
      <4>3. Written(d)'
        BY <2>0, <2>12, <4>1, Zenon DEF Stop, Written, Stage
      <4>4. Told(d)' <=> Told(d)
        BY <2>12, <4>1, Zenon DEF Stop, Told
      <4>5. Sent(d)'
        BY <2>0, <2>12, <4>4, Zenon DEF Stop, Sent, Results
      <4> QED BY <4>2, <4>3, <4>5, Zenon
    <3> QED BY <3>1, <3>2, Zenon DEF IInv
  <2>13. ASSUME UNCHANGED auditVars PROVE IInv'
    <3>1. \A d \in Calls : Same(d)
      BY <2>13, Zenon DEF auditVars, Same
    <3>2. TypeOK'
      BY <2>0, <2>13, Zenon DEF auditVars, TypeOK
    <3> QED BY <2>0, <3>1, <3>2, Untouched, Zenon DEF IInv
  <2> QED
    BY <2>1, <2>2, <2>3, <2>4, <2>5, <2>6, <2>7, <2>8, <2>9, <2>10, <2>11, <2>12, <2>13, Zenon
    DEF AuditNext, Dispatch, Work, Detached
<1> QED BY <1>1, <1>2, PTL DEF AuditSpec

\* Every variable keeps its type.
THEOREM TypeCorrect == AuditSpec => []TypeOK
<1>1. IInv => TypeOK
  BY Zenon DEF IInv
<1> QED BY <1>1, AuditInvariance, PTL

\* No tool result reaches a client without its durable row.
THEOREM NothingUnaudited == AuditSpec => []ResultIsAudited
<1>1. IInv => ResultIsAudited
  BY Zenon DEF IInv, ResultIsAudited, Written, Stage
<1> QED BY <1>1, AuditInvariance, PTL

\* The stream never runs ahead of, repeats or contradicts the durable rows.
THEOREM StreamFaithful == AuditSpec => []StreamMatchesRow
<1>1. IInv => StreamMatchesRow
  <2> SUFFICES ASSUME IInv, NEW c \in Calls, NEW o \in Results
               PROVE streamed[c][o] <= 1 /\ (streamed[c][o] = 1 => row[c] = o)
    BY Zenon DEF StreamMatchesRow
  <2>1. streamed[c][o] = IF o = outcome[c] /\ Told(c) THEN 1 ELSE 0
    BY Zenon DEF IInv, Sent
  <2>2. Told(c) => row[c] = outcome[c]
    BY Zenon DEF IInv, Told, Written
  <2> QED BY <2>1, <2>2, SmallNumbers, Zenon
<1> QED BY <1>1, AuditInvariance, PTL

\* The call counter counts every call that ended once.
THEOREM CountedExactlyOnce == AuditSpec => []CountedOnce
<1>1. IInv => CountedOnce
  BY Zenon DEF IInv, CountedOnce, Stage
<1> QED BY <1>1, AuditInvariance, PTL

\* A row is missing only while the detached write is under way, or after it
\* failed or the process stopped.
THEOREM MissingRowExplained == AuditSpec => []LostOnlyTwice
<1>1. IInv => LostOnlyTwice
  <2> SUFFICES ASSUME IInv, NEW c \in Calls, pc[c] \in {"done", "dropped"}, row[c] = Absent
               PROVE fallback[c] \in {"spawned", "writing", "failed", "lost"}
    BY Zenon DEF LostOnlyTwice
  <2>1. acked[c] = {} /\ outcome[c] # Absent
    BY Zenon DEF IInv, Stage, Written
  <2>2. fallback[c] # "none" /\ fallback[c] # "done"
    BY <2>1, Zenon DEF IInv, Stage, Written
  <2> QED BY <2>2, Zenon DEF IInv, TypeOK
<1> QED BY <1>1, AuditInvariance, PTL

=============================================================================
