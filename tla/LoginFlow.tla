----------------------------- MODULE LoginFlow -----------------------------
(***************************************************************************)
(* Signing in: /register, /authorize, /auth/login, the round-trip through  *)
(* the identity provider to /auth/callback, and the redemption of the      *)
(* authorization code at /token (src/transport/oauth, auth_routes.rs, the  *)
(* PendingFlows and AuthCodes of oauth_state.rs, auth/oidc).               *)
(*                                                                         *)
(* A login is named by the state that /authorize or /auth/login drew for   *)
(* it; its nonce and both PKCE pairs are drawn along with it and belong to *)
(* no other login. Flows and codes are in memory, registrations are not.   *)
(* Browsers reload callbacks, mix up tabs and give up at any point.        *)
(***************************************************************************)
EXTENDS ClientRegistry, Sequences

CONSTANTS
    Requests,    \* HTTP requests in flight
    States,      \* logins
    Codes,       \* authorization codes
    Subs,        \* subjects at the identity provider
    Registrations, \* sets of URIs that clients register
    Cached,      \* client ids that clients still use from a lost registration
    FlowTtl,     \* FLOW_TTL
    CodeTtl,     \* CODE_TTL
    FlowCap,     \* PENDING_FLOWS_MAX_SIZE
    CodeCap      \* AUTH_CODES_MAX_SIZE

\* What a login was started with, a PendingFlow and an AuthCode; a login of /auth/login has
\* no client.
Bridges == [client : Clients \cup {None}, uri : Uris \cup {None}]
Flows == [client : Clients \cup {None}, uri : Uris \cup {None}, age : Nat]
Grants == [state : States, sub : Subs, client : Clients, uri : Uris, age : Nat]

ASSUME LoginAssumption ==
    /\ IsFiniteSet(Requests) /\ IsFiniteSet(Clients)
    /\ Cached \subseteq Clients /\ Registrations \subseteq SUBSET Uris
    /\ FlowTtl \in Nat \ {0} /\ CodeTtl \in Nat \ {0}
    /\ FlowCap \in Nat /\ CodeCap \in Nat
    /\ None \notin States \cup Codes \cup Subs
    /\ None \notin Bridges \cup Flows \cup Grants

VARIABLES
    flows,       \* PendingFlows: state -> [client, uri, age], or None
    codes,       \* AuthCodes: code -> [state, sub, client, uri, age], or None
    req,         \* requests: where they are and what they carry
    idp,         \* the identity provider: who signed in, by the nonce's login
    sessions,    \* subjects of the sessions handed to the client of a login
    known,       \* client ids that a client has
    origin,      \* history: client and URI a login was started with, or None
    minted,      \* history: codes drawn
    registered,  \* history: URIs /register recorded, by client
    contested    \* history: clients adopted, or whose lookup failed

loginVars == <<flows, codes, idp, sessions, origin, minted>>
registryVars == <<clients, known, registered, contested>>
vars == <<loginVars, registryVars, req>>

Idle == [pc |-> "idle", client |-> None, uri |-> None, uris |-> {}, state |-> None,
         code |-> None, sub |-> None]

Init ==
    /\ clients = [c \in Clients |-> None] /\ known = Cached
    /\ flows = [s \in States |-> None] /\ codes = [k \in Codes |-> None]
    /\ req = [r \in Requests |-> Idle]
    /\ idp = [s \in States |-> None] /\ sessions = [s \in States |-> <<>>]
    /\ origin = [s \in States |-> None] /\ minted = {}
    /\ registered = [c \in Clients |-> {}] /\ contested = {}

Goto(r, pc) == req' = [req EXCEPT ![r].pc = pc]
Answer(r) == req' = [req EXCEPT ![r] = Idle]

-----------------------------------------------------------------------------
\* /register: the id is drawn here, and handed out once it is stored.
Register(r, c, uris) ==
    /\ req[r].pc = "idle"
    /\ c \notin known /\ clients[c] = None /\ \A q \in Requests : req[q].client # c
    /\ uris # {} /\ \A u \in uris : is_valid_redirect_uri(u)
    /\ clients' = Deleted
    /\ req' = [req EXCEPT ![r] = [Idle EXCEPT !.pc = "exists", !.client = c, !.uris = uris]]
    /\ UNCHANGED <<loginVars, known, registered, contested>>

\* Mutant: any URI of an unknown client is adopted.
UnknownAdopts(r, c, u) == req' = [req EXCEPT ![r] =
    [Idle EXCEPT !.pc = "delete", !.client = c, !.uri = u, !.uris = {u}]]

\* An unknown client is adopted for a loopback URI and refused otherwise.
Unknown(r, c, u) ==
    IF is_loopback_redirect_uri(u)
    THEN req' = [req EXCEPT ![r] =
           [Idle EXCEPT !.pc = "delete", !.client = c, !.uri = u, !.uris = {u}]]
    ELSE UNCHANGED req

\* /authorize, up to and with the lookup of the client.
Authorize(r, c, u) ==
    /\ req[r].pc = "idle" /\ c \in known
    /\ clients' = Touched(c)
    /\ \/ ~Live(c) /\ Unknown(r, c, u)
       \/ /\ Live(c) /\ \E v \in clients[c].uris : redirect_uri_matches(v, u)
          /\ req' = [req EXCEPT ![r] = [Idle EXCEPT !.pc = "start", !.client = c, !.uri = u]]
       \/ /\ Live(c) /\ \A v \in clients[c].uris : ~redirect_uri_matches(v, u)
          /\ UNCHANGED req
    /\ UNCHANGED <<loginVars, known, registered, contested>>

\* A lookup that fails, executed or not, counts as an unknown client.
AuthorizeUnresolved(r, c, u) ==
    /\ req[r].pc = "idle" /\ c \in known
    /\ clients' \in {clients, Touched(c)}
    /\ Unknown(r, c, u)
    /\ contested' = contested \cup {c}
    /\ UNCHANGED <<loginVars, known, registered>>

-----------------------------------------------------------------------------
\* insert_db, statement by statement, for /register and for an adoption.
InsertDelete(r) ==
    /\ req[r].pc = "delete"
    /\ clients' = Deleted
    /\ Goto(r, "exists")
    /\ UNCHANGED <<loginVars, known, registered, contested>>

InsertExists(r) ==
    /\ req[r].pc = "exists"
    /\ Goto(r, IF clients[req[r].client] # None THEN "upsert" ELSE "count")
    /\ UNCHANGED <<loginVars, registryVars>>

InsertCount(r) ==
    /\ req[r].pc = "count"
    /\ IF Cardinality(Rows) >= ClientCap THEN Answer(r) ELSE Goto(r, "upsert")
    /\ UNCHANGED <<loginVars, registryVars>>

\* The last statement; its answer may be lost, which fails the request.
InsertUpsert(r, answered) ==
    LET c == req[r].client
        fresh == req[r].uri = None
    IN  /\ req[r].pc = "upsert"
        /\ clients' = Upserted(c, req[r].uris)
        /\ registered' = IF fresh THEN [registered EXCEPT ![c] = req[r].uris] ELSE registered
        /\ contested' = IF fresh THEN contested ELSE contested \cup {c}
        /\ known' = IF fresh /\ answered THEN known \cup {c} ELSE known
        /\ IF ~fresh /\ answered THEN Goto(r, "start") ELSE Answer(r)
        /\ UNCHANGED loginVars

-----------------------------------------------------------------------------
\* /auth/login
Login(r) ==
    /\ req[r].pc = "idle"
    /\ req' = [req EXCEPT ![r] = [Idle EXCEPT !.pc = "start"]]
    /\ UNCHANGED <<loginVars, registryVars>>

\* At the cap, expired entries make room.
Reclaimed(map, cap, ttl) ==
    IF Cardinality({x \in DOMAIN map : map[x] # None}) < cap THEN map
    ELSE [x \in DOMAIN map |->
            IF map[x] # None /\ map[x].age >= ttl THEN None ELSE map[x]]

Full(map, cap) == Cardinality({x \in DOMAIN map : map[x] # None}) >= cap

\* insert_flow, and the browser is sent to the identity provider.
InsertFlow(r, s) ==
    LET room == Reclaimed(flows, FlowCap, FlowTtl)
        bridge == [client |-> req[r].client, uri |-> req[r].uri]
    IN  /\ req[r].pc = "start" /\ origin[s] = None
        /\ ~Full(room, FlowCap)
        /\ flows' = [room EXCEPT ![s] = [client |-> bridge.client, uri |-> bridge.uri, age |-> 0]]
        /\ origin' = [origin EXCEPT ![s] = bridge]
        /\ Answer(r)
        /\ UNCHANGED <<codes, idp, sessions, minted, registryVars>>

FlowsFull(r) ==
    /\ req[r].pc = "start"
    /\ flows' = Reclaimed(flows, FlowCap, FlowTtl)
    /\ Full(flows', FlowCap)
    /\ Answer(r)
    /\ UNCHANGED <<codes, idp, sessions, origin, minted, registryVars>>

\* A user signs in at the identity provider for this login.
SignIn(s, sub) ==
    /\ origin[s] # None /\ idp[s] = None
    /\ idp' = [idp EXCEPT ![s] = sub]
    /\ UNCHANGED <<flows, codes, sessions, origin, minted, registryVars, req>>

-----------------------------------------------------------------------------
\* Mutant: the flow is read and left in place.
CallbackKeeps(r, s, k) ==
    /\ req[r].pc = "idle" /\ idp[k] # None /\ flows[s] # None
    /\ flows[s].age < FlowTtl
    /\ req' = [req EXCEPT ![r] = [Idle EXCEPT !.pc = "exchange", !.state = s, !.code = k,
                                    !.client = flows[s].client, !.uri = flows[s].uri]]
    /\ UNCHANGED <<loginVars, registryVars>>

\* /auth/callback with a state and an IdP code that may be another login's:
\* PendingFlows::take.
Callback(r, s, k) ==
    /\ req[r].pc = "idle" /\ idp[k] # None /\ flows[s] # None
    /\ flows' = [flows EXCEPT ![s] = None]
    /\ IF flows[s].age < FlowTtl
       THEN req' = [req EXCEPT ![r] = [Idle EXCEPT !.pc = "exchange", !.state = s, !.code = k,
                                         !.client = flows[s].client, !.uri = flows[s].uri]]
       ELSE UNCHANGED req
    /\ UNCHANGED <<codes, idp, sessions, origin, minted, registryVars>>

\* Mutant: the nonce of the ID token is not compared.
ExchangeAnyNonce(r) ==
    /\ req[r].pc = "exchange"
    /\ req' = [req EXCEPT ![r].pc = IF req[r].client = None THEN "create" ELSE "mint",
                          ![r].sub = idp[req[r].code]]
    /\ UNCHANGED <<loginVars, registryVars>>

\* exchange_and_verify: the ID token's nonce is the one of its own login.
Exchange(r) ==
    /\ req[r].pc = "exchange" /\ req[r].code = req[r].state
    /\ req' = [req EXCEPT ![r].pc = IF req[r].client = None THEN "create" ELSE "mint",
                          ![r].sub = idp[req[r].code]]
    /\ UNCHANGED <<loginVars, registryVars>>

\* complete_bridge_login: a code for the client, or temporarily_unavailable.
Mint(r, k) ==
    LET room == Reclaimed(codes, CodeCap, CodeTtl)
    IN  /\ req[r].pc = "mint" /\ k \notin minted
        /\ ~Full(room, CodeCap)
        /\ codes' = [room EXCEPT ![k] =
             [state |-> req[r].state, sub |-> req[r].sub, client |-> req[r].client,
              uri |-> req[r].uri, age |-> 0]]
        /\ minted' = minted \cup {k}
        /\ Answer(r)
        /\ UNCHANGED <<flows, idp, sessions, origin, registryVars>>

CodesFull(r) ==
    /\ req[r].pc = "mint"
    /\ codes' = Reclaimed(codes, CodeCap, CodeTtl)
    /\ Full(codes', CodeCap)
    /\ Answer(r)
    /\ UNCHANGED <<flows, idp, sessions, origin, minted, registryVars>>

\* /token: the client of login s presents a code with the verifier and the URI of that login;
\* its client_id must match "when sent".
Redeem(r, s, k) ==
    LET entry == codes[k]
    IN  /\ req[r].pc = "idle" /\ origin[s] # None /\ entry # None
        /\ codes' = [codes EXCEPT ![k] = None]
        /\ \E sent \in {None, origin[s].client} :
           IF /\ entry.age < CodeTtl
              /\ sent \in {None, entry.client} /\ origin[s].uri = entry.uri
              /\ entry.state = s
           THEN req' = [req EXCEPT ![r] =
                  [Idle EXCEPT !.pc = "create", !.state = s, !.sub = entry.sub]]
           ELSE UNCHANGED req
        /\ UNCHANGED <<flows, idp, sessions, origin, minted, registryVars>>

CreateSession(r) ==
    /\ req[r].pc = "create"
    /\ sessions' = [sessions EXCEPT ![req[r].state] = Append(@, req[r].sub)]
    /\ Answer(r)
    /\ UNCHANGED <<flows, codes, idp, origin, minted, registryVars>>

\* A statement or the identity provider fails, the request is malformed, or
\* its client goes away: whatever the handler has done so far stands.
Abandon(r) ==
    /\ req[r].pc # "idle" /\ Answer(r)
    /\ UNCHANGED <<loginVars, registryVars>>

-----------------------------------------------------------------------------
\* spawn_oauth_state_gc
GcFlows ==
    /\ flows' = Reclaimed(flows, 0, FlowTtl)
    /\ UNCHANGED <<codes, idp, sessions, origin, minted, registryVars, req>>

GcCodes ==
    /\ codes' = Reclaimed(codes, 0, CodeTtl)
    /\ UNCHANGED <<flows, idp, sessions, origin, minted, registryVars, req>>

Older(map, ttl) == [x \in DOMAIN map |->
    IF map[x] = None \/ map[x].age = ttl THEN map[x] ELSE [map[x] EXCEPT !.age = @ + 1]]

Tick ==
    /\ clients' = Older(clients, ClientTtl)
    /\ flows' = Older(flows, FlowTtl) /\ codes' = Older(codes, CodeTtl)
    /\ UNCHANGED <<idp, sessions, origin, minted, known, registered, contested, req>>

Restart ==
    /\ flows' = [s \in States |-> None] /\ codes' = [k \in Codes |-> None]
    /\ req' = [r \in Requests |-> Idle]
    /\ UNCHANGED <<idp, sessions, origin, minted, registryVars>>

Next ==
    \/ \E r \in Requests :
         \/ \E c \in Clients : \/ \E uris \in Registrations : Register(r, c, uris)
                               \/ \E u \in Uris : Authorize(r, c, u)
                                                \/ AuthorizeUnresolved(r, c, u)
         \/ InsertDelete(r) \/ InsertExists(r) \/ InsertCount(r)
         \/ \E answered \in BOOLEAN : InsertUpsert(r, answered)
         \/ Login(r) \/ FlowsFull(r) \/ Exchange(r) \/ CodesFull(r)
         \/ CreateSession(r) \/ Abandon(r)
         \/ \E s \in States : \/ InsertFlow(r, s)
                              \/ \E k \in States : Callback(r, s, k)
                              \/ \E k \in Codes : Redeem(r, s, k)
         \/ \E k \in Codes : Mint(r, k)
    \/ \E s \in States, sub \in Subs : SignIn(s, sub)
    \/ GcFlows \/ GcCodes \/ Tick \/ Restart

Spec == Init /\ [][Next]_vars

-----------------------------------------------------------------------------
\* "a client can only be sent an authorization code at a URI it pre-registered"
\* (client_registry.rs:54-55), or on the user's own machine: whatever happened
\* to the registration since, no code goes to an https URI that /register did
\* not record for this very client.
CodeGoesHome == \A k \in Codes : codes[k] # None =>
    \/ codes[k].uri \in registered[codes[k].client]
    \/ is_loopback_redirect_uri(codes[k].uri)

\* The client of a login gets the identity of the user who signed in for that
\* login, though callbacks and codes of several logins may be mixed up: the
\* nonce and PKCE checks of /auth/callback and /token.
IdentityOfOwnLogin == \A s \in States :
    \A i \in DOMAIN sessions[s] : sessions[s][i] = idp[s]

\* A login ends in at most one session: reloaded callbacks and replayed codes
\* find nothing, and an abandoned login "leaves no orphan session".
OneSessionPerLogin == \A s \in States : Len(sessions[s]) <= 1

\* "rejects the new registration rather than evicting a live client": what
\* /register recorded stays as long as it is live, through other clients'
\* registrations at the cap, sweeps and restarts. The exception is a client
\* whose lookup failed or which was adopted after its registration lapsed.
LiveRegistrationKept == [][\A c \in Clients \ contested :
    Live(c) => clients'[c] # None /\ clients'[c].uris = clients[c].uris]_vars
=============================================================================
