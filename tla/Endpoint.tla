------------------------------ MODULE Endpoint ------------------------------
(***************************************************************************)
(* A gateway from startup to its answers: Boot, then the layers a request  *)
(* passes (src/transport/mod.rs) - bearer_auth, the concurrency limiter of *)
(* ConcurrencyLimiter, the JSON-RPC endpoint (post_handler, jsonrpc.rs,    *)
(* dispatch.rs) - and, on the admin routes, bearer_auth and the admin gate *)
(* (admin/middleware.rs) with no limiter.                                  *)
(*                                                                         *)
(* Sessions are SessionStore's and tool calls AuditDispatch's; here a      *)
(* session credential resolves to its user or does not, and a tool call is *)
(* the permits held while it runs.                                         *)
(***************************************************************************)
EXTENDS Boot, ConcurrencyLimiter, Integers

CONSTANTS
    Users,       \* subjects that log in
    UserGroups,  \* [Users -> SUBSET groups]: what the IdP said at login
    Ages         \* ages of a session, negative when it is from the future

VARIABLE last    \* the latest answer the gateway gave, or NoAnswer

endpointVars == <<map, req, forgotten, last>>

NoAnswer == [to |-> "nobody"]

EndpointInit == Init /\ last = NoAnswer

Accounts == {<<"service", name>> : name \in Labels}

\* No user's subject is the "service:<name>" of an account: the gateway takes
\* subjects from the identity provider as they are.
ASSUME EndpointAssumption ==
    /\ Users \cup Accounts \subseteq Identities
    /\ Users \cap Accounts = {}

-----------------------------------------------------------------------------
\* ServiceTokenStore::authenticate: the first entry with the token.
Matching(token) == {i \in DOMAIN store : store[i].token = token}

ServiceIdentity(i) == [sub |-> <<"service", store[i].name>>, groups |-> {store[i].group}, age |-> 0]

\* bearer_auth: a static token first, then the session of a signed bearer.
\* The identities a credential may stand for; none is 401.
BearerAuth(cred) ==
    IF cred \in Users
    THEN {[sub |-> cred, groups |-> UserGroups[cred], age |-> age] : age \in Ages}
    ELSE {ServiceIdentity(i) : i \in {j \in Matching(cred) : \A k \in Matching(cred) : j <= k}}

\* require_admin_group: 403 without the group, and when the session's age is
\* over admin.session_max_age_secs or cannot be measured.
RequireAdminGroup(identity) ==
    /\ doc.admin.group \in identity.groups
    /\ doc.admin.max_age # None => identity.age \in 0..doc.admin.max_age

\* A request to /admin/v1: mounted only when enabled, and not limited.
AdminRequest(cred) ==
    /\ phase = "serving" /\ doc.admin.enabled
    /\ \E identity \in BearerAuth(cred) :
         last' = [to |-> "admin", by |-> identity.sub, ok |-> RequireAdminGroup(identity)]
    /\ UNCHANGED <<bootVars, map, req, forgotten>>

-----------------------------------------------------------------------------
(* JSON-RPC. A body is unreadable, or a message with a version, an id and  *)
(* a method. Absent and null ids differ; other is a boolean, array, object *)
(* or fraction, usable a string or an integer. A query is initialize, ping *)
(* or tools/list, which answer without state.                              *)

Ids == {"absent", "null", "other", "usable"}
Methods == {"query", "notifications/initialized", "tools/call", "unknown"}
Bodies == {[readable |-> FALSE, version |-> FALSE, id |-> "absent", method |-> "unknown"]} \cup
          [readable : {TRUE}, version : {FALSE}, id : Ids, method : {"tools/call"}] \cup
          [readable : {TRUE}, version : {TRUE}, id : Ids, method : Methods]

IsNotification(id) == id = "absent"
IsInvalidType(id) == id = "other"
ResponseId(id) == IF id = "absent" THEN "null" ELSE id

Accepted == [status |-> 202, id |-> "none", error |-> "none"]
Response(id, error) == [status |-> 200, id |-> id, error |-> error]

\* dispatch, for every method but tools/call.
Dispatch(body) ==
    IF IsNotification(body.id) THEN Accepted
    ELSE Response(ResponseId(body.id),
        IF body.id = "null" \/ IsInvalidType(body.id) THEN "invalid_request"
        ELSE CASE body.method = "query" -> "none"
               [] body.method = "notifications/initialized" -> "invalid_request"
               [] OTHER -> "method_not_found")

\* Mutant of RunsTool: a call without an id is run and nobody told.
RunsToolUnasked(body) ==
    /\ body.readable /\ body.version
    /\ body.method = "tools/call"
    /\ body.id # "null" /\ ~IsInvalidType(body.id)

\* post_handler reaches tools::dispatch_call.
RunsTool(body) ==
    /\ body.readable /\ body.version
    /\ body.method = "tools/call"
    /\ ~IsNotification(body.id) /\ body.id # "null" /\ ~IsInvalidType(body.id)

\* What post_handler answers to a body that runs no tool.
Reply(body) ==
    CASE ~body.readable -> Response("null", "parse_error")
      [] body.readable /\ ~body.version -> Response(ResponseId(body.id), "invalid_request")
      [] body.readable /\ body.version /\ body.method = "tools/call" ->
            IF IsNotification(body.id) THEN Accepted
            ELSE Response(ResponseId(body.id), "invalid_request")
      [] OTHER -> Dispatch(body)

Answer(body, reply, ran) == [to |-> "mcp", body |-> body, reply |-> reply, ran |-> ran]

\* The limiter's request r is inside the layers.
Enter(r, cred) ==
    /\ phase = "serving"
    /\ \E sub \in {identity.sub : identity \in BearerAuth(cred)} : TryGlobal(r, sub)
    /\ last' = NoAnswer
    /\ UNCHANGED bootVars

\* The open OAuth routes have the global cap alone.
EnterOpen(r) ==
    /\ phase = "serving"
    /\ TryGlobal(r, None)
    /\ last' = NoAnswer
    /\ UNCHANGED bootVars

Limit(r) ==
    /\ (\E sem \in Sems : LookUp(r, sem)) \/ Acquire(r) \/ RateLimited(r)
    /\ last' = NoAnswer
    /\ UNCHANGED bootVars

\* The handler answers and the permits go; a tool call has run until now.
Handle(r, body) ==
    /\ req[r].pc = "running" /\ req[r].id # None
    /\ Release(r)
    /\ last' = IF RunsTool(body)
               THEN Answer(body, Response(body.id, "none"), TRUE)
               ELSE Answer(body, Reply(body), FALSE)
    /\ UNCHANGED bootVars

\* The client goes away, or an OAuth handler is done.
Leave(r) == Release(r) /\ last' = NoAnswer /\ UNCHANGED bootVars

EndpointNext ==
    \/ \E cred \in Users \cup Tokens : AdminRequest(cred)
    \/ \E r \in Requests :
         \/ \E cred \in Users \cup Tokens : Enter(r, cred)
         \/ EnterOpen(r)
         \/ Limit(r)
         \/ \E body \in Bodies : Handle(r, body)
         \/ Leave(r)

GatewayVars == <<bootVars, endpointVars>>

GatewayNext == (BootNext /\ UNCHANGED endpointVars) \/ EndpointNext

\* The secret files have any contents when the process starts.
GatewaySpec(initFiles) ==
    BootInit(initFiles) /\ EndpointInit /\ [][GatewayNext]_GatewayVars

-----------------------------------------------------------------------------
\* "a service token must never authorize /admin/*" (yaml.rs:498): the check
\* is on the document, the gate on the group alone, and between them lie the
\* token store and bearer_auth. No answer of the admin API is a success for a
\* service account, whatever document the gateway started from.
ServiceNeverAdmin == last.to = "admin" /\ last.ok => last.by \notin Accounts

\* A tool call runs only when its outcome can reach the caller: it was not a
\* notification, and the answer carries the id the caller sent. Conversely a
\* message that is not a notification is always answered, with its own id
\* unless it had none that can be read.
RunsOnlyAnswerable == last.to = "mcp" =>
    /\ last.ran => last.body.id = "usable" /\ last.reply.id = last.body.id
    /\ last.reply.status = 202 => last.body.readable /\ last.body.id = "absent"
    /\ last.body.readable /\ last.body.id # "absent" => last.reply.id = last.body.id
=============================================================================
