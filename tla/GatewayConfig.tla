--------------------------- MODULE GatewayConfig ---------------------------
(***************************************************************************)
(* The operator's input and what the gateway accepts of it: the YAML       *)
(* document (src/config/yaml.rs, schema.rs), secret references             *)
(* (config/secret.rs), the environment (config/mod.rs, auth/config.rs) and *)
(* the routes the router mounts (transport/mod.rs, transport/admin/mod.rs).*)
(* Names are strings; "" stands for an empty or blank one, "*" is the      *)
(* wildcard of a grant. A URL path is the sequence of its segments.        *)
(***************************************************************************)
EXTENDS Naturals, Sequences, FiniteSets

CONSTANTS
    Roles,       \* role names that fit ^[a-zA-Z_][a-zA-Z0-9_]*$, in lower case
    Labels,      \* service-account names that fit ^[a-z0-9][a-z0-9-]{0,62}$
    Trim,        \* what a file's content is without its trailing newlines
    EnvValue,    \* the process environment: variable -> value
    Tokens       \* secrets of the shape dbmcp_svc_ + 64 lowercase hex digits

\* No two entries of a list have the same name.
Distinct(list) == \A i, j \in DOMAIN list : list[i].name = list[j].name => i = j
Each(list, P(_)) == \A i \in DOMAIN list : P(list[i])
NamesIn(list) == {list[i].name : i \in DOMAIN list}

-----------------------------------------------------------------------------
(* The document. A missing admin block is a disabled one, a missing store  *)
(* block is the driver pg, a missing auth_database is "none".              *)

\* admin.group must say something, and the admin handlers speak PostgreSQL.
AdminOk(doc) == doc.admin.enabled => doc.admin.group # "" /\ doc.driver = "pg"

HasAdapter(kind) == kind \in {"postgres", "mongo"}

StockSuperuserRoles(kind) ==
    CASE kind = "postgres" -> {"postgres"} [] kind = "mongo" -> {"root", "admin"}
      [] kind = "mysql" -> {"root"} [] kind = "mssql" -> {"sa"}

ValidateRole(role) == role \in Roles

ServerOk(server) ==
    /\ HasAdapter(server.kind)
    /\ Distinct(server.databases)
    /\ Each(server.databases, LAMBDA db :
         /\ ValidateRole(db.role)
         /\ db.role \notin StockSuperuserRoles(server.kind)
         /\ db.auth # "")

\* A grant on every server still names a database that some server has.
GrantDatabaseExists(doc, grant) ==
    \E i \in DOMAIN doc.servers :
        /\ grant.server \in {"*", doc.servers[i].name}
        /\ grant.database \in NamesIn(doc.servers[i].databases)

GrantOk(doc, grant) ==
    /\ grant.server # "" /\ grant.database # ""
    /\ grant.server \in {"*"} \cup NamesIn(doc.servers)
    /\ grant.database = "*" \/ GrantDatabaseExists(doc, grant)

PermissionsOk(doc) ==
    /\ Distinct(doc.permissions)
    /\ Each(doc.permissions, LAMBDA p : p.name # "" /\ Each(p.grants, LAMBDA g : GrantOk(doc, g)))

ValidateServiceName(name) == name \in Labels

\* Mutant of AccountsOk: the admin group is like any other.
AccountsOkAnyGroup(doc) ==
    /\ Distinct(doc.accounts)
    /\ Each(doc.accounts, LAMBDA a :
         ValidateServiceName(a.name) /\ a.group # "" /\ a.group \in NamesIn(doc.permissions))

\* A service account's group is declared, and is not the admin group.
AccountsOk(doc) ==
    /\ Distinct(doc.accounts)
    /\ Each(doc.accounts, LAMBDA a :
         /\ ValidateServiceName(a.name)
         /\ a.group # "" /\ a.group \in NamesIn(doc.permissions)
         /\ doc.admin.enabled => a.group # doc.admin.group)

SinksOk(doc) == Each(doc.sinks, LAMBDA s : s.kind = "syslog" => s.host # "" /\ s.port # 0)

Validate(doc) ==
    /\ AdminOk(doc)
    /\ Distinct(doc.servers) /\ Each(doc.servers, ServerOk)
    /\ PermissionsOk(doc)
    /\ AccountsOk(doc)
    /\ SinksOk(doc)

-----------------------------------------------------------------------------
(* Secrets. NoSecret is any of the errors of SecretError.                  *)

NoSecret == "no secret"

\* Password::parse: a ${...} that is neither ENV: nor FILE: is refused when
\* the document is read.
ParsesAs(ref) == ref.form # "malformed"

\* A list with the elements f(x) of a list of lists.
Concat(lists) == LET c[i \in 0..Len(lists)] == IF i = 0 THEN <<>> ELSE c[i - 1] \o lists[i]
                 IN c[Len(lists)]

\* Every reference, in the order resolve_secrets takes them.
SecretRefs(doc) ==
    Concat([i \in DOMAIN doc.servers |->
              [j \in DOMAIN doc.servers[i].databases |-> doc.servers[i].databases[j].password]])
    \o [i \in DOMAIN doc.accounts |-> doc.accounts[i].token]

\* secret_from_file_contents: newlines at the end go, and nothing is an error.
FromFile(content) == IF content = "missing" \/ Trim[content] = "" THEN NoSecret ELSE Trim[content]

\* Password::resolve. vault:, aws-sm: and gcp-sm: are known and refused.
Resolve(ref, files) ==
    CASE ref.form = "literal" -> ref.of
      [] ref.form = "env" -> IF ref.of \in DOMAIN EnvValue THEN EnvValue[ref.of] ELSE NoSecret
      [] ref.form = "file" -> FromFile(files[ref.of])
      [] ref.form = "backend" -> NoSecret

IsWellFormedToken(secret) == secret \in Tokens

-----------------------------------------------------------------------------
(* The environment.                                                        *)

ReservedMcpPaths ==
    {<<"healthz">>, <<"readyz">>, <<"metrics">>, <<"auth", "login">>, <<"auth", "callback">>,
     <<"auth", "logout">>, <<"authorize">>, <<"token">>, <<"revoke">>, <<"register">>}
ReservedMcpPathPrefixes == {"admin", ".well-known"}

\* Mutant of ValidateMcpPath: only whole paths are reserved.
ValidateMcpPathExact(path) == path.absolute /\ path.segments # <<>>
    /\ path.segments \notin ReservedMcpPaths \cup {<<p>> : p \in ReservedMcpPathPrefixes}

\* absolute: begins with a slash and has no white space in it.
ValidateMcpPath(path) ==
    /\ path.absolute
    /\ path.segments # <<>>
    /\ path.segments \notin ReservedMcpPaths
    /\ path.segments[1] \notin ReservedMcpPathPrefixes

\* Plain HTTP has to be asked for; two readable files are TLS.
TlsFromEnv(env) ==
    CASE env.tls_disabled = "yes" -> TRUE
      [] env.tls_disabled \in {"unset", "no"} -> env.cert /\ env.key
      [] OTHER -> FALSE

\* Every number parses, and audit rows are kept for at least a day.
FromEnv(env) ==
    /\ env.numbers
    /\ ValidateMcpPath(env.mcp_path)
    /\ env.retention # 0
    /\ TlsFromEnv(env)

\* AuthConfig::from_env: outside mock mode the signing key is the operator's.
AuthFromEnv(env) == env.mock \/ env.signing_key = "long"

-----------------------------------------------------------------------------
(* The routes, in the order router merges them.                            *)

AdminRoutes == LET all(kind) == <<"admin", "v1", kind>>
                   one(kind) == <<"admin", "v1", kind, ":id">> IN
    <<all("users"), one("users"), all("databases"), one("databases"), all("grants"), one("grants")>>

Routes(doc, mcp) ==
    <<mcp, <<".well-known", "oauth-protected-resource">>,
      <<".well-known", "oauth-protected-resource">> \o mcp,
      <<".well-known", "oauth-authorization-server">>, <<".well-known", "openid-configuration">>,
      <<"healthz">>, <<"readyz">>, <<"metrics">>,
      <<"auth", "login">>, <<"auth", "callback">>, <<"authorize">>, <<"token">>, <<"revoke">>,
      <<"register">>, <<"auth", "logout">>>>
    \o IF doc.admin.enabled THEN AdminRoutes ELSE <<>>
=============================================================================
