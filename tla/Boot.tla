-------------------------------- MODULE Boot --------------------------------
(***************************************************************************)
(* Startup as main.rs runs it: read and validate the document, resolve     *)
(* every secret once to fail fast, resolve the service tokens again to     *)
(* build the token store (src/auth/service_token.rs), read the             *)
(* environment, connect, mount the router, serve. Any failure ends the     *)
(* process before it serves. Secret files belong to the platform and may   *)
(* be rewritten at any moment between two of these steps.                  *)
(***************************************************************************)
EXTENDS GatewayConfig

CONSTANTS
    Docs,          \* documents the operator may supply
    Envs,          \* environments
    Contents,      \* contents of a secret file
    MaxRotations   \* bound on rewrites of secret files

\* service_accounts of a document is a list, and MCP_PATH one of segments.
IsList(s) == s \in Seq({s[i] : i \in DOMAIN s})
ASSUME BootAssumption ==
    /\ \A d \in Docs : IsList(d.accounts)
    /\ \A e \in Envs : IsList(e.mcp_path.segments)

VARIABLES
    doc, env, files,
    phase,         \* how far startup is
    at,            \* the next reference or account
    store,         \* ServiceTokenStore: accounts with their tokens, in order
    rotations

bootVars == <<doc, env, files, phase, at, store, rotations>>

BootInit(initFiles) ==
    /\ doc \in Docs
    /\ env \in Envs
    /\ files \in initFiles
    /\ phase = "load"
    /\ at = 1
    /\ store = <<>>
    /\ rotations = 0

\* A secret mount is updated. The token store reads no file once it is built.
RotateSecret(f, content) ==
    /\ phase \in {"load", "secrets", "tokens"}
    /\ rotations < MaxRotations
    /\ content # files[f]
    /\ files' = [files EXCEPT ![f] = content]
    /\ rotations' = rotations + 1
    /\ UNCHANGED <<doc, env, phase, at, store>>

\* phase p is done when ok, otherwise main returns an error.
Then(ok, p) ==
    /\ phase' = IF ok THEN p ELSE "aborted"
    /\ at' = 1
    /\ UNCHANGED <<doc, env, files, store, rotations>>

\* ConfigFile::from_file: parse, then validate.
LoadFile ==
    /\ phase = "load"
    /\ Then(Each(SecretRefs(doc), ParsesAs) /\ Validate(doc), "secrets")

\* resolve_secrets: the values are dropped, the first failure aborts.
ResolveSecret ==
    /\ phase = "secrets"
    /\ LET refs == SecretRefs(doc) IN
         IF at <= Len(refs) /\ Resolve(refs[at], files) # NoSecret
         THEN at' = at + 1 /\ UNCHANGED <<doc, env, files, phase, store, rotations>>
         ELSE Then(at > Len(refs), "tokens")

\* Mutant of ResolveToken: the values are compared as the files have them.
ResolveTokenRaw ==
    /\ phase = "tokens"
    /\ LET account == doc.accounts[at]
           token == Resolve(account.token, files)
           ok == /\ at <= Len(doc.accounts)
                 /\ token # NoSecret /\ IsWellFormedToken(token)
                 /\ \A i \in DOMAIN store : doc.accounts[i].token # account.token
       IN IF ok
          THEN /\ store' = Append(store, [name |-> account.name, group |-> account.group,
                                          token |-> token])
               /\ at' = at + 1
               /\ UNCHANGED <<doc, env, files, phase, rotations>>
          ELSE Then(at > Len(doc.accounts), "env")

\* ServiceTokenStore::from_config, one account: resolved again, of the right
\* shape, and not the token of an account before it.
ResolveToken ==
    /\ phase = "tokens"
    /\ LET account == doc.accounts[at]
           token == Resolve(account.token, files)
           ok == /\ at <= Len(doc.accounts)
                 /\ token # NoSecret /\ IsWellFormedToken(token)
                 /\ \A i \in DOMAIN store : store[i].token # token
       IN IF ok
          THEN /\ store' = Append(store, [name |-> account.name, group |-> account.group,
                                          token |-> token])
               /\ at' = at + 1
               /\ UNCHANGED <<doc, env, files, phase, rotations>>
          ELSE Then(at > Len(doc.accounts), "env")

ReadEnv == phase = "env" /\ Then(FromEnv(env) /\ AuthFromEnv(env), "connect")

\* The state database is reached and migrated, and so is a MySQL store,
\* which needs PERMISSIONS_DB_DSN.
Connect(up) ==
    /\ phase = "connect"
    /\ Then(up /\ (doc.driver = "mysql" => env.dsn), "mount")

\* The router, the signal handlers, the certificate and the listener.
Mount(ok) == phase = "mount" /\ Then(ok, "serving")

BootNext ==
    \/ \E f \in DOMAIN files, c \in Contents : RotateSecret(f, c)
    \/ LoadFile \/ ResolveSecret \/ ResolveToken \/ ReadEnv
    \/ \E ok \in BOOLEAN : Connect(ok) \/ Mount(ok)

-----------------------------------------------------------------------------
\* "Two accounts resolving to the same value would make audit attribution
\* ambiguous" (service_token.rs:86): no two accounts of a gateway that serves
\* have one token, whatever was written to the secret files between their
\* two resolutions and whatever newlines end them.
OneAccountPerToken == phase = "serving" =>
    /\ Len(store) = Len(doc.accounts)
    /\ \A i, j \in DOMAIN store : store[i].token = store[j].token => i = j

\* The list of reserved paths is "kept in sync by hand with transport::router"
\* (config/mod.rs:302): whatever MCP_PATH the environment gives, the router
\* mounts no path twice, so that building it cannot panic.
MountsOnce == phase = "mount" =>
    LET routes == Routes(doc, env.mcp_path.segments)
    IN \A i, j \in DOMAIN routes : routes[i] = routes[j] => i = j
=============================================================================
