# Formal models of db-mcp-gateway

TLA+ specifications of the gateway in `src/`, the TLC instances that check them
and TLAPS proofs about them. The gateway is an MCP server (Rust, tokio, axum)
that lets agents query Postgres and MongoDB servers: users sign in through an
identity provider, an administrator grants them databases, and every tool call
is authorised, executed under limits and audited.

## Inventory

| Part | State | Operations | Modelled in |
|---|---|---|---|
| Permission tables, admin API (`transport/admin`, `state/permissions`) | users, databases, grants rows in the state database | create, patch, delete of each | `PermissionsStore` (as atomic writes), `AdminWrites` (as transactions), `AuditedStore` (what they promise) |
| Permission audit (`audit/permissions.rs`) | the `permissions_audit` table and its sequence | one row in the transaction of each admin write | `AdminWrites` |
| Permission cache (`authz/cache.rs`, `authz/loader.rs`) | entries by subject with an age, a revision counter, a write lock, detached invalidations | `get_for`, `invalidate`, `invalidate_all`, the loader's three queries | `PermissionsCache` |
| Authorisation (`authz/mod.rs`, `authz/effective.rs`) | none | `evaluate_effective`, `can_see_server_effective`, `merge` | `Authz` |
| Guards (`exec/sql_guard.rs`, `exec/mongo/rejector.rs`) | none | `check_sql`, `is_read_only`, `validate_command` | `SqlGuard` |
| Tools (`tools`) | the call being answered | `run_query`, `explain`, `sample_table`, `describe_schema`, `list_servers`, `list_databases`, `get_query_history` | `ToolCalls` |
| Adapters (`exec/mod.rs`) | a map of once-cells, the adapters opened | `get_or_open` | `AdapterRegistry` |
| Postgres execution (`exec/pg`) | pooled connections and their backends, cancels on their way | begin, stream, describe, commit, truncate, time out, drop | `PgExec` |
| Mongo execution (`exec/mongo`) | operations on the server, kills on their way | command, drain, time out, drop | `MongoExec` |
| Audit dispatch (`tools/audit_dispatch`, `audit`) | the guard's row, INSERTs in flight, the durable row, sinks and metrics | dispatch, write, time out, drop, detached write | `AuditDispatch` |
| Sessions (`auth/session.rs`, `auth/session_cache.rs`, `transport/auth_middleware.rs`) | the `sessions` table, a bounded TTL cache on every replica | create, lookup, revoke, evict | `SessionStore` |
| Sign-in (`transport/oauth`, `transport/auth_routes.rs`, `transport/oauth_state.rs`, `auth/oidc`) | pending flows and codes in memory, requests between their steps | authorize, callback, code exchange, sweep | `LoginFlow` |
| Client registry (`transport/client_registry.rs`) | registered redirect URIs with a sliding expiry | register, look up, adopt | `ClientRegistry` |
| Refresh tokens (`transport/oauth_state.rs`, `transport/oauth/token.rs`, `revoke.rs`) | the `oauth_refresh_tokens` table, requests between take and store | redeem, rotate, revoke, purge, sweep | `RefreshTokens` |
| Concurrency caps (`transport/limit.rs`) | a global semaphore, a map of identity semaphores | admit, look up and sweep, acquire, release | `ConcurrencyLimiter` |
| Configuration and secrets (`config`, `auth/config.rs`) | none | `validate`, `resolve_secrets`, `Password::parse` and `resolve`, `from_env`, the routes of both routers | `GatewayConfig` |
| Startup, service tokens (`main.rs`, `auth/service_token.rs`) | how far startup has come, the token store, the secret files of the platform | load, resolve, build the token store, read the environment, connect, mount | `Boot` |
| Endpoint (`transport/mod.rs`, `auth_middleware.rs`, `jsonrpc.rs`, `dispatch.rs`, `admin/middleware.rs`) | the requests in flight and their permits | `bearer_auth`, `enforce`, `post_handler`, `require_admin_group` | `Endpoint`, on `Boot` and `ConcurrencyLimiter` |
| Identity provider's keys (`auth/oidc`) | the discovery document, the key set with its age, logins between round trips | `discover`, `exchange_and_verify`, `decoding_key` | `OidcKeys` |
| Certificates (`startup.rs`, `transport/tls.rs`) | the two files, the pending signal, the certificate in use | SIGHUP, `reload` | `TlsReload` |

The rest of the inventory is under "Not modelled".

The parts meet in a tool call. `bearer_auth` resolves the session, `enforce`
takes the permits, `audit_dispatch` wraps the work, the tool reads the caller's
grants through the permission cache and guards the text, and an adapter runs the
statement. Admin writes reach the cache only through detached invalidations,
after their transaction with its audit row has committed.
Logout revokes the session and purges the subject's refresh tokens. Several
replicas share the state database and nothing else.

What makes this hard is that an axum handler is a future that may be dropped at
any await: whatever it was going to do next does not happen, and what the
databases were asked to do may still happen. Each module therefore separates
what the gateway knows from what the database did. `hazards` in `PROJECT.json`
lists the places, with the property that watches each.

## Modules

Every module's header says which files it models; names of actions and
variables follow the source. The steps are the await points of the code: what
happens between two awaits, or in one SQL statement, is one action.

- `PermissionsStore` holds the three tables and one operator per committed
  admin write. Every admin write upserts its actor first, in the same
  transaction, so the module's writes do too. `Resolve` is the loader's join.
- `AdminWrites` runs the same handlers statement by statement. A request is a
  transaction at READ COMMITTED: `ReadBefore` reads the live row without a lock,
  `UpsertUser`, `InsertGrant`, `InsertDatabase`, `UpdateRow` or `SoftDelete`
  writes it, `UpsertActor` the administrator's own row, `LogAudit` draws the
  audit row's id, `Commit` publishes all of it. `rows` has the committed versions
  and `newest` the writer's; `Blocked` says which locks of rows and unique
  indexes a write waits for. `Fail` stands for a failed statement or a dropped
  handler, `DeadlockVictim` for PostgreSQL's deadlock detector.
- `AuditedStore` is the abstract specification: the tables of
  `PermissionsStore`, whose every write is atomic and leaves one audit row about
  the row it changed. `ImplementsAuditedStore` maps the committed tables and the
  audit log of `AdminWrites` to it.
- `PermissionsCache` extends it with the cache. `get_for` is `Lookup`,
  `LoadRevision`, the three queries, `Check`, `LockAndCheck`, `Insert`; an admin
  write is `Commit...`, then `Spawn` (or `Unnotified`, when the handler's future
  is dropped while the commit is awaited), then `BumpRevision` and
  `RemoveEntries` under the cache's lock.
- `Authz` has the pure functions on grants, `SqlGuard` the guards. A text is a
  record of what the guards tell apart: language, number of statements, an
  EXPLAIN around it, its kind, and what it holds at any depth: statements,
  locking clauses, SELECT INTO, denied names, and calls of other functions that
  write, which no guard looks at. Parsing itself belongs to `sqlparser`.
- `ToolCalls` composes the two: one action per tool, from its arguments to the
  statement it sends and the limits it sends it under, or the code it answers.
  Administrators change the caller's grants between calls.
- `AdapterRegistry`, `PgExec` and `MongoExec` are three layers of one
  specification, `Spec` of `MongoExec`. `PgExec` follows a call and, apart from
  it, the backend that works for it; a dropped call leaves the backend running
  and a cancel that arrives late, at whoever uses that backend then, or never.
  So does a result that the limit cuts, when the answer to its inline cancel is
  lost. A statement is its rows, whether it writes, and whether the target has a
  timeout for it; a cursor of Mongo fetches its batches with a getMore, which
  neither the marker nor, for sure, `maxTimeMS` reaches. A connection that breaks
  in the middle of a statement counts as the backend failing it.
- `AuditDispatch` follows a call through the work, the INSERT, its deadline and
  the drop guard. An INSERT that was sent lives on its own: it commits or is
  lost whatever its sender does.
- `SessionStore` runs lookups, logins and logouts on several replicas. `Get`,
  `Select`, `Insert` are the three steps of a lookup; `RevokeRow` and
  `RevokeLocal` the two of a logout, `RevokeDropped` the case that the handler
  is dropped in between.
- `ClientRegistry` and `LoginFlow` follow sign-ins from `/register` and
  `/authorize` to `/token`. A login is named by its state; nonce and PKCE pairs
  are drawn with it. Browsers reload callbacks, mix tabs up and give up.
- `RefreshTokens` follows a chain of rotated tokens. A request `Take`s a row
  (one `DELETE ... RETURNING`), creates the session, counts the table, inserts.
  Each statement may also fail, or be executed and fail to answer
  (`TakeUnanswered`, `InsertUnanswered`).
- `ConcurrencyLimiter` separates the lookup of an identity's semaphore (under
  the map's lock) from the acquire (after it).
- `GatewayConfig` has the rules the document and the environment must meet, as
  operators on records, secret references with what parsing and resolving make
  of them, and the sets of routes the two routers mount. `Boot` runs startup on
  top of it, one action per stage of `main.rs`; secret files are rewritten by
  `RotateSecret` between any two stages. `Endpoint` runs the requests of a gateway
  that came up: the credential is matched against the token store that `Boot`
  built, `enforce` is `ConcurrencyLimiter`, and `Handle` is `post_handler` on
  the ids and methods JSON-RPC tells apart.
- `OidcKeys` follows logins through discovery, code exchange and the key set. A
  round trip reads the provider between its start and its end, so replies are
  stored in any order; `Publish` and `Withdraw` are the provider's.
- `TlsReload` has the operator write two files and send signals at any moment,
  and the reload loop read them.

Definitions whose comment begins with "Mutant" are altered forms of a neighbour,
the way a plausible mistake would have it; each breaks the property that
`PROJECT.json` pairs it with. `MC...` modules give the instances their sets and
initial tables; `...Proofs` modules hold the theorems.

Time is counted in ticks that age what has a TTL; ages saturate at the TTL, so
the instances stay finite without a bound on time. Variables marked "history"
record what happened, for the properties and to draw every name once.

## Runs

Passing runs:

| Run | Shows | Instance |
|---|---|---|
| `permissions_cache` | `Coherent`: a load that raced a write never survives its invalidation in the cache. `EventuallyCoherent`: a write whose invalidation never ran is seen once the TTL is over. `GetForReturns`: the reload loop ends when writes stop | one call, two writes of any kind, two subjects, two databases, TTL 2 |
| `admin_writes` | `AuditTracksRow`: the newest audit row about a row tells the row as it is, in whatever order ids are drawn and transactions commit. `AuditExact`: `before` and the action are right unless another commit came between read and write. `PatchKeepsOthers`: a PATCH never undoes a concurrent one. `ImplementsAuditedStore`: failures, drops and deadlocks leave whole audited writes only. `RequestEnds`: administrators who edit each other do not wait for ever | two requests of any kind by two administrators, three subjects with two rows each, two databases, two grants |
| `session_store` | `GrantsInTime`: nobody authenticates past expiry, or a TTL after the revocation settled. `RevokedLocally`: the replica that logged out caches the session again only if a lookup had read it before | two replicas, two sessions, one lookup and one logout in flight, one cache slot, TTL 2, lifetime 3 |
| `audit_dispatch` | `ResultIsAudited`: no result without a durable row. `StreamMatchesRow`: however primary, timeout, drop and fallback interleave, the sinks see a call once and as the row has it. `LostOnlyTwice`: a missing row means that both writes failed or the process died. `CallSettles`: a call whose work is over, or whose client has left, settles though the state database answers nothing; one whose work the adapters bound does so from its start | two calls, one of them of `get_query_history`, two outcomes |
| `refresh_tokens` | `OneHolder`: a chain is in one row or one request. `EndedStaysEnded`: what a revocation removed stays away. `AbsoluteDeadline`: rotation never prolongs a chain. `CapOvershoot`: by less than the requests in flight | two requests, three chains and tokens, cap 1, lifetimes 1 and 2 |
| `gateway` | `OneAccountPerToken`: no two service accounts come to share a token, though files are read twice and rewritten in between. `ServiceNeverAdmin`: no service account passes the admin gate. `MountsOnce`: no accepted path collides with a route. `RunsOnlyAnswerable`: a tool runs only for a request that can be answered. `IdentityCeiling`, `OwnLimitOnly`: an identity is held to its limit, by its own requests only | a right document and one departure per rule, every departure of the environment, one rewrite of a secret file, three requests, caps 2 and 1, one tracked identity |
| `login_flow` | `CodeGoesHome`: a code goes to a registered or loopback URI only. `IdentityOfOwnLogin`, `OneSessionPerLogin`: mixed-up and repeated callbacks and codes. `LiveRegistrationKept`: a live registration survives others at the cap, sweeps and restarts | two requests, logins, codes, clients and subjects; every TTL and cap 1 |
| `rotation` | `RotationLag`: a withdrawn key is accepted for less than the TTL and one round trip. `FreshKeyAccepted`: no login is refused for a key that is published. `ReloadTakesEffect`: the certificate of the last signal comes into use, whatever reloads failed before | two logins, two keys, TTL 2, timeout 1, two versions of the certificate |
| `exec` | `ResultExact`: row counts and `truncated` are right however a stream is cut; `CompleteIsCommitted`; `CleanReturnCancelsNobody`: only a call that was dropped, or cut by the limit, ever cancels the statement of another. `CallEnds`: calls end, failed and abandoned opens of an adapter included. `TargetsRecover`: connections and operations come free with no cancel arriving, unless the timeout is 0 or a getMore was left behind | two calls, a Postgres and a Mongo database, a read of 0 rows, a write of 1 row, a read of 2 rows without a timeout, limits 0 and 1, one connection per pool |
| `tool_calls` | `OnlyGrantedWrites`: a text whose statements write, at any depth, is sent as one plain write under a `query_write` grant only (what functions do that it calls is outside). `TightestGrantHolds`: read and write grants limit a statement alike. `ListingsAgree`: a server is listed exactly if something is allowed on it, and `describe_schema` refuses exactly what is not shown. `NeverLooser`: one more grant loosens nothing | two YAML groups, five store grants with wildcards, a Postgres, a Mongo and an empty server, unknown targets, every shape of text |

Runs that show where the code and what is written about it part:

| Run | What happens |
|---|---|
| `rotation_retry` | a rotation told to try again has lost its only token |
| `truncated_write` | a write that returns more rows than the limit is reported as a truncated success and rolled back |

The type invariants are not properties of a run; they are proved where there is a
proof (`TypeCorrect`, and as the first conjunct of the other invariants).

### Why the bounds suffice

The interesting cases need two actors that meet: a load and a write, a lookup
and a logout, two rotations, two logins, two administrators, a dropped call and
the next user of its backend. The instances have two wherever actors meet, and
one more where a resource is shared by three (the limiter needs a third request
to provoke the sweep between another's lookup and acquire). Caps
and pool sizes are 1, so that limits are hit at once; TTLs are 1 or 2, the
smallest values that tell fresh, ageing and expired apart. `permissions_cache`
runs one call against one admin handler, which writes twice (`MaxWrites`); the
proof of `Coherent` lifts both bounds, and the liveness properties are checked
on that instance only. Row limits of 0 and 1
against results of 0, 1 and 2 rows cover below, at and past the limit.
`admin_writes` serves two requests (`MaxRequests`), of any two kinds, which can
meet on one row, on a grant and the rows it names, on one database name, and on
each other's user rows; every subject has two rows, so that one can be deleted
and upserted anew. Its safety properties are proved without the bound. In
`gateway` a document departs from the right one in one rule at a time (or in the
two settings a rule relates), and so does the environment, so a rule cannot hide
behind another; only one secret file is rewritten
(`MaxRotations`), which is what makes the second read differ from the first. In
`rotation` time is bounded (`MaxTime` 3, the TTL and a round trip: the first
moment at which `RotationLag` could fail); the proof lifts that. The proofs lift
every bound for safety; the bounds matter for what liveness is checked on.

Symmetry is used where names are interchangeable and no liveness is checked;
`gateway` also ignores, once the gateway serves, the files and variables it does
not read again (`VIEW`).

### Fairness

- `permissions_cache`: strong fairness of the steps of a call and of an
  invalidation. They wait for the `RwLock` of the cache, which tokio hands out
  in order of arrival, so a waiter that could go again and again does go. Weak
  fairness of time. Nothing is assumed of clients or of new writes.
- `audit_dispatch`: weak fairness of a dispatch once its work is over, and of the
  detached write: the runtime polls both, and `AUDIT_WRITE_TIMEOUT` ends every
  audit write. The work itself is fair only where an adapter bounds it, in opening
  and in `execute`; `get_query_history` (`Waiting`) awaits the state database
  without a deadline (`get_query_history.rs`), and nothing is assumed of it.
  Clients need not disconnect, and an INSERT need never commit.
- `admin_writes`: weak fairness of the statements of each transaction (the
  runtime drives a handler whose statement does not wait) and of the deadlock
  detector, which PostgreSQL runs after `deadlock_timeout`. A transaction that
  waits for one that ends needs no more. Requests need not arrive.
- `rotation`: weak fairness of the reload loop, a task of its own. The operator
  and the provider need do nothing.
- `exec`: weak fairness of what bounds a call (`Advance`: opening has a timeout,
  `execute` its Tokio deadline; no step in between needs to happen), of
  `statement_timeout` and `maxTimeMS` where they are on, and of the pool taking a
  stopped connection back. A timeout of 0 turns both off, and a getMore has none
  for sure: nothing is assumed of those. No cancel or kill ever needs to arrive,
  which is what makes `TargetsRecover` worth stating.

The other runs check safety only and assume nothing.

Deadlock is checked, except in `audit_dispatch` (calls are done, or the process
has stopped), `refresh_tokens` (every name has been used), `admin_writes` (every
request has been served), `gateway` (startup has failed) and `rotation` (the
clock has reached its bound). That requests do not block each other for good in
`admin_writes` is `RequestEnds`.

## Proofs

TLAPS checks these for every value of the constants, under the named
assumptions of the modules: bounds are finite or non-negative, `None` is no
name, no row and no connection, documents' accounts and paths are lists, grants
and configurations are well-formed, and somebody makes requests. `Endpoint` also
assumes that no subject of the identity provider is spelled like a service
account (`service:` and a name); the code takes subjects as they come.
Invariants are proved along `Init => IInv`, `IInv /\ [Next]_vars => IInv'`,
`IInv => Inv`.

- `PermissionsCacheProofs`: `CacheCoherent`. `Coherent` is not inductive, since
  it says nothing of a load in flight, which becomes the entry. The strengthening
  follows the load: while the revision it started from stands and no
  invalidation of its subject is still to bump it, what it has read so far is
  current (`LoadInv`); past the check under the lock a bump may come, but not
  the removal before the insert (`InsertInv`, `LockInv`). The rows need
  `OneLiveRow` and `ForeignKeys`, the unique index and the references of the
  tables.
- `SessionStoreProofs`: `RevocationWindow` (`GrantsInTime`), `LocalRevocation`,
  `CacheCapacity`. A clock per session stands still until its revocation has
  settled (no lookup still holds an active row); whatever is cached or about to
  be is at least as old as that clock (`AgeInv`), so after a TTL nothing fresh
  is left.
- `LoginAuditProofs`, about sign-in: `CodesGoHome` (`CodeGoesHome`),
  `LoginsKeepTheirUser` (`IdentityOfOwnLogin`), `LoginEndsOnce`
  (`OneSessionPerLogin`), `LiveRegistrationsStay` (`LiveRegistrationKept`). None
  of the four is inductive: each speaks of where a login ends, and what makes it
  true is said of flows, requests and codes on the way. A login is in one of
  these places at most (`PlaceInv`), which is what the two `take`s are for;
  everything that carries it carries the user who signed in under its own state
  (`OwnInv`) and a URI of its own client (`HomeInv`). The last is threatened by
  `insert_db`, four statements in which a client id may be taken: a new client
  is known to nobody until its row is stored, and an adopted one has no live row
  unless its lookup failed. Sweeps, the clock and restarts take logins away and
  add none (`LoginShrinks`).
- `LoginAuditProofs`, about the audit: `NothingUnaudited`, `StreamFaithful`,
  `CountedExactlyOnce`, `MissingRowExplained`. The invariant says which writes
  can exist at each stage of a call (`Stage`), that a committed INSERT fixed the
  row to the outcome on the guard (`Written`), and that the sinks were sent that
  outcome exactly when one of the writes was acknowledged (`Sent`).
- `RefreshTokensProofs`: `SingleHolder`, `EndIsFinal`, `DeadlineIsAbsolute`,
  `CapIsSoft` (`CapOvershoot`). The invariant adds that whatever has a chain
  belongs to a chain that was started, and carries its true age. For the cap it
  counts the rows and the inserts on their way together (`CapInv`): the last of
  them to pass the count saw less than the cap.
- `GatewayProofs`, about limits: `GatewayCeiling` (`IdentityCeiling`),
  `GatewayOwnLimit` (`OwnLimitOnly`). Both are proved of `ConcurrencyLimiter` and
  carried over by `GatewayLimits`: every behaviour of the endpoint is one of the
  limiter. A semaphore is one identity's for as long as a request or the map has
  it (`OneOwner`), requests of an identity share the one in the map unless the
  identity was forgotten in between (`Shared`), and its permits are never
  exceeded (`Permits`).
- `GatewayProofs`, about startup and answers: `TokensAreDistinct`
  (`OneAccountPerToken`), `RoutesMountOnce` (`MountsOnce`),
  `ServiceIsNeverAdmin`, `EveryRunAnswerable` (`RunsOnlyAnswerable`). The
  invariant (`BInv`) says what each phase of startup has established: entry `i`
  of the token store is account `i` of a document that was validated, under a
  token no earlier entry has. The routes are compared for a path of any length.
- `GatewayProofs`, about the provider's keys: `BoundedLag` (`RotationLag`),
  `PublishedKeyServes` (`FreshKeyAccepted`). A reply under way was asked for at
  most a timeout ago, and each key of it that has been withdrawn was so after it
  was asked for (`InTime`); hence a withdrawn key in the cache was withdrawn at
  most a timeout before the set's stamp (`CacheAge`), however replies overwrite
  each other. A reply lacks the key its login waits for only if that key is
  withdrawn (`ReplyComplete`).
- `ExecProofs`: `ResultsAreExact` (`ResultExact`), `WholeWritesCommit`
  (`CompleteIsCommitted`), `ReturnsCancelNobody` (`CleanReturnCancelsNobody`),
  `OneAdapterPerDatabase`. The invariant says how far a call has read at its
  stage (`RowsRead`); that its connection is its own and its statement still
  done at COMMIT, although cancels of others arrive at any backend (`OwnConn`);
  that every cancel was left by a dropped call, or sent inline by one whose
  result was cut (`CancelInv`); and that a
  database has one cell and the cell one adapter (`RegistryInv`). A step touches
  one call; what it may not do to the rest is one lemma (`OthersKeep`).
- `AdminWritesProofs`: `AuditTellsTables` (`AuditTracksRow`), `PatchIsPartial`
  (`PatchKeepsOthers`), `AuditRowExact` (`AuditExact`) and `AdminRefines`, the
  refinement `Spec => Store!AuditedSpec`. The argument is that of the row locks.
  What a request has written it alone has locked (`Locked`), and its own upsert
  of the actor's row does not reach it (`Apart`), so its version still is the
  one its write made of its body and of the committed version (`Made`), and no
  commit changes the committed version before its own (`Kept`). An audit id is
  drawn while the lock is held (`Drawn`): no other entry about the row is drawn
  until the commit, which orders the entries about a row as the commits. `Asked`
  says what a request is made of. For the refinement, only a commit changes what
  the mapping sees (`OnlyCommits`); a commit is one audited write
  (`CommitIsWrite`). That needs, at the commit, all that the transaction did:
  the row it wrote and the version that replaces (`Target`, `Refs`), that its
  only other row is the actor's, written unless the request is about that very
  row (`Others`, `Acted`), that its audit id is new (`Ids`), and that the unique
  indexes hold (`OneLive`, `OneName`). These two are inductive only for the
  committed and the newest versions together: an upsert or a new name waits for
  every row that may come into conflict with it, so when it goes on no version
  of such a row is pending (`UpsertAlone`, `NameAlone`). `Fresh` says that what
  was read is still so unless `Commit` marked the reader `raced`.
- `ToolCallsProofs`: `WritesAreGranted`, `LimitsAreTightest`, `ListingsLead`,
  `GrantsNeverLoosen`. The invariants are inductive together, since a call
  carries the grants it was decided under; the work is in the operators: a
  non-empty set of limits has a least one, the least of a larger set is no
  larger (`MinOptionTighter`), merged constraints bound each grant
  (`ConstraintsTightest`), what the guards let through has no statement that
  writes or is one plain write (`GuardedSql`, `GuardedJson`), and the two tests
  of a grant, for a listing and for a call, are in step (`ListedIfAllowed`).

Types are the first part of each invariant; five modules state them as
`TypeCorrect`. Four results have no run: `CacheCapacity` (the session cache never
exceeds `max_entries`), `CountedExactlyOnce` (the outcome counter sees each call
once), `GatewayLimits` and `OneAdapterPerDatabase`.

Only model-checked: all liveness (`EventuallyCoherent`, `GetForReturns`,
`RequestEnds`, `CallSettles`, `ReloadTakesEffect`, `TargetsRecover`,
`CallEnds`), as the prover has no rule for fairness. Every safety property of a
passing run is proved.

## Findings and observations

The two violation runs come with a finding each, which quotes the text it
contradicts. Other places where the code and a text part, or where a property
has to name an exception:

- `auth/session_cache.rs:14`: with one replica revocation is observed "on the very
  next request". A lookup that read the row before the logout's UPDATE may cache
  it (`auth/session.rs:234`) after the logout's eviction; `RevokedLocally` excepts
  such lookups, and `GrantsInTime` bounds what they can do by the TTL.
- `oauth_state.rs:553`: a logout's purge does not see a chain that a rotation
  holds between its DELETE and its INSERT; the rotation then stores the next
  token. `EndedStaysEnded` speaks of purges that met no rotation.
- `transport/admin/users/handlers.rs:157`: `before` is read without a lock, so an
  audit row can have a `before` that another administrator has replaced in the
  meantime, or say `create` for a row that came into being (`raced` in
  `AuditExact`). `after` is what RETURNING gave and always right.
- `transport/admin/middleware.rs:195`: the upsert of the actor's row leaves no
  audit row, so the newest audit row about an administrator may be older than
  their row (`touched` in `AuditTracksRow`).
- `audit/permissions.rs:162`: the debug helper orders by `ts` first, which is the
  start of the transaction; only the ids of the rows about one
  target follow its commits.
- `transport/admin/grants/validation.rs:119` has the foreign keys refuse a row
  that "has been soft-deleted"; they only ask that it exists.
- `auth/oidc/mod.rs:288`: the cache is written first so that "subsequent requests
  for the same unknown kid use the cached JWKS set"; each of them asks the
  provider again, since the fast path returns only when the key is found. That is
  what `FreshKeyAccepted` needs. The discovery document is never asked for again.
- `website/docs/initial-idea/08-config.md:169` and `website/docs/initial-idea/05-credentials.md:75` have
  SIGHUP re-read the configuration and the credentials; it reloads the
  certificate only. A password is read again when a pool opens
  (`config/secret.rs:8`), not while the pool stands.
- `main.rs:240` has `bearer_auth` pass requests through when no authentication is
  wired; it refuses them (`transport/auth_middleware.rs:29`).
- `state/permissions/mysql/mod.rs:1` mirrors the Postgres store "1:1
  semantically". Its `upsert_user` and `create_database` write and reread in two
  statements on the pool, where Postgres has one; `create_grant` puts the two in a
  transaction, for the reason its comment gives (`mysql/grants.rs:22`).
- An invalidation is detached, so a call that begins after the administrator
  has the answer can still be served the old entry (`authz/cache.rs:143`).
- `limit.rs:106`: a sweep between clone and acquire gives an identity a second
  semaphore, and up to twice its limit (`forgotten` in `IdentityCeiling`).
- `client_registry.rs:145`: a failed lookup counts as an unknown client, which
  `/authorize` may adopt over its own registration (`contested`).
- `exec/pg/mod.rs:192`: a drop just before or after the statement runs leaves an
  armed cancel too, which may meet the next user of the backend (`stray`).
- `exec/pg/mod.rs:243`: a describe that fails aborts the transaction; the COMMIT
  then rolls back without an error and success is reported (`aborted`).
- `exec/pg/truncate.rs:42`: the inline cancel of a cut result can outlive its call
  when its answer is lost, and meet the next user of the backend as well.
- `exec/adapter.rs:46`: a grant's `statement_timeout_ms` of 0 is the least value,
  so it wins every merge (`TightestGrantHolds` follows that order); Postgres and
  Mongo read it as no limit. The call still ends, at its Tokio deadline of half a
  second, but a backend whose cancel is lost runs on (`Unlimited` in
  `TargetsRecover`), where `exec/pg/mod.rs:140` and `exec/mongo/mod.rs:168` count
  on a timeout that is "ALWAYS applied" and a "hard backstop".
- `exec/sql_guard.rs:91`: six functions are denied by name. A SELECT of any other
  function that writes passes for a reader, and `run_query` commits it
  (`exec/pg/mod.rs:261`): what it may do is left to the role at the target.
  `OnlyGrantedWrites` speaks of the statements of a text, not of its functions.
- `exec/mongo/mod.rs:172`: `sample_table`, `describe_schema` and `explain` send SQL,
  so a Mongo database that `list_databases` shows answers each of them with
  `forbidden_sql`.
- `exec/mongo/mod.rs:239`: a cursor error right after the last row allowed is
  reported as a truncated success (`torn`).
- `oauth_state.rs:618`: rotation at the cap is refused, as its row was deleted
  before, though the comment above says it is let through.
- `authz/mod.rs:75`: `grant_can_see` ignores the action, so a `history_read`
  grant alone lists a server whose `list_databases` answers forbidden; what
  `ListingsAgree` says of a listed server is that some action is allowed there.
- `describe_schema` asks for no reason, though `explain.rs:144` speaks of "every
  way the caller reaches the target DB".
- `auth/session.rs:247`: the gauge of active sessions falls with logouts of
  sessions that another process counted, so it can go negative.
- A call cancelled in the middle of its work leaves no "tool dispatched" line,
  though `audit_dispatch/mod.rs:173` promises one per call.

## Not modelled

- Probes, migrations and the drain at shutdown: run once or hold no state. The
  sweeps that startup spawns are actions of `LoginFlow` and `RefreshTokens`.
- The static payloads of `initialize` and `tools/list`, the idle SSE stream,
  OAuth metadata, paged admin listings, wording of errors, decoding of values,
  error scrubbing: stateless functions of one request.
- The MySQL permission store: the same repository trait in another dialect; its
  reads are those of `PermissionsCache`, and startup refuses the admin API on it.
- Writes of the repository trait (`state/permissions/pg.rs`): the admin handlers
  run their own SQL, which `AdminWrites` models; the trait's writes are for tests.
- Audit retention: one idempotent DELETE.
- Delivery inside an audit sink: fire and forget.
- Parsing of SQL, signatures of tokens, TLS itself: libraries.
- The bound of the pool that cancels run on: the model lets every cancel be late
  or lost instead.

## Plan

Done: all modules, runs and proofs above.

Next:

1. A composition of `SessionStore`, `PermissionsCache` and `ToolCalls`: how long
   after logout, or after a grant was taken back, a statement can still be sent.
2. Abstract specifications of the session store (a set of sessions with a grace
   period) and of the permission cache (a lagging view of the tables), each
   implemented by the detailed one.
