----------------------------- MODULE MCGateway -----------------------------
(* A finite instance of Endpoint for TLC: one document that is right, one   *)
(* departure from it for every rule of validate, and pairs of accounts      *)
(* whose token files may come to hold the same token.                       *)
EXTENDS Endpoint, TLC

CONSTANT alice

File(f) == [form |-> "file", of |-> f]
Database(name, role, auth, password) ==
    [name |-> name, role |-> role, auth |-> auth, password |-> password]
Grant(server, database) == [server |-> server, database |-> database]
Account(name, group, token) == [name |-> name, group |-> group, token |-> token]

Base == [
    admin |-> [enabled |-> TRUE, group |-> "admins", max_age |-> 1],
    driver |-> "pg",
    servers |-> <<[name |-> "s1", kind |-> "postgres",
                   databases |-> <<Database("d1", "app", "none", [form |-> "env", of |-> "PW"])>>],
                  [name |-> "s2", kind |-> "mongo",
                   databases |-> <<Database("d2", "app", "admin", [form |-> "literal", of |-> "pw"])>>]>>,
    permissions |-> <<[name |-> "ops", grants |-> <<Grant("s1", "d1"), Grant("*", "d2"), Grant("*", "*")>>],
                      [name |-> "admins", grants |-> <<>>]>>,
    accounts |-> <<Account("ci", "ops", File("f1")), Account("etl", "ops", File("f2"))>>,
    sinks |-> <<[kind |-> "stdout", host |-> "", port |-> 0], [kind |-> "syslog", host |-> "h", port |-> 514]>>]

WithDb(db) == [Base EXCEPT !.servers[1].databases = <<db>>]
WithGrant(g) == [Base EXCEPT !.permissions[1].grants = <<g>>]
WithAccount(a) == [Base EXCEPT !.accounts[2] = a]
Env(v) == [form |-> "env", of |-> v]

MCDocs ==
    {Base,
     [Base EXCEPT !.admin.max_age = None],
     [Base EXCEPT !.admin.enabled = FALSE, !.driver = "mysql"],
     [Base EXCEPT !.driver = "mysql"],
     [Base EXCEPT !.admin.group = ""],
     [Base EXCEPT !.servers[2].name = "s1"],
     [Base EXCEPT !.servers[2].kind = "mysql"],
     [Base EXCEPT !.servers[1].databases = @ \o @],
     WithDb(Database("d1", "1app", "none", Env("PW"))),
     WithDb(Database("d1", "postgres", "none", Env("PW"))),
     WithDb(Database("d1", "app", "", Env("PW"))),
     WithDb(Database("d1", "app", "none", Env("UNSET"))),
     WithDb(Database("d1", "app", "none", [form |-> "backend", of |-> "vault"])),
     WithDb(Database("d1", "app", "none", [form |-> "malformed", of |-> ""])),
     [Base EXCEPT !.permissions[2].name = "ops"],
     [Base EXCEPT !.permissions[2].name = ""],
     WithGrant(Grant("", "d1")), WithGrant(Grant("s1", "")), WithGrant(Grant("s3", "*")),
     WithGrant(Grant("s1", "d2")), WithGrant(Grant("*", "d3")),
     WithAccount(Account("ci", "ops", File("f2"))), WithAccount(Account("Etl!", "ops", File("f2"))),
     WithAccount(Account("etl", "", File("f2"))), WithAccount(Account("etl", "dev", File("f2"))),
     WithAccount(Account("etl", "admins", File("f2"))),
     [WithAccount(Account("etl", "admins", File("f2"))) EXCEPT !.admin.enabled = FALSE],
     [Base EXCEPT !.sinks[2].host = ""], [Base EXCEPT !.sinks[2].port = 0]}

Path(absolute, segments) == [absolute |-> absolute, segments |-> segments]
GoodEnv == [numbers |-> TRUE, mcp_path |-> Path(TRUE, <<"mcp">>), retention |-> 90,
            tls_disabled |-> "unset", cert |-> TRUE, key |-> TRUE,
            signing_key |-> "long", mock |-> FALSE, dsn |-> TRUE]
MCPaths == {Path(FALSE, <<"mcp">>), Path(TRUE, <<>>)} \cup
    {Path(TRUE, s) : s \in {<<"healthz">>, <<"token">>, <<"auth">>, <<"auth", "logout">>, <<"admin">>,
        <<"admin", "v1", "users">>, <<".well-known", "openid-configuration">>, <<"healthz", "mcp">>}}
MCEnvs ==
    {GoodEnv, [GoodEnv EXCEPT !.numbers = FALSE], [GoodEnv EXCEPT !.retention = 0],
     [GoodEnv EXCEPT !.cert = FALSE], [GoodEnv EXCEPT !.tls_disabled = "yes", !.key = FALSE],
     [GoodEnv EXCEPT !.tls_disabled = "maybe"], [GoodEnv EXCEPT !.signing_key = "short"],
     [GoodEnv EXCEPT !.signing_key = "dev", !.mock = TRUE], [GoodEnv EXCEPT !.dsn = FALSE]}
    \cup {[GoodEnv EXCEPT !.mcp_path = p] : p \in MCPaths}

MCContents == {"missing", "t1", "t2", "t1\n", "\n", "weak"}
MCTrim == [c \in MCContents |-> CASE c = "t1\n" -> "t1" [] c = "\n" -> "" [] OTHER -> c]
MCEnvValue == "PW" :> "pw"
MCUserGroups == alice :> {"admins", "ops"}
MCAges == {-1, 0, 1, 2}
MCIdentities == Users \cup Accounts

\* A departure in the environment is enough with the right document.
MCInit ==
    /\ BootInit({("f1" :> "t1") @@ ("f2" :> "t2")}) /\ EndpointInit
    /\ doc = Base \/ env = GoodEnv

MCSpec == MCInit /\ [][GatewayNext]_GatewayVars

\* A gateway that serves reads neither its environment nor the secret files
\* again: states that differ in these alone behave alike.
Unread == IF phase = "serving" THEN <<doc.admin, store, phase, endpointVars>> ELSE GatewayVars

Symmetric == Permutations(Sems) \cup Permutations(Requests)
=============================================================================
