CONSTANTS
    alice = alice  None = None
    Roles = {"app", "postgres", "root"}
    Labels = {"ci", "etl"}
    Trim <- MCTrim
    EnvValue <- MCEnvValue
    Tokens = {"t1", "t2"}
    Docs <- MCDocs
    Envs <- MCEnvs
    Contents <- MCContents
    MaxRotations = 1
    Users = {alice}
    UserGroups <- MCUserGroups
    Ages <- MCAges
    Requests = {r1, r2, r3}
    Identities <- MCIdentities
    Sems = {m1, m2, m3}
    Global = 2
    PerIdentity = 1
    MaxTracked = 1
SPECIFICATION MCSpec
CHECK_DEADLOCK FALSE
INVARIANTS IdentityCeiling ServiceNeverAdmin OneAccountPerToken MountsOnce RunsOnlyAnswerable
PROPERTY OwnLimitOnly
SYMMETRY Symmetric
VIEW Unread
