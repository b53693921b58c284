SPECIFICATION Spec
CONSTANTS
    Calls = {q1}
    Databases = {d1}
    Mongo = {}
    Stmts <- MCWrites
    Limits = {1}
    PoolSize = 1
    None = None
INVARIANT SuccessIsCommitted
