SPECIFICATION Spec
CONSTANTS
    Calls = {q1, q2}
    Databases = {d1, d2}
    Mongo = {d2}
    Stmts <- MCStmts
    Limits = {0, 1}
    PoolSize = 1
    None = None
INVARIANTS ResultExact CompleteIsCommitted CleanReturnCancelsNobody
PROPERTIES TargetsRecover CallEnds
