CONSTANTS
    alice = alice  root = root  a1 = a1  a2 = a2  r1 = r1
    db1 = db1  db2 = db2  n1 = n1  n2 = n2  g1 = g1  g2 = g2  p1 = p1  p2 = p2
    Wildcard = Wildcard  None = None
    Subs <- MCSubs
    Admins = {root}
    UserRows <- MCUserRows
    RowSub <- MCRowSub
    Databases = {db1, db2}
    Names = {n1, n2}
    Grants <- MCGrants
    GrantRow <- MCGrantRow
    GrantDb <- MCGrantDb
    Policies = {p1, p2}
    Requests = {q1}
    Writers = {w1}
    Ttl = 2
    MaxWrites = 2
SPECIFICATION MCFairSpec
INVARIANT Coherent
PROPERTIES EventuallyCoherent GetForReturns
