CONSTANTS
    alice = alice  bob = bob  carl = carl
    a1 = a1  a2 = a2  b1 = b1  b2 = b2  c1 = c1  c2 = c2
    db1 = db1  db2 = db2  g1 = g1  g2 = g2  u = u  v = v
    pa = pa  pb = pb  pc = pc  pd = pd
    None = None  Wildcard = Wildcard
    Txs = {t1, t2}
    Subs <- MCSubs
    Admins = {alice, bob}
    UserRows <- MCUserRows
    RowSub <- MCRowSub
    Databases = {db1, db2}
    Grants <- MCGrants
    GrantRow <- MCGrantRow
    GrantDb <- MCGrantDb
    Vals = {u, v}
    Snapshot <- MCSnapshot
    CreateArgs <- MCCreateArgs
    PatchArgs <- MCPatchArgs
    Policies = {pa, pb, pc, pd}
    PolicyOf <- MCPolicyOf
    MaxRequests = 2
SPECIFICATION MCSpec
CHECK_DEADLOCK FALSE
INVARIANT AuditTracksRow
PROPERTIES AuditExact PatchKeepsOthers ImplementsAuditedStore RequestEnds
