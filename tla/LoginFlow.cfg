SPECIFICATION Spec
CONSTANTS
    Clients = {c1, c2}
    Cached = {c2}
    Uris <- MCUris
    Registrations <- MCRegistrations
    ClientTtl = 1
    ClientCap = 1
    Requests = {r1, r2}
    States = {s1, s2}
    Codes = {k1, k2}
    Subs = {u1, u2}
    FlowTtl = 1
    CodeTtl = 1
    FlowCap = 1
    CodeCap = 1
    None = None
SYMMETRY Symmetric
INVARIANTS CodeGoesHome IdentityOfOwnLogin OneSessionPerLogin
PROPERTY LiveRegistrationKept
