CONSTANTS
    Replicas = {A, B}
    Sessions = {s1, s2}
    Calls = {c1}
    Logouts = {v1}
    Ttl = 2
    Life = 3
    MaxEntries = 1
    None = None
SPECIFICATION Spec
INVARIANTS GrantsInTime RevokedLocally
SYMMETRY Symmetric
