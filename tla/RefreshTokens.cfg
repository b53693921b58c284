CONSTANTS
    Requests = {r1, r2}
    Chains = {ch1, ch2, ch3}
    Tokens = {t1, t2, t3}
    Subs = {s1}
    Ttls = {1, 2}
    MaxTokens = 1
    None = None
SPECIFICATION Spec
INVARIANTS OneHolder EndedStaysEnded AbsoluteDeadline CapOvershoot
SYMMETRY Symmetric
CHECK_DEADLOCK FALSE
