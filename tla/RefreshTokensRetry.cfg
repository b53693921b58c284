CONSTANTS
    Requests = {r1}
    Chains = {ch1}
    Tokens = {t1, t2}
    Subs = {s1}
    Ttls = {2}
    MaxTokens = 2
    None = None
SPECIFICATION Spec
INVARIANT RetryHasToken
CHECK_DEADLOCK FALSE
