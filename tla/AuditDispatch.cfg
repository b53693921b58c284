CONSTANTS
    Calls = {c1, c2}
    Waiting = {c2}
    Outcomes = {success, failure}
    Absent = Absent
SPECIFICATION FairAuditSpec
INVARIANTS ResultIsAudited StreamMatchesRow LostOnlyTwice
PROPERTY CallSettles
CHECK_DEADLOCK FALSE
