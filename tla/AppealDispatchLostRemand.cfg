SPECIFICATION Spec
CONSTANTS
    Grants = {g1}
    RatingGrants = {g1}
    Remands = {m1, m2}
    Pension = {m2}
    Citations = {"A1"}
    Requests = {r1}
    Workers = {w1}
    MaxFaults = 1
    None = None
INVARIANT RemandsReachAClaim
CHECK_DEADLOCK FALSE
