SPECIFICATION FairSpec
CONSTANTS
    Grants = {g1, g2}
    RatingGrants = {g1}
    Remands = {m1}
    Pension = {}
    Citations = {"A1", "A2"}
    Requests = {r1}
    Workers = {w1}
    MaxFaults = 2
    None = None
INVARIANTS TypeOK ClosedHasDecision ClaimsBounded GrantsCarriedOut
PROPERTIES DecisionCarriedOut
CHECK_DEADLOCK FALSE
