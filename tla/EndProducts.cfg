SPECIFICATION FairSpec
CONSTANTS
    Issues = {i1, i2}
    Added = {}
    Nonrating = {}
    Alike = {i1, i2}
    Updates = {u1, u2}
    Workers = {w1}
    Review = Review
    MaxRows = 3
    MaxClaims = 4
    MaxContentions = 6
    MaxFaults = 1
    MaxCancels = 1
    None = None
INVARIANTS TypeOK ProcessedMeansContended ContentionsDistinct OneClaimPerRow RemovalCarriedOut
PROPERTIES Settles
CHECK_DEADLOCK FALSE
