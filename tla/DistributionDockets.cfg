SPECIFICATION FairSpec
CONSTANTS
    Appeals = {1, 2}
    Judges = {j1, j2}
    Distributions = {d1, d2}
    Runs = {r1, r2, r3}
    NoDistribution = NoDistribution
    NoJudge = NoJudge
    HearingDocket = FALSE
    OtherWork = {1}
    MaxCrashes = 1
    MaxOverlaps = 0
INVARIANTS PoolAndDesksDisjoint OnlyCompletedDistribute
PROPERTIES EventuallyDecided
CHECK_DEADLOCK FALSE
