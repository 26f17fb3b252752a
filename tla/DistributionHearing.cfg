SPECIFICATION Spec
CONSTANTS
    Appeals = {1, 2}
    Judges = {j1, j2}
    Distributions = {d1, d2}
    Runs = {r1, r2, r3}
    NoDistribution = NoDistribution
    NoJudge = NoJudge
    HearingDocket = TRUE
    OtherWork = {}
    MaxCrashes = 0
    MaxOverlaps = 1
INVARIANTS TypeOK OneJudgePerAppeal
PROPERTIES AllocationSpec
CHECK_DEADLOCK FALSE
