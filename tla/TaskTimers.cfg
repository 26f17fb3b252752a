SPECIFICATION FairSpec
CONSTANTS
    Jobs = {j1, j2}
    Users = {u1}
    RetryInterval = 3
    WindowLength = 4
    Buffer = 2
    JobPeriod = 1
    Created = 4
    Ends = {4, 5, 8}
    MaxTime = 12
    MaxKills = 1
    MaxRestarts = 1
    None = None
INVARIANTS TypeOK OpenTaskHasLiveTimer WindowClosesWithIhp ExpiresOnlyAfterFailure
PROPERTIES EndedHoldStays ClosedTaskTimerSettled
CHECK_DEADLOCK FALSE
