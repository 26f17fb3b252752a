SPECIFICATION Spec
CONSTANTS
    Appeals = {a1}
    Users = {u1, u2}
    Requests = {r1, r2}
    Jobs = {j1, j2}
    MaxTasks = 2
    MaxFaults = 1
    None = None
SYMMETRY Symmetry
INVARIANTS TypeOK OneOpenTask  MovesBounded 
PROPERTIES FollowsLifecycle
CHECK_DEADLOCK FALSE
