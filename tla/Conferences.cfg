SPECIFICATION FairSpec
CONSTANTS
    Hearings = {h1}
    Addressed = {"appellant"}
    Kinds = {"convert", "cancel", "time", "notes"}
    Forms = {f1}
    Creators = {w1}
    Deleters = {d1}
    MaxRows = 2
    MaxEdits = 3
    MaxQueued = 2
    MaxRooms = 3
    MaxReruns = 1
    MaxFaults = 1
    None = None
INVARIANTS TypeOK UpcomingHasRoom RoomsAccounted
 
CHECK_DEADLOCK FALSE
