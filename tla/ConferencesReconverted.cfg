SPECIFICATION Spec
CONSTANTS
    Hearings = {h1}
    Addressed = {"appellant"}
    Kinds = {"convert", "cancel"}
    Forms = {f1}
    Creators = {w1}
    Deleters = {d1}
    MaxRows = 2
    MaxEdits = 3
    MaxQueued = 2
    MaxRooms = 3
    MaxReruns = 0
    MaxFaults = 0
    None = None
INVARIANTS EstablishedMeansTold
CHECK_DEADLOCK FALSE
