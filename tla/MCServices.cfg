CONSTANTS
    ClientKeys = {"k1"}
    ClientValues = {v1, Undefined}
    Modes = {}
    Missions = {}
    Null = Null
    Undefined = Undefined
    Missing = Missing
    MaxRequests = 3
    MaxMs = 1
    Darwin = TRUE
    MaxWindows = 2
SPECIFICATION Spec
PROPERTY WindowCatchesUp
CHECK_DEADLOCK FALSE
