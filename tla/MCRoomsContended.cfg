\* Another process on the same file, no devices.json.
SPECIFICATION Spec
CONSTANTS
    Devices = {d1, d2}
    RoomIds = {r1, r2}
    Plans = {p1}
    Names = {n1}
    Empty = Empty
    Closed = Closed
    Contended = TRUE
    Persistent = FALSE
    MaxCommands = 6
    MaxCrashes = 1
SYMMETRY Symmetry
 
PROPERTIES NothingRolledBack
CHECK_DEADLOCK TRUE
