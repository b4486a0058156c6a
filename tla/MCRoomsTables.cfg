\* Two devices, two rooms, one floorplan, devices.json; no symmetry: one
\* property is temporal.
SPECIFICATION FairSpec
CONSTANTS
    Devices = {d1, d2}
    RoomIds = {r1, r2}
    Plans = {p1}
    Names = {n1}
    Empty = Empty
    Closed = Closed
    Contended = FALSE
    Persistent = TRUE
    MaxCommands = 5
    MaxCrashes = 1
INVARIANTS OneRowPerDevice
PROPERTIES  PlanWhole 
CHECK_DEADLOCK TRUE
