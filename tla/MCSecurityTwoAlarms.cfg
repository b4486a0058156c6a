\* Three alarm threads: a cancelled one clears the flag of its successor.
SPECIFICATION Spec
CONSTANTS
    hull = hull
    garden = garden
    armed = armed
    away = away
    Zones = {hull, garden}
    Modes = {armed, away}
    Zonemaps <- OneMap
    NoZones = NoZones
    NoMode = NoMode
    Junk = Junk
    Threads = {t1, t2, t3}
    NoThread = NoThread
    MaxCrashes = 0
INVARIANTS OneAlarmThread
CHECK_DEADLOCK TRUE
