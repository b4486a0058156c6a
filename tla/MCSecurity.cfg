\* Two alarm threads, two zones, two modes, one map, one crash.  No
\* symmetry: AlarmRaised is temporal.
SPECIFICATION FairSpec
CONSTANTS
    hull = hull
    garden = garden
    armed = armed
    away = away
    Zones = {hull, garden}
    Modes = {armed, away}
    Zonemaps <- OneMap
    NoZones = NoZones
    NoMode = NoMode
    Junk = Junk
    Threads = {t1, t2}
    NoThread = NoThread
    MaxCrashes = 1
INVARIANTS AlarmControl HandleIsCurrent 
PROPERTIES AlarmRaised
CHECK_DEADLOCK TRUE
