\* Two scenarios and two threads, four commands, one crash.
SPECIFICATION FairSpec
CONSTANTS
    on = on
    off = off
    Ids = {s1, s2}
    Elements = {on, off}
    Pause = Pause
    Scalar = Scalar
    Void = Void
    Scenarios0 <- MCScenarios
    Threads = {t1, t2}
    MaxCommands = 4
    MaxCrashes = 1
INVARIANTS PointerGood PlayedRight 
PROPERTIES PlaysEnd
CHECK_DEADLOCK FALSE
