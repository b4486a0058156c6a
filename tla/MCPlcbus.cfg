\* Two units, one question at the start, two commands, one foreign frame, and
\* the three repetitions of the code.
SPECIFICATION FairSpec
CONSTANTS
    a1 = a1
    b1 = b1
    Units = {a1, b1}
    Startup <- MCStartup
    Here = Here
    Stray = Stray
    Tried = Tried
    MaxRepeats = 3
    MaxCommands = 2
    MaxNoise = 1
    MaxAir = 2
    MaxLine = 2
INVARIANTS InOrder SurplusOnly BrokenBySurplus
 
CHECK_DEADLOCK FALSE
