\* Two rules out of twelve, two commands, three events, one crash.
SPECIFICATION FairSpec
CONSTANTS
    Ids = {1, 2}
    Rules0 <- MCRules
    NoInventory = NoInventory
    MaxVersion = 3
    MaxEdits = 2
    MaxCrashes = 1
   
PROPERTIES EventsDone
CHECK_DEADLOCK FALSE
