\* Two connections; a read may cut a reading; the server starts twice.
SPECIFICATION FairSpec
CONSTANTS
    h1 = h1
    h2 = h2
    Handlers = {h1, h2}
    Nobody = Nobody
    L = 5
    Sep = 3
    ReadSize = 12
    BufLen = 11
    PipeSize = 15
    MaxReadings = 4
    MaxStarts = 2
INVARIANTS OneReading
PROPERTIES ImplementsSharedText Answered 
CHECK_DEADLOCK FALSE
