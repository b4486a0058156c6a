\* Two workers, one subscription, a queue limit of 0 and two events.  No
\* symmetry: the properties are temporal.
SPECIFICATION FairSpec
CONSTANTS
    Workers = {w1, w2}
    Uuids = {u1}
    NoUuid = NoUuid
    MainLoop = MainLoop
    NoThread = NoThread
    End = End
    QueueLimit = 0
    MaxEvents = 2
PROPERTIES OrphanReturns WaitingEventTaken FanOutEnds
CHECK_DEADLOCK TRUE
