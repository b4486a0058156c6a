\* Two workers, two subscriptions, a queue limit of 1 and four events.
SPECIFICATION Spec
CONSTANTS
    Workers = {w1, w2}
    Uuids = {u1, u2}
    NoUuid = NoUuid
    MainLoop = MainLoop
    NoThread = NoThread
    End = End
    QueueLimit = 1
    MaxEvents = 4
SYMMETRY Symmetry
INVARIANTS IteratorsValid QueueBounded NothingLost GoneIsFinal
PROPERTIES OnlyAbandonedDropped ImplementsEventFeed
CHECK_DEADLOCK TRUE
