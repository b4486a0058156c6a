\* One driver with two devices, one of them with a passed uuid; no crash.
SPECIFICATION Spec
CONSTANTS
    Clients = {c1}
    Ids = {d1, p1}
    Passed = {p1}
    Uuids = {u1, u2}
    Controller = agocontroller
    Levels = {off, on}
    Zero = off
    Void = Void
    MaxQueue = 1
    MaxCrashes = 0
SYMMETRY Symmetry
INVARIANTS ValuesUnlessAsked
PROPERTIES AnnounceKeepsState
CHECK_DEADLOCK TRUE
