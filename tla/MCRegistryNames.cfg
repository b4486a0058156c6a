\* One driver with one device; two crashes, so two names if the file is torn.
\* No symmetry: a property is temporal.
SPECIFICATION FairSpec
CONSTANTS
    Clients = {c1}
    Ids = {d1}
    Passed = {}
    Uuids = {u1, u2}
    Controller = agocontroller
    Levels = {off}
    Zero = off
    Void = Void
    MaxQueue = 2
    MaxCrashes = 2
INVARIANTS UuidStable 
PROPERTIES AllListed
CHECK_DEADLOCK TRUE
