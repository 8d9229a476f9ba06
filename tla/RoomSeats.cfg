CONSTANTS
    Profiles = {owner, p1, p2, p3}
    Owner = owner
    Seated = {owner, p1}
    NoProfile = nobody
    Capacity = 2
    Requests = {r1, r2}
    Skew = 1
    MaxRequests = 4
    MaxFailures = 1
SPECIFICATION Spec
SYMMETRY Interchangeable
INVARIANTS
    TypeOK
    CapacityNeverExceeded
    JoinCountedOnce
PROPERTIES
    ImplementsSeatBook
CHECK_DEADLOCK FALSE
