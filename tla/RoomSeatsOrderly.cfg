CONSTANTS
    Profiles = {owner, p1, p2, p3}
    Owner = owner
    Seated = {owner, p1}
    NoProfile = nobody
    Capacity = 2
    Requests = {r1, r2}
    Skew = 0
    MaxRequests = 4
    MaxFailures = 0
SPECIFICATION OrderlySpec
INVARIANTS
    NextWaiterAdmitted
    RowsMatchSeats
PROPERTIES
    SeatHandedOn
    
CHECK_DEADLOCK FALSE
