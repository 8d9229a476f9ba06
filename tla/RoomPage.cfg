CONSTANTS
    a = a
    b = b
    c = c
    Profiles = {a, b, c}
    Seated = {a}
    Waiting <- InLine
    NoProfile = nobody
    Staff = staff
    Capacity = 1
    MaxMoves = 3
    MaxTroubles = 1
    MaxVisits = 1
SPECIFICATION Spec
INVARIANTS
    TypeOK
    
    
    
CHECK_DEADLOCK FALSE
