CONSTANTS
    Joins = {x1, x2, x3}
    Crowd = 2
    Considered = 2
    MaxRooms = 4
    MaxCrowd = 3
    MaxLeaves = 1
    MaxDirect = 1
SPECIFICATION OverflowSpec
SYMMETRY JoinsAlike
INVARIANTS
    OverflowTypeOK
    
    OneSpareTopic
CHECK_DEADLOCK FALSE
