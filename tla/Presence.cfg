CONSTANTS
    Profiles = {p1, p2, p3}
    Tabs = {t1}
    Steady = {p3}
    NoProfile = nobody
    Sweepers = {w1}
    Capacity = 1
    MaxFailures = 1
SPECIFICATION OnceSpec
INVARIANTS
    TypeOK
    ScheduleFollowsPresence
PROPERTIES
    AbandonedGivenUp
CHECK_DEADLOCK FALSE
