CONSTANTS
    Profiles = {p1}
    Tabs = {t1, t2}
    Steady = {}
    NoProfile = nobody
    Sweepers = {w1}
    Capacity = 1
    MaxFailures = 0
SPECIFICATION OnceSpec
PROPERTIES
    SweptOnlyOffline
CHECK_DEADLOCK FALSE
