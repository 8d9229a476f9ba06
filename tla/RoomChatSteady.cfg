CONSTANTS
    Profiles = {viewer, other}
    Viewer = viewer
    Moderators = {other}
    Handlers = {h1, h2}
    Flushers = {w1}
    BurstLimit = 1
    MaxRequests = 3
    MaxDrops = 1
    MaxFailures = 0
SPECIFICATION SteadySpec
SYMMETRY HandlersAlike
INVARIANTS
    ViewIsCurrent
CHECK_DEADLOCK FALSE
