CONSTANTS
    Profiles = {viewer, other}
    Viewer = viewer
    Moderators = {other}
    Handlers = {h1, h2}
    Flushers = {w1}
    BurstLimit = 1
    MaxRequests = 2
    MaxDrops = 2
    MaxFailures = 1
SPECIFICATION Spec
SYMMETRY HandlersAlike
INVARIANTS
    TypeOK
    ShownOnce
    MessagesCounted
    BurstExpires
CHECK_DEADLOCK FALSE
