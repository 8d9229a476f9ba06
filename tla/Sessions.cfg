CONSTANTS
    Tabs = {t1}
    NoTab = notab
    Calls = {c1, c2}
    MaxTokens = 4
    MaxLoads = 2
    MaxFailures = 1
    MaxHasty = 1
SPECIFICATION FairSpec
INVARIANTS
    TypeOK
    
    OneLiveToken
PROPERTIES
    RestoreSettles
CHECK_DEADLOCK FALSE
