CONSTANTS
    p1 = p1  p2 = p2  p3 = p3
    bank = bank  top = top  old = old
    pod1 = pod1  pod2 = pod2
    Titles <- MCTitles
    Pool <- MCPool
    Bank <- MCBank
    Top <- MCTop
    Retired = {old}
    Own <- MCOwn
    PerDay = 2
    Pods <- MCPods
    LastDay = 2
    MaxSeeds = 1
    MaxOwn = 1
    MaxFailures = 1
    MaxRebuilds = 1
SPECIFICATION Spec
INVARIANTS
    TypeOK
    
    
PROPERTIES
    DayServed
CHECK_DEADLOCK FALSE
