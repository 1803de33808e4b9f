SPECIFICATION FairSpec
CONSTANTS
    o1 = o1
    o2 = o2
    Users = {u1, u2}
    Objects = {o1, o2}
    LockMaps <- SomeLockMaps
    MaxRetries = 1
    MaxBriefcases = 2
    MaxStray = 1
    MaxCalls = 4
    MaxChangesets = 1
INVARIANT GrantedMeansHeld
INVARIANT ReleasedMeansFree
INVARIANT EditsBuildOnEachOther
PROPERTY CallsSettle
CHECK_DEADLOCK FALSE
