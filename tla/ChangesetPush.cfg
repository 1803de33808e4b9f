SPECIFICATION FairSpec
CONSTANTS
    Pushers = {p1, p2}
    MaxRetries = 1
    MaxCalls = 2
INVARIANT LoggedMeansUploaded
INVARIANT ReturnedMeansPushed
INVARIANT RefusalIsCertain
PROPERTY PushSettles
PROPERTY ImplementsPushLog
