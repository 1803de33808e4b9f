SPECIFICATION FairSpec
CONSTANTS
    Runs = {r1, r2}
    BriefcaseCount = 1
    Changesets = 2
    ChangesetGroups <- OneGroup
    ExtendedData <- OneData
    NamedVersions <- BothNamed
    MaxAttempts = 2
    MaxCheckpointPolls = 2
    MaxIModels = 2
    MaxCalls = 3
    MaxEnds = 1
INVARIANT CompletedIsWhole
INVARIANT RunsShareOne
PROPERTY CallsSettle
CHECK_DEADLOCK FALSE
