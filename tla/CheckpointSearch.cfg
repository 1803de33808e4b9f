SPECIFICATION FairSpec
CONSTANT LastIndex = 3
INVARIANT FoundIsLatest
INVARIANT NothingOverlooked
PROPERTY QuerySettles
