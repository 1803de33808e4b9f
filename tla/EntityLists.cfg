SPECIFICATION FairSpec
CONSTANTS
    DigitIds = {3}
    ClientHeaders <- TwoClientHeaders
    MaxId = 3
    Names <- ABC
    Initial <- Some
    PageSize = 2
    Lists <- AllLists
    Counts = {0, 1}
    Gets = {}
    Sends = {}
    Questions = {}
    Headers <- SomeHeaders
    OthersDo <- AnyChange
    MaxChanges = 1
    MaxExpired = 1
    MaxCalls = 3
INVARIANT ListsAreWhole
INVARIANT TakesContinue
INVARIANT RequestsSpeakForCaller
PROPERTY CallsSettle
CHECK_DEADLOCK FALSE
