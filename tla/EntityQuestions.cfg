SPECIFICATION Spec
CONSTANTS
    DigitIds = {3}
    ClientHeaders <- TwoClientHeaders
    MaxId = 3
    Names <- ABC
    Initial <- Few
    PageSize = 1
    Lists = {}
    Counts = {}
    Gets <- GetOperations
    Sends <- SendOperations
    Questions <- AllQuestions
    Headers <- NoHeaders
    OthersDo <- AnyPush
    MaxChanges = 2
    MaxExpired = 0
    MaxCalls = 2
INVARIANT NamedIsReturned
INVARIANT ResolvedWithinCall
CHECK_DEADLOCK FALSE
