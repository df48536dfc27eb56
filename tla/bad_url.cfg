SPECIFICATION FairSpec
CONSTANTS
    c1 = c1
    c2 = c2
    c3 = c3
    k1 = k1
    k2 = k2
    Calls = {c1, c2}
    Keys = {k1, k2}
    NoTask = NoTask
    NoUrl = NoUrl
    NoKey = NoKey
    NoData = NoData
    NoResult = NoResult
    NoError = NoError
    Managers = {1}
    DefaultRules = {"fromCacheOrUrl"}
    Requests <- MCRequestsBadUrl
    Results = {"good", "lost"}
    Confined = TRUE
    UseSemaphore = FALSE
    StorageFaults = FALSE
    MaxControls = 0
PROPERTY Answered
CHECK_DEADLOCK FALSE
