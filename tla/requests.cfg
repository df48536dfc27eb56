SPECIFICATION FairSpec
CONSTANTS
    c1 = c1
    c2 = c2
    c3 = c3
    k1 = k1
    k2 = k2
    Calls = {c1, c2}
    Keys = {k1, k2}
    NoTask = NoTask
    NoUrl = NoUrl
    NoKey = NoKey
    NoData = NoData
    NoResult = NoResult
    NoError = NoError
    Managers = {1, 2}
    DefaultRules = {"fromCacheOrUrl", "fromCacheOnly"}
    Requests <- MCRequests
    Results = {"good", "bad", "offline"}
    Confined = FALSE
    UseSemaphore = TRUE
    StorageFaults = TRUE
    MaxControls = 1
INVARIANTS TypeOK RetryAccounting CacheProvenance DataXorError SilentOnlyByRestart
PROPERTIES RefinesLiveContract NothingComesBack
CHECK_DEADLOCK FALSE
