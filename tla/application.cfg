SPECIFICATION AppSpec
CONSTANTS
    c1 = c1
    k1 = k1
    Calls = {c1}
    Keys = {k1}
    NoTask = NoTask
    NoUrl = NoUrl
    NoKey = NoKey
    NoData = NoData
    NoResult = NoResult
    NoError = NoError
    Managers = {1, 2}
    DefaultRules = {"fromCacheOrUrl"}
    Requests <- MCRequests
    Results = {"offline"}
    Confined = TRUE
    UseSemaphore = TRUE
    StorageFaults = FALSE
    MaxControls = 1
    MaxAttempts = 2
    Width = 1
    HasTimeout = FALSE
    MaxReleases = 1
    Uploader = 1
    u1 = u1
    u2 = u2
    Uploads = {u1, u2}
    Arguments <- MCArguments
    NoBody = NoBody
    BadUrl = BadUrl
    NoReply = NoReply
INVARIANTS AppTypeOK GateCarriesCalls MainNeverHeld NoDeadlock
PROPERTIES RefinesNetwork UploadsSettle CancelAllReachesBoth
CHECK_DEADLOCK FALSE
