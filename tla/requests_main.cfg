SPECIFICATION Spec
SYMMETRY Symmetry
CONSTANTS
    c1 = c1
    c2 = c2
    c3 = c3
    k1 = k1
    k2 = k2
    Calls = {c1, c2, c3}
    Keys = {k1, k2}
    NoTask = NoTask
    NoUrl = NoUrl
    NoKey = NoKey
    NoData = NoData
    NoResult = NoResult
    NoError = NoError
    Managers = {1, 2}
    DefaultRules = {"fromURL"}
    Requests <- MCRequestsPeers
    Results = {"good", "lost"}
    Confined = TRUE
    UseSemaphore = FALSE
    StorageFaults = FALSE
    MaxControls = 2
INVARIANTS NoFinishedTaskTracked UniqueKeyTracked SweepReaches
PROPERTIES CancelOnlyByPeer RefinesContract
CHECK_DEADLOCK FALSE
