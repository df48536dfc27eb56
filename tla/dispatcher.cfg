SPECIFICATION FairSpec
CONSTANTS
    Jobs = {j1, j2, j3}
    Width = 2
    HasTimeout = TRUE
    SignalChoices = {TRUE, FALSE}
    MaxReleases = 2
INVARIANTS TypeOK PermitAccounting NeverStuck
PROPERTIES RefinesExecutor
CHECK_DEADLOCK FALSE
