SPECIFICATION Spec
CONSTANTS
    Jobs = {j1, j2, j3}
    Width = 2
    HasTimeout = TRUE
    SignalChoices = {TRUE}
    MaxReleases = 2
INVARIANT HeldUntilGreenLights
CHECK_DEADLOCK FALSE
