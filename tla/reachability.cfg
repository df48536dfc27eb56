SPECIFICATION FairSpec
CONSTANTS
    Flags <- MCFlags
    NeverRead = NeverRead
    AllowsCellular = TRUE
    ReadFaults = TRUE
    SetupFaults = TRUE
    MaxChanges = 2
    MaxCalls = 3
INVARIANTS TypeOK QuietTold
PROPERTIES ListenersTold
CHECK_DEADLOCK FALSE
