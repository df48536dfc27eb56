SPECIFICATION FairSpec
CONSTANTS
    a1 = a1
    a2 = a2
    b = b
    nameA = nameA
    nameB = nameB
    Urls <- MCUrls
    Names <- MCNames
    NameOf <- MCNameOf
    Lists <- MCSeparate
    NoFile = NoFile
    NoList = NoList
    Failures = TRUE
    FileFaults = FALSE
    MaxCalls = 1
    MaxStarts = 1
PROPERTIES FailureAnswered
CHECK_DEADLOCK FALSE
