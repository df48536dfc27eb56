SPECIFICATION Spec
CONSTANTS
    a1 = a1
    a2 = a2
    b = b
    nameA = nameA
    nameB = nameB
    Urls <- MCUrls
    Names <- MCNames
    NameOf <- MCNameOf
    Lists <- MCSeparate
    NoFile = NoFile
    NoList = NoList
    Failures = FALSE
    FileFaults = FALSE
    MaxCalls = 2
    MaxStarts = 2
INVARIANTS CompletedIsThisDownload
CHECK_DEADLOCK FALSE
