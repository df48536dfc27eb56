SPECIFICATION FairSpec
CONSTANTS
    a1 = a1
    a2 = a2
    b = b
    nameA = nameA
    nameB = nameB
    Urls <- MCUrls
    Names <- MCNames
    NameOf <- MCNameOf
    Lists <- MCLists
    NoFile = NoFile
    NoList = NoList
    Failures = TRUE
    FileFaults = TRUE
    MaxCalls = 2
    MaxStarts = 6
INVARIANTS TypeOK FilesOwn AnswersOwn OneAlive NoneLost
PROPERTIES DownloadsSettle
CHECK_DEADLOCK FALSE
