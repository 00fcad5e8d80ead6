SPECIFICATION FairSpec
CONSTANTS
    f1 = f1
    f2 = f2
    f3 = f3
    bulk = bulk
    single = single
    None = None
    Files <- MCFiles
    Requests <- MCRequests
    FilesOf <- MCFilesOf
    Modes <- MCModes
    Deleters = {d1}
    MaxCrashes = 1
INVARIANTS
    OneAtATime
    StoresAgree
    DeletedStayDeleted
    ReturnedSurvive
PROPERTIES
    ImplementsContract
    CallsEnd
