SPECIFICATION FairSpec
CONSTANTS
    f1 = f1
    f2 = f2
    bulk = bulk
    single = single
    Flush = Flush
    None = None
    Files <- MCFiles
    Requests <- MCRequests
    Bulk <- MCBulk
    FilesOf <- MCFilesOf
    NodesOf <- MCNodesOf
    CountWorkers = 1
    DocQSize = 1
    NodeQSize = 1
    NodeFlushCount = 2
    Deleters = {d1}
INVARIANTS
    TypeOK
    TasksAccounted
    PermitsAccounted
    ReturnedAreSettled
    StacksAgree
    NobodyIsStuck
    ReturnedAreDurable
PROPERTIES
    ImplementsContract
    CallsEnd
