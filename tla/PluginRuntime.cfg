CONSTANTS
    b1 = b1
    b2 = b2
    bx = bx
    c1 = c1
    c2 = c2
    None = None
    Binaries = {b1, b2, bx}
    Configs = {c1}
    Meta <- MCMeta
    Admins = {g1, g2}
    Calls = {r1}
    PoolSize = 2
    StrictMigrate = TRUE
    MaxInstances = 2
    MaxOps = 2
    x1 = x1
    x2 = x2
    Executions = {x1, x2}
    MaxHandles = 2
    SqlPoolSize = 2
    MaxCalls <- MCCalls
    MaxGenerations = 2
    KvKeys = {k1, k2, k3}
    KvSizes = {0, 1, 2}
    KvMaxKeys = 2
    KvMaxTotal = 3
    MaxDrops = 1
    Jobs = {g1, g2}
    Sizes = {1, 2, 3}
    MaxFileSize = 2
    MaxChunk = 2
    MaxPuts = 2
    MaxFailures = 1
    Events = {g1, g2, e3}
    BusHandlers = {1, 2}
    MaxRetries = 1
    DLQMaxSize = 2
    MaxReplays = 2
INIT MCInit
NEXT MCNext
INVARIANTS
     GracefulDrain 
    ConnectionsGivenBack KvQuotaExact
    FilesWhole DeadLettersKept
SYMMETRY Symmetry
CHECK_DEADLOCK FALSE
