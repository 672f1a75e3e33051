SPECIFICATION Spec
CONSTANTS
    SerialPorts = {"com1"}
    Fds = {3, 4}
    MaxOpens = 2
    MaxRequests = 2
    MaxAnnounces = 1
    FileSize = 1
    Word = 4
    RequestLength = 2
    DiskNames = {"a", "b"}
    DiskFds = {3, 4}
    MaxInodes = 2
    MaxDiskOpens = 2
    MaxOthers = 1
    TtyDefaults <- MCTtyDefaults
    PcPrograms = {1, 2}
    Printers = {"p1", "p2"}
    PcBlobs <- MCBlobs
    MaxPcSaves = 2
    MaxPcCrashes = 1
    PstCells = 3
    C2Cells = 2
    BumpCount = 1
    Bitmaps = {1, 2}
    MaxCacheOrders = 5
    MaxCacheRuns = 1
    CoordWidth = 4
    LowValues = 2
    ByteValues = 2
    OrderWord = 64
    MaxOrders = 2
    MaxActivations = 1
    GridBitmaps = {1, 2}
    GridBlocks = 2
    MaxGridOrders = 7
    MaxGridResets = 1
INVARIANT RequestsAnswered
INVARIANT FilesAreKept
INVARIANT BlobsAreKept
INVARIANT DrawnAsSent
INVARIANT CachesHold
CHECK_DEADLOCK FALSE
