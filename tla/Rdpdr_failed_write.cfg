SPECIFICATION RdpdrSpec
CONSTANTS
    SerialPorts = {"com1"}
    Fds = {3, 4}
    MaxOpens = 2
    MaxRequests = 2
    MaxAnnounces = 1
    FileSize = 1
    Word = 4
    RequestLength = 2
INVARIANT FailedWritesComplete
CHECK_DEADLOCK FALSE
