SPECIFICATION Spec
CONSTANTS
    Channels = {c1, c2, c3}
    MAX_CHANNELS = 2
    MaxPieces = 2
    MaxMessages = 2
    MaxLost = 1
    DvcNames = {n1, n2}
    DvcOtherNames = {n3}
    DvcIds <- MCDvcIds
    MAX_DVC_CHANNELS = 3
    MaxDvcConnections = 2
    SecRekey = 2
    MaxSecSessions = 2
    MaxSecFrames = 3
    FpCodes = {0, 1}
    DICT_SIZE = 5
    FpPieces <- MCFpPieces
    MaxUpdates = 2
    MaxFragments = 3
    MAX_QUEUE = 3
    SndFormats = {"a", "b"}
    MaxWaves = 3
    MaxFaults = 1
    MaxResets = 1
    PipeSize = 3
    MaxPaFaults = 3
    AddinIds = {1, 2}
    AddinPipe = 1
    MaxAddinBytes <- MCAddinBytes
    MaxAddinOutput = 1
    Instances = {1, 2, 3}
    Commands = {"plain", "backslash"}
    MaxCtrlCrashes = 1
INVARIANT ReceiverInStep
INVARIANT UpdatesInStep
INVARIANT SoundFollowsDevice
INVARIANT ProcessesAreServed
PROPERTY MessagesArriveWhole
PROPERTY ConfirmsInOrder
CHECK_DEADLOCK FALSE
