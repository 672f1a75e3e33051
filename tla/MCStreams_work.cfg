SPECIFICATION FairSpec
CONSTANTS
    Channels = {c1}
    MAX_CHANNELS = 1
    MaxPieces = 1
    MaxMessages = 1
    MaxLost = 0
    DvcNames = {n1}
    DvcOtherNames = {}
    DvcIds = {1}
    MAX_DVC_CHANNELS = 1
    MaxDvcConnections = 1
    SecRekey = 1
    MaxSecSessions = 2
    MaxSecFrames = 2
    FpCodes = {1}
    DICT_SIZE = 3
    FpPieces <- MCFpPieces
    MaxUpdates = 1
    MaxFragments = 1
    MAX_QUEUE = 3
    SndFormats = {"a"}
    MaxWaves = 2
    MaxFaults = 1
    MaxResets = 1
    PipeSize = 1
    MaxPaFaults = 0
    AddinIds = {1}
    AddinPipe = 1
    MaxAddinBytes <- MCAddinBytes
    MaxAddinOutput = 1
    Instances = {1, 2, 3}
    Commands = {"plain", "backslash"}
    MaxCtrlCrashes = 1
PROPERTY WorkCompletes
CHECK_DEADLOCK FALSE
