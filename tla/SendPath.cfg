SPECIFICATION FairSpec
CONSTANTS
    Threads = {main, w1}
    Main = main
    NoOne = NoOne
    REKEY = 2
    MaxChunks = 2
    MaxSends = 3
INVARIANT TypeOK
INVARIANT FramesAreWhole
INVARIANT CipherInStep
INVARIANT MessagesAreWhole
PROPERTY SendersFinish
CHECK_DEADLOCK FALSE
