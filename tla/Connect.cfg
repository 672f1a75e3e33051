SPECIFICATION FairSpec
CONSTANTS
    NumChannels = 2
INVARIANT ConnectInvariant
PROPERTY FallbackAsksLess
PROPERTY ConnectEnds
CHECK_DEADLOCK FALSE
