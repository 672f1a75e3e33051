SPECIFICATION FairSpec
CONSTANTS
    Sizes = {2, 3, 6}
    MinSize = 2
    MaxSize = 4
    RATE = 1
    DEFER = 2
    WAIT = 2
    MaxResizes = 3
    MaxLosses = 1
INVARIANT ResizeInvariant
PROPERTY OnlineIsPreferred
PROPERTY OnlineResizeConverges
