SPECIFICATION FairSpec
CONSTANTS
    Requests = {r1, r2}
    Workers = {w1, w2}
    None = None
    MaxEpochs = 5
INVARIANT TypeOK
INVARIANT EpochTestIsExact
INVARIANT OneThreadPerRequest
PROPERTY OthersAreServed
CHECK_DEADLOCK FALSE
