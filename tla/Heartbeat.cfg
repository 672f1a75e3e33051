SPECIFICATION FairSpec
CONSTANTS
    Periods = {0, 2}
    Counts = {0, 1}
    SELECT_TIMEOUT = 13
    MaxStall = 1
    Longest = 13
INVARIANT HeartbeatInvariant
PROPERTY DeadServerDetected
CHECK_DEADLOCK FALSE
