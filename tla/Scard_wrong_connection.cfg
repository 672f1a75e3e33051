SPECIFICATION Spec
CONSTANTS
    Requests = {r1}
    Workers = {w1}
    None = None
    MaxEpochs = 4
INVARIANT CompletionsStayOnConnection
CHECK_DEADLOCK FALSE
