SPECIFICATION FairSpec
CONSTANTS
    RECONNECT_TIMEOUT = 2
    SLEEP = 2
INVARIANT TypeOK
 
INVARIANT SessionIsActivated
INVARIANT EndedSessionsLeaveNoTls
PROPERTY FreshRetryLastsWindow
PROPERTY QuitExits
PROPERTY RetriesEnd
CHECK_DEADLOCK FALSE
