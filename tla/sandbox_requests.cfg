SPECIFICATION FairSandbox
CONSTANTS
    Calls = {c1, c2}
    SourceInjected = TRUE
    MaxLaunches = 3
    MaxCalls = 5
    MaxTime = 2
INVARIANT NoStraySandbox
PROPERTIES CommitsAreSettled RequestsEnd
CHECK_DEADLOCK FALSE
