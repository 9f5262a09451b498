SPECIFICATION FairSpec
CONSTANTS
    a = a
    b = b
    c = c
    d = d
    w1 = w1
    w2 = w2
    NoRequest = NoRequest
    NoPid = NoPid
    Requests = {a, b}
    Operations = {"launch", "stop", "restart"}
    Workers = {w1}
    Redis = TRUE
    AutoRecover = TRUE
    MaxFaults = 1
CHECK_DEADLOCK FALSE
INVARIANTS TypeOK RecoveredOnce
PROPERTY DeadSandboxNoticed
