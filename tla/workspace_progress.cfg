SPECIFICATION FairSpec
CONSTANTS
    a = a
    b = b
    c = c
    d = d
    w1 = w1
    w2 = w2
    NoRequest = NoRequest
    NoPid = NoPid
    Requests = {a, b, c}
    Operations = {"launch", "restart", "cancel"}
    Workers = {w1}
    Redis = FALSE
    AutoRecover = FALSE
    MaxFaults = 0
CHECK_DEADLOCK FALSE
CONSTRAINT InTurn
PROPERTY LaunchSettles
