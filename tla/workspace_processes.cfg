SPECIFICATION Spec
CONSTANTS
    a = a
    b = b
    c = c
    d = d
    w1 = w1
    w2 = w2
    NoRequest = NoRequest
    NoPid = NoPid
    Requests = {a, b, c, d}
    Operations = {"launch", "stop", "cancel", "delete"}
    Workers = {w1}
    Redis = TRUE
    AutoRecover = FALSE
    MaxFaults = 0
CHECK_DEADLOCK FALSE
SYMMETRY RequestSymmetry
INVARIANT NoOrphanProcess
