SPECIFICATION Spec
CONSTANTS
    opened = opened
    again = again
    ready = ready
    closed = closed
    manual = manual
    w1 = w1
    w2 = w2
    p1 = p1
    p2 = p2
    c1 = c1
    c2 = c2
    NoRequest = NoRequest
    NoJob = NoJob
    NoCheck = NoCheck
    Head <- MCHead
    Event <- MCEvent
    ScannedEvents <- MCScannedEvents
    Rejected = {}
    Requests = {opened, again, closed}
    Manual = {}
    Procs = {p1, p2}
    Workers = {w1, w2}
    Copies = {c1, c2}
    MaxRetries = 1
    MaxFaults = 0
SYMMETRY FaultSymmetry
CHECK_DEADLOCK FALSE
INVARIANTS TypeOK OneScanPerKey OneCarrier NoSilentLoss
