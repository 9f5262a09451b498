SPECIFICATION FairSpec
CONSTANTS
    opened = opened
    again = again
    ready = ready
    closed = closed
    manual = manual
    w1 = w1
    w2 = w2
    p2 = p2
    c2 = c2
    p1 = p1
    c1 = c1
    NoRequest = NoRequest
    NoJob = NoJob
    NoCheck = NoCheck
    Head <- MCHead
    Event <- MCEvent
    ScannedEvents <- MCScannedEvents
    Rejected = {}
    Requests = {opened, ready, manual}
    Manual = {manual}
    Procs = {p1}
    Workers = {w1}
    Copies = {c1}
    MaxRetries = 1
    MaxFaults = 1
CHECK_DEADLOCK FALSE
INVARIANTS OneScanPerHead CompletedIsPublished DeadLetterIsFinal
PROPERTIES ContractHolds AcceptedScansSettle
