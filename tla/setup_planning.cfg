SPECIFICATION Chain
CONSTANTS
    Calls = {c1, c2}
    Histories <- MCHistories
    MaxCalls = 5
    MaxUnread = 1
INVARIANTS RegeneratedIsReference DeclaredWins DetectedIsReady PlanIsHonest
 
SYMMETRY Interchangeable
CHECK_DEADLOCK FALSE
