SPECIFICATION Analysis
CONSTANTS
    w1 = w1
    w2 = w2
    blocked = blocked
    clean = clean
    Workers = {w1, w2}
    Scans = {blocked, clean}
    Entries <- MCEntries
    Lines <- MCLines
    Configurations <- MCConfigurations
    MonthOf <- MCMonthOf
    CompanyRules <- MCCompanyRules
    ArchitectureRules <- MCArchitectureRules
    Patterns <- MCPatterns
    SemgrepAnswers <- MCSemgrepAnswers
    AIAnswers <- MCAIAnswers
    MaxEdits = 1
    MaxTries = 2
    MaxFaults = 1
CHECK_DEADLOCK FALSE
SYMMETRY Interchangeable
INVARIANTS BudgetHolds BlockingIsStable ScansReport
