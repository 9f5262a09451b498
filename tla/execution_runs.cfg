SPECIFICATION FairSpec
CONSTANTS
    src = src
    doc = doc
    env = env
    x = x
    y = y
    bad = bad
    bin = bin
    fffd = fffd
    Files = {src, doc, env}
    Names = {"a.py", "./a.py", "b.md", ".env"}
    Resolve <- MCResolve
    Rejected = Rejected
    Missing = ""
    Tokens = {x, y, bad, bin, fffd}
    Decode <- MCDecode
    NoFile = NoFile
    MaxFiles = 2
    MaxBytes = 6
    NoOutput = NoOutput
    Protected = {}
    CompanyRules <- MCCompanyRules
    ArchitectureRules <- MCArchitectureRules
    Repository <- MCRepository
    Forbidden = {env}
    Outputs <- MCOutputs
    EstimatedFiles <- MCEstimated
    Fixes <- MCFixes
    MaxRetries = 2
    MaxAttempts = 3
    MaxFaults = 1
CHECK_DEADLOCK FALSE
INVARIANTS TypeOK FailedIsRolledBack HealingRestores CancelledInTime CompletedAsValidated
    BatchIsSequence RollbackRestores
PROPERTIES CommittedStays ExecuteReturns
