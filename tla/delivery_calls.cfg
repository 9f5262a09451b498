SPECIFICATION FairSpec
CONSTANTS
    harmless = harmless
    risky = risky
    c1 = c1
    c2 = c2
    NoPlan = NoPlan
    NoClient = NoClient
    Clients = {c1, c2}
    Plans = {harmless, risky}
    Unsafe = {risky}
INVARIANTS TypeOK OnlyApprovedPlansPushed PassedHasDraft PushFollowsValidation RecordIsTrue
PROPERTY CallsFinish
