SPECIFICATION Spec
CONSTANTS
    t1 = t1
    t2 = t2
    Tasks = {t1, t2}
    MaxAttempts = 2
    LeaseTime = 1
    RetryDelay = 1
    ParkDelay = 1
    SnoozeDelay = 1
    SlotCap = 1
    PlanCap = 1
    ReaderCap = 1
    ScanLimit = 1
    Tier <- TwoTiers
    PlanGranted = {t1, t2}
    ExecuteGranted = {t2}
    ActionGranted = {}
    SkipPlan = {t2}
    Researched = {t1}
    Disputable = {}
    Unresearchable = {t1}
    Forge = {t1}
    ReviewRequests = {}
    Conditional = {t2}
    Losable = {t1}
    Allowlists <- PlansOrAll
    Answers = {a1}
    InputKinds = {"steer", "priority", "profile", "lifecycle", "schedule", "withdraw", "return", "close", "reopen", "edit"}
    MaxClaims = 2
    MaxInputs = 2
    MaxFaults = 2
PROPERTIES
    FencedByVersion
    LedgerSpec
