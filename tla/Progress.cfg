SPECIFICATION FairSpec
CONSTANTS
    t1 = t1
    t2 = t2
    Tasks = {t1, t2}
    MaxAttempts = 2
    LeaseTime = 1
    RetryDelay = 1
    ParkDelay = 1
    SnoozeDelay = 1
    SlotCap = 1
    PlanCap = 1
    ReaderCap = 1
    ScanLimit = 2
    Tier <- OneTier
    PlanGranted = {t1, t2}
    ExecuteGranted = {}
    ActionGranted = {}
    SkipPlan = {}
    Researched = {}
    Disputable = {}
    Unresearchable = {}
    Forge = {t1}
    ReviewRequests = {}
    Conditional = {}
    Losable = {}
    Allowlists <- EveryPhase
    Answers = {a1}
    InputKinds = {"edit", "withdraw"}
    MaxClaims = 2
    MaxInputs = 1
    MaxFaults = 1
PROPERTIES
    EveryClaimSettles
    ReadyWorkMoves
    RevisionReplans
    WithdrawnIsClosed
