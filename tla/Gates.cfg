SPECIFICATION Spec
CONSTANTS
    t1 = t1
    t2 = t2
    Tasks = {t1}
    MaxAttempts = 2
    LeaseTime = 1
    RetryDelay = 1
    ParkDelay = 1
    SnoozeDelay = 1
    SlotCap = 1
    PlanCap = 1
    ReaderCap = 1
    ScanLimit = 2
    Tier <- OneTier
    PlanGranted = {t1}
    ExecuteGranted = {}
    ActionGranted = {}
    SkipPlan = {}
    Researched = {t1}
    Disputable = {t1}
    Unresearchable = {}
    Forge = {}
    ReviewRequests = {}
    Conditional = {}
    Losable = {}
    Allowlists <- EveryPhase
    Answers = {a1}
    InputKinds = {"reader", "discuss", "reassign", "reconfigure"}
    MaxClaims = 4
    MaxInputs = 3
    MaxFaults = 1
INVARIANTS
    PhaseIsEarned
    OwnerIsDecidedFirst
    ReviewedResultIsCurrent
