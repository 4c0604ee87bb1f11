SPECIFICATION Spec
CONSTANTS
    Slots = {"default"}
    Runs <- TwoRuns
    Phases = {"execute","external_action"}
    Origins = {"issue","review_request"}
    Tries <- Tried
    MaxFaults = 1
CHECK_DEADLOCK FALSE
INVARIANTS
    ResultIsOwn
    CompletionIsVisible
    OneLateWrite
    ReportIsTrue
PROPERTIES
    LedgerKept
