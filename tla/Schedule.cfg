SPECIFICATION Spec
CONSTANTS
    Tasks = {"a", "b", "c"}
    Known = {"a", "b"}
    Reports <- Readings
    Due <- DueDates
    ReaderOwned = {"a"}
    MaxConditions = 2
    MaxEdges = 1
    MaxDepth = 2
    Days = {0, 5}
    Ends = {"timeout", "result"}
    InputKinds = {"open", "done", "dropped", "lowered"}
    MaxChanges = 2
    MaxClaims = 1
    MaxInputs = 1
INVARIANTS
    NoWaitingInCircles
    RunningIsFree
    DeadlinesReach
PROPERTIES
    AutomationYields
CHECK_DEADLOCK FALSE
