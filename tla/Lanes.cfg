SPECIFICATION FairSpec
CONSTANTS
    Jobs <- TwoJobs
    Dirs = {d1, d2}
    MaxConcurrency = 2
    MaxFaults = 2
CHECK_DEADLOCK FALSE
INVARIANTS
    LanesApart
PROPERTIES
    LanesEnd
