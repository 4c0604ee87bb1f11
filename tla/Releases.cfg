SPECIFICATION FairSpec
CONSTANTS
    t1 = t1
    p1 = p1
    p2 = p2
    Tasks <- OneTask
    Passes <- TwoPasses
    None = None
    MaxAttempts = 2
    LeaseTime = 1
    WaitLimit = 1
    MaxJobs = 3
    MaxInputs = 2
    MaxFaults = 1
INVARIANTS
    Recoverable
PROPERTIES
    AnnouncedIsFinal
    PublicationSettles
    PlanIsReleased
