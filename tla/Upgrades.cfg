SPECIFICATION Spec
CONSTANTS
    Migrators = {m1, m2}
    Starts <- SomeVersions
    ConcurrentFrom = 60
    Rehearsed = {60}
    Rehearsals = 1
CHECK_DEADLOCK FALSE
INVARIANTS
    VersionIsEarned
    UpgradeComesThrough
PROPERTIES
    NothingLost
