SPECIFICATION FairSpec
CONSTANTS
    Documents <- Issue
    LegacyContent = "old"
    Importers = {i1,i2}
    i1 = i1
    i2 = i2
    Limit = 2
    MaxResurfaces = 1
    MaxPages = 2
    MaxPage = 2
    MaxDecisions = 1
    MaxReader = 1
    MaxFaults = 1
CHECK_DEADLOCK FALSE
INVARIANTS
    OneHistory
    CurrentTaskFollowsSource
    NoneLost
PROPERTIES
    ReaderStands
    FeedIsTaken
