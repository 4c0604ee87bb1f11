SPECIFICATION FairSpec
CONSTANTS
    k1 = k1
    Tasks = {1, 2}
    Consumers = {k1}
    Ceiling <- TwoRooms
    Sightings <- Seen1
    Suspects <- OnePair
    MaxOpen = 2
    InputKinds = {"ledger", "workflow"}
    MaxCards = 3
    MaxProposals = 1
    MaxInputs = 1
    MaxAnswers = 1
    MaxFaults = 1
CHECK_DEADLOCK FALSE
PROPERTIES
    QuestionsAreAsked
