SPECIFICATION Spec
CONSTANTS
    k1 = k1
    Tasks = {1, 2, 3}
    Consumers = {k1}
    Ceiling <- OneRoom
    Sightings <- Seen1
    Suspects <- Copies
    MaxOpen = 2
    InputKinds = {"repair", "resolve", "ledger", "revise", "enrich", "preserve", "workflow", "bulk", "reverse"}
    MaxCards = 2
    MaxProposals = 2
    MaxInputs = 1
    MaxAnswers = 2
    MaxFaults = 1
CHECK_DEADLOCK FALSE
INVARIANTS
    ConfirmedIsMerged
PROPERTIES
    AnswersWhatWasShown
    PassesAgree
