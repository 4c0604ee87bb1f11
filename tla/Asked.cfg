SPECIFICATION FairSpec
CONSTANTS
    t1 = t1
    t2 = t2
    drip = drip
    view = view
    Tasks = {t1}
    Announced = {t1}
    Consumers = {drip}
    Ceiling <- OneEach
    MaxAttempts = 1
    LeaseTime = 1
    RetryDelay = 1
    ParkDelay = 1
    SnoozeDelay = 1
    Actions = {"start","until_meeting","comment_and_go","repair","queue_view","select","revise_task"}
    FirstOutcomes = {"awaiting_plan"}
    MaxCards = 3
    MaxDeliveries = 2
    MaxClaims = 1
    MaxInputs = 1
    MaxFaults = 1
INVARIANTS
    ButtonsShowTheRow
    OneMessageOpens
PROPERTIES
    GateIsAsked
    ObsoleteMessageGoes
