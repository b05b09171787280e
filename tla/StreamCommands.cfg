SPECIFICATION Spec
CONSTANTS
    Scenes <- AllScenes
    Begins <- Beginnings
    SelfControlled <- Controlled
    NotANumber = NotANumber
    NoMsg = NoMsg
    MaxProduced = 2
    MaxFaults = 1
INVARIANTS
    StreamsExact
PROPERTIES
    DifferenceFound
CHECK_DEADLOCK FALSE
