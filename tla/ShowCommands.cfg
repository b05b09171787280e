SPECIFICATION Spec
CONSTANTS
    KeyOrder <- Order
    Begins <- Beginnings
    Absent = Absent
    Tombstone = Tombstone
    Invocations <- Commands
    InitialStores <- Stores
    Changes <- MilvusChanges
    LoadedOn <- Loaded
    MaxChanges = 2
    MaxFaults = 1
INVARIANTS
    ListingExact
    JoinExact
CHECK_DEADLOCK FALSE
