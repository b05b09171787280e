SPECIFICATION Spec
CONSTANTS
    KeyOrder <- Order
    Begins <- Beginnings
    Absent = Absent
    Tombstone = Tombstone
    Invocations <- Commands
    InitialStores <- Stores
    Changes <- MilvusChanges
    DroppedObjects <- Lost
    LastMessage <- Last
    Channel <- Channels
    InfoFile <- Info
    MaxChanges = 2
    MaxFaults = 2
INVARIANTS
    WritesAreRepairs
    RemovalsAreJustified
    AuditComplete
CHECK_DEADLOCK FALSE
