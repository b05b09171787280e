SPECIFICATION Spec
CONSTANTS
    Absent = Absent
    Tombstone = Tombstone
    KeyOrder <- MCKeyOrder
    Begins <- MCBegins
    Collections <- MCCollections
    DbId <- OneDb
    Channel <- MCChannel
    Segment <- MCSegment
    SnapshotId <- MCSnapshot
    Importing = {"12"}
    InitialLives <- DropLives
    Logs = {"l1", "l2"}
    FirstLog = "l1"
    MaxMilvus = 1
    Invocations <- DropInvocations
    PageSize = 2
    MaxCommands = 1
    MaxFaults = 0
PROPERTY DropOnlyDropped
CHECK_DEADLOCK FALSE
