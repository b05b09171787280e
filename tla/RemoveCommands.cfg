SPECIFICATION Spec
CONSTANTS
    Absent = Absent
    Tombstone = Tombstone
    KeyOrder <- MCKeyOrder
    Begins <- MCBegins
    Collections <- MCCollections
    DbId <- MCDbId
    Channel <- MCChannel
    Segment <- MCSegment
    SnapshotId <- MCSnapshot
    Importing = {"12"}
    InitialLives <- MCLives
    Logs = {"l1", "l2"}
    FirstLog = "l1"
    MaxMilvus = 2
    Invocations <- MCInvocations
    PageSize = 2
    MaxCommands = 2
    MaxFaults = 1
INVARIANTS DropCleans LeaksCleaned
PROPERTIES DryRunKeepsStore LiveKept LogsBackedUp
CHECK_DEADLOCK FALSE
