SPECIFICATION Spec
CONSTANTS
    Zero = Zero
    Object <- MCObject
    Unreadable = {"5.0.1", "5.d1"}
    BatchSize = 2
    Folder <- MCFolder
    Segments <- MCSegments
    Partitions <- MCPartitions
    KeyField = 101
    Hash32Int64 <- MCHash
    Commands <- MCCommands
    Workers = {w1, w2}
INVARIANTS CountExact LocateExact ChecksExact
PROPERTIES ScanReturns
CHECK_DEADLOCK FALSE
