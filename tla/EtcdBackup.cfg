SPECIFICATION FairBackupSpec
CONSTANTS
  MaxKey = 3
  PrefixFirst = 2
  PrefixLast = 3
  Value <- OneValue
  Absent = "absent"
  Session <- None
  BatchSize = 1
  IgnoreRevision = TRUE
  MaxRev = 3
INVARIANT
  NothingMissed
PROPERTY
  BackupEnds
