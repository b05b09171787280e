SPECIFICATION FairRestoreSpec
CONSTANTS
  MaxKey = 5
  PrefixFirst = 1
  PrefixLast = 5
  Value <- TwoValues
  Absent = "absent"
  Session <- Nodes
  Worker <- TwoWorkers
  BatchNum = 2
  ChanCap = 1
  SaveMayFail = TRUE
  Files <- AllFiles
INVARIANTS
  RestoredExactly
PROPERTIES
  NoLateSave
  RestoreEnds
