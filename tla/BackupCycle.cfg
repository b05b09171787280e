SPECIFICATION CycleSpec
CONSTANTS
  w1 = w1
  w2 = w2
  MaxKey = 3
  PrefixFirst = 1
  PrefixLast = 2
  Value <- OneValue
  Absent = "absent"
  Session <- Nodes
  BatchSize = 1
  IgnoreRevision = FALSE
  MaxRev = 2
  Worker <- TwoWorkers
  BatchNum = 2
  ChanCap = 1
  SaveMayFail = FALSE
  Files <- None
SYMMETRY Workers
INVARIANTS
  SnapshotConsistent
  RoundTrip
  NothingForeign
