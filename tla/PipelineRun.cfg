SPECIFICATION FairSpec
CONSTANTS
  Task <- MCTask
  File <- MCFile
  Inputs <- MCInputs
  OptInputs <- MCOptInputs
  Outputs <- MCOutputs
  Group <- MCGroup
  Rank <- MCRank
  NoGroup = NoGroup
  Absent = Absent
  Torn = Torn
  NoMarker = NoMarker
  Version = {v1, v2}
  Original = {v1}
  Jobs = {1, 2}
  Tick = 4
  MaxTime = 3
  MaxOrphans = 1
INVARIANTS
  TypeOK
  NoFalseUpToDate
  SuccessIsCurrent
  NoReadWriteOverlap
  FinishedWorkIsKept
PROPERTIES
  RunEnds
CHECK_DEADLOCK FALSE
