\* The same, smaller: a kill that comes before its victim sleeps.
CONSTANTS
  NPROC = 2
  PIPESIZE = 2
  UintRange = 4
  MaxCall = 2
  MaxBytes = 2
  MaxKills = 1
SPECIFICATION FairSpec
PROPERTY KilledComesToEnd
CHECK_DEADLOCK FALSE
