\* The round-robin scheduler of Lab3 on one CPU, with its interrupts fair.
CONSTANTS
  NPROC = 3
  NCPU = 1
  SleepLocks = {s1}
  Bursts = {1}
  MaxPid = 3
  ShortestFirst = FALSE
SPECIFICATION FairSpec
PROPERTIES RunnableRuns WaitReturns SleeperWakes
