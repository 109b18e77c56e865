\* Every scenario of MCFs, up to five processes.  Files have three blocks of four words.
SPECIFICATION Spec
CONSTANTS
  NINODES = 14
  NBLOCKS = 19
  NINODE = 7
  NDIRECT = 2
  BSIZE = 4
  NPROC = 5
  NOFILE = 5
  NFILE = 7
  PIPESIZE = 2
  MaxGroup = 4
INVARIANTS
  DiskSound
  LinksCounted
  InodesSound
  PanicsAreKnown
  ProgramsAgree
  CyclesGoThroughIput
CHECK_DEADLOCK FALSE
