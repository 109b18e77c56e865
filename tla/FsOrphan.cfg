\* openiputtest alone: a removed directory that is still open.
SPECIFICATION SpecOpenIput
CONSTANTS
  NINODES = 14
  NBLOCKS = 19
  NINODE = 7
  NDIRECT = 2
  BSIZE = 4
  NPROC = 5
  NOFILE = 5
  NFILE = 7
  PIPESIZE = 2
  MaxGroup = 4
INVARIANT LastPutFrees
CHECK_DEADLOCK FALSE
