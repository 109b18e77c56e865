\* Pages of four bytes, tables of four entries, 26 frames, three processes.  Shape
\* leaves out which frame is which.
CONSTANTS
  NPROC = 3
  NFRAMES = 26
  PGSIZE = 4
  NPTENTRIES = 4
  KERNBASE = 32
  KTABLES = 1
  UintRange = 64
  Images <- AllImages
  Texts = {"text", "data"}
  Stores = {0, 4}
  Sbrks <- AllSbrks
  Test <- Program
  WORD = 2
  HEADER = 2
  MORECORE = 6
  MallocSizes = {2, 7, 13}
SPECIFICATION TestsSpec
INVARIANTS
  FramesOwnedOnce SizeHolds TestsPass HeapsSound
PROPERTY ImplementsPrivateMemory
VIEW Shape
CHECK_DEADLOCK FALSE
