\* Two operations of one block each at a time, three blocks, a crash and one in recovery.
CONSTANTS
  Blocks = {1, 2, 3}
  Ops = {o1, o2}
  MAXOPBLOCKS = 2
  LOGSIZE = 4
  LogSlots = 3
  OpBlocks = 1
  MaxWrites = 4
  MaxCrashes = 2
SPECIFICATION Spec
INVARIANTS
  LogInBounds CommitsAlone SleeperHasWaker CopiesAgree
PROPERTY ImplementsAtomicDisk
