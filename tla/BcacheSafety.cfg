\* Two processes that may each hold two of three blocks, in a cache of two buffers.
CONSTANTS
  Procs = {p1, p2}
  Blocks = {1, 2, 3}
  Values = {v1, v2}
  NBUF = 2
  MaxHeld = 2
  MaxPinned = 1
  Nobody = Nobody
  NotRead = NotRead
SPECIFICATION Spec
INVARIANTS
  OneBufferPerBlock RefcntIsUsers DriveServesHead
PROPERTIES
  ImplementsBlockStore RequestServed
