\* Three processes, a ring of two bytes, counters of two bits, calls of up to two bytes.
CONSTANTS
  NPROC = 3
  PIPESIZE = 2
  UintRange = 4
  MaxCall = 2
  MaxBytes = 4
  MaxKills = 1
SPECIFICATION Spec
INVARIANTS
  PipeSound SleepersHaveReason
PROPERTY ImplementsFifo
CHECK_DEADLOCK FALSE
