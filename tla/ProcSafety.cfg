\* Three slots on two CPUs, one sleep lock, the scheduler of Lab1+Lab2.
CONSTANTS
  NPROC = 3
  NCPU = 2
  SleepLocks = {s1}
  Bursts = {1}
  MaxPid = 4
  ShortestFirst = TRUE
SPECIFICATION Spec
INVARIANTS
  TypeOK NoPanic OneCpuPerProcess NoLostWakeup ForkOwnsSlot FamilySound
PROPERTY ImplementsMutex
