\* Two pages in memory, two in the file, five asked for.  A panic stops the machine.
CONSTANTS
  MaxPhys = 2
  MaxTotal = 4
  Top = 5
  MaxTime = 2
SPECIFICATION Spec
INVARIANT PagesKeepData
CHECK_DEADLOCK FALSE
