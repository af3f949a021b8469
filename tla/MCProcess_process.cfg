SPECIFICATION ProcessFairSpec
CONSTANTS
  m1 = m1
  m2 = m2
  p1 = p1
  p2 = p2
  None = None
  Free = Free
  Samples = {m1, m2}
  Capacity = 1
  MaxCleanups = 2
  Procs = {p1, p2}
  Main = p1
  Files <- MCFiles
CHECK_DEADLOCK FALSE
INVARIANTS DropsReportedOnce ServesWholeSchema CleanStopDrains
PROPERTIES KeepsLedger OwnerWrites StopEnds
