SPECIFICATION DriftSpec
CONSTANTS
  h1 = h1
  w1 = w1
  Hooks = {h1}
  Writers = {w1}
  Rebuilders = {}
  c1 = c1
  Csids = {c1}
  NoCsid = NoCsid
  Nobody = Nobody
  NoPlace = NoPlace
  Procs <- AllProcs
  LockPaths <- TwoLocks
  LockOf <- ComputedLocks
  Faults = {}
  MaxEvents = 3
INVARIANT AckedIsFolded
CHECK_DEADLOCK FALSE
