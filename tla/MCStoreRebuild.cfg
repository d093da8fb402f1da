SPECIFICATION Spec
CONSTANTS
  Hooks = {h1}
  Writers = {}
  Rebuilders = {r1}
  Csids = {c1}
  NoCsid = NoCsid
  Nobody = Nobody
  ThePath = "lock"
  Procs <- AllProcs
  LockPaths <- ThePathOnly
  LockOf <- OneLock
  Faults = {}
  MaxEvents = 2
INVARIANT AckedIsFolded
CHECK_DEADLOCK FALSE
