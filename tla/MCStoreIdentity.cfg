SPECIFICATION Spec
CONSTANTS
  Hooks = {h1, h2}
  Writers = {w1}
  Rebuilders = {}
  Csids = {c1, c2}
  NoCsid = NoCsid
  Nobody = Nobody
  ThePath = "lock"
  Procs <- AllProcs
  LockPaths <- ThePathOnly
  LockOf <- OneLock
  Faults = {"crash", "append", "cache_loss"}
  MaxEvents = 3
INVARIANTS AckedIsFolded SeenFoldedOnce
PROPERTIES CacheOnlyGrows IdentityIsStable
CHECK_DEADLOCK FALSE
