SPECIFICATION FairSpec
CONSTANTS
  Hooks = {h1}
  Writers = {w1}
  Rebuilders = {r1}
  Csids = {c1}
  NoCsid = NoCsid
  Nobody = Nobody
  ThePath = "lock"
  Procs <- AllProcs
  LockPaths <- ThePathOnly
  LockOf <- OneLock
  Faults = {"crash", "append", "lock", "load", "save", "unlink", "cache_loss", "remove_lock"}
  MaxEvents = 2
INVARIANTS TypeOK Exclusive CacheIsLogged
PROPERTY EveryCallReturns
CHECK_DEADLOCK FALSE
