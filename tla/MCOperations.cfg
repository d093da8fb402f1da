SPECIFICATION Spec
CONSTANTS
  s1 = s1
  s2 = s2
  s3 = s3
  s4 = s4
  A = A
  M = M
  k1 = k1
  k2 = k2
  p1 = p1
  p2 = p2
  Null = Null
  Junk = Junk
  Procs = {p1, p2}
  Sids = {s1, s2, s3, s4}
  Workloads <- AllWorkloads
  StartWith <- Starts
  Texts = {A, M}
  MachineTitle = M
  MaxChain = 2
  DefaultIdle = 1
  DefaultArchive = 2
  TailRecords = 2
  Threads = {k1, k2}
  MaxCalls <- Calls
  MaxDay = 3
  MaxRecords <- Records
  Precedence <- Chain
  MaxChannels = 2
  MaxPrLinks = 1
  MaxTreeDepth = 3
INVARIANTS CycleNeedsOverlap ViewsAgree HarvestIsExact OneSessionPerThread SweepThenFind
PROPERTIES PruneSparesTheLiving ThreadNamesAdvance
SYMMETRY Alike
CHECK_DEADLOCK FALSE
