SPECIFICATION Spec
CONSTANTS
  s1 = s1
  s2 = s2
  A = A
  B = B
  c1 = c1
  Null = Null
  Junk = Junk
  Precedence <- Chain
  MaxChannels = 4
  MaxPrLinks = 1
  Scenes <- OnlyDamage
INVARIANT AckedIsDurable
CHECK_DEADLOCK FALSE
