SPECIFICATION Spec
CONSTANTS
  p1 = p1
  p2 = p2
  f = f
  g = g
  s1 = s1
  s2 = s2
  a1 = a1
  b = b
  noise = noise
  QA = QA
  QB = QB
  Null = Null
  Procs = {p1, p2}
  Files = {f, g}
  Sessions = {s1, s2}
  Queries = {QA, QB}
  Holding <- Texts
  Noise = noise
  Scenes <- AllScenes
  Recorded <- Sources
  Folder = {f, g}
  Embedded <- Owners
  MaxFileSize = 3
  MaxTexts = 2
  MaxEntries = 1
  MaxChunk = 2
INVARIANTS AnswersAsSource CacheWithinBudget
PROPERTIES EverySearchEnds
CHECK_DEADLOCK FALSE
