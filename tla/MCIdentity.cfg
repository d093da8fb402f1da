CONSTANTS
  Csids = {c1, c2, c3}
  Prompts = {hello, bye}
  Null = Null
  Places <- MCPlaces
  Folder <- MCFolder
  TimeWindow = 0
  MinCorroborators = 2
  MaxCandidates = 1
  MaxParsed = 2
  Budgets <- MCBudgets
SYMMETRY SameIds
SPECIFICATION Spec
INVARIANTS WeakEvidenceNeverJoins
PROPERTIES IdentitySticks HintsAreComplete
CHECK_DEADLOCK FALSE
