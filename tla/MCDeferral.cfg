\* Two hooks at a time, two sessions, every fault but a marker that
\* cannot be written; hours shrink to ticks.
CONSTANTS
  Procs = {p1, p2}
  Csids = {c1, c2}
  None = None
  Faults = {"write", "stage", "load", "killed"}
  PromoterRefresh = 1
  PromoterStaleAfter = 1
  PromoterMaxAge = 2
  BacklogMinCount = 1
  BacklogMinAge = 1
  PendingMaxAge = 1
  MaxTime = 3
SYMMETRY Symmetry
SPECIFICATION Spec
PROPERTIES StartLeavesTrace SpokenIsRecorded PromotedBeforeDeleted DistrustSticks
