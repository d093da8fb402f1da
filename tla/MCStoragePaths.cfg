SPECIFICATION ProcessSpec
CONSTANTS
  Depth = 4
  MaxAscend = 3
  Sentinels <- SentinelAtRoot
  Worktree = 3
  NoPlace = NoPlace
  HardLimit <- ShimLimits
  Budget <- ProbeBudgets
  MinProbe = 1
  StdinLimit = 1
  Started <- NoneOrOne
  Appearing <- RootOrDeepest
INVARIANTS CommandsFindHookDatabase PromptScattersNothing ProbesShareBudget NotARepoIsTrue
