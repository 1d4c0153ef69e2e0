SPECIFICATION Spec
CONSTANTS
  Bases <- MCBases
  Needs <- MCNeeds
  Functions <- MCFunctions
  FitOps <- MCFitOps
  CallerThreads = 8
  RemovalMayFail = TRUE
  MaxTokens = 5
  MaxDepth = 3
  MaxTries = 2
CHECK_DEADLOCK FALSE
INVARIANTS NothingOutlives BindingsHold ThreadsAreObserved
