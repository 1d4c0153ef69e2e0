SPECIFICATION Spec
CONSTANTS
  Vals <- MCVals
  Cols = {"a", "b"}
  NoCol = "none"
  NoVal = NoVal
  Queries <- MCQueries
  VregLimit = 20
  IndexLimit = 50
INVARIANTS CompiledRowsAgree FloorHolds ComputedOnce
PROPERTIES CompiledKeepsPromise
CHECK_DEADLOCK FALSE
