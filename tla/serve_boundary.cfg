SPECIFICATION Spec
CONSTANTS
  Lanes = 2
  Nullable = {2}
  MarkedFirst = {1, 2}
  Boundary = "marshaller"
  MaxRows = 2
  MaxDepth = 3
  MaxCalls = 3
CHECK_DEADLOCK FALSE
INVARIANTS AnswersOwnRows
PROPERTIES OuterStandsStill
