SPECIFICATION Spec
CONSTANTS
  Raw <- MCRaw
  Canon <- MCCanon
  Null = Null
  Plans <- MCPlans
  Holds <- MCHolds
  Passes <- MCPasses
  Unmatched = Unmatched
  Unreadable = Unreadable
  MaxSum = 3
  MaxAvg = 2
  MaxLong = 3
  Trap = Trap
  Precision = 3
  MaxExp = 4
  One = 8
  MaxRows = 16
CHECK_DEADLOCK FALSE
INVARIANTS BuildIsOrderFree RefusedForCause JoinIsExact FlagsTellMatches
PROPERTIES RowEnds
