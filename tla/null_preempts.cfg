SPECIFICATION Spec
CONSTANTS
  Plans <- NullTexts
  RowsOfPlan <- MCRows
  MinSharedSize = 3
  SelectCaseOps = 4
  DispatchMinArms = 3
  LinearTests = 1
INVARIANT NullPreemptsTraps
