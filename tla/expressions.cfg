SPECIFICATION Spec
CONSTANTS
  Plans <- MCPlans
  RowsOfPlan <- MCRows
  MinSharedSize = 3
  SelectCaseOps = 4
  DispatchMinArms = 3
  LinearTests = 1
INVARIANTS RowEndsAsSql TrapFactsAreSound LiveStackIsExact
