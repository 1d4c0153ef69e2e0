CONSTANTS
  Lower <- MCLower
  Queries <- Twins
  FitTables <- TwinFit
  ThisTables <- MCThisTables
SPECIFICATION Spec
INVARIANTS ServedAsAuthored
