CONSTANTS
  Lower <- MCLower
  Queries <- MCQueries
  FitTables <- MCFitTables
  ThisTables <- MCThisTables
SPECIFICATION Spec
INVARIANTS ServedAsAuthored StepsStandAlone ArtifactIsClosed
