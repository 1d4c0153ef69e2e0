SPECIFICATION Spec
CONSTANTS
  Null = Null
  Trap = Trap
  ScanLimit = 2
  Queries <- MCQueries
INVARIANTS AnswersAreDuckDBs TrapsAreDuckDBs PromisedFormsServe
