SPECIFICATION VerifyAndRun
CONSTANTS
  c1 = c1
  c2 = c2
  v1 = v1
  v2 = v2
  v3 = v3
  v4 = v4
  v5 = v5
  v6 = v6
  Vals = {v1, v2, v3, v4, v5, v6}
  Cols = {c1, c2}
  NoCol = NoCol
  NoVal = NoVal
  Submitted <- AllPrograms
  Programs <- VerifiedPrograms
  Data = {0, 1}
  MaxRows = 2
  MaxEmits = 6
CHECK_DEADLOCK FALSE
INVARIANTS FrameOK VerdictIsExact ColumnsComplete EntryStateIsMet RowsNotMixed AnswerIsWhole RegistersAreExact
PROPERTIES Terminates LoopFreeCallsEnd KeepsPromise
