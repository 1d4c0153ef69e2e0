SPECIFICATION Spec
CONSTANTS
  NotIdents <- MCNotIdents
  Sources <- MCSources
  Edited <- EditedPrograms
  Edits <- MCEdits
  IdBound = 4
INVARIANTS RoundTripIsLossless AcceptedTextSaysSo
